----------------------------- MODULE Coordinator -----------------------------
(***************************************************************************)
(* The request coordinator (coordinator.py, with the journal, the inbox,   *)
(* the webhook and the worker as it meets them): several sessions, each    *)
(* one server process with one event loop, over one journal and one inbox. *)
(*                                                                         *)
(* A coroutine runs from one await to the next without another coroutine   *)
(* of its session in between; the statements it sends to SQLite interleave *)
(* with those of other sessions, so each statement is a step.  Calls made  *)
(* with asyncio.to_thread take effect outside the loop.                    *)
(***************************************************************************)
EXTENDS Journal, Slots

CONSTANTS
  Sessions,     \* server processes that open this journal
  Kind,         \* what each body is, see Kinds
  CompletedAt,  \* the completed_at each body carries
  Lifetime,     \* JOB_DEADLINE, in ticks
  MaxNow,       \* BOUND: the clock stops here, and no later deadline is given
  Disruptions   \* the failures the environment may cause, see Failures

\* ok, error: a valid callback with that status.  unwritable: valid, but SQLite
\* refuses its text.  invalid: rejected by validate_result.  opaque: no JSON
\* object, or too long to be read back.
Kinds == {"ok", "error", "unwritable", "invalid", "opaque"}

Failures == {"crash", "shutdown", "inbox", "swap", "raw", "journal", "redirect"}

ASSUME CoordinatorAssumption ==
  /\ Kind \in [Bodies -> Kinds]
  /\ CompletedAt \in [Bodies -> Nat]
  /\ Lifetime \in Nat \ {0}
  /\ MaxNow \in Nat
  /\ Disruptions \subseteq Failures

\* A coroutine belongs to a session and a job: the background task in
\* _tasks, or one call of result().
Roles == {"task", "reader"}
Coroutines == Sessions \X Roles \X Jobs
Task(s, j) == <<s, "task", j>>
SessionOf(c) == c[1]
RoleOf(c) == c[2]
JobOf(c) == c[3]

VARIABLES
  rows,       \* the jobs table
  session,    \* whether each process is down, opening or up
  resumable,  \* what the SELECT of reconcile_restart returned to a session
  co,         \* the coroutines
  slots,      \* the inbox's expectations, in its memory only
  posts,      \* how many POSTs carried each job's packet
  accepted,   \* jobs whose packet the webhook accepted
  orphans,    \* jobs whose POST thread outlived its cancelled task
  now,        \* the clock, in ticks
  answers     \* the bodies result() returned as each job's answer

vars == <<rows, session, resumable, co, slots, posts, accepted, orphans, now,
          answers>>

-----------------------------------------------------------------------------
(* Where a coroutine is: the name of the statement it runs next, or of the *)
(* call it awaits.                                                         *)
Awaiting == {"idle", "start", "register", "registered", "post", "posted", "resume",
             "check", "fetch", "settle", "refetch", "revalidate"}
Running == {"poll", "advance", "cas"}

(* goal, hard and seen are the arguments and the SELECT of a store.advance *)
(* under way: hard when called directly, not hard when _settle_state wraps *)
(* it and drops a JobStateError.  digest is the record.body_sha256 a       *)
(* result() call holds, payload the body a fetch returned, handlers the    *)
(* number of "except Exception" clauses around the statement.              *)
Coroutine == [pc       : Awaiting \union Running,
              goal     : JobStates \union {"none"},
              hard     : BOOLEAN,
              seen     : RowStates,
              digest   : OptionalBody,
              payload  : OptionalBody,
              handlers : 0..2]

Frame(pc, goal, hard, handlers) ==
  [pc |-> pc, goal |-> goal, hard |-> hard, seen |-> "absent",
   digest |-> NoBody, payload |-> NoBody, handlers |-> handlers]

Idle == Frame("idle", "none", FALSE, 0)
At(pc, handlers) == Frame(pc, "none", FALSE, handlers)
Calls(goal, handlers) == Frame("advance", goal, TRUE, handlers)
SettlesState(goal, handlers) == Frame("advance", goal, FALSE, handlers)

(* Plausible slips: a handler logs and leaves the job open; an             *)
(* exception settles the job where no handler is.                          *)
RaisedSilently(me) == Idle
RaisedAnywhere(me) == SettlesState("uncertain", me.handlers - 1)

\* An exception the code at hand does not name reaches the nearest handler,
\* which settles the job as uncertain, or it ends the coroutine.
Raised(me) ==
  IF me.handlers = 0 THEN Idle ELSE SettlesState("uncertain", me.handlers - 1)

\* After a store.advance that succeeded ...
AfterAdvance(me) ==
  CASE me.hard /\ me.goal = "dispatching" -> At("post", me.handlers)
    [] me.hard /\ me.goal = "dispatched"  -> At("poll", me.handlers + 1)
    [] OTHER                              -> Idle

\* ... and after one that raised JobStateError.
AfterRefusal(me) ==
  CASE ~me.hard                           -> Idle
    [] me.hard /\ me.goal = "dispatching" -> SettlesState("failed", me.handlers)
    [] OTHER                              -> SettlesState("uncertain", me.handlers)

\* Only one coroutine of a session is between two awaits.
HasLoop(s, c) ==
  /\ session[s] = "up"
  /\ \A d \in Coroutines :
        SessionOf(d) = s /\ d # c => co[d].pc \in Awaiting

Runs(c, pcs) == co[c].pc \in pcs /\ HasLoop(SessionOf(c), c)

Goes(c, me) == co' = [co EXCEPT ![c] = me]

(* A plausible slip: a completion at this very instant is to come.         *)
VerdictStrictly(b, t) ==
  IF Kind[b] \in {"ok", "error", "unwritable"} /\ CompletedAt[b] < t
    THEN Kind[b] ELSE "invalid"

\* What validate_result makes of a body at time t.
Verdict(b, t) ==
  IF Kind[b] \in {"ok", "error", "unwritable"} /\ CompletedAt[b] <= t
    THEN Kind[b] ELSE "invalid"

Init ==
  /\ rows = [j \in Jobs |-> NoRow]
  /\ session = [s \in Sessions |-> "down"]
  /\ resumable = [s \in Sessions |-> {}]
  /\ co = [c \in Coroutines |-> Idle]
  /\ slots = [j \in Jobs |-> NoSlot]
  /\ posts = [j \in Jobs |-> 0]
  /\ accepted = {}
  /\ orphans = {}
  /\ now = 0
  /\ answers = [j \in Jobs |-> {}]

-----------------------------------------------------------------------------
(* Sessions.                                                               *)

\* main and create_server: the journal is open, the lifespan begins with
\* the SELECT of reconcile_restart ...
Open(s) ==
  /\ session[s] = "down"
  /\ session' = [session EXCEPT ![s] = "opening"]
  /\ resumable' = [resumable EXCEPT ![s] = Resumable(rows)]
  /\ UNCHANGED <<rows, co, slots, posts, accepted, orphans, now, answers>>

\* ... then its UPDATE, and a polling task for each job the SELECT returned.
Reconcile(s) ==
  /\ session[s] = "opening"
  /\ session' = [session EXCEPT ![s] = "up"]
  /\ rows' = [j \in Jobs |-> Reconciled(rows[j])]
  /\ co' = [c \in Coroutines |->
              IF c \in {Task(s, j) : j \in resumable[s]} THEN At("resume", 1) ELSE co[c]]
  /\ resumable' = [resumable EXCEPT ![s] = {}]
  /\ UNCHANGED <<slots, posts, accepted, orphans, now, answers>>

\* The process dies with everything it holds.
Crash(s) ==
  /\ "crash" \in Disruptions
  /\ session[s] # "down"
  /\ session' = [session EXCEPT ![s] = "down"]
  /\ resumable' = [resumable EXCEPT ![s] = {}]
  /\ co' = [c \in Coroutines |-> IF SessionOf(c) = s THEN Idle ELSE co[c]]
  /\ UNCHANGED <<rows, slots, posts, accepted, orphans, now, answers>>

\* Coordinator.shutdown: every task is cancelled where it awaits.  A thread
\* already started by to_thread is not cancelled with the task awaiting it.
Shutdown(s) ==
  /\ "shutdown" \in Disruptions
  /\ session[s] = "up"
  /\ \A c \in Coroutines : SessionOf(c) = s => co[c].pc \in Awaiting
  /\ \E threads \in SUBSET {j \in Jobs : co[Task(s, j)].pc = "post"} :
        orphans' = orphans \union threads
  /\ session' = [session EXCEPT ![s] = "down"]
  /\ co' = [c \in Coroutines |-> IF SessionOf(c) = s THEN Idle ELSE co[c]]
  /\ UNCHANGED <<rows, resumable, slots, posts, accepted, now, answers>>

-----------------------------------------------------------------------------
(* The dispatch of one request.                                            *)

Start(s, j) ==
  /\ HasLoop(s, Task(s, j))
  /\ rows[j].state = "absent"
  /\ now + Lifetime <= MaxNow
  /\ rows' = [rows EXCEPT ![j] = NewRow(now + Lifetime)]
  /\ Goes(Task(s, j), At("start", 1))
  /\ UNCHANGED <<session, resumable, slots, posts, accepted, orphans, now, answers>>

BeginDispatch(c) ==
  /\ Runs(c, {"start"})
  /\ Goes(c, IF rows[JobOf(c)].state = "queued"
               THEN At("register", co[c].handlers) ELSE Raised(co[c]))
  /\ UNCHANGED <<rows, session, resumable, slots, posts, accepted, orphans, now, answers>>

\* The registration reaches the inbox, where a handler thread compared the
\* deadline with the clock before it got the lock.
RegisterArrives(c) ==
  /\ co[c].pc = "register"
  /\ \E stamp \in 0 .. now : CanRegister(slots[JobOf(c)], rows[JobOf(c)].deadline, stamp)
  /\ slots' = [slots EXCEPT ![JobOf(c)] = Expected(rows[JobOf(c)].deadline)]
  /\ Goes(c, At("registered", co[c].handlers))
  /\ UNCHANGED <<rows, session, resumable, posts, accepted, orphans, now, answers>>

(* A plausible slip: posting without journaling dispatching first.         *)
RegisterReturnsUnjournaled(c) ==
  /\ Runs(c, {"registered"})
  /\ Goes(c, At("post", co[c].handlers))
  /\ UNCHANGED <<rows, session, resumable, slots, posts, accepted, orphans, now, answers>>

RegisterReturns(c) ==
  /\ Runs(c, {"registered"})
  /\ Goes(c, Calls("dispatching", co[c].handlers))
  /\ UNCHANGED <<rows, session, resumable, slots, posts, accepted, orphans, now, answers>>

\* InboxError, PacketError or WebhookError, the slot registered or not.
RegisterFails(c) ==
  /\ Runs(c, {"register", "registered"})
  /\ Goes(c, SettlesState("failed", co[c].handlers))
  /\ UNCHANGED <<rows, session, resumable, slots, posts, accepted, orphans, now, answers>>

\* WebhookTransport.dispatch refuses the packet or lacks a trust anchor.
PostRefused(c) ==
  /\ Runs(c, {"post"})
  /\ Goes(c, SettlesState("failed", co[c].handlers))
  /\ UNCHANGED <<rows, session, resumable, slots, posts, accepted, orphans, now, answers>>

PostSends(c) ==
  /\ co[c].pc = "post"
  /\ posts' = [posts EXCEPT ![JobOf(c)] = @ + 1]
  /\ Goes(c, At("posted", co[c].handlers))
  /\ UNCHANGED <<rows, session, resumable, slots, accepted, orphans, now, answers>>

\* A POST thread whose task was cancelled sends all the same.
OrphanPosts(j) ==
  /\ j \in orphans
  /\ posts' = [posts EXCEPT ![j] = @ + 1]
  /\ orphans' = orphans \ {j}
  /\ UNCHANGED <<rows, session, resumable, co, slots, accepted, now, answers>>

(* A plausible slip: any answer of the webhook counts as accepted.         *)
PostReturnsAny(c) ==
  /\ Runs(c, {"posted"})
  /\ Goes(c, Calls("dispatched", co[c].handlers))
  /\ UNCHANGED <<rows, session, resumable, slots, posts, accepted, orphans, now, answers>>

\* A 2xx answer: urllib follows a redirect of the POST with a GET, so the
\* answer may come from a page that never saw the packet.
PostReturns(c) ==
  /\ Runs(c, {"posted"})
  /\ JobOf(c) \in accepted \/ "redirect" \in Disruptions
  /\ Goes(c, Calls("dispatched", co[c].handlers))
  /\ UNCHANGED <<rows, session, resumable, slots, posts, accepted, orphans, now, answers>>

(* Plausible slips: an ambiguous POST is called failed, or made again.     *)
PostUncertainFails(c) ==
  /\ Runs(c, {"posted"})
  /\ Goes(c, SettlesState("failed", co[c].handlers))
  /\ UNCHANGED <<rows, session, resumable, slots, posts, accepted, orphans, now, answers>>
PostUncertainRetries(c) ==
  /\ Runs(c, {"posted"})
  /\ Goes(c, At("post", co[c].handlers))
  /\ UNCHANGED <<rows, session, resumable, slots, posts, accepted, orphans, now, answers>>

\* Any other answer, and none within the 30 seconds, is WebhookUncertain.
PostUncertain(c) ==
  /\ Runs(c, {"posted"})
  /\ Goes(c, SettlesState("uncertain", co[c].handlers))
  /\ UNCHANGED <<rows, session, resumable, slots, posts, accepted, orphans, now, answers>>

-----------------------------------------------------------------------------
(* Waiting for the callback.                                               *)

(* A plausible slip: a task that resumes a job registers it again.         *)
BeginPollRegisters(c) ==
  /\ Runs(c, {"resume", "poll"})
  /\ Goes(c, IF rows[JobOf(c)].state # "dispatched" THEN Idle
             ELSE At(IF co[c].pc = "resume" THEN "register" ELSE "check", co[c].handlers))
  /\ UNCHANGED <<rows, session, resumable, slots, posts, accepted, orphans, now, answers>>

BeginPoll(c) ==
  /\ Runs(c, {"resume", "poll"})
  /\ Goes(c, IF rows[JobOf(c)].state = "dispatched" THEN At("check", co[c].handlers) ELSE Idle)
  /\ UNCHANGED <<rows, session, resumable, slots, posts, accepted, orphans, now, answers>>

(* A plausible slip: the loop has no deadline.                             *)
CheckDeadlineNever(c) ==
  /\ Runs(c, {"check"})
  /\ Goes(c, At("fetch", co[c].handlers))
  /\ UNCHANGED <<rows, session, resumable, slots, posts, accepted, orphans, now, answers>>

\* The head of the loop, reached at once or after asyncio.sleep.
CheckDeadline(c) ==
  /\ Runs(c, {"check"})
  /\ Goes(c, IF now >= rows[JobOf(c)].deadline
               THEN SettlesState("uncertain", co[c].handlers)
               ELSE At("fetch", co[c].handlers))
  /\ UNCHANGED <<rows, session, resumable, slots, posts, accepted, orphans, now, answers>>

\* A GET of the slot brings back a body the client accepts.
CanBeRead(slot) == slot.body # NoBody /\ Kind[slot.body] # "opaque"

\* The inbox answers; the loop comes back to the coroutine later.
FetchStored(c) ==
  /\ co[c].pc = "fetch"
  /\ CanBeRead(slots[JobOf(c)])
  /\ Goes(c, [At("settle", co[c].handlers) EXCEPT !.payload = slots[JobOf(c)].body])
  /\ UNCHANGED <<rows, session, resumable, slots, posts, accepted, orphans, now, answers>>

\* No body yet, or an InboxError: sleep and try again.
FetchNothing(c) ==
  /\ co[c].pc = "fetch"
  /\ ~CanBeRead(slots[JobOf(c)]) \/ "inbox" \in Disruptions
  /\ Goes(c, At("check", co[c].handlers))
  /\ UNCHANGED <<rows, session, resumable, slots, posts, accepted, orphans, now, answers>>

(* A plausible slip: the job is settled before its reason is recorded.     *)
SettleInvalidFirst(c) ==
  /\ Runs(c, {"settle"})
  /\ Verdict(co[c].payload, now) = "invalid"
  /\ Goes(c, SettlesState("conflict", co[c].handlers))
  /\ UNCHANGED <<rows, session, resumable, slots, posts, accepted, orphans, now, answers>>

\* _settle: a body that fails validation.  The reason is recorded if the
\* journal still allows it.
SettleInvalid(c) ==
  LET j == JobOf(c) IN
  /\ Runs(c, {"settle"})
  /\ Verdict(co[c].payload, now) = "invalid"
  /\ rows' = IF CanRecordError(rows[j])
             THEN [rows EXCEPT ![j].error = "invalid_result"] ELSE rows
  /\ Goes(c, SettlesState("conflict", co[c].handlers))
  /\ UNCHANGED <<session, resumable, slots, posts, accepted, orphans, now, answers>>

SettleOk(c) ==
  LET j == JobOf(c) IN
  /\ Runs(c, {"settle"})
  /\ Verdict(co[c].payload, now) = "ok"
  /\ IF CanRecordResult(rows[j])
       THEN /\ rows' = [rows EXCEPT ![j].digest = co[c].payload]
            /\ Goes(c, Calls("ready", co[c].handlers))
       ELSE /\ Goes(c, SettlesState("uncertain", co[c].handlers))
            /\ UNCHANGED rows
  /\ UNCHANGED <<session, resumable, slots, posts, accepted, orphans, now, answers>>

SettleError(c) ==
  LET j == JobOf(c) IN
  /\ Runs(c, {"settle"})
  /\ Verdict(co[c].payload, now) = "error"
  /\ IF CanRecordError(rows[j])
       THEN /\ rows' = [rows EXCEPT ![j].error = "worker"]
            /\ Goes(c, Calls("failed", co[c].handlers))
       ELSE /\ Goes(c, SettlesState("uncertain", co[c].handlers))
            /\ UNCHANGED rows
  /\ UNCHANGED <<session, resumable, slots, posts, accepted, orphans, now, answers>>

\* record_result, or record_error, raises what is no JobStateError: a lone
\* surrogate has no UTF-8 form to bind to the statement.
SettleUnwritable(c) ==
  /\ Runs(c, {"settle"})
  /\ Verdict(co[c].payload, now) = "unwritable"
  /\ Goes(c, Raised(co[c]))
  /\ UNCHANGED <<rows, session, resumable, slots, posts, accepted, orphans, now, answers>>

-----------------------------------------------------------------------------
(* store.advance: a SELECT, then an UPDATE of the row in the state read.   *)

AdvanceRead(c) ==
  LET row == rows[JobOf(c)] IN
  /\ Runs(c, {"advance"})
  /\ Goes(c, IF CanAdvance(row, co[c].goal)
               THEN [co[c] EXCEPT !.pc = "cas", !.seen = row.state]
               ELSE AfterRefusal(co[c]))
  /\ UNCHANGED <<rows, session, resumable, slots, posts, accepted, orphans, now, answers>>

(* A plausible slip: the UPDATE without AND state=?.                       *)
AdvanceWriteBlind(c) ==
  /\ Runs(c, {"cas"})
  /\ rows' = [rows EXCEPT ![JobOf(c)].state = co[c].goal]
  /\ Goes(c, AfterAdvance(co[c]))
  /\ UNCHANGED <<session, resumable, slots, posts, accepted, orphans, now, answers>>

AdvanceWrite(c) ==
  LET j == JobOf(c) IN
  /\ Runs(c, {"cas"})
  /\ IF rows[j].state = co[c].seen
       THEN /\ rows' = [rows EXCEPT ![j].state = co[c].goal]
            /\ Goes(c, AfterAdvance(co[c]))
       ELSE /\ Goes(c, AfterRefusal(co[c]))
            /\ UNCHANGED rows
  /\ UNCHANGED <<session, resumable, slots, posts, accepted, orphans, now, answers>>

-----------------------------------------------------------------------------
(* result().                                                               *)

ReadResult(s, j) ==
  LET c == <<s, "reader", j>> IN
  /\ HasLoop(s, c)
  /\ co[c] = Idle
  /\ rows[j].state = "ready"
  /\ Goes(c, [At("refetch", 0) EXCEPT !.digest = rows[j].digest])
  /\ UNCHANGED <<rows, session, resumable, slots, posts, accepted, orphans, now, answers>>

\* The inbox answers with the body, or says it stores none.
RefetchReturns(c) ==
  LET slot == slots[JobOf(c)] IN
  /\ co[c].pc = "refetch"
  /\ slot.body # NoBody => CanBeRead(slot)
  /\ Goes(c, [co[c] EXCEPT !.pc = "revalidate", !.payload = slot.body])
  /\ UNCHANGED <<rows, session, resumable, slots, posts, accepted, orphans, now, answers>>

\* InboxError: "callback result is unavailable", and the job keeps its state.
RefetchFails(c) ==
  /\ co[c].pc = "refetch"
  /\ ~CanBeRead(slots[JobOf(c)]) \/ "inbox" \in Disruptions
  /\ Goes(c, Idle)
  /\ UNCHANGED <<rows, session, resumable, slots, posts, accepted, orphans, now, answers>>

(* A plausible slip: a valid answer is returned whatever its digest.       *)
GenuineAnyDigest(me, t) == me.payload # NoBody /\ Verdict(me.payload, t) = "ok"

(* A plausible slip: revalidation rejects a completion at this instant.    *)
GenuineStrictly(me, t) ==
  me.payload # NoBody /\ me.payload = me.digest /\ CompletedAt[me.payload] < t

\* The fetched body is the one pinned in the journal, and still valid.
Genuine(me, t) ==
  /\ me.payload # NoBody
  /\ me.payload = me.digest
  /\ Verdict(me.payload, t) = "ok"

Revalidate(c) ==
  LET me == co[c]  j == JobOf(c) IN
  /\ Runs(c, {"revalidate"})
  /\ IF Genuine(me, now)
       THEN /\ answers' = [answers EXCEPT ![j] = @ \union {me.payload}]
            /\ Goes(c, Idle)
       ELSE /\ Goes(c, SettlesState("conflict", 0))
            /\ UNCHANGED answers
  /\ UNCHANGED <<rows, session, resumable, slots, posts, accepted, orphans, now>>

-----------------------------------------------------------------------------
(* Failures no clause names, and the environment.                          *)

\* An exception of the inbox client other than InboxError, or of the webhook
\* transport other than WebhookError: http.client's HTTPException, an
\* OSError while the body of an error response is read.
ClientRaises(c) ==
  /\ "raw" \in Disruptions
  /\ Runs(c, {"register", "registered", "posted", "fetch", "refetch"})
  /\ Goes(c, Raised(co[c]))
  /\ UNCHANGED <<rows, session, resumable, slots, posts, accepted, orphans, now, answers>>

\* SQLite raises an error that is no JobStateError (locked, full, I/O).
JournalRaises(c) ==
  /\ "journal" \in Disruptions
  /\ Runs(c, {"start", "resume", "poll", "settle", "advance", "cas"})
  /\ Goes(c, Raised(co[c]))
  /\ UNCHANGED <<rows, session, resumable, slots, posts, accepted, orphans, now, answers>>

\* The webhook takes the packet, with the callback token in it.
WebhookAccepts(j) ==
  /\ posts[j] > 0
  /\ accepted' = accepted \union {j}
  /\ UNCHANGED <<rows, session, resumable, co, slots, posts, orphans, now, answers>>

\* The worker POSTs a body to the job's callback path; a handler thread stamps
\* it and stores it when it gets the lock, perhaps past the deadline.
WorkerSubmits(j, b) ==
  /\ j \in accepted
  /\ \E stamp \in 0 .. now : InTime(slots[j], stamp)
  /\ slots' = [slots EXCEPT ![j] = Offered(slots[j], b)]
  /\ UNCHANGED <<rows, session, resumable, co, posts, accepted, orphans, now, answers>>

\* The inbox process restarts and has lost its slots.
InboxRestarts ==
  /\ "inbox" \in Disruptions
  /\ slots' = [j \in Jobs |-> NoSlot]
  /\ UNCHANGED <<rows, session, resumable, co, posts, accepted, orphans, now, answers>>

\* An inbox that breaks its promise shows another body for the job.
InboxChanges(j, b) ==
  /\ "swap" \in Disruptions
  /\ slots[j].body # NoBody
  /\ slots' = [slots EXCEPT ![j].body = b]
  /\ UNCHANGED <<rows, session, resumable, co, posts, accepted, orphans, now, answers>>

Tick ==
  /\ now < MaxNow
  /\ now' = now + 1
  /\ UNCHANGED <<rows, session, resumable, co, slots, posts, accepted, orphans, answers>>

-----------------------------------------------------------------------------
Dispatches(c) ==
  \/ BeginDispatch(c)
  \/ RegisterArrives(c)
  \/ RegisterReturns(c)
  \/ RegisterFails(c)
  \/ PostRefused(c)
  \/ PostSends(c)
  \/ PostReturns(c)
  \/ PostUncertain(c)

Waits(c) ==
  \/ BeginPoll(c)
  \/ CheckDeadline(c)
  \/ FetchStored(c)
  \/ FetchNothing(c)
  \/ SettleInvalid(c)
  \/ SettleOk(c)
  \/ SettleError(c)
  \/ SettleUnwritable(c)

Advances(c) == AdvanceRead(c) \/ AdvanceWrite(c)

Answers(c) == RefetchReturns(c) \/ RefetchFails(c) \/ Revalidate(c)

Steps(c) == Dispatches(c) \/ Waits(c) \/ Advances(c) \/ Answers(c)

Disturbs(c) == ClientRaises(c) \/ JournalRaises(c)

Next ==
  \/ \E s \in Sessions : Open(s) \/ Reconcile(s) \/ Crash(s) \/ Shutdown(s)
  \/ \E s \in Sessions, j \in Jobs : Start(s, j) \/ ReadResult(s, j)
  \/ \E c \in Coroutines : Steps(c) \/ Disturbs(c)
  \/ \E j \in Jobs : OrphanPosts(j) \/ WebhookAccepts(j)
  \/ \E j \in Jobs, b \in Bodies : WorkerSubmits(j, b) \/ InboxChanges(j, b)
  \/ InboxRestarts
  \/ Tick

Spec == Init /\ [][Next]_vars

\* A loop runs what is ready, every HTTP call ends within its timeout, an
\* open lifespan is entered and time passes.  Nothing else need happen: no
\* session need be opened, no answer need come.
FairSpec ==
  /\ Spec
  /\ WF_vars(Tick)
  /\ \A s \in Sessions : WF_vars(Reconcile(s))
  /\ \A c \in Coroutines : WF_vars(Steps(c))

-----------------------------------------------------------------------------
TypeOK ==
  /\ rows \in [Jobs -> Row]
  /\ session \in [Sessions -> {"down", "opening", "up"}]
  /\ resumable \in [Sessions -> SUBSET Jobs]
  /\ co \in [Coroutines -> Coroutine]
  /\ slots \in [Jobs -> Slot]
  /\ posts \in [Jobs -> Nat]
  /\ accepted \subseteq Jobs
  /\ orphans \subseteq Jobs
  /\ now \in Nat
  /\ answers \in [Jobs -> SUBSET Bodies]

(* One request becomes one webhook POST: no restart, second session or     *)
(* cancelled task ever sends a packet again.                               *)
AtMostOnePost == \A j \in Jobs : posts[j] <= 1

(* A job reads failed only if no POST was or will be sent for it, or the   *)
(* worker itself reported the error.                                       *)
FailedIsProven ==
  \A j \in Jobs : rows[j].state = "failed" =>
    rows[j].error = "worker" \/ (posts[j] = 0 /\ j \notin orphans)

(* A job the journal calls dispatched, or answered, was accepted by the    *)
(* webhook, which is why a restart may go on polling for it.               *)
DispatchedIsAccepted ==
  \A j \in Jobs : rows[j].state \in {"dispatched", "ready"} => j \in accepted

(* The digest pinned in the journal is that of the only body the inbox     *)
(* keeps for the job, for as long as the inbox keeps one.                  *)
DigestPinsStoredBody ==
  \A j \in Jobs : rows[j].digest # NoBody /\ slots[j].registered =>
    slots[j].body = rows[j].digest

(* Whatever the inbox shows later, every answer handed out for a job is    *)
(* the one body whose digest the journal pinned.                           *)
AnswersArePinned == \A j \in Jobs : answers[j] \subseteq {rows[j].digest}

Unsettled(j) == rows[j].state \in {"queued", "dispatching", "dispatched"}

(* No open job is forgotten: with every process up again, each job that is *)
(* not settled has a background task that will settle it.                  *)
OpenJobHasTask ==
  (\A s \in Sessions : session[s] = "up") =>
    \A j \in Jobs : Unsettled(j) =>
      \E s \in Sessions : co[Task(s, j)].pc # "idle"

(* A packet leaves only for a job journaled as dispatching, or as          *)
(* uncertain by a reconciliation meanwhile: no crash loses track of it.    *)
PostIsJournaled ==
  [][\A j \in Jobs : posts'[j] # posts[j] =>
        rows[j].state \in {"dispatching", "uncertain"}]_<<posts, rows>>

(* The inbox is told to expect a callback only while the packet is neither *)
(* sent nor on its way in a thread left behind: a job that is resumed asks *)
(* for no second expectation, not even of an inbox that forgot the first,  *)
(* where a second body could then take the place of the one it lost.       *)
RegistersBeforePost ==
  [][\A j \in Jobs : ~slots[j].registered /\ slots'[j].registered =>
        posts[j] = 0 /\ j \notin orphans]_slots

(* An answer once ready is withdrawn only if the inbox lost its slot, or   *)
(* if another session had rejected it when its completion was to come.     *)
ReadyUntilLost ==
  [][\A j \in Jobs : rows[j].state = "ready" /\ rows'[j].state # "ready" =>
        ~slots[j].registered \/ rows[j].error = "invalid_result"]_rows

(* A callback rejected while the journal still allows a reason has one,    *)
(* whichever session of several recorded it.                               *)
RejectionHasReason ==
  [][\A j \in Jobs : rows[j].state = "dispatched" /\ rows'[j].state = "conflict" =>
        rows[j].error # "none"]_rows

(* An open job keeps its task for as long as its process is up, whatever   *)
(* fails, but for one case: the journal refuses the very write by which an *)
(* exception handler with none around it would settle the job.             *)
TaskOutlivesJob ==
  [][\A s \in Sessions, j \in Jobs :
       LET me == co[Task(s, j)] IN
       /\ me.pc # "idle" /\ co'[Task(s, j)].pc = "idle"
       /\ session[s] = "up" /\ session'[s] = "up"
       /\ Unsettled(j)'
       => me.pc \in {"advance", "cas"} /\ ~me.hard /\ me.handlers = 0]_vars

-----------------------------------------------------------------------------
(* How many steps a coroutine may still have before it.  At an UPDATE:     *)
AheadOfWrite(me) ==
  CASE ~me.hard -> 1
    [] me.hard /\ me.goal = "dispatching" -> 17
    [] me.hard /\ me.goal = "dispatched"  -> 13
    [] OTHER -> 3

(* Anywhere; head: at the head of the loop of _execute_poll.               *)
Ahead(me, head) ==
  CASE me.pc = "idle"       -> 0
    [] me.pc = "start"      -> 21
    [] me.pc = "register"   -> 20
    [] me.pc = "registered" -> 19
    [] me.pc = "post"       -> 16
    [] me.pc = "posted"     -> 15
    [] me.pc \in {"resume", "poll"} -> 8
    [] me.pc = "check"      -> head
    [] me.pc = "fetch"      -> 6
    [] me.pc = "settle"     -> 5
    [] me.pc = "refetch"    -> 4
    [] me.pc = "revalidate" -> 3
    [] me.pc = "advance"    -> AheadOfWrite(me) + 1
    [] OTHER                -> AheadOfWrite(me)

\* Once the deadline has passed, the loop ends at its head.
HeadAhead(j) == IF now >= rows[j].deadline THEN 5 ELSE 7

(* Each handler left may settle the job in two more.                       *)
Distance(c) == 4 * co[c].handlers + Ahead(co[c], HeadAhead(JobOf(c)))

(* Every step of a coroutine brings it nearer to its end, and no step of   *)
(* anybody else or of the clock takes it further away, but for one: the    *)
(* way round the polling loop, and that only before the deadline.  So no   *)
(* chain of refusals, exceptions and handlers keeps a job open for ever.   *)
CoroutinesEnd ==
  [][\A c \in Coroutines : co[c].pc # "idle" =>
       IF co'[c] = co[c] THEN Distance(c)' <= Distance(c)
       ELSE \/ Distance(c)' < Distance(c)
            \/ /\ co[c].pc = "fetch" /\ co'[c].pc = "check"
               /\ now < rows[JobOf(c)].deadline]_vars

EveryJobSettles == \A j \in Jobs : Unsettled(j) ~> ~Unsettled(j)

(* Whatever the worker, the webhook and the inbox do, each job is settled  *)
(* in the end, and crashes and shutdowns only delay that: it is enough     *)
(* that each process that ever runs stays up from some time on.            *)
EveryJobRecovers ==
  (\A s \in Sessions : <>[](session[s] = "up") \/ [](session[s] = "down"))
    => EveryJobSettles

-----------------------------------------------------------------------------
(* The coordinator uses the journal as one of the callers JobStore allows: *)
(* the reads and writes of a session's loop are those of one connection.   *)
Pending(s) == {c \in Coroutines : SessionOf(c) = s /\ co[c].pc = "cas"}

Connection(s) ==
  IF session[s] = "opening"
    THEN [pc |-> "reconcile", resumable |-> resumable[s]]
  ELSE IF Pending(s) # {}
    THEN LET c == CHOOSE c \in Pending(s) : TRUE IN
         [pc |-> "advance", job |-> JobOf(c), target |-> co[c].goal, seen |-> co[c].seen]
  ELSE [pc |-> "idle"]

Store == INSTANCE JobStore WITH
  Connections <- Sessions,
  Deadlines <- Lifetime .. MaxNow,
  conn <- [s \in Sessions |-> Connection(s)]

StoreSpec == Store!Spec

-----------------------------------------------------------------------------
(* And it keeps the contract of docs/mcp-coordinator.md, at most one POST  *)
(* and one answer per job, whatever fails in the environment.              *)
Outcome(j) == IF Unsettled(j) THEN "open" ELSE rows[j].state

Contract == INSTANCE RequestContract WITH
  outcome <- [j \in Jobs |-> Outcome(j)],
  posted <- posts,
  refused <- {j \in Jobs : rows[j].error = "worker"},
  pinned <- [j \in Jobs |-> rows[j].digest],
  answered <- answers

ContractSpec == Contract!Spec
=============================================================================
