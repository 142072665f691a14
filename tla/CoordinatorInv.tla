--------------------------- MODULE CoordinatorInv ---------------------------
(***************************************************************************)
(* The inductive invariant behind the coordinator's safety: the permission *)
(* to send a job's packet is a token that one coroutine, or one orphaned   *)
(* thread, holds until the packet is sent or the job is called failed.     *)
(***************************************************************************)
EXTENDS Coordinator

Advancing(me, hard, goals) ==
  me.pc \in {"advance", "cas"} /\ me.hard = hard /\ me.goal \in goals

\* The packet is not sent; this coroutine may send it or give the job up.
MaySend(me) ==
  \/ me.pc \in {"start", "register", "registered", "post"}
  \/ Advancing(me, TRUE, {"dispatching"})
  \/ Advancing(me, FALSE, {"failed"})

\* Only a job whose packet was sent has a coroutine here.
FollowsPost(me) ==
  \/ me.pc \in {"posted", "resume", "poll", "check", "fetch", "settle",
                "refetch", "revalidate"}
  \/ Advancing(me, TRUE, {"dispatched", "ready", "failed"})
  \/ Advancing(me, FALSE, {"conflict"})

\* What a coroutine may be, given its job's row and how often its packet
\* was sent.
Fits(row, sent, me) ==
  /\ me.pc # "idle" => row.state # "absent"
  /\ MaySend(me) => sent = 0
  /\ FollowsPost(me) => sent > 0
  /\ me.pc \in {"advance", "cas"} =>
       MaySend(me) \/ FollowsPost(me) \/ Advancing(me, FALSE, {"uncertain"})
  /\ me.pc = "cas" =>
       /\ me.goal \in NextStates[me.seen]
       /\ me.goal = "ready" => row.digest # NoBody
  /\ Advancing(me, TRUE, {"failed"}) => row.error = "worker"
  /\ me.pc = "post" => row.state \in {"dispatching", "uncertain"}
  /\ me.pc = "settle" => me.payload # NoBody
  /\ me.pc \in {"refetch", "revalidate"} =>
       /\ me.digest = row.digest /\ me.digest # NoBody
       /\ row.state \in {"ready", "conflict"}
  /\ MaySend(me) \/ me.pc = "posted" \/ Advancing(me, TRUE, {"dispatched"}) =>
       me.handlers <= 1

CoroutinesFit ==
  \A c \in Coroutines :
    /\ Fits(rows[JobOf(c)], posts[JobOf(c)], co[c])
    /\ MaySend(co[c]) => JobOf(c) \notin orphans

\* One coroutine at most holds the permission to send.
OneSender ==
  \A c, d \in Coroutines :
    JobOf(c) = JobOf(d) /\ MaySend(co[c]) /\ MaySend(co[d]) => c = d

NoSender(j) == \A c \in Coroutines : JobOf(c) = j => ~MaySend(co[c])

\* What the rest of the state says of a job agrees with its row.
RowConsistent(j) ==
  /\ rows[j].state = "absent" => rows[j] = NoRow /\ posts[j] = 0 /\ j \notin orphans
  /\ rows[j].state \in {"dispatched", "ready", "conflict"} => posts[j] > 0
  /\ \A s \in Sessions : j \in resumable[s] => posts[j] > 0
  /\ j \in orphans => posts[j] = 0 /\ rows[j].state \in {"dispatching", "uncertain"}
  /\ rows[j].state = "failed" =>
       rows[j].error = "worker" \/ (posts[j] = 0 /\ j \notin orphans /\ NoSender(j))
  /\ rows[j].state = "ready" => rows[j].digest # NoBody
  /\ posts[j] <= 1
  /\ answers[j] \subseteq {rows[j].digest}

RowsConsistent == \A j \in Jobs : RowConsistent(j)

\* What keeps OneSender: an absent job has no coroutine, an orphan no sender.
IInv == TypeOK /\ CoroutinesFit /\ OneSender /\ RowsConsistent

-----------------------------------------------------------------------------
(***************************************************************************)
(* What is known of a callback once its job was posted, on top of IInv:    *)
(* for as long as the inbox keeps its slot and shows what it stored, each  *)
(* coroutine and the row speak of the one body in it.                      *)
(***************************************************************************)
Early == {"absent", "queued", "dispatching"}

Faithful == "swap" \notin Disruptions
Direct == "redirect" \notin Disruptions

\* validate_result may have rejected it, whatever its completion time.
Rejectable(b) == b # NoBody /\ Kind[b] # "opaque" /\ Verdict(b, 0) = "invalid"

\* taken: the webhook accepted the packet of this coroutine's job.
Knows(row, slot, taken, me) ==
  /\ \/ me.pc \in {"check", "fetch", "settle", "revalidate"}
     \/ Advancing(me, TRUE, {"ready", "failed"})
     \/ Advancing(me, FALSE, {"conflict"})
     => row.state \notin Early
  /\ Advancing(me, FALSE, {"conflict"}) /\ row.state = "dispatched" => row.error # "none"
  /\ \/ me.pc \in {"check", "fetch", "settle"}
     \/ Advancing(me, TRUE, {"dispatched", "ready"})
     => taken \/ ~Direct
  /\ me.pc = "settle" => Kind[me.payload] # "opaque"
  /\ Faithful /\ slot.registered =>
       /\ me.pc = "settle" => slot.body = me.payload
       /\ me.pc = "revalidate" => row.digest = me.payload
       /\ Advancing(me, FALSE, {"conflict"}) =>
            /\ Rejectable(slot.body)
            /\ row.state \in {"dispatched", "ready"} => row.error = "invalid_result"

Agrees(row, slot, taken, sent, time) ==
  /\ row.state \in {"dispatched", "ready"} => taken \/ ~Direct
  /\ taken \/ slot.body # NoBody \/ row.digest # NoBody \/ row.error = "worker" => sent > 0
  /\ slot.body # NoBody => slot.registered
  /\ row.digest # NoBody => Verdict(row.digest, time) = "ok"
  /\ Faithful /\ slot.registered =>
       /\ row.digest # NoBody => slot.body = row.digest
       /\ row.error = "worker" => slot.body # NoBody /\ Verdict(slot.body, time) = "error"
       /\ row.state = "conflict" => Rejectable(slot.body)

CInv ==
  /\ \A c \in Coroutines :
        Knows(rows[JobOf(c)], slots[JobOf(c)], JobOf(c) \in accepted, co[c])
  /\ \A j \in Jobs : Agrees(rows[j], slots[j], j \in accepted, posts[j], now)

-----------------------------------------------------------------------------
(***************************************************************************)
(* What keeps an open job from being forgotten, on top of IInv: its tasks  *)
(* do not end before it is settled, and while the journal never fails, a   *)
(* session is down, or about to reconcile it, or has such a task.          *)
(***************************************************************************)
Reliable == "journal" \notin Disruptions

OpenStates == {"queued", "dispatching", "dispatched"}
SettledStates == {"ready", "uncertain", "conflict", "failed"}

\* What the task of a job may be, given the row: some handler is left
\* wherever an exception may come, and no SELECT is stale for an open row.
TaskFits(row, me) ==
  /\ me.pc \notin {"refetch", "revalidate"}
  /\ me.pc \in {"advance", "cas"} /\ me.hard => me.handlers > 0
  /\ me.pc \notin {"idle", "advance", "cas"} => me.handlers > 0
  /\ me.pc \in {"resume", "poll"} => row.state \notin Early
  /\ me.pc = "cas" => row.state = me.seen \/ row.state \in SettledStates

\* What a call of result() may be.
ReaderFits(me) ==
  /\ me.pc \in {"idle", "refetch", "revalidate"} \/ Advancing(me, FALSE, {"conflict"})
  /\ me.handlers = 0

RoleFits(c, row, me) ==
  IF RoleOf(c) = "task" THEN TaskFits(row, me) ELSE ReaderFits(me)

Watched(j) ==
  \E s \in Sessions :
    \/ session[s] = "down"
    \/ session[s] = "opening" /\ (j \in resumable[s] \/ rows[j].state \in PreDispatch)
    \/ co[Task(s, j)].pc # "idle"

TInv ==
  /\ \A c \in Coroutines : RoleFits(c, rows[JobOf(c)], co[c])
  /\ \A c, d \in Coroutines :
        /\ JobOf(c) = JobOf(d) /\ rows[JobOf(c)].state \in PreDispatch
        /\ co[c].pc # "idle" /\ co[d].pc # "idle"
        => c = d
  /\ \A s \in Sessions : \A j \in resumable[s] : rows[j].state \notin Early
  /\ Reliable => \A j \in Jobs : Unsettled(j) => Watched(j)

-----------------------------------------------------------------------------
(***************************************************************************)
(* What lets one session keep what two do not (CoordinatorClaims), on top  *)
(* of IInv and TInv: with one session, that neither dies between two of    *)
(* its writes nor has one refused, nobody but the task that recorded a     *)
(* callback moves its job on.                                              *)
(***************************************************************************)
Solo ==
  /\ \E s \in Sessions : Sessions = {s}
  /\ Disruptions \intersect {"crash", "journal"} = {}

\* No exception but those that _execute_poll and _settle name.
Foreseen == "raw" \notin Disruptions /\ \A b \in Bodies : Kind[b] # "unwritable"

Unrivalled(row, me, time) ==
  /\ row.digest # NoBody => row.state \in {"dispatched", "ready", "conflict"}
  /\ row.error # "none" => row.state \notin Early
  /\ Advancing(me, TRUE, {"ready"}) => row.digest # NoBody
  /\ row.state = "dispatched" =>
       /\ me.pc # "posted" /\ ~Advancing(me, TRUE, {"dispatched"})
       /\ row.digest # NoBody => Advancing(me, TRUE, {"ready"})
       /\ row.error # "none" =>
            Advancing(me, TRUE, {"failed"}) \/ Advancing(me, FALSE, {"conflict"})
       /\ Foreseen /\ Advancing(me, FALSE, {"uncertain"}) => time >= row.deadline

SoloInv == \A s \in Sessions, j \in Jobs : Unrivalled(rows[j], co[Task(s, j)], now)
=============================================================================
