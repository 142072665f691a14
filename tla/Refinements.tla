---------------------------- MODULE Refinements ----------------------------
(***************************************************************************)
(* The coordinator implements RequestContract, and uses the journal as     *)
(* JobStore allows: each of its steps is a step of theirs, or changes      *)
(* nothing they speak of.                                                  *)
(***************************************************************************)
EXTENDS CoordinatorProofs

LEMMA Unseen == ASSUME UNCHANGED <<rows, posts, answers>> PROVE UNCHANGED Contract!vars
  BY DEF Contract!vars, Outcome, Unsettled

LEMMA InitContract == ASSUME Init PROVE Contract!Init
  BY DEF Init, NoRow, Contract!Init, Outcome, Unsettled

\* The contract's view of a row that alone changes.
LEMMA OneRow ==
  ASSUME IInv, NEW j \in Jobs, NEW new, rows' = [rows EXCEPT ![j] = new]
  PROVE  /\ rows'[j] = new
         /\ \A k \in Jobs : k # j => rows'[k] = rows[k] /\ Outcome(k)' = Outcome(k)
  BY DEF IInv, TypeOK, Outcome, Unsettled

LEMMA StartRequests ==
  ASSUME IInv, NEW s \in Sessions, NEW j \in Jobs, Start(s, j)
  PROVE  Contract!Request(j)
<1>1. /\ rows[j].state = "absent" /\ rows' = [rows EXCEPT ![j] = NewRow(now + Lifetime)]
      /\ UNCHANGED <<posts, answers>>
  BY DEF Start
<1>2. rows[j] = NoRow
  BY <1>1 DEF IInv, RowsConsistent, RowConsistent
<1>3. /\ rows'[j].state = "queued" /\ rows'[j].digest = NoBody /\ rows'[j].error = "none"
      /\ \A k \in Jobs : k # j => rows'[k] = rows[k] /\ Outcome(k)' = Outcome(k)
  <2> DEFINE new == NewRow(now + Lifetime)
  <2>1. new.state = "queued" /\ new.digest = NoBody /\ new.error = "none"
    BY DEF NewRow
  <2>2. rows' = [rows EXCEPT ![j] = new]
    BY <1>1
  <2> HIDE DEF new
  <2> QED
    BY <2>1, <2>2, OneRow
<1>4. Outcome(j) = "absent" /\ Outcome(j)' = "open"
  BY <1>1, <1>3 DEF Outcome, Unsettled
<1>5. /\ \A k \in Jobs : rows'[k].error = "worker" <=> rows[k].error = "worker"
      /\ \A k \in Jobs : rows'[k].digest = rows[k].digest
  BY <1>2, <1>3 DEF NoRow
<1> QED
  BY <1>1, <1>3, <1>4, <1>5 DEF Contract!Request, Contract!Moves

LEMMA SendPosts ==
  ASSUME IInv, NEW j \in Jobs, posts[j] = 0, posts' = [posts EXCEPT ![j] = posts[j] + 1],
         rows[j].state \in {"dispatching", "uncertain"}, UNCHANGED <<rows, answers>>
  PROVE  Contract!Post(j)
<1>1. Outcome(j) \in {"open", "uncertain"}
  BY DEF Outcome, Unsettled
<1>2. posts' = [posts EXCEPT ![j] = 1]
  OBVIOUS
<1> QED
  BY <1>1, <1>2 DEF Contract!Post, Outcome, Unsettled

LEMMA ReconcileGivesUp ==
  ASSUME IInv, NEW s \in Sessions, Reconcile(s)
  PROVE  UNCHANGED Contract!vars \/ \E js \in SUBSET Jobs : Contract!GiveUp(js)
<1> DEFINE js == {j \in Jobs : rows[j].state \in PreDispatch}
<1>1. rows' = [j \in Jobs |-> Reconciled(rows[j])] /\ UNCHANGED <<posts, answers>>
  BY DEF Reconcile
<1>2. ASSUME NEW j \in Jobs
      PROVE  /\ rows'[j].digest = rows[j].digest /\ rows'[j].error = rows[j].error
             /\ Outcome(j)' = IF j \in js THEN "uncertain" ELSE Outcome(j)
             /\ j \in js => Outcome(j) = "open"
  BY <1>1 DEF Reconciled, PreDispatch, Outcome, Unsettled, IInv, TypeOK, Row
<1>3. CASE js = {}
  BY <1>1, <1>2, <1>3 DEF Contract!vars
<1>4. CASE js # {}
  <2> HIDE DEF js
  <2>1. Contract!GiveUp(js)
    BY <1>1, <1>2, <1>4 DEF Contract!GiveUp, js
  <2> QED
    BY <2>1 DEF js
<1> QED
  BY <1>3, <1>4

LEMMA InvalidUnseen ==
  ASSUME IInv, NEW c \in Coroutines, SettleInvalid(c) PROVE UNCHANGED Contract!vars
<1>1. UNCHANGED <<posts, answers>>
  BY DEF SettleInvalid
<1>2. CASE CanRecordError(rows[JobOf(c)])
  <2>1. rows' = [rows EXCEPT ![JobOf(c)] = [@ EXCEPT !.error = "invalid_result"]]
    BY <1>2 DEF SettleInvalid
  <2>2. \A k \in Jobs :
          /\ rows'[k].state = rows[k].state /\ rows'[k].digest = rows[k].digest
          /\ rows'[k].error = "worker" <=> rows[k].error = "worker"
    BY <1>2, <2>1, AtWork DEF CanRecordError, IInv, TypeOK, Row
  <2> QED
    BY <1>1, <2>2 DEF Contract!vars, Outcome, Unsettled
<1>3. CASE ~CanRecordError(rows[JobOf(c)])
  BY <1>1, <1>3, Unseen DEF SettleInvalid
<1> QED
  BY <1>2, <1>3

LEMMA OkPins ==
  ASSUME IInv, NEW c \in Coroutines, SettleOk(c)
  PROVE  UNCHANGED Contract!vars \/ \E b \in Bodies : Contract!Pin(JobOf(c), b)
<1> DEFINE j == JobOf(c)  b == co[c].payload
<1>1. UNCHANGED <<posts, answers>> /\ co[c].pc = "settle"
  BY DEF SettleOk, Runs
<1>2. CASE CanRecordResult(rows[j])
  <2>1. rows' = [rows EXCEPT ![j] = [@ EXCEPT !.digest = b]]
    BY <1>2 DEF SettleOk
  <2>2. /\ j \in Jobs /\ posts[j] > 0 /\ b \in Bodies
        /\ rows[j].state = "dispatched" /\ rows[j].digest = NoBody
    BY <1>1, <1>2, AtWork, Following DEF CanRecordResult, Fits, Coroutine, OptionalBody
  <2>3. \A k \in Jobs :
          /\ rows'[k].state = rows[k].state /\ rows'[k].error = rows[k].error
          /\ rows'[k].digest = IF k = j THEN b ELSE rows[k].digest
    BY <2>1, <2>2 DEF IInv, TypeOK, Row
  <2>4. Outcome(j) = "open" /\ \A k \in Jobs : Outcome(k)' = Outcome(k)
    BY <2>2, <2>3 DEF Outcome, Unsettled
  <2> HIDE DEF j, b
  <2>5. Contract!Pin(j, b)
    BY <1>1, <2>2, <2>3, <2>4 DEF Contract!Pin
  <2> QED
    BY <2>2, <2>5 DEF j, b, Contract!Pin
<1>3. CASE ~CanRecordResult(rows[j])
  BY <1>1, <1>3, Unseen DEF SettleOk
<1> QED
  BY <1>2, <1>3

LEMMA ErrorRefuses ==
  ASSUME IInv, NEW c \in Coroutines, SettleError(c)
  PROVE  UNCHANGED Contract!vars \/ Contract!Refuse(JobOf(c))
<1> DEFINE j == JobOf(c)
<1>1. UNCHANGED <<posts, answers>> /\ co[c].pc = "settle"
  BY DEF SettleError, Runs
<1>2. CASE CanRecordError(rows[j])
  <2>1. rows' = [rows EXCEPT ![j] = [@ EXCEPT !.error = "worker"]]
    BY <1>2 DEF SettleError
  <2>2. j \in Jobs /\ posts[j] > 0 /\ rows[j].state = "dispatched"
    BY <1>1, <1>2, AtWork, Following DEF CanRecordError
  <2>3. \A k \in Jobs :
          /\ rows'[k].state = rows[k].state /\ rows'[k].digest = rows[k].digest
          /\ rows'[k].error = IF k = j THEN "worker" ELSE rows[k].error
    BY <2>1, <2>2 DEF IInv, TypeOK, Row
  <2>4. Outcome(j) = "open" /\ \A k \in Jobs : Outcome(k)' = Outcome(k)
    BY <2>2, <2>3 DEF Outcome, Unsettled
  <2> HIDE DEF j
  <2>5. {k \in Jobs : rows'[k].error = "worker"}
          = {k \in Jobs : rows[k].error = "worker"} \union {j}
    BY <2>2, <2>3
  <2>6. Contract!Refuse(j)
    BY <1>1, <2>2, <2>3, <2>4, <2>5 DEF Contract!Refuse
  <2> QED
    BY <2>6 DEF j
<1>3. CASE ~CanRecordError(rows[j])
  BY <1>1, <1>3, Unseen DEF SettleError
<1> QED
  BY <1>2, <1>3

LEMMA RevalidateAnswers ==
  ASSUME IInv, NEW c \in Coroutines, Revalidate(c)
  PROVE  UNCHANGED Contract!vars \/ Contract!Answer(JobOf(c))
<1> DEFINE j == JobOf(c)
<1>1. UNCHANGED <<rows, posts>> /\ co[c].pc = "revalidate"
  BY DEF Revalidate, Runs
<1>2. CASE Genuine(co[c], now)
  <2>1. answers' = [answers EXCEPT ![j] = @ \union {co[c].payload}]
    BY <1>2 DEF Revalidate
  <2>2. /\ j \in Jobs /\ co[c].payload = rows[j].digest /\ rows[j].digest # NoBody
        /\ rows[j].state \in {"ready", "conflict"}
    BY <1>1, <1>2, AtWork DEF Genuine, Fits
  <2>3. Outcome(j) \in {"ready", "conflict"} /\ \A k \in Jobs : Outcome(k)' = Outcome(k)
    BY <1>1, <2>2 DEF Outcome, Unsettled
  <2> HIDE DEF j
  <2>4. Contract!Answer(j)
    BY <1>1, <2>1, <2>2, <2>3 DEF Contract!Answer
  <2> QED
    BY <2>4 DEF j
<1>3. CASE ~Genuine(co[c], now)
  BY <1>1, <1>3, Unseen DEF Revalidate
<1> QED
  BY <1>2, <1>3

(* A store.advance that writes completes, fails, gives up or disputes the  *)
(* job, or moves it on while it stays open.                                *)
LEMMA AdvanceMoves ==
  ASSUME IInv, NEW c \in Coroutines, AdvanceWrite(c)
  PROVE  \/ UNCHANGED Contract!vars
         \/ Contract!Complete(JobOf(c)) \/ Contract!Fail(JobOf(c)) \/ Contract!Dispute(JobOf(c))
         \/ Contract!GiveUp({JobOf(c)})
<1> DEFINE j == JobOf(c)  goal == co[c].goal
<1>1. UNCHANGED <<posts, answers>> /\ co[c].pc = "cas" /\ j \in Jobs
  BY AtWork DEF AdvanceWrite, Runs
<1>2. CASE rows[j].state = co[c].seen
  <2>1. rows' = [rows EXCEPT ![j] = [@ EXCEPT !.state = goal]]
    BY <1>2 DEF AdvanceWrite
  <2>2. \A k \in Jobs :
          /\ rows'[k].digest = rows[k].digest /\ rows'[k].error = rows[k].error
          /\ rows'[k].state = IF k = j THEN goal ELSE rows[k].state
    BY <1>1, <2>1 DEF IInv, TypeOK, Row
  <2>3. /\ goal \in NextStates[rows[j].state] /\ rows[j].state \in RowStates
        /\ goal = "ready" => rows[j].digest # NoBody
        /\ goal = "failed" => posts[j] = 0 \/ rows[j].error = "worker"
    <3>1. /\ MaySend(co[c]) => posts[j] = 0
          /\ MaySend(co[c]) \/ FollowsPost(co[c]) \/ Advancing(co[c], FALSE, {"uncertain"})
          /\ Advancing(co[c], TRUE, {"failed"}) => rows[j].error = "worker"
      BY <1>1, AtWork DEF Fits
    <3>2. goal = "failed" => posts[j] = 0 \/ rows[j].error = "worker"
      BY <1>1, <3>1 DEF FollowsPost, Advancing
    <3> QED
      BY <1>1, <1>2, <3>2, AtWork DEF Fits, Row
  <2>4. /\ \A k \in Jobs : k # j => Outcome(k)' = Outcome(k)
        /\ Outcome(j) = IF rows[j].state \in {"queued", "dispatching", "dispatched"}
                        THEN "open" ELSE rows[j].state
        /\ Outcome(j)' = IF goal \in {"queued", "dispatching", "dispatched"}
                         THEN "open" ELSE goal
    BY <1>1, <2>2 DEF Outcome, Unsettled
  <2>5. \/ Outcome(j) = "open" /\ Outcome(j)' = "open"
        \/ Outcome(j) = "open" /\ Outcome(j)' = "ready" /\ goal = "ready"
        \/ Outcome(j) = "open" /\ Outcome(j)' = "failed" /\ goal = "failed"
        \/ Outcome(j) = "open" /\ Outcome(j)' = "uncertain"
        \/ Outcome(j) \in {"open", "ready", "uncertain"} /\ Outcome(j)' = "conflict"
    BY <2>3, <2>4 DEF NextStates, RowStates, JobStates
  <2> HIDE DEF j, goal
  <2>6. CASE Outcome(j) = "open" /\ Outcome(j)' = "open"
    BY <1>1, <2>2, <2>4, <2>6 DEF Contract!vars
  <2>7. CASE Outcome(j) = "open" /\ Outcome(j)' = "ready" /\ goal = "ready"
    <3>1. Contract!Complete(j)
      BY <1>1, <2>2, <2>3, <2>4, <2>7 DEF Contract!Complete, Contract!Moves
    <3> QED
      BY <3>1 DEF j
  <2>8. CASE Outcome(j) = "open" /\ Outcome(j)' = "failed" /\ goal = "failed"
    <3>1. Contract!Fail(j)
      BY <1>1, <2>2, <2>3, <2>4, <2>8 DEF Contract!Fail, Contract!Moves
    <3> QED
      BY <3>1 DEF j
  <2>9. CASE Outcome(j) = "open" /\ Outcome(j)' = "uncertain"
    <3>1. Contract!GiveUp({j})
      BY <1>1, <2>2, <2>4, <2>9 DEF Contract!GiveUp
    <3> QED
      BY <3>1 DEF j
  <2>10. CASE Outcome(j) \in {"open", "ready", "uncertain"} /\ Outcome(j)' = "conflict"
    <3>1. Contract!Dispute(j)
      BY <1>1, <2>2, <2>4, <2>10 DEF Contract!Dispute, Contract!Moves
    <3> QED
      BY <3>1 DEF j
  <2> QED
    BY <2>5, <2>6, <2>7, <2>8, <2>9, <2>10
<1>3. CASE rows[j].state # co[c].seen
  BY <1>1, <1>3, Unseen DEF AdvanceWrite
<1> QED
  BY <1>2, <1>3

-----------------------------------------------------------------------------
LEMMA NextContract == ASSUME IInv, Next PROVE Contract!Next \/ UNCHANGED Contract!vars
<1>1. ASSUME NEW s \in Sessions, Open(s) \/ Reconcile(s) \/ Crash(s) \/ Shutdown(s)
      PROVE  Contract!Next \/ UNCHANGED Contract!vars
  <2>1. CASE Reconcile(s)
    BY <2>1, ReconcileGivesUp DEF Contract!Next
  <2>2. CASE Open(s) \/ Crash(s) \/ Shutdown(s)
    BY <2>2, Unseen DEF Open, Crash, Shutdown
  <2> QED
    BY <1>1, <2>1, <2>2
<1>2. ASSUME NEW s \in Sessions, NEW j \in Jobs, Start(s, j) \/ ReadResult(s, j)
      PROVE  Contract!Next \/ UNCHANGED Contract!vars
  <2>1. CASE Start(s, j)
    BY <2>1, StartRequests DEF Contract!Next
  <2>2. CASE ReadResult(s, j)
    BY <2>2, Unseen DEF ReadResult
  <2> QED
    BY <1>2, <2>1, <2>2
<1>3. ASSUME NEW c \in Coroutines, Steps(c) \/ Disturbs(c)
      PROVE  Contract!Next \/ UNCHANGED Contract!vars
  <2>1. JobOf(c) \in Jobs
    BY Coroutines3
  <2>2. CASE PostSends(c)
    <3>1. Contract!Post(JobOf(c))
      BY <2>1, <2>2, AtWork, Sending, SendPosts DEF PostSends, Fits
    <3> QED
      BY <2>1, <3>1 DEF Contract!Next
  <2>3. CASE SettleInvalid(c) \/ SettleOk(c) \/ SettleError(c)
    BY <2>1, <2>3, InvalidUnseen, OkPins, ErrorRefuses DEF Contract!Next
  <2>4. CASE AdvanceWrite(c)
    BY <2>1, <2>4, AdvanceMoves DEF Contract!Next
  <2>5. CASE Revalidate(c)
    BY <2>1, <2>5, RevalidateAnswers DEF Contract!Next
  <2>6. CASE \/ BeginDispatch(c) \/ RegisterArrives(c) \/ RegisterReturns(c)
             \/ RegisterFails(c) \/ PostRefused(c) \/ PostReturns(c) \/ PostUncertain(c)
    BY <2>6, Unseen DEF BeginDispatch, RegisterArrives, RegisterReturns, RegisterFails,
         PostRefused, PostReturns, PostUncertain
  <2>7. CASE \/ BeginPoll(c) \/ CheckDeadline(c) \/ FetchStored(c) \/ FetchNothing(c)
             \/ AdvanceRead(c) \/ RefetchReturns(c) \/ RefetchFails(c)
             \/ ClientRaises(c) \/ JournalRaises(c) \/ SettleUnwritable(c)
    BY <2>7, Unseen DEF BeginPoll, CheckDeadline, FetchStored, FetchNothing, AdvanceRead,
         RefetchReturns, RefetchFails, ClientRaises, JournalRaises, SettleUnwritable
  <2> QED
    BY <1>3, <2>2, <2>3, <2>4, <2>5, <2>6, <2>7
       DEF Steps, Disturbs, Dispatches, Waits, Advances, Answers
<1>4. ASSUME NEW j \in Jobs, OrphanPosts(j) PROVE Contract!Next
  <2>1. Contract!Post(j)
    BY <1>4, SendPosts DEF OrphanPosts, IInv, RowsConsistent, RowConsistent
  <2> QED
    BY <2>1 DEF Contract!Next
<1>5. ASSUME NEW j \in Jobs, WebhookAccepts(j) PROVE UNCHANGED Contract!vars
  BY <1>5, Unseen DEF WebhookAccepts
<1>6. ASSUME NEW j \in Jobs, NEW b \in Bodies, WorkerSubmits(j, b) \/ InboxChanges(j, b)
      PROVE  UNCHANGED Contract!vars
  BY <1>6, Unseen DEF WorkerSubmits, InboxChanges
<1>7. InboxRestarts \/ Tick => UNCHANGED Contract!vars
  BY Unseen DEF InboxRestarts, Tick
<1> QED
  BY <1>1, <1>2, <1>3, <1>4, <1>5, <1>6, <1>7 DEF Next

(* The coordinator keeps the contract of docs/mcp-coordinator.md, for any  *)
(* sessions, jobs and bodies and under any disruptions.                    *)
THEOREM ImplementsContract == Spec => ContractSpec
<1>1. Init => Contract!Init
  BY InitContract
<1>2. IInv /\ [Next]_vars => [Contract!Next]_Contract!vars
  <2> SUFFICES ASSUME IInv, [Next]_vars PROVE [Contract!Next]_Contract!vars
    OBVIOUS
  <2>1. CASE UNCHANGED vars
    BY <2>1, Unseen DEF vars
  <2> QED
    BY <2>1, NextContract
<1> QED
  BY <1>1, <1>2, Invariance, PTL DEF Spec, ContractSpec, Contract!Spec

(* So what the contract means holds of the coordinator: all answers handed *)
(* out for a job are one body, and a failed request was never sent unless  *)
(* its worker refused it.                                                  *)
THEOREM ContractMeans ==
  Spec => (/\ []Contract!OneAnswer
           /\ []Contract!NothingSentUnlessRefused)
<1>1. Contract!Spec => []Contract!OneAnswer
  BY CallbackAssumption, Contract!AtMostOneAnswer
<1>2. Contract!Spec => []Contract!NothingSentUnlessRefused
  BY CallbackAssumption, Contract!FailureIsCertain
<1> QED
  BY <1>1, <1>2, ImplementsContract, PTL DEF ContractSpec

-----------------------------------------------------------------------------
(***************************************************************************)
(* The coordinator uses the journal as JobStore allows: by LoopInv, the    *)
(* event loop of a session is one connection.                              *)
(***************************************************************************)
\* The connection of a session.
LEMMA ChooseSame ==
  ASSUME NEW S, NEW T, S = T
  PROVE  (CHOOSE x \in S : TRUE) = (CHOOSE x \in T : TRUE)
  OBVIOUS

LEMMA ChooseOnly == ASSUME NEW x, NEW S, S = {x} PROVE (CHOOSE y \in S : TRUE) = x
  OBVIOUS

LEMMA ChooseIn == ASSUME NEW S, S # {} PROVE (CHOOSE y \in S : TRUE) \in S
  OBVIOUS

Call(c) == [pc |-> "advance", job |-> JobOf(c), target |-> co[c].goal, seen |-> co[c].seen]

LEMMA Connected ==
  ASSUME NEW s \in Sessions
  PROVE  /\ session[s] = "opening" =>
              Connection(s) = [pc |-> "reconcile", resumable |-> resumable[s]]
         /\ session[s] # "opening" /\ Pending(s) = {} => Connection(s) = [pc |-> "idle"]
         /\ \A c : session[s] # "opening" /\ Pending(s) = {c} => Connection(s) = Call(c)
<1>1. ASSUME NEW c, session[s] # "opening", Pending(s) = {c} PROVE Connection(s) = Call(c)
  <2>1. (CHOOSE x \in Pending(s) : TRUE) = c
    BY <1>1, ChooseOnly
  <2> QED
    BY <1>1, <2>1 DEF Connection, Call
<1> QED
  BY <1>1 DEF Connection

\* With its session's loop a coroutine is the only one that can have read.
LEMMA Alone ==
  ASSUME NEW s \in Sessions, NEW c \in Coroutines, SessionOf(c) = s, HasLoop(s, c)
  PROVE  /\ co[c].pc = "cas" => Connection(s) = Call(c)
         /\ co[c].pc # "cas" => Connection(s) = [pc |-> "idle"]
<1>1. session[s] # "opening"
  BY DEF HasLoop
<1>2. Pending(s) = IF co[c].pc = "cas" THEN {c} ELSE {}
  BY DEF Pending, HasLoop, Awaiting
<1> QED
  BY <1>1, <1>2, Connected

\* The same after a step of that coroutine.
LEMMA AloneAfter ==
  ASSUME IInv, NEW s \in Sessions, NEW c \in Coroutines, SessionOf(c) = s, HasLoop(s, c),
         NEW me, Goes(c, me), UNCHANGED session
  PROVE  /\ me.pc = "cas" =>
              Connection(s)' = [pc |-> "advance", job |-> JobOf(c), target |-> me.goal,
                                seen |-> me.seen]
         /\ me.pc # "cas" => Connection(s)' = [pc |-> "idle"]
<1>1. \A d \in Coroutines : co'[d] = IF d = c THEN me ELSE co[d]
  BY DEF Goes, IInv, TypeOK
<1>2. session'[s] # "opening"
  BY DEF HasLoop
<1>3. Pending(s)' = IF me.pc = "cas" THEN {c} ELSE {}
  BY <1>1 DEF Pending, HasLoop, Awaiting
<1>4. CASE me.pc # "cas"
  BY <1>2, <1>3, <1>4 DEF Connection
<1>5. CASE me.pc = "cas"
  <2>1. (CHOOSE x \in Pending(s)' : TRUE) = c
    BY <1>3, <1>5, ChooseOnly
  <2> QED
    BY <1>1, <1>2, <1>3, <1>5, <2>1 DEF Connection, JobOf
<1> QED
  BY <1>4, <1>5

\* A step that moves no coroutine of session s between its two statements.
LEMMA SameConnection ==
  ASSUME NEW s \in Sessions, session'[s] = session[s],
         session[s] = "opening" => resumable'[s] = resumable[s],
         \A c \in Coroutines : SessionOf(c) = s =>
            co'[c] = co[c] \/ (co[c].pc # "cas" /\ co'[c].pc # "cas")
  PROVE  Connection(s)' = Connection(s)
<1>1. Pending(s)' = Pending(s)
  BY DEF Pending, SessionOf
<1>2. (CHOOSE x \in Pending(s)' : TRUE) = (CHOOSE x \in Pending(s) : TRUE)
  BY <1>1, ChooseSame
<1>3. CASE session[s] = "opening"
  BY <1>3 DEF Connection
<1>4. CASE session[s] # "opening" /\ Pending(s) = {}
  BY <1>1, <1>4 DEF Connection
<1>5. CASE session[s] # "opening" /\ Pending(s) # {}
  <2> DEFINE x == CHOOSE y \in Pending(s) : TRUE
  <2>1. x \in Pending(s)
    BY <1>5, ChooseIn
  <2>2. co'[x] = co[x]
    BY <2>1 DEF Pending
  <2>3. Connection(s) = Call(x)
    BY <1>5 DEF Connection, Call
  <2>4. Connection(s)' = [pc |-> "advance", job |-> JobOf(x), target |-> co'[x].goal,
                          seen |-> co'[x].seen]
    BY <1>1, <1>2, <1>5 DEF Connection, JobOf
  <2> QED
    BY <2>2, <2>3, <2>4 DEF Call
<1> QED
  BY <1>3, <1>4, <1>5

-----------------------------------------------------------------------------
Conn == [s \in Sessions |-> Connection(s)]

LEMMA ConnSame ==
  ASSUME UNCHANGED rows, \A s \in Sessions : Connection(s)' = Connection(s)
  PROVE  UNCHANGED Store!vars
  BY DEF Store!vars

\* The processes as the refinement sees them after such a step.
LEMMA ConnAfter ==
  ASSUME IInv, NEW c \in Coroutines, NEW me, Goes(c, me), UNCHANGED <<session, resumable>>,
         HasLoop(SessionOf(c), c)
  PROVE  /\ Conn[SessionOf(c)] = IF co[c].pc = "cas" THEN Call(c) ELSE [pc |-> "idle"]
         /\ Conn' = [Conn EXCEPT ![SessionOf(c)] =
                       IF me.pc = "cas"
                         THEN [pc |-> "advance", job |-> JobOf(c), target |-> me.goal,
                               seen |-> me.seen]
                         ELSE [pc |-> "idle"]]
<1> DEFINE s == SessionOf(c)
<1>1. s \in Sessions
  BY Coroutines3
<1>2. ASSUME NEW t \in Sessions, t # s PROVE Connection(t)' = Connection(t)
  <2>1. \A d \in Coroutines : SessionOf(d) = t => co'[d] = co[d]
    BY <1>2 DEF Goes, IInv, TypeOK
  <2> QED
    BY <1>2, <2>1, SameConnection
<1>3. Connection(s) = IF co[c].pc = "cas" THEN Call(c) ELSE [pc |-> "idle"]
  BY <1>1, Alone
<1>4. Connection(s)' = IF me.pc = "cas"
                         THEN [pc |-> "advance", job |-> JobOf(c), target |-> me.goal,
                               seen |-> me.seen]
                         ELSE [pc |-> "idle"]
  BY <1>1, AloneAfter
<1> QED
  BY <1>1, <1>2, <1>3, <1>4 DEF Conn

-----------------------------------------------------------------------------
(* Each step of the coordinator as a step of JobStore.                     *)
LEMMA StartCreates ==
  ASSUME IInv, NEW s \in Sessions, NEW j \in Jobs, Start(s, j)
  PROVE  Store!CreateRequest(s, j, now + Lifetime) /\ now + Lifetime \in Lifetime .. MaxNow
<1> DEFINE c == Task(s, j)
<1>1. c \in Coroutines /\ SessionOf(c) = s /\ JobOf(c) = j
  BY Coroutines3 DEF Task, SessionOf
<1>2. /\ HasLoop(s, c) /\ rows[j].state = "absent" /\ now + Lifetime <= MaxNow
      /\ rows' = [rows EXCEPT ![j] = NewRow(now + Lifetime)]
      /\ Goes(c, At("start", 1)) /\ UNCHANGED <<session, resumable>>
  BY DEF Start
<1>3. co[c].pc = "idle"
  BY <1>1, <1>2 DEF IInv, CoroutinesFit, Fits
<1>4. Conn[s] = [pc |-> "idle"] /\ Conn' = [Conn EXCEPT ![s] = [pc |-> "idle"]]
  <2>1. At("start", 1).pc # "cas"
    BY DEF At, Frame
  <2> HIDE DEF c
  <2> QED
    BY <1>1, <1>2, <1>3, <2>1, ConnAfter
<1>5. Conn' = Conn
  BY <1>4 DEF Conn
<1>6. now + Lifetime \in Lifetime .. MaxNow
  BY <1>2, CoordinatorAssumption DEF IInv, TypeOK
<1> QED
  BY <1>2, <1>4, <1>5, <1>6 DEF Conn, Store!CreateRequest, Store!Idle, Store!NewRow, NewRow

\* A statement of its own that leaves the connection idle.
LEMMA StatementIdle ==
  ASSUME IInv, NEW c \in Coroutines, NEW me, Goes(c, me), UNCHANGED <<session, resumable>>,
         HasLoop(SessionOf(c), c), co[c].pc # "cas", me.pc # "cas"
  PROVE  Conn[SessionOf(c)] = [pc |-> "idle"] /\ Conn' = Conn
<1>1. /\ Conn[SessionOf(c)] = [pc |-> "idle"]
      /\ Conn' = [Conn EXCEPT ![SessionOf(c)] = [pc |-> "idle"]]
  BY ConnAfter
<1> QED
  BY <1>1 DEF Conn

LEMMA SettleInvalidRecords ==
  ASSUME IInv, NEW c \in Coroutines, SettleInvalid(c), rows' # rows
  PROVE  Store!RecordError(SessionOf(c), JobOf(c), "invalid_result")
<1>1. /\ co[c].pc = "settle" /\ HasLoop(SessionOf(c), c) /\ UNCHANGED <<session, resumable>>
      /\ Goes(c, SettlesState("conflict", co[c].handlers))
      /\ CanRecordError(rows[JobOf(c)])
      /\ rows' = [rows EXCEPT ![JobOf(c)].error = "invalid_result"]
  BY DEF SettleInvalid, Runs
<1>2. SettlesState("conflict", co[c].handlers).pc # "cas"
  BY DEF SettlesState, Frame
<1>3. Conn[SessionOf(c)] = [pc |-> "idle"] /\ Conn' = Conn
  BY <1>1, <1>2, StatementIdle
<1> QED
  BY <1>1, <1>3, Coroutines3
     DEF Conn, Store!RecordError, Store!Idle, Store!CanRecordError, CanRecordError

LEMMA SettleErrorRecords ==
  ASSUME IInv, NEW c \in Coroutines, SettleError(c), rows' # rows
  PROVE  Store!RecordError(SessionOf(c), JobOf(c), "worker")
<1>1. /\ co[c].pc = "settle" /\ HasLoop(SessionOf(c), c) /\ UNCHANGED <<session, resumable>>
      /\ Goes(c, Calls("failed", co[c].handlers))
      /\ CanRecordError(rows[JobOf(c)])
      /\ rows' = [rows EXCEPT ![JobOf(c)].error = "worker"]
  BY DEF SettleError, Runs
<1>2. Calls("failed", co[c].handlers).pc # "cas"
  BY DEF Calls, Frame
<1>3. Conn[SessionOf(c)] = [pc |-> "idle"] /\ Conn' = Conn
  BY <1>1, <1>2, StatementIdle
<1> QED
  BY <1>1, <1>3, Coroutines3
     DEF Conn, Store!RecordError, Store!Idle, Store!CanRecordError, CanRecordError

LEMMA SettleOkRecords ==
  ASSUME IInv, NEW c \in Coroutines, SettleOk(c), rows' # rows
  PROVE  co[c].payload \in Bodies /\ Store!RecordResult(SessionOf(c), JobOf(c), co[c].payload)
<1>1. /\ co[c].pc = "settle" /\ HasLoop(SessionOf(c), c) /\ UNCHANGED <<session, resumable>>
      /\ Goes(c, Calls("ready", co[c].handlers))
      /\ CanRecordResult(rows[JobOf(c)])
      /\ rows' = [rows EXCEPT ![JobOf(c)].digest = co[c].payload]
  BY DEF SettleOk, Runs
<1>2. Calls("ready", co[c].handlers).pc # "cas"
  BY DEF Calls, Frame
<1>3. Conn[SessionOf(c)] = [pc |-> "idle"] /\ Conn' = Conn
  BY <1>1, <1>2, StatementIdle
<1>4. co[c].payload \in Bodies
  BY <1>1, AtWork DEF Fits, Coroutine, OptionalBody
<1> QED
  BY <1>1, <1>3, <1>4, Coroutines3
     DEF Conn, Store!RecordResult, Store!Idle, Store!CanRecordResult, CanRecordResult

LEMMA ReadReads ==
  ASSUME IInv, NEW c \in Coroutines, AdvanceRead(c)
  PROVE  \/ \E t \in JobStates : Store!AdvanceRead(SessionOf(c), JobOf(c), t)
         \/ UNCHANGED Store!vars
<1> DEFINE j == JobOf(c)
           me == IF CanAdvance(rows[j], co[c].goal)
                   THEN [co[c] EXCEPT !.pc = "cas", !.seen = rows[j].state]
                   ELSE AfterRefusal(co[c])
<1>1. /\ co[c].pc = "advance" /\ HasLoop(SessionOf(c), c) /\ Goes(c, me)
      /\ UNCHANGED <<rows, session, resumable>>
  BY DEF AdvanceRead, Runs
<1>2. /\ j \in Jobs /\ SessionOf(c) \in Sessions /\ rows[j].state \in RowStates
      /\ co[c] \in Coroutine
  BY AtWork, Coroutines3 DEF Row
<1>3. CASE CanAdvance(rows[j], co[c].goal)
  <2>1. me.pc = "cas" /\ me.seen = rows[j].state /\ me.goal = co[c].goal
    BY <1>2, <1>3 DEF Coroutine
  <2>2. co[c].goal \in JobStates
    BY <1>2, <1>3 DEF CanAdvance, NextStates, RowStates, JobStates
  <2> HIDE DEF me
  <2>3. /\ Conn[SessionOf(c)] = [pc |-> "idle"]
        /\ Conn' = [Conn EXCEPT ![SessionOf(c)] =
                      [pc |-> "advance", job |-> j, target |-> me.goal, seen |-> me.seen]]
    BY <1>1, <2>1, ConnAfter
  <2>4. Store!CanAdvance(rows[j], co[c].goal)
    BY <1>3 DEF CanAdvance, NextStates, Store!CanAdvance, Store!NextStates
  <2>5. Store!AdvanceRead(SessionOf(c), j, co[c].goal)
    BY <1>1, <2>1, <2>3, <2>4 DEF Conn, Store!AdvanceRead, Store!Idle
  <2> QED
    BY <2>2, <2>5
<1>4. CASE ~CanAdvance(rows[j], co[c].goal)
  <2>1. me.pc # "cas"
    BY <1>4 DEF AfterRefusal, SettlesState, Idle, Frame
  <2> HIDE DEF me
  <2>2. Conn' = Conn
    BY <1>1, <2>1, StatementIdle
  <2> QED
    BY <1>1, <2>2 DEF Conn, Store!vars
<1> QED
  BY <1>3, <1>4

LEMMA WriteWrites ==
  ASSUME IInv, NEW c \in Coroutines, AdvanceWrite(c)
  PROVE  Store!AdvanceWrite(SessionOf(c))
<1> DEFINE j == JobOf(c)
           me == IF rows[j].state = co[c].seen THEN AfterAdvance(co[c]) ELSE AfterRefusal(co[c])
<1>1. /\ co[c].pc = "cas" /\ HasLoop(SessionOf(c), c) /\ Goes(c, me)
      /\ UNCHANGED <<session, resumable>>
  BY DEF AdvanceWrite, Runs
<1>2. j \in Jobs /\ SessionOf(c) \in Sessions
  BY Coroutines3
<1>3. me.pc # "cas"
  BY DEF AfterAdvance, AfterRefusal, SettlesState, Idle, At, Frame
<1> HIDE DEF me
<1>4. Conn[SessionOf(c)] = Call(c) /\ Conn' = [Conn EXCEPT ![SessionOf(c)] = [pc |-> "idle"]]
  BY <1>1, <1>3, ConnAfter
<1>5. /\ Call(c).pc = "advance" /\ Call(c).job = j
      /\ Call(c).target = co[c].goal /\ Call(c).seen = co[c].seen
  BY DEF Call
<1>6. rows' = [rows EXCEPT ![j] = IF rows[j].state = co[c].seen
                                    THEN [rows[j] EXCEPT !.state = co[c].goal]
                                    ELSE rows[j]]
  BY <1>2 DEF AdvanceWrite, IInv, TypeOK
<1> HIDE DEF j
<1>7. rows' = [rows EXCEPT ![j] = Store!AfterUpdate(rows[j], Call(c))]
  BY <1>5, <1>6 DEF Store!AfterUpdate
<1> QED
  BY <1>4, <1>5, <1>7 DEF Conn, Store!AdvanceWrite, Store!Idle

\* A step of a coroutine that JobStore does not see.
LEMMA StepUnseen ==
  ASSUME IInv, NEW c \in Coroutines, NEW me, Goes(c, me),
         UNCHANGED <<rows, session, resumable>>, co[c].pc # "cas", me.pc # "cas"
  PROVE  UNCHANGED Store!vars
<1>1. \A d \in Coroutines : co'[d] = IF d = c THEN me ELSE co[d]
  BY DEF Goes, IInv, TypeOK
<1>2. \A s \in Sessions : Connection(s)' = Connection(s)
  BY <1>1, SameConnection
<1> QED
  BY <1>2, ConnSame

LEMMA PlainMoves ==
  ASSUME NEW me, NEW h
  PROVE  /\ Idle.pc # "cas" /\ Raised(me).pc # "cas"
         /\ \A g : SettlesState(g, h).pc # "cas" /\ Calls(g, h).pc # "cas"
         /\ \A pc \in Awaiting : At(pc, h).pc # "cas"
  BY DEF Raised, Idle, SettlesState, Calls, At, Frame, Awaiting

LEMMA StepsUnseen ==
  ASSUME IInv, NEW c \in Coroutines, Steps(c) \/ ClientRaises(c), rows' = rows, ~Advances(c)
  PROVE  UNCHANGED Store!vars
<1>1. /\ UNCHANGED <<session, resumable>>
      /\ co[c].pc # "cas"
  <2>1. CASE Dispatches(c)
    BY <2>1 DEF Dispatches, BeginDispatch, RegisterArrives, RegisterReturns, RegisterFails,
       PostRefused, PostSends, PostReturns, PostUncertain, Runs
  <2>2. CASE Waits(c)
    BY <2>2 DEF Waits, BeginPoll, CheckDeadline, FetchStored, FetchNothing, SettleInvalid,
       SettleOk, SettleError, SettleUnwritable, Runs
  <2>3. CASE Answers(c) \/ ClientRaises(c)
    BY <2>3 DEF Answers, RefetchReturns, RefetchFails, Revalidate, ClientRaises, Runs
  <2> QED
    BY <2>1, <2>2, <2>3 DEF Steps
<1>2. \E me : Goes(c, me) /\ me.pc # "cas"
  <2>1. CASE Dispatches(c)
    <3>1. \/ \E g : Goes(c, SettlesState(g, co[c].handlers)) \/ Goes(c, Calls(g, co[c].handlers))
          \/ \E pc \in Awaiting : Goes(c, At(pc, co[c].handlers))
          \/ Goes(c, Raised(co[c]))
      BY <2>1 DEF Dispatches, BeginDispatch, RegisterArrives, RegisterReturns, RegisterFails,
         PostRefused, PostSends, PostReturns, PostUncertain, Awaiting
    <3> QED
      BY <3>1, PlainMoves
  <2>2. CASE FetchStored(c)
    <3> DEFINE me == [At("settle", co[c].handlers) EXCEPT !.payload = slots[JobOf(c)].body]
    <3>1. Goes(c, me) /\ me.pc = "settle"
      BY <2>2 DEF FetchStored, At, Frame
    <3> QED
      BY <3>1
  <2>3. CASE Waits(c) /\ ~FetchStored(c)
    <3>1. \/ \E g : Goes(c, SettlesState(g, co[c].handlers)) \/ Goes(c, Calls(g, co[c].handlers))
          \/ \E pc \in Awaiting : Goes(c, At(pc, co[c].handlers))
          \/ Goes(c, Raised(co[c])) \/ Goes(c, Idle)
      BY <2>3 DEF Waits, BeginPoll, CheckDeadline, FetchNothing, SettleInvalid, SettleOk,
         SettleError, SettleUnwritable, Awaiting
    <3> QED
      BY <3>1, PlainMoves
  <2>4. CASE RefetchReturns(c)
    <3> DEFINE me == [co[c] EXCEPT !.pc = "revalidate", !.payload = slots[JobOf(c)].body]
    <3>1. Goes(c, me) /\ me.pc = "revalidate"
      BY <2>4, AtWork DEF RefetchReturns, Coroutine
    <3> QED
      BY <3>1
  <2>5. CASE RefetchFails(c) \/ Revalidate(c) \/ ClientRaises(c)
    <3>1. Goes(c, Idle) \/ Goes(c, SettlesState("conflict", 0)) \/ Goes(c, Raised(co[c]))
      BY <2>5 DEF RefetchFails, Revalidate, ClientRaises
    <3> QED
      BY <3>1, PlainMoves
  <2> QED
    BY <2>1, <2>2, <2>3, <2>4, <2>5 DEF Steps, Answers
<1> QED
  BY <1>1, <1>2, StepUnseen

LEMMA JournalRaiseCloses ==
  ASSUME IInv, NEW c \in Coroutines, JournalRaises(c)
  PROVE  Store!Close(SessionOf(c)) \/ UNCHANGED Store!vars
<1>1. /\ HasLoop(SessionOf(c), c) /\ Goes(c, Raised(co[c]))
      /\ UNCHANGED <<rows, session, resumable>> /\ Raised(co[c]).pc # "cas"
  BY PlainMoves DEF JournalRaises, Runs
<1>2. CASE co[c].pc = "cas"
  <2>1. Conn[SessionOf(c)] = Call(c) /\ Conn' = [Conn EXCEPT ![SessionOf(c)] = [pc |-> "idle"]]
    BY <1>1, <1>2, ConnAfter
  <2>2. Call(c) # [pc |-> "idle"]
    <3>1. Call(c).pc = "advance" /\ [pc |-> "idle"].pc = "idle"
      BY DEF Call
    <3> QED
      BY <3>1
  <2> QED
    BY <1>1, <2>1, <2>2 DEF Conn, Store!Close, Store!Idle
<1>3. CASE co[c].pc # "cas"
  BY <1>1, <1>3, StepUnseen
<1> QED
  BY <1>2, <1>3

LEMMA OpenReads ==
  ASSUME IInv, LoopInv, NEW s \in Sessions, Open(s)
  PROVE  Store!ReconcileRead(s)
<1>1. /\ session[s] = "down" /\ UNCHANGED <<rows, co>>
      /\ \A t \in Sessions : session'[t] = IF t = s THEN "opening" ELSE session[t]
      /\ \A t \in Sessions : resumable'[t] = IF t = s THEN Resumable(rows) ELSE resumable[t]
  BY DEF Open, IInv, TypeOK
<1>2. Pending(s) = {}
  BY <1>1 DEF Pending, LoopInv
<1>3. Conn[s] = [pc |-> "idle"]
  BY <1>1, <1>2, Connected DEF Conn
<1>4. Connection(s)' = [pc |-> "reconcile", resumable |-> Resumable(rows)]
  BY <1>1 DEF Connection
<1>5. \A t \in Sessions : t # s => Connection(t)' = Connection(t)
  BY <1>1, SameConnection
<1>6. Conn' = [Conn EXCEPT ![s] = [pc |-> "reconcile", resumable |-> Resumable(rows)]]
  BY <1>4, <1>5 DEF Conn
<1>7. Store!Resumable(rows) = Resumable(rows)
  BY DEF Resumable, Store!Resumable
<1> QED
  BY <1>1, <1>3, <1>6, <1>7 DEF Conn, Store!ReconcileRead, Store!Idle

LEMMA ReconcileWrites ==
  ASSUME IInv, LoopInv, NEW s \in Sessions, Reconcile(s)
  PROVE  Store!ReconcileWrite(s)
<1>1. /\ session[s] = "opening" /\ rows' = [j \in Jobs |-> Reconciled(rows[j])]
      /\ \A t \in Sessions : session'[t] = IF t = s THEN "up" ELSE session[t]
      /\ \A t \in Sessions : resumable'[t] = IF t = s THEN {} ELSE resumable[t]
  BY DEF Reconcile, IInv, TypeOK
<1>2. ASSUME NEW c \in Coroutines
      PROVE  co'[c] = co[c] \/ (SessionOf(c) = s /\ co'[c].pc = "resume")
  BY DEF Reconcile, At, Frame, Task, SessionOf
<1>3. Conn[s].pc = "reconcile"
  BY <1>1, Connected DEF Conn
<1>4. \A c \in Coroutines : SessionOf(c) = s => co[c].pc = "idle"
  BY <1>1 DEF LoopInv
<1>5. Pending(s)' = {}
  BY <1>2, <1>4 DEF Pending, SessionOf
<1>6. Connection(s)' = [pc |-> "idle"]
  BY <1>1, <1>5 DEF Connection
<1>7. \A t \in Sessions : t # s => Connection(t)' = Connection(t)
  BY <1>1, <1>2, SameConnection
<1>8. Conn' = [Conn EXCEPT ![s] = [pc |-> "idle"]]
  BY <1>6, <1>7 DEF Conn
<1>9. rows' = [j \in Jobs |-> Store!Reconciled(rows[j])]
  BY <1>1 DEF Reconciled, PreDispatch, Store!Reconciled, Store!PreDispatch
<1> QED
  BY <1>3, <1>8, <1>9 DEF Conn, Store!ReconcileWrite, Store!Idle

LEMMA EndCloses ==
  ASSUME IInv, NEW s \in Sessions, Crash(s) \/ Shutdown(s)
  PROVE  Store!Close(s) \/ UNCHANGED Store!vars
<1>1. /\ rows' = rows
      /\ \A t \in Sessions : session'[t] = IF t = s THEN "down" ELSE session[t]
      /\ \A t \in Sessions : t # s => resumable'[t] = resumable[t]
      /\ \A c \in Coroutines : co'[c] = IF SessionOf(c) = s THEN Idle ELSE co[c]
  BY DEF Crash, Shutdown, IInv, TypeOK
<1>2. Pending(s)' = {}
  BY <1>1 DEF Pending, SessionOf, Idle, Frame
<1>3. Connection(s)' = [pc |-> "idle"]
  BY <1>1, <1>2 DEF Connection
<1>4. \A t \in Sessions : t # s => Connection(t)' = Connection(t)
  BY <1>1, SameConnection
<1>5. Conn' = [Conn EXCEPT ![s] = [pc |-> "idle"]]
  BY <1>3, <1>4 DEF Conn
<1>6. CASE Conn[s] = [pc |-> "idle"]
  BY <1>1, <1>5, <1>6 DEF Conn, Store!vars
<1>7. CASE Conn[s] # [pc |-> "idle"]
  BY <1>1, <1>5, <1>7 DEF Conn, Store!Close, Store!Idle
<1> QED
  BY <1>6, <1>7

LEMMA ReadResultUnseen ==
  ASSUME IInv, NEW s \in Sessions, NEW j \in Jobs, ReadResult(s, j)
  PROVE  UNCHANGED Store!vars
<1> DEFINE c == <<s, "reader", j>>
           me == [At("refetch", 0) EXCEPT !.digest = rows[j].digest]
<1>1. c \in Coroutines /\ Goes(c, me) /\ UNCHANGED <<rows, session, resumable>> /\ co[c] = Idle
  BY Coroutines3 DEF ReadResult
<1>2. co[c].pc # "cas" /\ me.pc # "cas"
  BY <1>1 DEF Idle, At, Frame
<1> HIDE DEF c, me
<1> QED
  BY <1>1, <1>2, StepUnseen

LEMMA OutsideUnseen ==
  ASSUME UNCHANGED <<rows, session, resumable, co>> PROVE UNCHANGED Store!vars
<1>1. \A s \in Sessions : Connection(s)' = Connection(s)
  BY SameConnection
<1> QED
  BY <1>1, ConnSame

LEMMA NextStore ==
  ASSUME IInv, LoopInv, Next PROVE Store!Next \/ UNCHANGED Store!vars
<1>1. ASSUME NEW s \in Sessions, Open(s) PROVE Store!Next
  BY <1>1, OpenReads DEF Store!Next
<1>2. ASSUME NEW s \in Sessions, Reconcile(s) PROVE Store!Next
  BY <1>2, ReconcileWrites DEF Store!Next
<1>3. ASSUME NEW s \in Sessions, Crash(s) \/ Shutdown(s)
      PROVE  Store!Next \/ UNCHANGED Store!vars
  BY <1>3, EndCloses DEF Store!Next
<1>4. ASSUME NEW s \in Sessions, NEW j \in Jobs, Start(s, j) PROVE Store!Next
  BY <1>4, StartCreates DEF Store!Next
<1>5. ASSUME NEW c \in Coroutines, Steps(c) \/ Disturbs(c)
      PROVE  Store!Next \/ UNCHANGED Store!vars
  <2>1. SessionOf(c) \in Sessions /\ JobOf(c) \in Jobs
    BY Coroutines3
  <2>2. CASE SettleInvalid(c) /\ rows' # rows
    BY <2>1, <2>2, SettleInvalidRecords DEF Store!Next, Store!Errors
  <2>3. CASE SettleError(c) /\ rows' # rows
    BY <2>1, <2>3, SettleErrorRecords DEF Store!Next, Store!Errors
  <2>4. CASE SettleOk(c) /\ rows' # rows
    BY <2>1, <2>4, SettleOkRecords DEF Store!Next
  <2>5. CASE AdvanceRead(c)
    <3>1. CASE UNCHANGED Store!vars
      BY <3>1
    <3>2. CASE \E t \in JobStates : Store!AdvanceRead(SessionOf(c), JobOf(c), t)
      BY <2>1, <3>2 DEF Store!Next, Store!JobStates, JobStates
    <3> QED
      BY <2>5, <3>1, <3>2, ReadReads
  <2>6. CASE AdvanceWrite(c)
    BY <2>1, <2>6, WriteWrites DEF Store!Next
  <2>7. CASE JournalRaises(c)
    BY <2>1, <2>7, JournalRaiseCloses DEF Store!Next
  <2>8. ASSUME ~Advances(c), ~JournalRaises(c),
               ~(SettleInvalid(c) \/ SettleOk(c) \/ SettleError(c)) PROVE rows' = rows
    BY <1>5, <2>8 DEF Steps, Disturbs, Dispatches, Waits, Answers, BeginDispatch, RegisterArrives,
       RegisterReturns, RegisterFails, PostRefused, PostSends, PostReturns, PostUncertain,
       BeginPoll, CheckDeadline, FetchStored, FetchNothing, SettleUnwritable, RefetchReturns,
       RefetchFails, Revalidate, ClientRaises
  <2>9. CASE /\ ~Advances(c) /\ ~JournalRaises(c)
             /\ rows' = rows \/ ~(SettleInvalid(c) \/ SettleOk(c) \/ SettleError(c))
    BY <1>5, <2>8, <2>9, StepsUnseen DEF Disturbs
  <2> QED
    BY <2>2, <2>3, <2>4, <2>5, <2>6, <2>7, <2>9 DEF Advances
<1>6. ASSUME NEW s \in Sessions, NEW j \in Jobs, ReadResult(s, j) PROVE UNCHANGED Store!vars
  BY <1>6, ReadResultUnseen
<1>7. ASSUME NEW j \in Jobs, OrphanPosts(j) \/ WebhookAccepts(j) PROVE UNCHANGED Store!vars
  BY <1>7, OutsideUnseen DEF OrphanPosts, WebhookAccepts
<1>8. ASSUME NEW j \in Jobs, NEW b \in Bodies, WorkerSubmits(j, b) \/ InboxChanges(j, b)
      PROVE  UNCHANGED Store!vars
  BY <1>8, OutsideUnseen DEF WorkerSubmits, InboxChanges
<1>9. CASE InboxRestarts \/ Tick
  BY <1>9, OutsideUnseen DEF InboxRestarts, Tick
<1> QED
  BY <1>1, <1>2, <1>3, <1>4, <1>5, <1>6, <1>7, <1>8, <1>9 DEF Next

(* Every session uses the journal as one of the callers JobStore allows,   *)
(* for any number of them (coordinator.py's calls of JobStore).            *)
THEOREM ImplementsStore == Spec => StoreSpec
<1>1. Init => Store!Init
  <2> SUFFICES ASSUME Init PROVE Store!Init
    OBVIOUS
  <2>1. rows = [j \in Jobs |-> NoRow]
    BY DEF Init
  <2>2. \A s \in Sessions : Connection(s) = [pc |-> "idle"]
    BY Connected DEF Init, Pending, Idle, Frame
  <2> QED
    BY <2>1, <2>2 DEF Store!Init, Store!Idle, Store!NoRow, NoRow
<1>2. IInv /\ LoopInv /\ [Next]_vars => [Store!Next]_Store!vars
  <2>1. UNCHANGED vars => UNCHANGED Store!vars
    BY OutsideUnseen DEF vars
  <2> QED
    BY <2>1, NextStore
<1> QED
  BY <1>1, <1>2, Invariance, LoopInvariance, PTL DEF Spec, StoreSpec, Store!Spec

\* What is proved of the journal, about this journal.
StoreFacts == INSTANCE JobStoreProofs WITH
  Connections <- Sessions,
  Deadlines <- Lifetime .. MaxNow,
  conn <- [s \in Sessions |-> Connection(s)]

(* So what JobStore guarantees any callers holds of the sessions' journal: *)
(* a row moves along NEXT_STATES only, and recorded evidence is never      *)
(* replaced (jobs.py:24-31, 255-312).                                      *)
THEOREM JournalKept == Spec => (/\ Store!FollowsStateGraph
                                /\ Store!EvidenceFrozen)
<1>1. StoreFacts!Spec => StoreFacts!FollowsStateGraph
  BY CallbackAssumption, CoordinatorAssumption, StoreFacts!StateGraphKept
<1>2. StoreFacts!Spec => StoreFacts!EvidenceFrozen
  BY CallbackAssumption, CoordinatorAssumption, StoreFacts!EvidenceKept
<1>3. Store!Init => StoreFacts!Init
  BY DEF Store!Init, StoreFacts!Init, Store!NoRow, StoreFacts!NoRow, Store!Idle, StoreFacts!Idle
<1>4. [Store!Next]_Store!vars => [StoreFacts!Next]_StoreFacts!vars
  BY DEF Store!Next, Store!vars, Store!CreateRequest, Store!AdvanceRead,
     Store!AdvanceWrite, Store!RecordResult, Store!RecordError, Store!ReconcileRead,
     Store!ReconcileWrite, Store!Close, Store!Idle, Store!NewRow, Store!CanAdvance,
     Store!NextStates, Store!AfterUpdate, Store!CanRecordResult,
     Store!CanRecordError, Store!Reconciled, Store!PreDispatch, Store!Resumable,
     Store!JobStates, Store!Errors,
     StoreFacts!Next, StoreFacts!vars, StoreFacts!CreateRequest,
     StoreFacts!AdvanceRead, StoreFacts!AdvanceWrite, StoreFacts!RecordResult,
     StoreFacts!RecordError, StoreFacts!ReconcileRead, StoreFacts!ReconcileWrite,
     StoreFacts!Close, StoreFacts!Idle, StoreFacts!NewRow, StoreFacts!CanAdvance,
     StoreFacts!NextStates, StoreFacts!AfterUpdate, StoreFacts!CanRecordResult,
     StoreFacts!CanRecordError, StoreFacts!Reconciled, StoreFacts!PreDispatch,
     StoreFacts!Resumable, StoreFacts!JobStates, StoreFacts!Errors
<1>5. StoreFacts!FollowsStateGraph => Store!FollowsStateGraph
  BY DEF StoreFacts!FollowsStateGraph, Store!FollowsStateGraph, StoreFacts!NextStates,
     Store!NextStates
<1>6. StoreFacts!EvidenceFrozen => Store!EvidenceFrozen
  BY DEF StoreFacts!EvidenceFrozen, Store!EvidenceFrozen
<1> QED
  BY <1>1, <1>2, <1>3, <1>4, <1>5, <1>6, ImplementsStore, PTL
     DEF StoreSpec, Store!Spec, StoreFacts!Spec
=============================================================================
