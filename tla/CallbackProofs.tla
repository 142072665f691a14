--------------------------- MODULE CallbackProofs ---------------------------
(***************************************************************************)
(* What becomes of a callback: a job called dispatched was accepted, the   *)
(* digest in the journal is that of the body in the inbox, and an answer   *)
(* stays ready.  For any sessions, jobs, bodies and deadlines, whatever    *)
(* fails, but for the one failure each theorem names.                      *)
(* Last, what one session keeps of the statements several do not.          *)
(***************************************************************************)
EXTENDS CoordinatorProofs, CoordinatorClaims

-----------------------------------------------------------------------------
(* Frames of which Knows says nothing.                                     *)
Plain(me) ==
  /\ me.pc \notin {"check", "fetch", "settle", "revalidate"}
  /\ ~Advancing(me, TRUE, {"dispatched", "ready", "failed"})
  /\ ~Advancing(me, FALSE, {"conflict"})

LEMMA PlainKnows ==
  ASSUME NEW row, NEW slot, NEW taken, NEW me, Plain(me)
  PROVE  Knows(row, slot, taken, me)
<1>1. /\ ~Advancing(me, TRUE, {"ready", "failed"})
      /\ ~Advancing(me, TRUE, {"dispatched", "ready"})
  BY DEF Plain, Advancing
<1> QED
  BY <1>1 DEF Plain, Knows

LEMMA PlainFrames ==
  /\ Plain(Idle)
  /\ \A h : /\ \A pc \in {"start", "register", "registered", "post", "posted",
                          "resume", "poll", "refetch"} : Plain(At(pc, h))
            /\ \A g \in {"failed", "uncertain"} : Plain(SettlesState(g, h))
            /\ Plain(Calls("dispatching", h))
  BY DEF Plain, Idle, At, SettlesState, Calls, Frame, Advancing

LEMMA PlainRaised == ASSUME NEW me PROVE Plain(Raised(me))
  BY PlainFrames DEF Raised

LEMMA PlainRefusal == ASSUME NEW me PROVE Plain(AfterRefusal(me))
<1>1. \/ AfterRefusal(me) = Idle
      \/ AfterRefusal(me) = SettlesState("failed", me.handlers)
      \/ AfterRefusal(me) = SettlesState("uncertain", me.handlers)
  BY DEF AfterRefusal
<1> QED
  BY <1>1, PlainFrames

LEMMA PlainAdvance == ASSUME NEW me PROVE Plain(AfterAdvance(me))
<1>1. \/ AfterAdvance(me) = Idle
      \/ AfterAdvance(me) = At("post", me.handlers)
      \/ AfterAdvance(me) = At("poll", me.handlers + 1)
  BY DEF AfterAdvance
<1> QED
  BY <1>1, PlainFrames

-----------------------------------------------------------------------------
(* A later row and slot of a job: what a coroutine knows stays true.       *)
Later(row, slot, newrow, newslot) ==
  /\ row.state \notin Early =>
       /\ newrow.state \notin Early
       /\ newrow.state = "dispatched" => row.state = "dispatched"
       /\ newrow.state = "ready" => row.state \in {"dispatched", "ready"}
  /\ row.error # "none" => newrow.error = row.error
  /\ row.digest # NoBody => newrow.digest = row.digest
  /\ Faithful /\ newslot.registered =>
       slot.registered /\ (slot.body # NoBody => newslot.body = slot.body)

LEMMA NotSentKnows ==
  ASSUME NEW old, NEW me, Fits(old, 0, me), NEW row, NEW slot, NEW taken
  PROVE  Knows(row, slot, taken, me)
<1>1. ~FollowsPost(me)
  BY DEF Fits
<1>2. Plain(me)
  BY <1>1 DEF Plain, FollowsPost, Advancing
<1> QED
  BY <1>2, PlainKnows

LEMMA LaterKnows ==
  ASSUME NEW row, NEW slot, NEW taken, NEW me, NEW sent, Fits(row, sent, me),
         Knows(row, slot, taken, me),
         NEW newrow, NEW newslot, Later(row, slot, newrow, newslot),
         NEW newtaken, taken => newtaken
  PROVE  Knows(newrow, newslot, newtaken, me)
<1>1. ASSUME \/ me.pc \in {"check", "fetch", "settle", "revalidate"}
             \/ Advancing(me, TRUE, {"ready", "failed"})
             \/ Advancing(me, FALSE, {"conflict"})
      PROVE  newrow.state \notin Early /\ row.state \notin Early
  BY <1>1 DEF Knows, Later
<1>2. ASSUME Advancing(me, FALSE, {"conflict"}), newrow.state = "dispatched"
      PROVE  newrow.error # "none"
  BY <1>1, <1>2 DEF Knows, Later
<1>3. ASSUME \/ me.pc \in {"check", "fetch", "settle"}
             \/ Advancing(me, TRUE, {"dispatched", "ready"})
      PROVE  newtaken \/ ~Direct
  BY <1>3 DEF Knows
<1>4. me.pc = "settle" => Kind[me.payload] # "opaque"
  BY DEF Knows
<1>5. ASSUME Faithful, newslot.registered, me.pc = "settle"
      PROVE  newslot.body = me.payload
  BY <1>5 DEF Knows, Later, Fits
<1>6. ASSUME Faithful, newslot.registered, me.pc = "revalidate"
      PROVE  newrow.digest = me.payload
  BY <1>6 DEF Knows, Later, Fits
<1>7. ASSUME Faithful, newslot.registered, Advancing(me, FALSE, {"conflict"})
      PROVE  /\ Rejectable(newslot.body)
             /\ newrow.state \in {"dispatched", "ready"} => newrow.error = "invalid_result"
  <2>1. slot.registered /\ Rejectable(slot.body)
    BY <1>7 DEF Knows, Later
  <2>2. newslot.body = slot.body
    BY <1>7, <2>1 DEF Later, Rejectable
  <2> QED
    BY <1>1, <1>7, <2>1, <2>2 DEF Knows, Later
<1> QED
  BY <1>1, <1>2, <1>3, <1>4, <1>5, <1>6, <1>7 DEF Knows

LEMMA SameIsLater == ASSUME NEW row, NEW slot PROVE Later(row, slot, row, slot)
  BY DEF Later

-----------------------------------------------------------------------------
LEMMA InitCInv == Init => CInv
<1> SUFFICES ASSUME Init PROVE CInv
  OBVIOUS
<1>1. ASSUME NEW c \in Coroutines
      PROVE  Knows(rows[JobOf(c)], slots[JobOf(c)], JobOf(c) \in accepted, co[c])
  <2>1. co[c] = Idle
    BY DEF Init
  <2> QED
    BY <2>1, PlainFrames, PlainKnows
<1>2. ASSUME NEW j \in Jobs PROVE Agrees(rows[j], slots[j], j \in accepted, posts[j], now)
  BY DEF Init, Agrees, NoRow, NoSlot
<1> QED
  BY <1>1, <1>2 DEF CInv

\* What the invariants say of a coroutine at work.
LEMMA Informed ==
  ASSUME IInv, CInv, NEW c \in Coroutines
  PROVE  /\ Knows(rows[JobOf(c)], slots[JobOf(c)], JobOf(c) \in accepted, co[c])
         /\ Agrees(rows[JobOf(c)], slots[JobOf(c)], JobOf(c) \in accepted,
                   posts[JobOf(c)], now)
         /\ slots[JobOf(c)] \in Slot
  BY Coroutines3 DEF CInv, IInv, TypeOK

(* A step of coroutine c that turns its job's row into new, its slot into  *)
(* slot and its POSTs into n.                                              *)
LEMMA InformedStep ==
  ASSUME IInv, CInv, NEW c \in Coroutines, NEW me, co' = [co EXCEPT ![c] = me],
         NEW new, rows' = [rows EXCEPT ![JobOf(c)] = new],
         NEW slot, slots' = [slots EXCEPT ![JobOf(c)] = slot],
         NEW n, posts' = [posts EXCEPT ![JobOf(c)] = n],
         UNCHANGED <<accepted, now>>,
         posts[JobOf(c)] = 0 \/ Later(rows[JobOf(c)], slots[JobOf(c)], new, slot),
         Knows(new, slot, JobOf(c) \in accepted, me),
         Agrees(new, slot, JobOf(c) \in accepted, n, now)
  PROVE  CInv'
<1> DEFINE j == JobOf(c)
<1>1. j \in Jobs
  BY Coroutines3
<1>2. \A d \in Coroutines : co'[d] = IF d = c THEN me ELSE co[d]
  BY DEF IInv, TypeOK
<1>3. \A k \in Jobs : /\ rows'[k] = IF k = j THEN new ELSE rows[k]
                      /\ slots'[k] = IF k = j THEN slot ELSE slots[k]
                      /\ posts'[k] = IF k = j THEN n ELSE posts[k]
  BY <1>1 DEF IInv, TypeOK
<1>4. ASSUME NEW d \in Coroutines
      PROVE  Knows(rows'[JobOf(d)], slots'[JobOf(d)], JobOf(d) \in accepted', co'[d])
  <2>1. JobOf(d) \in Jobs /\ Fits(rows[JobOf(d)], posts[JobOf(d)], co[d])
        /\ Knows(rows[JobOf(d)], slots[JobOf(d)], JobOf(d) \in accepted, co[d])
    BY Informed, AtWork
  <2>2. CASE d = c
    BY <1>1, <1>2, <1>3, <2>2
  <2>3. CASE d # c /\ JobOf(d) # j
    BY <1>2, <1>3, <2>1, <2>3
  <2>4. CASE d # c /\ JobOf(d) = j
    <3>1. /\ co'[d] = co[d] /\ rows'[JobOf(d)] = new /\ slots'[JobOf(d)] = slot
          /\ Fits(rows[j], posts[j], co[d])
          /\ Knows(rows[j], slots[j], j \in accepted, co[d])
      BY <1>1, <1>2, <1>3, <2>1, <2>4
    <3>2. CASE posts[j] = 0
      <4>1. Fits(rows[j], 0, co[d])
        BY <3>1, <3>2
      <4> QED
        BY <3>1, <4>1, <2>4, NotSentKnows
    <3>3. CASE Later(rows[j], slots[j], new, slot)
      BY <3>1, <3>3, <2>4, LaterKnows
    <3> QED
      BY <3>2, <3>3
  <2> QED
    BY <2>2, <2>3, <2>4
<1>5. ASSUME NEW k \in Jobs
      PROVE  Agrees(rows'[k], slots'[k], k \in accepted', posts'[k], now')
  <2>1. Agrees(rows[k], slots[k], k \in accepted, posts[k], now)
    BY DEF CInv
  <2> QED
    BY <1>1, <1>3, <2>1
<1> QED
  BY <1>4, <1>5 DEF CInv, JobOf

(* A step that only moves a coroutine.                                     *)
LEMMA InformedMove ==
  ASSUME IInv, CInv, NEW c \in Coroutines, NEW me, Goes(c, me),
         UNCHANGED <<rows, session, resumable, slots, posts, accepted, orphans, now, answers>>,
         Plain(me) \/ Knows(rows[JobOf(c)], slots[JobOf(c)], JobOf(c) \in accepted, me)
  PROVE  CInv'
<1> DEFINE j == JobOf(c)
<1>1. j \in Jobs
  BY Coroutines3
<1>2. /\ rows' = [rows EXCEPT ![j] = rows[j]]
      /\ slots' = [slots EXCEPT ![j] = slots[j]]
      /\ posts' = [posts EXCEPT ![j] = posts[j]]
      /\ co' = [co EXCEPT ![c] = me]
  BY <1>1 DEF IInv, TypeOK, Goes
<1>3. Knows(rows[j], slots[j], j \in accepted, me)
  BY PlainKnows
<1> QED
  BY <1>2, <1>3, Informed, SameIsLater, InformedStep

-----------------------------------------------------------------------------
(* The dispatch.                                                           *)
LEMMA DispatchesInformed ==
  ASSUME IInv, CInv, NEW c \in Coroutines, Dispatches(c) PROVE CInv'
<1> DEFINE j == JobOf(c)
<1>1. CASE BeginDispatch(c)
  <2>1. PICK me \in {At("register", co[c].handlers), Raised(co[c])} : Goes(c, me)
    BY <1>1 DEF BeginDispatch
  <2>2. Plain(me)
    BY <2>1, PlainFrames, PlainRaised
  <2> QED
    BY <1>1, <2>1, <2>2, InformedMove DEF BeginDispatch
<1>2. CASE RegisterArrives(c)
  <2> DEFINE me == At("registered", co[c].handlers)
             slot == Expected(rows[j].deadline)
  <2>1. /\ co' = [co EXCEPT ![c] = me]
        /\ slots' = [slots EXCEPT ![j] = slot]
        /\ co[c].pc = "register"
    BY <1>2 DEF RegisterArrives, Goes
  <2>2. /\ rows' = [rows EXCEPT ![j] = rows[j]]
        /\ posts' = [posts EXCEPT ![j] = posts[j]]
        /\ UNCHANGED <<accepted, now>>
    BY <1>2, Coroutines3 DEF RegisterArrives, IInv, TypeOK
  <2>3. posts[j] = 0 /\ RowConsistent(j)
    BY <2>1, Sending, AtWork
  <2>4. Knows(rows[j], slot, j \in accepted, me)
    BY PlainKnows, PlainFrames
  <2>5. Agrees(rows[j], slots[j], j \in accepted, posts[j], now)
    BY Informed
  <2>6. Agrees(rows[j], slot, j \in accepted, posts[j], now)
    BY <2>3, <2>5 DEF Agrees, RowConsistent, Expected
  <2> HIDE DEF me, slot
  <2> QED
    BY <2>1, <2>2, <2>3, <2>4, <2>6, InformedStep
<1>3. CASE RegisterReturns(c)
  BY <1>3, PlainFrames, InformedMove DEF RegisterReturns
<1>4. CASE RegisterFails(c)
  BY <1>4, PlainFrames, InformedMove DEF RegisterFails
<1>5. CASE PostRefused(c)
  BY <1>5, PlainFrames, InformedMove DEF PostRefused
<1>6. CASE PostSends(c)
  <2> DEFINE me == At("posted", co[c].handlers)
  <2>1. /\ co' = [co EXCEPT ![c] = me]
        /\ posts' = [posts EXCEPT ![j] = posts[j] + 1]
    BY <1>6 DEF PostSends, Goes
  <2>2. /\ rows' = [rows EXCEPT ![j] = rows[j]]
        /\ slots' = [slots EXCEPT ![j] = slots[j]]
        /\ UNCHANGED <<accepted, now>>
    BY <1>6, Coroutines3 DEF PostSends, IInv, TypeOK
  <2>3. Knows(rows[j], slots[j], j \in accepted, me)
    BY PlainKnows, PlainFrames
  <2>4. Agrees(rows[j], slots[j], j \in accepted, posts[j] + 1, now)
    BY Informed, AtWork DEF Agrees
  <2> HIDE DEF me
  <2> QED
    BY <2>1, <2>2, <2>3, <2>4, SameIsLater, InformedStep
<1>7. CASE PostReturns(c)
  <2> DEFINE me == Calls("dispatched", co[c].handlers)
  <2>1. me.pc = "advance" /\ me.hard = TRUE /\ me.goal = "dispatched"
    BY DEF Calls, Frame
  <2>2. j \in accepted \/ ~Direct
    BY <1>7 DEF PostReturns, Direct
  <2>3. Goes(c, me)
    BY <1>7 DEF PostReturns
  <2> HIDE DEF me
  <2>4. Knows(rows[j], slots[j], j \in accepted, me)
    BY <2>1, <2>2 DEF Knows, Advancing
  <2> QED
    BY <1>7, <2>3, <2>4, InformedMove DEF PostReturns
<1>8. CASE PostUncertain(c)
  BY <1>8, PlainFrames, InformedMove DEF PostUncertain
<1> QED
  BY <1>1, <1>2, <1>3, <1>4, <1>5, <1>6, <1>7, <1>8 DEF Dispatches

(* Waiting for the callback, and what is made of it.                       *)
LEMMA PollsInformed ==
  ASSUME IInv, CInv, NEW c \in Coroutines,
         BeginPoll(c) \/ CheckDeadline(c) \/ FetchStored(c) \/ FetchNothing(c)
  PROVE  CInv'
<1> DEFINE j == JobOf(c)
<1>1. /\ Knows(rows[j], slots[j], j \in accepted, co[c])
      /\ Agrees(rows[j], slots[j], j \in accepted, posts[j], now)
  BY Informed
<1>2. ASSUME NEW pc \in {"check", "fetch"}, Goes(c, At(pc, co[c].handlers)),
             UNCHANGED <<rows, session, resumable, slots, posts, accepted, orphans, now, answers>>,
             rows[j].state \notin Early, j \in accepted \/ ~Direct
      PROVE  CInv'
  <2> DEFINE me == At(pc, co[c].handlers)
  <2>1. me.pc = pc
    BY DEF At, Frame
  <2> HIDE DEF me
  <2>2. Knows(rows[j], slots[j], j \in accepted, me)
    BY <1>2, <2>1 DEF Knows, Advancing
  <2> QED
    BY <1>2, <2>2, InformedMove DEF me
<1>3. CASE BeginPoll(c)
  <2>1. CASE rows[j].state = "dispatched"
    <3>1. rows[j].state \notin Early /\ (j \in accepted \/ ~Direct)
      BY <1>1, <2>1 DEF Agrees, Early
    <3> QED
      BY <1>2, <1>3, <2>1, <3>1 DEF BeginPoll
  <2>2. CASE rows[j].state # "dispatched"
    BY <1>3, <2>2, PlainFrames, InformedMove DEF BeginPoll
  <2> QED
    BY <2>1, <2>2
<1>4. CASE CheckDeadline(c)
  <2>1. rows[j].state \notin Early /\ (j \in accepted \/ ~Direct)
    BY <1>1, <1>4 DEF CheckDeadline, Runs, Knows
  <2>2. CASE now >= rows[j].deadline
    BY <1>4, <2>2, PlainFrames, InformedMove DEF CheckDeadline
  <2>3. CASE ~(now >= rows[j].deadline)
    BY <1>2, <1>4, <2>1, <2>3 DEF CheckDeadline
  <2> QED
    BY <2>2, <2>3
<1>5. CASE FetchNothing(c)
  <2>1. rows[j].state \notin Early /\ (j \in accepted \/ ~Direct)
    BY <1>1, <1>5 DEF FetchNothing, Knows
  <2> QED
    BY <1>2, <1>5, <2>1 DEF FetchNothing
<1>6. CASE FetchStored(c)
  <2> DEFINE me == [At("settle", co[c].handlers) EXCEPT !.payload = slots[j].body]
  <2>1. me.pc = "settle" /\ me.payload = slots[j].body
    BY DEF At, Frame
  <2>2. rows[j].state \notin Early /\ (j \in accepted \/ ~Direct)
    BY <1>1, <1>6 DEF FetchStored, Knows
  <2>3. Kind[slots[j].body] # "opaque" /\ Goes(c, me)
    BY <1>6 DEF FetchStored, CanBeRead
  <2> HIDE DEF me
  <2>4. Knows(rows[j], slots[j], j \in accepted, me)
    BY <2>1, <2>2, <2>3 DEF Knows, Advancing
  <2> QED
    BY <1>6, <2>3, <2>4, InformedMove DEF FetchStored
<1> QED
  BY <1>3, <1>4, <1>5, <1>6

\* A verdict other than invalid holds on, and invalid was so before.
LEMMA VerdictsKeep ==
  ASSUME NEW b \in Bodies, NEW t \in Nat, NEW u \in Nat, t <= u
  PROVE  /\ Verdict(b, t) # "invalid" => Verdict(b, u) = Verdict(b, t)
         /\ Verdict(b, u) = "invalid" => Verdict(b, t) = "invalid"
  BY CoordinatorAssumption DEF Verdict

(* The evidence a dispatched row may gain.                                 *)
LEMMA RecordInformed ==
  ASSUME IInv, CInv, NEW c \in Coroutines, NEW me, Goes(c, me),
         NEW new, rows' = [rows EXCEPT ![JobOf(c)] = new],
         UNCHANGED <<session, resumable, slots, posts, accepted, orphans, now, answers>>,
         new.state = rows[JobOf(c)].state,
         rows[JobOf(c)].error # "none" => new.error = rows[JobOf(c)].error,
         rows[JobOf(c)].digest # NoBody => new.digest = rows[JobOf(c)].digest,
         Knows(new, slots[JobOf(c)], JobOf(c) \in accepted, me),
         Agrees(new, slots[JobOf(c)], JobOf(c) \in accepted, posts[JobOf(c)], now)
  PROVE  CInv'
<1> DEFINE j == JobOf(c)
<1>1. j \in Jobs
  BY Coroutines3
<1>2. /\ slots' = [slots EXCEPT ![j] = slots[j]]
      /\ posts' = [posts EXCEPT ![j] = posts[j]]
      /\ co' = [co EXCEPT ![c] = me]
  BY <1>1 DEF IInv, TypeOK, Goes
<1>3. Later(rows[j], slots[j], new, slots[j])
  BY DEF Later
<1> QED
  BY <1>2, <1>3, InformedStep

\* What a coroutine that settles its job knows.
LEMMA Settling ==
  ASSUME IInv, CInv, NEW c \in Coroutines, co[c].pc = "settle"
  PROVE  /\ JobOf(c) \in Jobs /\ rows[JobOf(c)] \in Row /\ now \in Nat
         /\ rows[JobOf(c)].state \notin Early
         /\ JobOf(c) \in accepted \/ ~Direct
         /\ posts[JobOf(c)] > 0
         /\ co[c].payload \in Bodies /\ Kind[co[c].payload] # "opaque"
         /\ Faithful /\ slots[JobOf(c)].registered =>
              slots[JobOf(c)].body = co[c].payload
<1>1. co[c].payload \in Bodies
  BY AtWork DEF Fits, Coroutine, OptionalBody
<1> QED
  BY <1>1, AtWork, Informed, Following DEF Knows, IInv, TypeOK

LEMMA SettleInvalidInformed ==
  ASSUME IInv, CInv, NEW c \in Coroutines, SettleInvalid(c) PROVE CInv'
<1> DEFINE j == JobOf(c)
           me == SettlesState("conflict", co[c].handlers)
           new == IF CanRecordError(rows[j])
                    THEN [rows[j] EXCEPT !.error = "invalid_result"] ELSE rows[j]
<1>1. co[c].pc = "settle" /\ Verdict(co[c].payload, now) = "invalid"
  BY DEF SettleInvalid, Runs
<1>2. Goes(c, me) /\ rows' = [rows EXCEPT ![j] = new]
  BY AtWork DEF SettleInvalid, IInv, TypeOK
<1>3. /\ new.state = rows[j].state /\ new.digest = rows[j].digest
      /\ rows[j].error # "none" => new.error = rows[j].error
      /\ new.state = "dispatched" => new.error # "none"
      /\ new.error = "worker" => rows[j].error = "worker"
      /\ new.error \in Errors
  BY <1>1, Settling DEF CanRecordError, Row, Errors
<1>4. Agrees(rows[j], slots[j], j \in accepted, posts[j], now)
  BY Informed
<1>5. ASSUME Faithful, slots[j].registered
      PROVE  /\ Rejectable(slots[j].body)
             /\ new.state \in {"dispatched", "ready"} => new.error = "invalid_result"
  <2>1. slots[j].body = co[c].payload /\ co[c].payload \in Bodies
    BY <1>1, <1>5, Settling
  <2>2. Verdict(co[c].payload, 0) = "invalid"
    BY <1>1, <2>1, Settling, VerdictsKeep
  <2>3. Rejectable(slots[j].body)
    BY <1>1, <2>1, <2>2, Settling, CallbackAssumption DEF Rejectable
  <2>4. new.error # "worker"
    BY <1>1, <1>3, <1>4, <1>5, <2>1 DEF Agrees
  <2>5. rows[j].digest = NoBody
    BY <1>1, <1>4, <1>5, <2>1 DEF Agrees
  <2>6. new.state # "ready"
    BY <1>3, <2>5, AtWork DEF RowConsistent
  <2> QED
    BY <1>3, <2>3, <2>4, <2>6 DEF Errors
<1>6. me.pc = "advance" /\ me.hard = FALSE /\ me.goal = "conflict"
  BY DEF SettlesState, Frame
<1> HIDE DEF me, new
<1>7. Knows(new, slots[j], j \in accepted, me)
  BY <1>1, <1>3, <1>5, <1>6, Settling DEF Knows, Advancing
<1>8. Agrees(new, slots[j], j \in accepted, posts[j], now)
  BY <1>3, <1>4 DEF Agrees
<1> QED
  BY <1>2, <1>3, <1>7, <1>8, RecordInformed DEF SettleInvalid

LEMMA SettleOkInformed ==
  ASSUME IInv, CInv, NEW c \in Coroutines, SettleOk(c) PROVE CInv'
<1> DEFINE j == JobOf(c)
           me == Calls("ready", co[c].handlers)
           new == [rows[j] EXCEPT !.digest = co[c].payload]
<1>1. co[c].pc = "settle" /\ Verdict(co[c].payload, now) = "ok"
  BY DEF SettleOk, Runs
<1>2. CASE ~CanRecordResult(rows[j])
  BY <1>2, PlainFrames, InformedMove DEF SettleOk
<1>3. CASE CanRecordResult(rows[j])
  <2>1. Goes(c, me) /\ rows' = [rows EXCEPT ![j] = new]
    BY <1>3, AtWork DEF SettleOk, IInv, TypeOK
  <2>2. /\ new.state = rows[j].state /\ new.digest = co[c].payload
        /\ new.error = rows[j].error
        /\ rows[j].state = "dispatched" /\ rows[j].digest = NoBody
    BY <1>1, <1>3, Settling DEF CanRecordResult, Row
  <2>3. me.pc = "advance" /\ me.hard = TRUE /\ me.goal = "ready"
    BY DEF Calls, Frame
  <2>4. Agrees(rows[j], slots[j], j \in accepted, posts[j], now)
    BY Informed
  <2> HIDE DEF me, new
  <2>5. Knows(new, slots[j], j \in accepted, me)
    BY <1>1, <2>2, <2>3, Settling DEF Knows, Advancing
  <2>6. Agrees(new, slots[j], j \in accepted, posts[j], now)
    BY <1>1, <2>2, <2>4, Settling DEF Agrees
  <2> QED
    BY <2>1, <2>2, <2>5, <2>6, RecordInformed DEF SettleOk
<1> QED
  BY <1>2, <1>3

LEMMA SettleErrorInformed ==
  ASSUME IInv, CInv, NEW c \in Coroutines, SettleError(c) PROVE CInv'
<1> DEFINE j == JobOf(c)
           me == Calls("failed", co[c].handlers)
           new == [rows[j] EXCEPT !.error = "worker"]
<1>1. co[c].pc = "settle" /\ Verdict(co[c].payload, now) = "error"
  BY DEF SettleError, Runs
<1>2. CASE ~CanRecordError(rows[j])
  BY <1>2, PlainFrames, InformedMove DEF SettleError
<1>3. CASE CanRecordError(rows[j])
  <2>1. Goes(c, me) /\ rows' = [rows EXCEPT ![j] = new]
    BY <1>3, AtWork DEF SettleError, IInv, TypeOK
  <2>2. /\ new.state = rows[j].state /\ new.digest = rows[j].digest
        /\ new.error = "worker"
        /\ rows[j].state = "dispatched" /\ rows[j].error = "none"
    BY <1>1, <1>3, Settling DEF CanRecordError, Row
  <2>3. me.pc = "advance" /\ me.hard = TRUE /\ me.goal = "failed"
    BY DEF Calls, Frame
  <2>4. Agrees(rows[j], slots[j], j \in accepted, posts[j], now)
    BY Informed
  <2> HIDE DEF me, new
  <2>5. Knows(new, slots[j], j \in accepted, me)
    BY <1>1, <2>2, <2>3, Settling DEF Knows, Advancing
  <2>6. Agrees(new, slots[j], j \in accepted, posts[j], now)
    BY <1>1, <2>2, <2>4, Settling, CallbackAssumption DEF Agrees
  <2> QED
    BY <2>1, <2>2, <2>5, <2>6, RecordInformed DEF SettleError
<1> QED
  BY <1>2, <1>3

LEMMA RaisesInformed ==
  ASSUME IInv, CInv, NEW c \in Coroutines, Disturbs(c) \/ SettleUnwritable(c) PROVE CInv'
  BY PlainRaised, InformedMove DEF Disturbs, ClientRaises, JournalRaises, SettleUnwritable

-----------------------------------------------------------------------------
(* store.advance.                                                          *)
LEMMA AdvanceReadInformed ==
  ASSUME IInv, CInv, NEW c \in Coroutines, AdvanceRead(c) PROVE CInv'
<1> DEFINE j == JobOf(c)
           me == [co[c] EXCEPT !.pc = "cas", !.seen = rows[j].state]
<1>1. co[c].pc = "advance"
  BY DEF AdvanceRead, Runs
<1>2. CASE CanAdvance(rows[j], co[c].goal)
  <2>1. Goes(c, me)
    BY <1>2 DEF AdvanceRead
  <2>2. me.pc = "cas" /\ me.goal = co[c].goal /\ me.hard = co[c].hard
    BY AtWork DEF Coroutine
  <2> HIDE DEF me
  <2>3. Knows(rows[j], slots[j], j \in accepted, me)
    BY <1>1, <2>2, Informed DEF Knows, Advancing
  <2> QED
    BY <2>1, <2>3, InformedMove DEF AdvanceRead
<1>3. CASE ~CanAdvance(rows[j], co[c].goal)
  BY <1>3, PlainRefusal, InformedMove DEF AdvanceRead
<1> QED
  BY <1>2, <1>3

\* No transition leads a row back.
LEMMA Onward ==
  ASSUME NEW state \in RowStates, NEW goal \in NextStates[state]
  PROVE  /\ goal # "absent" /\ goal # "queued"
         /\ state \notin Early => goal \notin Early /\ goal # "dispatched"
         /\ goal = "ready" => state = "dispatched"
  BY DEF NextStates, RowStates, JobStates, Early

LEMMA AdvanceWriteInformed ==
  ASSUME IInv, CInv, NEW c \in Coroutines, AdvanceWrite(c) PROVE CInv'
<1> DEFINE j == JobOf(c)
           new == [rows[j] EXCEPT !.state = co[c].goal]
           me == AfterAdvance(co[c])
<1>1. co[c].pc = "cas"
  BY DEF AdvanceWrite, Runs
<1>2. CASE rows[j].state # co[c].seen
  BY <1>2, PlainRefusal, InformedMove DEF AdvanceWrite
<1>3. CASE rows[j].state = co[c].seen
  <2>1. /\ rows' = [rows EXCEPT ![j] = new] /\ co' = [co EXCEPT ![c] = me]
        /\ slots' = [slots EXCEPT ![j] = slots[j]]
        /\ posts' = [posts EXCEPT ![j] = posts[j]]
        /\ UNCHANGED <<accepted, now>>
    BY <1>3, AtWork DEF AdvanceWrite, Goes, IInv, TypeOK
  <2>2. co[c].goal \in NextStates[rows[j].state] /\ rows[j].state \in RowStates
    BY <1>1, <1>3, AtWork DEF Fits, Row
  <2>3. /\ new.state = co[c].goal
        /\ new.digest = rows[j].digest /\ new.error = rows[j].error
    BY AtWork DEF Row
  <2>4. Later(rows[j], slots[j], new, slots[j])
    BY <2>2, <2>3, Onward DEF Later
  <2>5. Knows(new, slots[j], j \in accepted, me)
    BY PlainAdvance, PlainKnows
  <2>6. /\ Agrees(rows[j], slots[j], j \in accepted, posts[j], now)
        /\ Knows(rows[j], slots[j], j \in accepted, co[c])
    BY Informed
  <2>7. MaySend(co[c]) \/ FollowsPost(co[c]) \/ Advancing(co[c], FALSE, {"uncertain"})
    BY <1>1, AtWork DEF Fits
  <2>8. co[c].goal \in {"dispatched", "ready"} => Advancing(co[c], TRUE, {"dispatched", "ready"})
    BY <1>1, <2>7 DEF MaySend, FollowsPost, Advancing
  <2>9. co[c].goal = "conflict" => Advancing(co[c], FALSE, {"conflict"})
    BY <1>1, <2>7 DEF MaySend, FollowsPost, Advancing
  <2> HIDE DEF me, new
  <2>10. new.state \in {"dispatched", "ready"} => j \in accepted \/ ~Direct
    BY <2>3, <2>6, <2>8 DEF Knows
  <2>11. Faithful /\ slots[j].registered /\ new.state = "conflict" => Rejectable(slots[j].body)
    BY <2>3, <2>6, <2>9 DEF Knows
  <2>12. Agrees(new, slots[j], j \in accepted, posts[j], now)
    BY <2>3, <2>6, <2>10, <2>11 DEF Agrees
  <2> QED
    BY <2>1, <2>4, <2>5, <2>12, InformedStep
<1> QED
  BY <1>2, <1>3

-----------------------------------------------------------------------------
(* result().                                                               *)
LEMMA ReadResultInformed ==
  ASSUME IInv, CInv, NEW s \in Sessions, NEW j \in Jobs, ReadResult(s, j) PROVE CInv'
<1> DEFINE c == <<s, "reader", j>>
           me == [At("refetch", 0) EXCEPT !.digest = rows[j].digest]
<1>1. c \in Coroutines /\ Goes(c, me)
  BY Coroutines3 DEF ReadResult
<1>2. Plain(me)
  <2>1. me.pc = "refetch"
    BY DEF At, Frame
  <2> HIDE DEF me
  <2> QED
    BY <2>1 DEF Plain, Advancing
<1> HIDE DEF c, me
<1> QED
  BY <1>1, <1>2, InformedMove DEF ReadResult

LEMMA AnswersInformed ==
  ASSUME IInv, CInv, NEW c \in Coroutines, Answers(c) PROVE CInv'
<1> DEFINE j == JobOf(c)
<1>1. /\ Agrees(rows[j], slots[j], j \in accepted, posts[j], now)
      /\ Knows(rows[j], slots[j], j \in accepted, co[c])
  BY Informed
<1>2. CASE RefetchReturns(c)
  <2> DEFINE me == [co[c] EXCEPT !.pc = "revalidate", !.payload = slots[j].body]
  <2>1. me.pc = "revalidate" /\ me.payload = slots[j].body /\ Goes(c, me)
    BY <1>2, AtWork DEF RefetchReturns, Coroutine
  <2>2. rows[j].state \in {"ready", "conflict"} /\ rows[j].digest # NoBody
    BY <1>2, AtWork DEF RefetchReturns, Fits
  <2> HIDE DEF me
  <2>3. Knows(rows[j], slots[j], j \in accepted, me)
    BY <1>1, <2>1, <2>2 DEF Knows, Advancing, Agrees, Early
  <2> QED
    BY <1>2, <2>1, <2>3, InformedMove DEF RefetchReturns
<1>3. CASE RefetchFails(c)
  BY <1>3, PlainFrames, InformedMove DEF RefetchFails
<1>4. CASE Revalidate(c)
  <2>1. co[c].pc = "revalidate"
    BY <1>4 DEF Revalidate, Runs
  <2>2. /\ co[c].digest = rows[j].digest /\ rows[j].digest # NoBody
        /\ rows[j].state \in {"ready", "conflict"}
    BY <2>1, AtWork DEF Fits
  <2>3. /\ rows' = [rows EXCEPT ![j] = rows[j]]
        /\ slots' = [slots EXCEPT ![j] = slots[j]]
        /\ posts' = [posts EXCEPT ![j] = posts[j]]
        /\ UNCHANGED <<accepted, now>>
    BY <1>4, Coroutines3 DEF Revalidate, IInv, TypeOK
  <2>4. CASE Genuine(co[c], now)
    <3>1. co' = [co EXCEPT ![c] = Idle]
      BY <1>4, <2>4 DEF Revalidate, Goes
    <3> QED
      BY <1>1, <2>3, <3>1, PlainFrames, PlainKnows, SameIsLater, InformedStep
  <2>5. CASE ~Genuine(co[c], now)
    <3> DEFINE me == SettlesState("conflict", 0)
    <3>1. co' = [co EXCEPT ![c] = me]
      BY <1>4, <2>5 DEF Revalidate, Goes
    <3>2. me.pc = "advance" /\ me.hard = FALSE /\ me.goal = "conflict"
      BY DEF SettlesState, Frame
    <3> HIDE DEF me
    <3>3. ~(Faithful /\ slots[j].registered)
      BY <1>1, <2>1, <2>2, <2>5 DEF Knows, Agrees, Genuine
    <3>4. Knows(rows[j], slots[j], j \in accepted, me)
      BY <1>1, <2>1, <2>2, <3>2, <3>3 DEF Knows, Advancing, Early
    <3> QED
      BY <1>1, <2>3, <3>1, <3>4, SameIsLater, InformedStep
  <2> QED
    BY <2>4, <2>5
<1> QED
  BY <1>2, <1>3, <1>4 DEF Answers

-----------------------------------------------------------------------------
(* Sessions.                                                               *)
LEMMA StartInformed ==
  ASSUME IInv, CInv, NEW s \in Sessions, NEW j \in Jobs, Start(s, j) PROVE CInv'
<1> DEFINE c == Task(s, j)
           me == At("start", 1)
           new == NewRow(now + Lifetime)
<1>1. c \in Coroutines /\ JobOf(c) = j
  BY Coroutines3
<1>2. /\ rows' = [rows EXCEPT ![j] = new] /\ co' = [co EXCEPT ![c] = me]
      /\ slots' = [slots EXCEPT ![j] = slots[j]]
      /\ posts' = [posts EXCEPT ![j] = posts[j]]
      /\ UNCHANGED <<accepted, now>>
  BY DEF Start, Goes, IInv, TypeOK
<1>3. posts[j] = 0
  BY DEF Start, IInv, RowsConsistent, RowConsistent
<1>4. Knows(new, slots[j], j \in accepted, me)
  BY PlainFrames, PlainKnows
<1>5. Agrees(rows[j], slots[j], j \in accepted, posts[j], now)
  BY <1>1, Informed
<1>6. Agrees(new, slots[j], j \in accepted, posts[j], now)
  BY <1>3, <1>5 DEF Agrees, NewRow
<1> HIDE DEF c, me, new
<1> QED
  BY <1>1, <1>2, <1>3, <1>4, <1>6, InformedStep

(* Nothing but the coroutines changes, which end or stay.                  *)
LEMMA EndsInformed ==
  ASSUME IInv, CInv, UNCHANGED <<rows, slots, posts, accepted, now>>,
         \A c \in Coroutines : co'[c] \in {co[c], Idle}
  PROVE  CInv'
<1>1. ASSUME NEW c \in Coroutines
      PROVE  Knows(rows[JobOf(c)], slots[JobOf(c)], JobOf(c) \in accepted, co'[c])
  BY PlainFrames, PlainKnows, Informed
<1> QED
  BY <1>1 DEF CInv, JobOf

LEMMA SessionsInformed ==
  ASSUME IInv, CInv, NEW s \in Sessions, Open(s) \/ Crash(s) \/ Shutdown(s)
  PROVE  CInv'
<1>1. UNCHANGED <<rows, slots, posts, accepted, now>>
  BY DEF Open, Crash, Shutdown
<1>2. \A c \in Coroutines : co'[c] \in {co[c], Idle}
  BY DEF Open, Crash, Shutdown
<1> QED
  BY <1>1, <1>2, EndsInformed

LEMMA ReconcileInformed ==
  ASSUME IInv, CInv, NEW s \in Sessions, Reconcile(s) PROVE CInv'
<1>1. UNCHANGED <<slots, posts, accepted, now>>
  BY DEF Reconcile
<1>2. ASSUME NEW j \in Jobs
      PROVE  /\ rows'[j].digest = rows[j].digest /\ rows'[j].error = rows[j].error
             /\ rows'[j].state = rows[j].state \/ rows'[j].state = "uncertain"
             /\ rows[j].state \notin Early => rows'[j] = rows[j]
  BY DEF Reconcile, Reconciled, PreDispatch, Early, IInv, TypeOK, Row
<1>3. ASSUME NEW c \in Coroutines
      PROVE  Knows(rows'[JobOf(c)], slots[JobOf(c)], JobOf(c) \in accepted, co'[c])
  <2>1. JobOf(c) \in Jobs
    BY AtWork
  <2>2. Later(rows[JobOf(c)], slots[JobOf(c)], rows'[JobOf(c)], slots[JobOf(c)])
    BY <1>2, <2>1 DEF Later
  <2>3. co'[c] = co[c] \/ co'[c] = At("resume", 1)
    BY DEF Reconcile
  <2>4. CASE co'[c] = At("resume", 1)
    BY <2>4, PlainFrames, PlainKnows
  <2>5. CASE co'[c] = co[c]
    BY <2>2, <2>5, AtWork, Informed, LaterKnows
  <2> QED
    BY <2>3, <2>4, <2>5
<1>4. ASSUME NEW j \in Jobs
      PROVE  Agrees(rows'[j], slots[j], j \in accepted, posts[j], now)
  BY <1>2 DEF CInv, Agrees
<1> QED
  BY <1>1, <1>3, <1>4 DEF CInv, JobOf

-----------------------------------------------------------------------------
(* The environment.                                                        *)
LEMMA OutsideInformed ==
  ASSUME IInv, CInv, UNCHANGED <<rows, co>>,
         \A j \in Jobs :
           /\ Later(rows[j], slots[j], rows[j], slots'[j])
           /\ j \in accepted => j \in accepted'
           /\ Agrees(rows[j], slots'[j], j \in accepted', posts'[j], now')
  PROVE  CInv'
<1>1. ASSUME NEW c \in Coroutines
      PROVE  Knows(rows[JobOf(c)], slots'[JobOf(c)], JobOf(c) \in accepted', co[c])
  <2>1. /\ JobOf(c) \in Jobs
        /\ Fits(rows[JobOf(c)], posts[JobOf(c)], co[c])
        /\ Knows(rows[JobOf(c)], slots[JobOf(c)], JobOf(c) \in accepted, co[c])
    BY AtWork, Informed
  <2>2. /\ Later(rows[JobOf(c)], slots[JobOf(c)], rows[JobOf(c)], slots'[JobOf(c)])
        /\ JobOf(c) \in accepted => JobOf(c) \in accepted'
    BY <2>1
  <2> QED
    BY <2>1, <2>2, LaterKnows
<1> QED
  BY <1>1 DEF CInv, JobOf

LEMMA EnvironmentInformed ==
  ASSUME IInv, CInv,
         \/ \E j \in Jobs : OrphanPosts(j) \/ WebhookAccepts(j)
         \/ \E j \in Jobs, b \in Bodies : WorkerSubmits(j, b) \/ InboxChanges(j, b)
         \/ InboxRestarts
         \/ Tick
         \/ UNCHANGED vars
  PROVE  CInv'
<1>1. \A j \in Jobs : /\ Agrees(rows[j], slots[j], j \in accepted, posts[j], now)
                      /\ posts[j] \in Nat /\ slots[j] \in Slot
                      /\ rows[j].digest \in OptionalBody
  BY DEF CInv, IInv, TypeOK, Row
<1>2. ASSUME NEW j \in Jobs, OrphanPosts(j) \/ WebhookAccepts(j) PROVE CInv'
  <2>1. UNCHANGED <<rows, co, slots, now>> /\ accepted \subseteq accepted'
    BY <1>2 DEF OrphanPosts, WebhookAccepts
  <2>2. ASSUME NEW k \in Jobs
        PROVE  Agrees(rows[k], slots[k], k \in accepted', posts'[k], now)
    BY <1>1, <1>2 DEF OrphanPosts, WebhookAccepts, Agrees, IInv, TypeOK
  <2> QED
    BY <2>1, <2>2, SameIsLater, OutsideInformed
<1>3. ASSUME NEW j \in Jobs, NEW b \in Bodies, WorkerSubmits(j, b) PROVE CInv'
  <2>1. /\ UNCHANGED <<rows, co, posts, accepted, now>>
        /\ j \in accepted /\ slots[j].registered
    BY <1>3 DEF WorkerSubmits, InTime
  <2>2. \A k \in Jobs : slots'[k] = IF k = j THEN Offered(slots[j], b) ELSE slots[k]
    BY <1>3 DEF WorkerSubmits, IInv, TypeOK
  <2>3. /\ slots[j].body # NoBody => Offered(slots[j], b) = slots[j]
        /\ Offered(slots[j], b).registered
    BY <1>1, <2>1 DEF Offered, Slot
  <2>4. Later(rows[j], slots[j], rows[j], Offered(slots[j], b))
    BY <2>1, <2>3 DEF Later
  <2>5. Agrees(rows[j], Offered(slots[j], b), j \in accepted, posts[j], now)
    BY <1>1, <2>1, <2>3 DEF Agrees, Rejectable
  <2> QED
    BY <1>1, <2>1, <2>2, <2>4, <2>5, SameIsLater, OutsideInformed
<1>4. ASSUME NEW j \in Jobs, NEW b \in Bodies, InboxChanges(j, b) PROVE CInv'
  <2>1. /\ UNCHANGED <<rows, co, posts, accepted, now>>
        /\ ~Faithful /\ slots[j].body # NoBody
    BY <1>4 DEF InboxChanges, Faithful
  <2>2. \A k \in Jobs : /\ slots'[k].registered = slots[k].registered
                        /\ k # j => slots'[k] = slots[k]
    BY <1>1, <1>4 DEF InboxChanges, IInv, TypeOK, Slot
  <2>3. ASSUME NEW k \in Jobs
        PROVE  /\ Later(rows[k], slots[k], rows[k], slots'[k])
               /\ Agrees(rows[k], slots'[k], k \in accepted, posts[k], now)
    BY <1>1, <2>1, <2>2 DEF Later, Agrees
  <2> QED
    BY <2>1, <2>3, OutsideInformed
<1>5. CASE InboxRestarts
  <2>1. /\ UNCHANGED <<rows, co, posts, accepted, now>>
        /\ \A k \in Jobs : slots'[k] = NoSlot
    BY <1>5 DEF InboxRestarts
  <2>2. NoSlot.registered = FALSE /\ NoSlot.body = NoBody
    BY DEF NoSlot
  <2>3. ASSUME NEW k \in Jobs
        PROVE  /\ Later(rows[k], slots[k], rows[k], slots'[k])
               /\ Agrees(rows[k], slots'[k], k \in accepted, posts[k], now)
    BY <1>1, <2>1, <2>2 DEF Later, Agrees
  <2> QED
    BY <2>1, <2>3, OutsideInformed
<1>6. CASE Tick
  <2>1. UNCHANGED <<rows, co, slots, posts, accepted>> /\ now \in Nat /\ now' = now + 1
    BY <1>6 DEF Tick, IInv, TypeOK
  <2>2. \A b \in Bodies : Verdict(b, now) # "invalid" => Verdict(b, now') = Verdict(b, now)
    BY <2>1, VerdictsKeep
  <2>3. ASSUME NEW k \in Jobs
        PROVE  Agrees(rows[k], slots[k], k \in accepted, posts[k], now')
    <3>1. /\ rows[k].digest # NoBody => rows[k].digest \in Bodies
          /\ slots[k].body # NoBody => slots[k].body \in Bodies
      BY <1>1 DEF OptionalBody, Slot
    <3> QED
      BY <1>1, <2>2, <3>1 DEF Agrees
  <2> QED
    BY <2>1, <2>3, SameIsLater, OutsideInformed
<1>7. CASE UNCHANGED vars
  BY <1>1, <1>7, SameIsLater, OutsideInformed DEF vars
<1> QED
  BY <1>2, <1>3, <1>4, <1>5, <1>6, <1>7

-----------------------------------------------------------------------------
LEMMA NextCInv == IInv /\ CInv /\ [Next]_vars => CInv'
<1> SUFFICES ASSUME IInv, CInv, [Next]_vars PROVE CInv'
  OBVIOUS
<1>1. ASSUME NEW s \in Sessions, Open(s) \/ Reconcile(s) \/ Crash(s) \/ Shutdown(s)
      PROVE  CInv'
  BY <1>1, SessionsInformed, ReconcileInformed
<1>2. ASSUME NEW s \in Sessions, NEW j \in Jobs, Start(s, j) \/ ReadResult(s, j) PROVE CInv'
  BY <1>2, StartInformed, ReadResultInformed
<1>3. ASSUME NEW c \in Coroutines, Steps(c) \/ Disturbs(c) PROVE CInv'
  <2>1. CASE Waits(c)
    BY <2>1, PollsInformed, SettleInvalidInformed, SettleOkInformed, SettleErrorInformed,
       RaisesInformed DEF Waits
  <2>2. CASE Advances(c)
    BY <2>2, AdvanceReadInformed, AdvanceWriteInformed DEF Advances
  <2> QED
    BY <1>3, <2>1, <2>2, DispatchesInformed, AnswersInformed, RaisesInformed DEF Steps
<1> QED
  BY <1>1, <1>2, <1>3, EnvironmentInformed DEF Next

(* What every coroutine and row knows of its job's callback is true.       *)
THEOREM CallbackKnown == Spec => []CInv
  BY InitIInv, InitCInv, NextIInv, NextCInv, PTL DEF Spec

-----------------------------------------------------------------------------
(* How a row may change in one step: a request begins, a restart settles   *)
(* it, store.advance moves it, or a callback is recorded in it.            *)
Moves(j, c) ==
  /\ co[c].pc = "cas" /\ rows[j].state = co[c].seen
  /\ rows'[j] = [rows[j] EXCEPT !.state = co[c].goal]

RecordsOk(j, c) ==
  /\ co[c].pc = "settle" /\ Verdict(co[c].payload, now) = "ok"
  /\ rows'[j] = [rows[j] EXCEPT !.digest = co[c].payload]

RecordsError(j, c) ==
  /\ co[c].pc = "settle" /\ Verdict(co[c].payload, now) = "error"
  /\ rows'[j] = [rows[j] EXCEPT !.error = "worker"]

RecordsInvalid(j, c) ==
  /\ co[c].pc = "settle" /\ Verdict(co[c].payload, now) = "invalid"
  /\ rows'[j] = [rows[j] EXCEPT !.error = "invalid_result"]

RowChange(j) ==
  \/ rows'[j] = rows[j]
  \/ rows[j] = NoRow /\ rows'[j] = NewRow(now + Lifetime)
  \/ rows'[j] = Reconciled(rows[j])
  \/ \E c \in Coroutines :
        /\ JobOf(c) = j
        /\ Moves(j, c) \/ RecordsOk(j, c) \/ RecordsError(j, c) \/ RecordsInvalid(j, c)

LEMMA RowsChange ==
  ASSUME IInv, [Next]_vars, NEW j \in Jobs PROVE RowChange(j)
<1> DEFINE Same == rows'[j] = rows[j]
<1>1. ASSUME NEW s \in Sessions, Open(s) \/ Reconcile(s) \/ Crash(s) \/ Shutdown(s)
      PROVE  RowChange(j)
  BY <1>1 DEF Open, Reconcile, Crash, Shutdown, RowChange
<1>2. ASSUME NEW s \in Sessions, NEW k \in Jobs, Start(s, k) \/ ReadResult(s, k)
      PROVE  RowChange(j)
  <2>1. CASE ReadResult(s, k)
    BY <2>1 DEF ReadResult, RowChange
  <2>2. CASE Start(s, k)
    <3>1. rows[k] = NoRow
      BY <2>2 DEF Start, IInv, RowsConsistent, RowConsistent
    <3> QED
      BY <2>2, <3>1 DEF Start, RowChange, IInv, TypeOK
  <2> QED
    BY <1>2, <2>1, <2>2
<1>3. ASSUME NEW c \in Coroutines, Steps(c) \/ Disturbs(c) PROVE RowChange(j)
  <2>1. ASSUME NEW new, rows' = [rows EXCEPT ![JobOf(c)] = new]
        PROVE  rows'[j] = IF JobOf(c) = j THEN new ELSE rows[j]
    BY <2>1 DEF IInv, TypeOK
  <2>2. CASE SettleInvalid(c)
    <3> DEFINE new == [rows[JobOf(c)] EXCEPT !.error = "invalid_result"]
    <3>1. UNCHANGED rows \/ rows' = [rows EXCEPT ![JobOf(c)] = new]
      BY <2>2, AtWork DEF SettleInvalid, IInv, TypeOK
    <3>2. co[c].pc = "settle" /\ Verdict(co[c].payload, now) = "invalid"
      BY <2>2 DEF SettleInvalid, Runs
    <3> QED
      BY <2>1, <3>1, <3>2 DEF RowChange, RecordsInvalid
  <2>3. CASE SettleOk(c)
    <3> DEFINE new == [rows[JobOf(c)] EXCEPT !.digest = co[c].payload]
    <3>1. UNCHANGED rows \/ rows' = [rows EXCEPT ![JobOf(c)] = new]
      BY <2>3, AtWork DEF SettleOk, IInv, TypeOK
    <3>2. co[c].pc = "settle" /\ Verdict(co[c].payload, now) = "ok"
      BY <2>3 DEF SettleOk, Runs
    <3> QED
      BY <2>1, <3>1, <3>2 DEF RowChange, RecordsOk
  <2>4. CASE SettleError(c)
    <3> DEFINE new == [rows[JobOf(c)] EXCEPT !.error = "worker"]
    <3>1. UNCHANGED rows \/ rows' = [rows EXCEPT ![JobOf(c)] = new]
      BY <2>4, AtWork DEF SettleError, IInv, TypeOK
    <3>2. co[c].pc = "settle" /\ Verdict(co[c].payload, now) = "error"
      BY <2>4 DEF SettleError, Runs
    <3> QED
      BY <2>1, <3>1, <3>2 DEF RowChange, RecordsError
  <2>5. CASE AdvanceWrite(c)
    <3> DEFINE new == [rows[JobOf(c)] EXCEPT !.state = co[c].goal]
    <3>1. CASE rows[JobOf(c)].state = co[c].seen
      <4>1. rows' = [rows EXCEPT ![JobOf(c)] = new] /\ co[c].pc = "cas"
        BY <2>5, <3>1, AtWork DEF AdvanceWrite, Runs, IInv, TypeOK
      <4> QED
        BY <2>1, <3>1, <4>1 DEF RowChange, Moves
    <3>2. CASE rows[JobOf(c)].state # co[c].seen
      BY <2>5, <3>2 DEF AdvanceWrite, RowChange
    <3> QED
      BY <3>1, <3>2
  <2>6. CASE Dispatches(c)
    BY <2>6 DEF Dispatches, BeginDispatch, RegisterArrives, RegisterReturns, RegisterFails,
         PostRefused, PostSends, PostReturns, PostUncertain, RowChange
  <2>7. CASE \/ BeginPoll(c) \/ CheckDeadline(c) \/ FetchStored(c) \/ FetchNothing(c)
             \/ SettleUnwritable(c)
    BY <2>7 DEF BeginPoll, CheckDeadline, FetchStored, FetchNothing, SettleUnwritable, RowChange
  <2>8. CASE AdvanceRead(c) \/ Answers(c) \/ Disturbs(c)
    BY <2>8 DEF AdvanceRead, Answers, RefetchReturns, RefetchFails, Revalidate, Disturbs,
         ClientRaises, JournalRaises, RowChange
  <2> QED
    BY <1>3, <2>2, <2>3, <2>4, <2>5, <2>6, <2>7, <2>8 DEF Steps, Waits, Advances
<1>4. ASSUME NEW k \in Jobs, OrphanPosts(k) \/ WebhookAccepts(k) PROVE RowChange(j)
  BY <1>4 DEF OrphanPosts, WebhookAccepts, RowChange
<1>5. ASSUME NEW k \in Jobs, NEW b \in Bodies, WorkerSubmits(k, b) \/ InboxChanges(k, b)
      PROVE  RowChange(j)
  BY <1>5 DEF WorkerSubmits, InboxChanges, RowChange
<1>6. CASE InboxRestarts \/ Tick \/ UNCHANGED vars
  BY <1>6 DEF InboxRestarts, Tick, vars, RowChange
<1> QED
  BY <1>1, <1>2, <1>3, <1>4, <1>5, <1>6 DEF Next

\* A job that leaves ready, or goes from dispatched to conflict, is moved
\* by a coroutine that was told to.
LEMMA ConflictIsTold ==
  ASSUME IInv, [Next]_vars, NEW j \in Jobs,
         \/ rows[j].state = "ready" /\ rows'[j].state # "ready"
         \/ rows[j].state = "dispatched" /\ rows'[j].state = "conflict"
  PROVE  \E c \in Coroutines : JobOf(c) = j /\ Advancing(co[c], FALSE, {"conflict"})
<1>1. rows[j] \in Row /\ RowChange(j)
  BY RowsChange DEF IInv, TypeOK
<1>2. PICK c \in Coroutines : JobOf(c) = j /\ Moves(j, c)
  <2>1. \A c \in Coroutines :
          RecordsOk(j, c) \/ RecordsError(j, c) \/ RecordsInvalid(j, c) =>
            rows'[j].state = rows[j].state
    BY <1>1 DEF RecordsOk, RecordsError, RecordsInvalid, Row
  <2>2. /\ rows[j] # NoRow /\ rows'[j].state # rows[j].state
        /\ Reconciled(rows[j]) = rows[j]
    BY DEF NoRow, Reconciled, PreDispatch
  <2> QED
    BY <1>1, <2>1, <2>2 DEF RowChange
<1>3. co[c].pc = "cas" /\ co[c].goal = "conflict"
  <2>1. co[c].goal \in NextStates[rows[j].state] /\ rows'[j].state = co[c].goal
    BY <1>1, <1>2, AtWork DEF Moves, Fits, Row
  <2> QED
    BY <1>2, <2>1 DEF Moves, NextStates
<1>4. MaySend(co[c]) \/ FollowsPost(co[c]) \/ Advancing(co[c], FALSE, {"uncertain"})
  BY <1>3, AtWork DEF Fits
<1> QED
  BY <1>2, <1>3, <1>4 DEF MaySend, FollowsPost, Advancing

-----------------------------------------------------------------------------
(* A job the journal calls dispatched or ready was accepted by the         *)
(* webhook, if no redirect answers for it (coordinator.py:163-177).        *)
THEOREM DispatchedAccepted == Direct => (Spec => []DispatchedIsAccepted)
<1> SUFFICES ASSUME Direct PROVE Spec => []DispatchedIsAccepted
  OBVIOUS
<1>1. CInv => DispatchedIsAccepted
  BY DEF CInv, Agrees, DispatchedIsAccepted
<1> QED
  BY <1>1, CallbackKnown, PTL

(* For as long as the inbox keeps a job's slot, the digest in the journal  *)
(* is that of the body in it, if the inbox never shows another body        *)
(* (jobs.py, record_result; inbox.py, submit).                             *)
THEOREM DigestPinned == Faithful => (Spec => []DigestPinsStoredBody)
<1> SUFFICES ASSUME Faithful PROVE Spec => []DigestPinsStoredBody
  OBVIOUS
<1>1. CInv => DigestPinsStoredBody
  BY DEF CInv, Agrees, DigestPinsStoredBody
<1> QED
  BY <1>1, CallbackKnown, PTL

(* An answer that is ready is withdrawn only if the inbox lost it, or a    *)
(* session that judged it early had rejected it (coordinator.py:239-270).  *)
THEOREM ReadyKept == Faithful => (Spec => ReadyUntilLost)
<1> SUFFICES ASSUME Faithful PROVE Spec => ReadyUntilLost
  OBVIOUS
<1> DEFINE Withdrawn ==
      \A j \in Jobs : rows[j].state = "ready" /\ rows'[j].state # "ready" =>
        ~slots[j].registered \/ rows[j].error = "invalid_result"
<1>1. IInv /\ CInv /\ [Next]_vars => Withdrawn
  <2> SUFFICES ASSUME IInv, CInv, [Next]_vars, NEW j \in Jobs,
                      rows[j].state = "ready", rows'[j].state # "ready",
                      slots[j].registered
               PROVE  rows[j].error = "invalid_result"
    OBVIOUS
  <2>1. PICK c \in Coroutines : JobOf(c) = j /\ Advancing(co[c], FALSE, {"conflict"})
    BY ConflictIsTold
  <2> QED
    BY <2>1, Informed DEF Knows
<1>2. IInv /\ CInv /\ [Next]_vars => [Withdrawn]_rows
  BY <1>1
<1> QED
  BY <1>2, Invariance, CallbackKnown, PTL DEF Spec, ReadyUntilLost

(* A callback that is rejected while the journal may still record why has  *)
(* its reason recorded (coordinator.py:216-222).                           *)
THEOREM RejectionExplained == Spec => RejectionHasReason
<1> DEFINE Explained ==
      \A j \in Jobs : rows[j].state = "dispatched" /\ rows'[j].state = "conflict" =>
        rows[j].error # "none"
<1>1. IInv /\ CInv /\ [Next]_vars => Explained
  <2> SUFFICES ASSUME IInv, CInv, [Next]_vars, NEW j \in Jobs,
                      rows[j].state = "dispatched", rows'[j].state = "conflict"
               PROVE  rows[j].error # "none"
    OBVIOUS
  <2>1. PICK c \in Coroutines : JobOf(c) = j /\ Advancing(co[c], FALSE, {"conflict"})
    BY ConflictIsTold
  <2> QED
    BY <2>1, Informed DEF Knows
<1>2. IInv /\ CInv /\ [Next]_vars => [Explained]_rows
  BY <1>1
<1> QED
  BY <1>2, Invariance, CallbackKnown, PTL DEF Spec, RejectionHasReason

-----------------------------------------------------------------------------
(***************************************************************************)
(* What one session keeps: SoloInv, by one lemma per group of actions.     *)
(***************************************************************************)
LEMMA OnlyTask ==
  ASSUME Solo, NEW c \in Coroutines, RoleOf(c) = "task",
         NEW s \in Sessions, NEW j \in Jobs
  PROVE  Task(s, j) = c <=> JobOf(c) = j
<1>1. SessionOf(c) = s
  BY Coroutines3 DEF Solo
<1> QED
  BY <1>1, Roles2, Coroutines3

LEMMA AtLone ==
  ASSUME Solo, IInv, TInv, SoloInv, NEW c \in Coroutines
  PROVE  /\ RoleOf(c) = "task" => Unrivalled(rows[JobOf(c)], co[c], now)
         /\ \/ RoleOf(c) = "task" /\ TaskFits(rows[JobOf(c)], co[c])
            \/ RoleOf(c) = "reader" /\ ReaderFits(co[c])
         /\ Task(SessionOf(c), JobOf(c)) \in Coroutines
<1>1. JobOf(c) \in Jobs /\ SessionOf(c) \in Sessions
  BY Coroutines3
<1> QED
  BY <1>1, Roles2, Coroutines3 DEF SoloInv, TInv, RoleFits

(* A step of a task that turns its job's row into new.                     *)
LEMMA LoneStep ==
  ASSUME Solo, IInv, TInv, SoloInv, NEW c \in Coroutines, RoleOf(c) = "task",
         NEW me, Goes(c, me), NEW new, rows' = [rows EXCEPT ![JobOf(c)] = new],
         UNCHANGED now, Unrivalled(new, me, now)
  PROVE  SoloInv'
<1> SUFFICES ASSUME NEW s \in Sessions, NEW j \in Jobs
             PROVE  Unrivalled(rows'[j], co'[Task(s, j)], now)
  BY DEF SoloInv, Task
<1>1. /\ Task(s, j) \in Coroutines /\ Unrivalled(rows[j], co[Task(s, j)], now)
      /\ Task(s, j) = c <=> JobOf(c) = j
  BY OnlyTask, Coroutines3 DEF SoloInv
<1>2. rows'[j] = IF JobOf(c) = j THEN new ELSE rows[j]
  BY DEF IInv, TypeOK
<1>3. co'[Task(s, j)] = IF Task(s, j) = c THEN me ELSE co[Task(s, j)]
  BY <1>1 DEF Goes, IInv, TypeOK
<1> QED
  BY <1>1, <1>2, <1>3

(* A step that leaves the rows alone and moves no coroutine or one.        *)
LEMMA LoneMove ==
  ASSUME Solo, IInv, TInv, SoloInv, NEW c \in Coroutines, NEW me, Goes(c, me),
         UNCHANGED <<rows, now>>,
         RoleOf(c) = "task" => Unrivalled(rows[JobOf(c)], me, now)
  PROVE  SoloInv'
<1>1. rows' = [rows EXCEPT ![JobOf(c)] = rows[JobOf(c)]]
  BY Coroutines3 DEF IInv, TypeOK
<1>2. CASE RoleOf(c) = "task"
  BY <1>1, <1>2, LoneStep
<1>3. CASE RoleOf(c) # "task"
  <2>1. \A s \in Sessions, j \in Jobs : co'[Task(s, j)] = co[Task(s, j)]
    BY <1>3, TaskRole, Coroutines3 DEF Goes, IInv, TypeOK
  <2> QED
    BY <2>1 DEF SoloInv, Task
<1> QED
  BY <1>2, <1>3

\* A task that awaits, or is between two calls of store.advance, is known
\* to hold no evidence of a dispatched job, and may go anywhere but here.
LEMMA Handed ==
  ASSUME NEW row, NEW old, NEW me, NEW time, Unrivalled(row, old, time),
         old.pc \notin {"advance", "cas"}, ~Advancing(me, TRUE, {"ready"}),
         row.state = "dispatched" =>
           /\ me.pc # "posted" /\ ~Advancing(me, TRUE, {"dispatched"})
           /\ Foreseen /\ Advancing(me, FALSE, {"uncertain"}) => time >= row.deadline
  PROVE  Unrivalled(row, me, time)
<1>1. row.state = "dispatched" => row.digest = NoBody /\ row.error = "none"
  BY DEF Unrivalled, Advancing
<1> QED
  BY <1>1 DEF Unrivalled

LEMMA LoneFrames ==
  /\ \A h : /\ \A pc \in Awaiting \union {"poll"} :
                 /\ At(pc, h).pc = pc
                 /\ \A hard, goals : ~Advancing(At(pc, h), hard, goals)
            /\ \A g, goals :
                 /\ SettlesState(g, h).pc = "advance" /\ Calls(g, h).pc = "advance"
                 /\ ~Advancing(SettlesState(g, h), TRUE, goals)
                 /\ ~Advancing(Calls(g, h), FALSE, goals)
                 /\ Advancing(SettlesState(g, h), FALSE, goals) <=> g \in goals
                 /\ Advancing(Calls(g, h), TRUE, goals) <=> g \in goals
  /\ Idle.pc = "idle" /\ \A hard, goals : ~Advancing(Idle, hard, goals)
  BY DEF At, Calls, SettlesState, Idle, Frame, Awaiting, Advancing

-----------------------------------------------------------------------------
LEMMA DispatchesAlone ==
  ASSUME Solo, IInv, TInv, SoloInv, NEW c \in Coroutines, Dispatches(c) PROVE SoloInv'
<1> DEFINE j == JobOf(c)
<1>1. co[c].pc \in {"start", "register", "registered", "post", "posted"}
  BY DEF Dispatches, BeginDispatch, RegisterArrives, RegisterReturns, RegisterFails,
     PostRefused, PostSends, PostReturns, PostUncertain, Runs
<1>2. /\ RoleOf(c) = "task" /\ Unrivalled(rows[j], co[c], now)
      /\ co[c].pc \notin {"advance", "cas"}
  BY <1>1, AtLone DEF ReaderFits, Advancing
<1>3. rows[j].state # "dispatched"
  <2>1. CASE co[c].pc = "posted"
    BY <1>2, <2>1 DEF Unrivalled
  <2>2. CASE co[c].pc # "posted"
    BY <1>1, <2>2, Sending, AtWork DEF RowConsistent
  <2> QED
    BY <2>1, <2>2
<1>4. PICK me : /\ Goes(c, me) /\ UNCHANGED <<rows, now>>
                /\ \/ \E pc \in Awaiting : me = At(pc, co[c].handlers)
                   \/ \E g : me = SettlesState(g, co[c].handlers)
                   \/ \E g \in {"dispatching", "dispatched"} : me = Calls(g, co[c].handlers)
                   \/ me = Raised(co[c])
  <2>1. BeginDispatch(c) \/ RegisterArrives(c) \/ PostSends(c) =>
          /\ UNCHANGED <<rows, now>>
          /\ Goes(c, Raised(co[c])) \/ \E pc \in Awaiting : Goes(c, At(pc, co[c].handlers))
    BY DEF BeginDispatch, RegisterArrives, PostSends, Awaiting
  <2>2. RegisterFails(c) \/ PostRefused(c) \/ PostUncertain(c) =>
          UNCHANGED <<rows, now>> /\ \E g : Goes(c, SettlesState(g, co[c].handlers))
    BY DEF RegisterFails, PostRefused, PostUncertain
  <2>3. RegisterReturns(c) \/ PostReturns(c) =>
          /\ UNCHANGED <<rows, now>>
          /\ \E g \in {"dispatching", "dispatched"} : Goes(c, Calls(g, co[c].handlers))
    BY DEF RegisterReturns, PostReturns
  <2> QED
    BY <2>1, <2>2, <2>3 DEF Dispatches
<1>5. ~Advancing(me, TRUE, {"ready"})
  <2>1. /\ \A pc \in Awaiting : ~Advancing(At(pc, co[c].handlers), TRUE, {"ready"})
        /\ \A g, h : ~Advancing(SettlesState(g, h), TRUE, {"ready"})
        /\ ~Advancing(Idle, TRUE, {"ready"})
    BY DEF At, SettlesState, Idle, Frame, Awaiting, Advancing
  <2>2. \A h : /\ ~Advancing(Calls("dispatching", h), TRUE, {"ready"})
               /\ ~Advancing(Calls("dispatched", h), TRUE, {"ready"})
    BY LoneFrames
  <2>3. Raised(co[c]) = Idle \/ \E g, h : Raised(co[c]) = SettlesState(g, h)
    BY DEF Raised
  <2> QED
    BY <1>4, <2>1, <2>2, <2>3
<1>6. Unrivalled(rows[j], me, now)
  BY <1>2, <1>3, <1>5, Handed
<1> QED
  BY <1>2, <1>4, <1>6, LoneMove

LEMMA PollsAlone ==
  ASSUME Solo, IInv, TInv, SoloInv, NEW c \in Coroutines,
         BeginPoll(c) \/ CheckDeadline(c) \/ FetchStored(c) \/ FetchNothing(c)
  PROVE  SoloInv'
<1> DEFINE j == JobOf(c)
<1>1. co[c].pc \in {"resume", "poll", "check", "fetch"} /\ UNCHANGED <<rows, now>>
  BY DEF BeginPoll, CheckDeadline, FetchStored, FetchNothing, Runs
<1>2. RoleOf(c) = "task" /\ Unrivalled(rows[j], co[c], now)
  BY <1>1, AtLone DEF ReaderFits, Advancing
<1>3. PICK me : /\ Goes(c, me)
                /\ \/ me = Idle
                   \/ \E pc \in {"check", "fetch"} : me = At(pc, co[c].handlers)
                   \/ me.pc = "settle"
                   \/ now >= rows[j].deadline /\ me = SettlesState("uncertain", co[c].handlers)
  <2>1. \A b : [At("settle", co[c].handlers) EXCEPT !.payload = b].pc = "settle"
    BY DEF At, Frame
  <2>2. FetchStored(c) => \E me : Goes(c, me) /\ me.pc = "settle"
    BY <2>1 DEF FetchStored
  <2> QED
    BY <2>2 DEF BeginPoll, CheckDeadline, FetchNothing
<1>4. /\ ~Advancing(me, TRUE, {"ready"}) /\ ~Advancing(me, TRUE, {"dispatched"})
      /\ me.pc # "posted"
      /\ Advancing(me, FALSE, {"uncertain"}) => now >= rows[j].deadline
  <2>1. CASE me.pc \in {"idle", "check", "fetch", "settle"}
    BY <2>1 DEF Advancing
  <2>2. CASE now >= rows[j].deadline /\ me = SettlesState("uncertain", co[c].handlers)
    BY <2>2, LoneFrames
  <2>3. Idle.pc = "idle" /\ \A pc : At(pc, co[c].handlers).pc = pc
    BY DEF Idle, At, Frame
  <2> QED
    BY <1>3, <2>1, <2>2, <2>3
<1>5. Unrivalled(rows[j], me, now)
  BY <1>1, <1>2, <1>4, Handed
<1> QED
  BY <1>1, <1>2, <1>3, <1>5, LoneMove

LEMMA SettlesAlone ==
  ASSUME Solo, IInv, TInv, SoloInv, NEW c \in Coroutines,
         SettleInvalid(c) \/ SettleOk(c) \/ SettleError(c) \/ SettleUnwritable(c)
  PROVE  SoloInv'
<1> DEFINE j == JobOf(c)  row == rows[j]  h == co[c].handlers
<1>1. co[c].pc = "settle" /\ UNCHANGED now
  BY DEF SettleInvalid, SettleOk, SettleError, SettleUnwritable, Runs
<1>2. /\ RoleOf(c) = "task" /\ Unrivalled(row, co[c], now) /\ row \in Row
      /\ row.state = "dispatched" => row.digest = NoBody /\ row.error = "none"
      /\ co[c].payload \in Bodies
  <2>1. RoleOf(c) = "task" /\ Unrivalled(row, co[c], now)
    BY <1>1, AtLone DEF ReaderFits, Advancing
  <2>2. row \in Row /\ co[c].payload \in Bodies
    BY <1>1, AtWork DEF Fits, Coroutine, OptionalBody
  <2> QED
    BY <1>1, <2>1, <2>2 DEF Unrivalled, Advancing
<1>3. ASSUME NEW me, Goes(c, me), UNCHANGED rows, ~Advancing(me, TRUE, {"ready"}),
             me.pc = "advance", ~Advancing(me, TRUE, {"dispatched"}),
             row.state = "dispatched" => ~Foreseen \/ ~Advancing(me, FALSE, {"uncertain"})
      PROVE  SoloInv'
  <2>1. Unrivalled(row, me, now)
    BY <1>1, <1>2, <1>3, Handed
  <2> QED
    BY <1>1, <1>2, <1>3, <2>1, LoneMove
<1>4. CASE SettleInvalid(c)
  <2> DEFINE me == SettlesState("conflict", h)  new == [row EXCEPT !.error = "invalid_result"]
  <2>1. Goes(c, me)
    BY <1>4 DEF SettleInvalid
  <2>2. /\ me.pc = "advance" /\ ~Advancing(me, FALSE, {"uncertain"})
        /\ Advancing(me, FALSE, {"conflict"}) /\ \A goals : ~Advancing(me, TRUE, goals)
    BY LoneFrames
  <2> HIDE DEF me
  <2>3. CASE CanRecordError(row)
    <3>1. /\ new.state = "dispatched" /\ new.digest = NoBody
      BY <1>2, <2>3 DEF CanRecordError, Row
    <3>2. Unrivalled(new, me, now)
      BY <2>2, <3>1 DEF Unrivalled, Early
    <3>3. rows' = [rows EXCEPT ![j] = new]
      BY <1>4, <2>3, AtWork DEF SettleInvalid, IInv, TypeOK
    <3> HIDE DEF new
    <3> QED
      BY <1>1, <1>2, <2>1, <3>2, <3>3, LoneStep
  <2>4. CASE ~CanRecordError(row)
    <3>1. UNCHANGED rows
      BY <1>4, <2>4 DEF SettleInvalid
    <3> QED
      BY <1>3, <2>1, <2>2, <3>1
  <2> QED
    BY <2>3, <2>4
<1>5. CASE SettleOk(c)
  <2>1. CASE CanRecordResult(row)
    <3> DEFINE me == Calls("ready", h)  new == [row EXCEPT !.digest = co[c].payload]
    <3>1. Goes(c, me) /\ rows' = [rows EXCEPT ![j] = new]
      BY <1>5, <2>1, AtWork DEF SettleOk, IInv, TypeOK
    <3>2. /\ new.state = "dispatched" /\ new.digest = co[c].payload /\ new.error = "none"
          /\ new.digest # NoBody
      BY <1>2, <2>1, CallbackAssumption DEF CanRecordResult, Row
    <3>3. /\ me.pc = "advance" /\ Advancing(me, TRUE, {"ready"})
          /\ ~Advancing(me, TRUE, {"dispatched"}) /\ ~Advancing(me, FALSE, {"uncertain"})
      BY LoneFrames
    <3> HIDE DEF me, new
    <3>4. Unrivalled(new, me, now)
      BY <3>2, <3>3 DEF Unrivalled, Early
    <3> QED
      BY <1>1, <1>2, <3>1, <3>4, LoneStep
  <2>2. CASE ~CanRecordResult(row)
    <3>1. row.state # "dispatched"
      BY <1>2, <2>2 DEF CanRecordResult
    <3>2. Goes(c, SettlesState("uncertain", h)) /\ UNCHANGED rows
      BY <1>5, <2>2 DEF SettleOk
    <3> QED
      BY <1>3, <3>1, <3>2, LoneFrames
  <2> QED
    BY <2>1, <2>2
<1>6. CASE SettleError(c)
  <2>1. CASE CanRecordError(row)
    <3> DEFINE me == Calls("failed", h)  new == [row EXCEPT !.error = "worker"]
    <3>1. Goes(c, me) /\ rows' = [rows EXCEPT ![j] = new]
      BY <1>6, <2>1, AtWork DEF SettleError, IInv, TypeOK
    <3>2. new.state = "dispatched" /\ new.digest = NoBody
      BY <1>2, <2>1 DEF CanRecordError, Row
    <3>3. /\ me.pc = "advance" /\ Advancing(me, TRUE, {"failed"})
          /\ ~Advancing(me, TRUE, {"ready"}) /\ ~Advancing(me, TRUE, {"dispatched"})
          /\ ~Advancing(me, FALSE, {"uncertain"})
      BY DEF Calls, Frame, Advancing
    <3> HIDE DEF me, new
    <3>4. Unrivalled(new, me, now)
      BY <3>2, <3>3 DEF Unrivalled, Early
    <3> QED
      BY <1>1, <1>2, <3>1, <3>4, LoneStep
  <2>2. CASE ~CanRecordError(row)
    <3>1. row.state # "dispatched"
      BY <1>2, <2>2 DEF CanRecordError
    <3>2. Goes(c, SettlesState("uncertain", h)) /\ UNCHANGED rows
      BY <1>6, <2>2 DEF SettleError
    <3> QED
      BY <1>3, <3>1, <3>2, LoneFrames
  <2> QED
    BY <2>1, <2>2
<1>7. CASE SettleUnwritable(c)
  <2>1. ~Foreseen
    BY <1>2, <1>7, CoordinatorAssumption DEF SettleUnwritable, Verdict, Foreseen
  <2>2. co[c].handlers > 0
    BY <1>1, <1>2, AtLone, TaskRole DEF TaskFits
  <2>3. Goes(c, SettlesState("uncertain", h - 1)) /\ UNCHANGED rows
    BY <1>7, <2>2 DEF SettleUnwritable, Raised
  <2> QED
    BY <1>3, <2>1, <2>3, LoneFrames
<1> QED
  BY <1>4, <1>5, <1>6, <1>7

LEMMA RaisesAlone ==
  ASSUME Solo, IInv, TInv, SoloInv, NEW c \in Coroutines, Disturbs(c) PROVE SoloInv'
<1>1. ClientRaises(c) /\ ~Foreseen /\ UNCHANGED <<rows, now>> /\ Goes(c, Raised(co[c]))
  BY DEF Disturbs, ClientRaises, JournalRaises, Solo, Foreseen
<1>2. co[c].pc \notin {"advance", "cas"}
  BY <1>1 DEF ClientRaises, Runs
<1>3. \A goals : ~Advancing(Raised(co[c]), TRUE, goals)
  BY LoneFrames DEF Raised
<1>4. Raised(co[c]).pc # "posted"
  BY LoneFrames DEF Raised
<1>5. RoleOf(c) = "task" => Unrivalled(rows[JobOf(c)], Raised(co[c]), now)
  BY <1>1, <1>2, <1>3, <1>4, AtLone, Handed
<1> QED
  BY <1>1, <1>5, LoneMove

\* A dispatched job refuses its only task nothing.
LEMMA RefusedAlone ==
  ASSUME Solo, IInv, TInv, SoloInv, NEW c \in Coroutines, co[c].pc \in {"advance", "cas"},
         Goes(c, AfterRefusal(co[c])), UNCHANGED <<rows, now>>,
         RoleOf(c) = "task" => rows[JobOf(c)].state # "dispatched"
  PROVE  SoloInv'
<1>1. ~Advancing(AfterRefusal(co[c]), TRUE, {"ready"})
  BY DEF AfterRefusal, SettlesState, Idle, Frame, Advancing
<1>2. RoleOf(c) = "task" => Unrivalled(rows[JobOf(c)], AfterRefusal(co[c]), now)
  BY <1>1, AtLone DEF Unrivalled
<1> QED
  BY <1>2, LoneMove

LEMMA AdvanceReadAlone ==
  ASSUME Solo, IInv, TInv, SoloInv, NEW c \in Coroutines, AdvanceRead(c) PROVE SoloInv'
<1> DEFINE j == JobOf(c)
<1>1. co[c].pc = "advance" /\ UNCHANGED <<rows, now>>
  BY DEF AdvanceRead, Runs
<1>2. CASE CanAdvance(rows[j], co[c].goal)
  <2> DEFINE me == [co[c] EXCEPT !.pc = "cas", !.seen = rows[j].state]
  <2>1. Goes(c, me)
    BY <1>2 DEF AdvanceRead
  <2>2. me.pc = "cas" /\ me.hard = co[c].hard /\ me.goal = co[c].goal
    BY AtWork DEF Coroutine
  <2> HIDE DEF me
  <2>3. /\ \A hard, goals : Advancing(me, hard, goals) <=> Advancing(co[c], hard, goals)
        /\ me.pc # "posted"
    BY <1>1, <2>2 DEF Advancing
  <2>4. RoleOf(c) = "task" => Unrivalled(rows[j], me, now)
    BY <2>3, AtLone DEF Unrivalled
  <2> QED
    BY <1>1, <2>1, <2>4, LoneMove
<1>3. CASE ~CanAdvance(rows[j], co[c].goal)
  <2>1. Goes(c, AfterRefusal(co[c]))
    BY <1>3 DEF AdvanceRead
  <2>2. ASSUME RoleOf(c) = "task", rows[j].state = "dispatched" PROVE FALSE
    <3>1. /\ Unrivalled(rows[j], co[c], now) /\ Fits(rows[j], posts[j], co[c])
          /\ posts[j] \in Nat /\ posts[j] # 0
      BY <2>2, AtLone, AtWork DEF RowConsistent
    <3>2. ~MaySend(co[c]) /\ ~Advancing(co[c], TRUE, {"dispatched"})
      BY <2>2, <3>1 DEF Fits, Unrivalled
    <3>3. co[c].goal \in {"ready", "failed", "conflict", "uncertain"}
      BY <1>1, <3>1, <3>2 DEF Fits, MaySend, FollowsPost, Advancing
    <3>4. co[c].goal = "ready" => rows[j].digest # NoBody
      BY <1>1, <3>1, <3>2 DEF Fits, Unrivalled, MaySend, FollowsPost, Advancing
    <3> QED
      BY <1>3, <2>2, <3>3, <3>4 DEF CanAdvance, NextStates
  <2> QED
    BY <1>1, <2>1, <2>2, RefusedAlone
<1> QED
  BY <1>2, <1>3

LEMMA AdvanceWriteAlone ==
  ASSUME Solo, IInv, TInv, SoloInv, NEW c \in Coroutines, AdvanceWrite(c) PROVE SoloInv'
<1> DEFINE j == JobOf(c)
           new == [rows[j] EXCEPT !.state = co[c].goal]
           me == AfterAdvance(co[c])
<1>1. co[c].pc = "cas" /\ UNCHANGED now
  BY DEF AdvanceWrite, Runs
<1>2. /\ Fits(rows[j], posts[j], co[c]) /\ j \in Jobs /\ rows[j] \in Row
      /\ rows[j].state \in RowStates
  BY AtWork DEF Row
<1>3. CASE rows[j].state # co[c].seen
  <2>1. Goes(c, AfterRefusal(co[c])) /\ UNCHANGED rows
    BY <1>3 DEF AdvanceWrite
  <2>2. RoleOf(c) = "task" => rows[j].state # "dispatched"
    BY <1>1, <1>3, AtLone, TaskRole DEF TaskFits, ReaderFits, SettledStates
  <2> QED
    BY <1>1, <2>1, <2>2, RefusedAlone
<1>4. CASE rows[j].state = co[c].seen
  <2>1. rows' = [rows EXCEPT ![j] = new] /\ Goes(c, me)
    BY <1>2, <1>4 DEF AdvanceWrite, IInv, TypeOK
  <2>2. /\ co[c].goal \in NextStates[rows[j].state]
        /\ new.state = co[c].goal /\ new.digest = rows[j].digest /\ new.error = rows[j].error
    BY <1>1, <1>2, <1>4 DEF Fits, Row
  <2>3. new.state # "dispatched" \/ rows[j].state = "dispatching"
    BY <1>2, <2>2 DEF NextStates, RowStates, JobStates
  <2>4. rows[j].state \notin Early => new.state \notin Early
    BY <1>2, <2>2 DEF NextStates, RowStates, JobStates, Early
  <2>5. rows[j].state \in {"ready", "conflict"} => new.state = "conflict"
    BY <1>2, <2>2 DEF NextStates
  <2> HIDE DEF new
  <2>6. CASE RoleOf(c) = "task"
    <3>1. Unrivalled(rows[j], co[c], now)
      BY <2>6, AtLone
    <3>2. me.pc # "posted" /\ \A hard, goals : ~Advancing(me, hard, goals)
      BY DEF AfterAdvance, At, Idle, Frame, Advancing
    <3>3. new.digest # NoBody => new.state \in {"ready", "conflict"}
      <4>1. CASE rows[j].state = "dispatched" /\ rows[j].digest # NoBody
        BY <1>1, <2>2, <3>1, <4>1 DEF Unrivalled, Advancing
      <4> QED
        BY <2>2, <2>5, <3>1, <4>1 DEF Unrivalled
    <3>4. new.error # "none" => new.state \notin Early
      BY <2>2, <2>4, <3>1 DEF Unrivalled
    <3>5. new.state = "dispatched" => new.digest = NoBody /\ new.error = "none"
      BY <2>2, <2>3, <3>1 DEF Unrivalled, Early
    <3> HIDE DEF me
    <3>6. Unrivalled(new, me, now)
      BY <3>2, <3>3, <3>4, <3>5 DEF Unrivalled
    <3> QED
      BY <1>1, <2>1, <2>6, <3>6, LoneStep
  <2>7. CASE RoleOf(c) # "task"
    <3>1. new.state = "conflict"
      BY <1>1, <2>2, <2>7, AtLone DEF ReaderFits, Advancing
    <3>2. \A s \in Sessions, k \in Jobs : co'[Task(s, k)] = co[Task(s, k)]
      BY <2>1, <2>7, TaskRole, Coroutines3 DEF Goes, IInv, TypeOK
    <3>3. \A k \in Jobs : rows'[k] = IF k = j THEN new ELSE rows[k]
      BY <2>1 DEF IInv, TypeOK
    <3>4. ASSUME NEW s \in Sessions, NEW k \in Jobs
          PROVE  Unrivalled(rows'[k], co[Task(s, k)], now)
      <4>1. Unrivalled(rows[k], co[Task(s, k)], now)
        BY DEF SoloInv
      <4> QED
        BY <2>2, <3>1, <3>3, <4>1 DEF Unrivalled, Early
    <3> QED
      BY <1>1, <3>2, <3>4 DEF SoloInv, Task
  <2> QED
    BY <2>6, <2>7
<1> QED
  BY <1>3, <1>4

LEMMA AnswersAlone ==
  ASSUME Solo, IInv, TInv, SoloInv, NEW c \in Coroutines, Answers(c) PROVE SoloInv'
<1>1. /\ co[c].pc \in {"refetch", "revalidate"}
      /\ UNCHANGED <<rows, now>>
      /\ \E me : Goes(c, me)
  BY DEF Answers, RefetchReturns, RefetchFails, Revalidate, Runs
<1>2. RoleOf(c) # "task"
  BY <1>1, AtLone, Roles2 DEF TaskFits, ReaderFits
<1> QED
  BY <1>1, <1>2, LoneMove

LEMMA RequestsAlone ==
  ASSUME Solo, IInv, TInv, SoloInv, NEW s \in Sessions, NEW j \in Jobs,
         Start(s, j) \/ ReadResult(s, j)
  PROVE  SoloInv'
<1>1. CASE Start(s, j)
  <2> DEFINE c == Task(s, j)  me == At("start", 1)  new == NewRow(now + Lifetime)
  <2>1. /\ c \in Coroutines /\ JobOf(c) = j /\ RoleOf(c) = "task" /\ UNCHANGED now
        /\ Goes(c, me) /\ rows' = [rows EXCEPT ![j] = new]
    BY <1>1, Coroutines3, TaskRole DEF Start
  <2>2. /\ new.digest = NoBody /\ new.error = "none" /\ new.state = "queued"
        /\ \A hard, goals : ~Advancing(me, hard, goals)
    BY DEF NewRow, At, Frame, Advancing
  <2> HIDE DEF c, me, new
  <2>3. Unrivalled(new, me, now)
    BY <2>2 DEF Unrivalled
  <2> QED
    BY <2>1, <2>3, LoneStep
<1>2. CASE ReadResult(s, j)
  <2> DEFINE c == <<s, "reader", j>>
  <2>1. /\ c \in Coroutines /\ RoleOf(c) # "task" /\ UNCHANGED <<rows, now>>
        /\ \E me : Goes(c, me)
    BY <1>2, Coroutines3, TaskRole DEF ReadResult
  <2> HIDE DEF c
  <2> QED
    BY <2>1, LoneMove
<1> QED
  BY <1>1, <1>2

LEMMA SessionsAlone ==
  ASSUME Solo, IInv, TInv, LoopInv, SoloInv, NEW s \in Sessions,
         Open(s) \/ Reconcile(s) \/ Crash(s) \/ Shutdown(s)
  PROVE  SoloInv'
<1>1. CASE Open(s)
  BY <1>1 DEF Open, SoloInv, Task
<1>2. CASE Reconcile(s)
  <2> SUFFICES ASSUME NEW t \in Sessions, NEW j \in Jobs
               PROVE  Unrivalled(rows'[j], co'[Task(t, j)], now')
    BY DEF SoloInv, Task
  <2> DEFINE c == Task(t, j)
  <2>1. /\ c \in Coroutines /\ SessionOf(c) = s /\ Unrivalled(rows[j], co[c], now)
        /\ rows[j] \in Row
    BY Coroutines3 DEF Task, SessionOf, Solo, SoloInv, IInv, TypeOK
  <2>2. co[c].pc = "idle"
    BY <1>2, <2>1 DEF Reconcile, LoopInv
  <2>3. /\ rows'[j] = Reconciled(rows[j]) /\ now' = now
        /\ co'[c] \in {At("resume", 1), co[c]}
    BY <1>2, <2>1 DEF Reconcile
  <2>4. /\ \A hard, goals : ~Advancing(co'[c], hard, goals) /\ ~Advancing(co[c], hard, goals)
        /\ co'[c].pc # "posted"
    BY <2>2, <2>3 DEF At, Frame, Advancing
  <2>5. CASE rows[j].state \in PreDispatch
    <3>1. rows[j].digest = NoBody /\ rows[j].error = "none"
      BY <2>1, <2>5 DEF Unrivalled, PreDispatch, Early
    <3>2. /\ rows'[j].digest = NoBody /\ rows'[j].error = "none" /\ rows'[j].state = "uncertain"
      BY <2>1, <2>3, <2>5, <3>1 DEF Reconciled, Row
    <3> QED
      BY <2>4, <3>2 DEF Unrivalled
  <2>6. CASE rows[j].state \notin PreDispatch
    <3>1. rows'[j] = rows[j]
      BY <2>3, <2>6 DEF Reconciled
    <3> QED
      BY <2>1, <2>3, <2>4, <3>1 DEF Unrivalled
  <2> QED
    BY <2>5, <2>6
<1>3. CASE Shutdown(s)
  <2> SUFFICES ASSUME NEW t \in Sessions, NEW j \in Jobs
               PROVE  Unrivalled(rows[j], co'[Task(t, j)], now)
    BY <1>3 DEF SoloInv, Task, Shutdown
  <2> DEFINE c == Task(t, j)
  <2>1. c \in Coroutines /\ SessionOf(c) = s /\ Unrivalled(rows[j], co[c], now)
    BY Coroutines3 DEF Task, SessionOf, Solo, SoloInv
  <2>2. co[c].pc \in Awaiting /\ co'[c] = Idle
    BY <1>3, <2>1 DEF Shutdown
  <2>3. co[c].pc \notin {"advance", "cas"}
    BY <2>2 DEF Awaiting
  <2> QED
    BY <2>1, <2>2, <2>3, LoneFrames, Handed
<1> QED
  BY <1>1, <1>2, <1>3 DEF Crash, Solo

LEMMA NextSoloInv ==
  ASSUME Solo, IInv, TInv, LoopInv, SoloInv, [Next]_vars PROVE SoloInv'
<1>1. ASSUME NEW s \in Sessions, Open(s) \/ Reconcile(s) \/ Crash(s) \/ Shutdown(s)
      PROVE  SoloInv'
  BY <1>1, SessionsAlone
<1>2. ASSUME NEW s \in Sessions, NEW j \in Jobs, Start(s, j) \/ ReadResult(s, j) PROVE SoloInv'
  BY <1>2, RequestsAlone
<1>3. ASSUME NEW c \in Coroutines, Steps(c) \/ Disturbs(c) PROVE SoloInv'
  <2>1. CASE Waits(c)
    BY <2>1, PollsAlone, SettlesAlone DEF Waits
  <2>2. CASE Advances(c)
    BY <2>2, AdvanceReadAlone, AdvanceWriteAlone DEF Advances
  <2> QED
    BY <1>3, <2>1, <2>2, DispatchesAlone, AnswersAlone, RaisesAlone DEF Steps
<1>4. ASSUME UNCHANGED <<rows, co>>, now' >= now PROVE SoloInv'
  <2>1. \A j \in Jobs : rows[j].deadline \in Nat
    BY DEF IInv, TypeOK, Row
  <2>2. now \in Nat
    BY DEF IInv, TypeOK
  <2>3. ASSUME NEW s \in Sessions, NEW j \in Jobs, now' \in Nat
        PROVE  Unrivalled(rows[j], co[Task(s, j)], now')
    <3>1. Unrivalled(rows[j], co[Task(s, j)], now)
      BY DEF SoloInv
    <3>2. now >= rows[j].deadline => now' >= rows[j].deadline
      BY <1>4, <2>1, <2>2, <2>3
    <3> QED
      BY <3>1, <3>2 DEF Unrivalled
  <2>4. now' \in Nat
    BY NextIInv DEF IInv, TypeOK
  <2> QED
    BY <1>4, <2>3, <2>4 DEF SoloInv, Task
<1>5. ASSUME NEW j \in Jobs, OrphanPosts(j) \/ WebhookAccepts(j) PROVE SoloInv'
  <2>1. now \in Nat /\ UNCHANGED <<rows, co, now>>
    BY <1>5 DEF OrphanPosts, WebhookAccepts, IInv, TypeOK
  <2> QED
    BY <1>4, <2>1
<1>6. ASSUME NEW j \in Jobs, NEW b \in Bodies, WorkerSubmits(j, b) \/ InboxChanges(j, b)
      PROVE  SoloInv'
  <2>1. now \in Nat /\ UNCHANGED <<rows, co, now>>
    BY <1>6 DEF WorkerSubmits, InboxChanges, IInv, TypeOK
  <2> QED
    BY <1>4, <2>1
<1>7. CASE InboxRestarts \/ Tick \/ UNCHANGED vars
  <2>1. now \in Nat /\ UNCHANGED <<rows, co>> /\ now' \in {now, now + 1}
    BY <1>7 DEF InboxRestarts, Tick, vars, IInv, TypeOK
  <2> QED
    BY <1>4, <2>1
<1> QED
  BY <1>1, <1>2, <1>3, <1>5, <1>6, <1>7 DEF Next

LEMMA LoneTaskKnown == Solo => (Spec => []SoloInv)
<1> SUFFICES ASSUME Solo PROVE Spec => []SoloInv
  OBVIOUS
<1>1. Init => SoloInv
  <2> SUFFICES ASSUME Init, NEW s \in Sessions, NEW j \in Jobs
               PROVE  Unrivalled(rows[j], co[Task(s, j)], now)
    BY DEF SoloInv
  <2>1. rows[j] = NoRow /\ co[Task(s, j)] = Idle
    BY Coroutines3 DEF Init
  <2>2. /\ NoRow.digest = NoBody /\ NoRow.error = "none" /\ NoRow.state = "absent"
        /\ \A hard, goals : ~Advancing(Idle, hard, goals)
    BY DEF NoRow, Idle, Frame, Advancing
  <2> QED
    BY <2>1, <2>2 DEF Unrivalled
<1>2. IInv /\ TInv /\ LoopInv /\ SoloInv /\ [Next]_vars => SoloInv'
  BY NextSoloInv
<1> QED
  BY <1>1, <1>2, Invariance, TaskInvariance, LoopInvariance, PTL DEF Spec

(* With one session, no crash and no failing journal a validated answer    *)
(* that is pinned is never abandoned (coordinator.py:208-237), whatever    *)
(* the inbox, the webhook and shutdowns do: the run MCTwoPollers breaks    *)
(* this with a second session, and nothing but the three does.             *)
THEOREM PinnedIsAnswered == Solo => (Spec => []PinnedIsNotAbandoned)
<1> SUFFICES ASSUME Solo PROVE Spec => []PinnedIsNotAbandoned
  OBVIOUS
<1>1. SoloInv => PinnedIsNotAbandoned
  <2> SUFFICES ASSUME SoloInv, NEW j \in Jobs, rows[j].digest # NoBody
               PROVE  rows[j].state # "uncertain"
    BY DEF PinnedIsNotAbandoned
  <2>1. PICK s \in Sessions : TRUE
    BY DEF Solo
  <2> QED
    BY <2>1 DEF SoloInv, Unrivalled
<1> QED
  BY <1>1, LoneTaskKnown, PTL

(* And if every exception is one the code names, it retries a posted       *)
(* request until its deadline (coordinator.py:187-206), as its comment     *)
(* says; MCTransient breaks this with one that is no InboxError.           *)
THEOREM RetriesToTheDeadline == Solo /\ Foreseen => (Spec => RetriedUntilDeadline)
<1> SUFFICES ASSUME Solo, Foreseen PROVE Spec => RetriedUntilDeadline
  OBVIOUS
<1> DEFINE Late == \A j \in Jobs : GivesUp(j) => now >= rows[j].deadline
<1>1. IInv /\ TInv /\ SoloInv /\ [Next]_vars => Late
  <2> SUFFICES ASSUME IInv, TInv, SoloInv, [Next]_vars, NEW j \in Jobs, GivesUp(j)
               PROVE  now >= rows[j].deadline
    OBVIOUS
  <2>1. rows[j].state = "dispatched" /\ rows'[j].state = "uncertain" /\ rows[j] \in Row
    BY DEF GivesUp, IInv, TypeOK
  <2>2. PICK c \in Coroutines : JobOf(c) = j /\ Moves(j, c)
    <3>1. RowChange(j)
      BY RowsChange
    <3>2. \A c \in Coroutines :
            RecordsOk(j, c) \/ RecordsError(j, c) \/ RecordsInvalid(j, c) =>
              rows'[j].state = rows[j].state
      BY <2>1 DEF RecordsOk, RecordsError, RecordsInvalid, Row
    <3>3. rows[j] # NoRow /\ Reconciled(rows[j]) = rows[j]
      BY <2>1 DEF NoRow, Reconciled, PreDispatch
    <3> QED
      BY <2>1, <3>1, <3>2, <3>3 DEF RowChange
  <2>3. co[c].pc = "cas" /\ co[c].goal = "uncertain"
    BY <2>1, <2>2 DEF Moves, Row
  <2>4. Advancing(co[c], FALSE, {"uncertain"})
    BY <2>2, <2>3, AtWork DEF Fits, MaySend, FollowsPost, Advancing
  <2>5. RoleOf(c) = "task"
    BY <2>3, AtLone DEF ReaderFits, Advancing
  <2> QED
    BY <2>1, <2>2, <2>4, <2>5, AtLone DEF Unrivalled
<1>2. IInv /\ TInv /\ SoloInv /\ [Next]_vars => [Late]_rows
  BY <1>1
<1> QED
  BY <1>2, Invariance, TaskInvariance, LoneTaskKnown, PTL DEF Spec, RetriedUntilDeadline
=============================================================================
