-------------------------- MODULE CoordinatorProofs --------------------------
(***************************************************************************)
(* At most one POST per job, failed only when that is known, one answer:   *)
(* for any sessions, jobs, bodies and deadlines, and whatever fails.       *)
(***************************************************************************)
EXTENDS CoordinatorInv, TLAPS

LEMMA Coroutines3 ==
  /\ \A c \in Coroutines : JobOf(c) \in Jobs /\ SessionOf(c) \in Sessions
  /\ \A s \in Sessions, j \in Jobs :
        /\ Task(s, j) \in Coroutines
        /\ JobOf(Task(s, j)) = j
        /\ <<s, "reader", j>> \in Coroutines
        /\ JobOf(<<s, "reader", j>>) = j
  BY DEF Coroutines, Roles, JobOf, SessionOf, Task

LEMMA SettlesStateFrame ==
  ASSUME NEW g \in JobStates, NEW h \in 0 .. 2
  PROVE  /\ SettlesState(g, h) \in Coroutine
         /\ SettlesState(g, h).pc = "advance"
         /\ SettlesState(g, h).goal = g
         /\ SettlesState(g, h).hard = FALSE
         /\ SettlesState(g, h).handlers = h
  BY DEF SettlesState, Frame, Coroutine, Running, RowStates, OptionalBody

LEMMA CallsFrame ==
  ASSUME NEW g \in JobStates, NEW h \in 0 .. 2
  PROVE  /\ Calls(g, h) \in Coroutine
         /\ Calls(g, h).pc = "advance"
         /\ Calls(g, h).goal = g
         /\ Calls(g, h).hard = TRUE
         /\ Calls(g, h).handlers = h
  BY DEF Calls, Frame, Coroutine, Running, RowStates, OptionalBody

LEMMA AtFrame ==
  ASSUME NEW pc \in Awaiting \union Running, NEW h \in 0 .. 2
  PROVE  /\ At(pc, h) \in Coroutine
         /\ At(pc, h).pc = pc
         /\ At(pc, h).handlers = h
  BY DEF At, Frame, Coroutine, RowStates, OptionalBody

LEMMA IdleFrame ==
  /\ Idle \in Coroutine
  /\ Idle.pc = "idle"
  /\ ~MaySend(Idle) /\ ~FollowsPost(Idle)
  BY DEF Idle, Frame, Coroutine, Awaiting, RowStates, OptionalBody, MaySend, FollowsPost, Advancing

LEMMA IdleFits == ASSUME NEW row, NEW sent PROVE Fits(row, sent, Idle)
  BY IdleFrame DEF Fits, Advancing

LEMMA InitIInv == Init => IInv
<1> SUFFICES ASSUME Init PROVE IInv
  OBVIOUS
<1>1. NoRow \in Row /\ NoSlot \in Slot
  BY DEF NoRow, NoSlot, Row, Slot, RowStates, OptionalBody, Errors
<1>2. \A c \in Coroutines : co[c] = Idle
  BY DEF Init
<1>3. TypeOK
  BY <1>1, IdleFrame DEF Init, TypeOK
<1>4. CoroutinesFit
  BY <1>2, IdleFits, IdleFrame DEF CoroutinesFit
<1>5. OneSender
  BY <1>2, IdleFrame DEF OneSender
<1>6. RowsConsistent
  BY DEF Init, RowsConsistent, RowConsistent, NoRow
<1> QED
  BY <1>3, <1>4, <1>5, <1>6 DEF IInv

-----------------------------------------------------------------------------
(* The frames the code leaves a coroutine in fit a job that has a row,     *)
(* under what is known of its POST.                                        *)
LEMMA UncertainFits ==
  ASSUME NEW row, row.state # "absent", NEW sent, NEW h \in 0 .. 2
  PROVE  Fits(row, sent, SettlesState("uncertain", h)) /\ ~MaySend(SettlesState("uncertain", h))
<1> DEFINE me == SettlesState("uncertain", h)
<1>1. me.pc = "advance" /\ me.goal = "uncertain" /\ me.hard = FALSE
  BY DEF SettlesState, Frame
<1> HIDE DEF me
<1>2. Fits(row, sent, me) /\ ~MaySend(me)
  BY <1>1 DEF Fits, MaySend, FollowsPost, Advancing
<1> QED
  BY <1>2 DEF me

LEMMA ConflictFits ==
  ASSUME NEW row, row.state # "absent", NEW sent, NEW h \in 0 .. 2, sent > 0
  PROVE  Fits(row, sent, SettlesState("conflict", h)) /\ ~MaySend(SettlesState("conflict", h))
<1> DEFINE me == SettlesState("conflict", h)
<1>1. me.pc = "advance" /\ me.goal = "conflict" /\ me.hard = FALSE
  BY DEF SettlesState, Frame
<1> HIDE DEF me
<1>2. Fits(row, sent, me) /\ ~MaySend(me)
  BY <1>1 DEF Fits, MaySend, FollowsPost, Advancing
<1> QED
  BY <1>2 DEF me

LEMMA FailedFits ==
  ASSUME NEW row, row.state # "absent", NEW sent, NEW h \in 0 .. 2, sent = 0, h <= 1
  PROVE  Fits(row, sent, SettlesState("failed", h))
<1> DEFINE me == SettlesState("failed", h)
<1>1. me.pc = "advance" /\ me.goal = "failed" /\ me.hard = FALSE /\ me.handlers = h
  BY DEF SettlesState, Frame
<1> HIDE DEF me
<1>2. Fits(row, sent, me)
  BY <1>1 DEF Fits, MaySend, FollowsPost, Advancing
<1> QED
  BY <1>2 DEF me

LEMMA DispatchingFits ==
  ASSUME NEW row, row.state # "absent", NEW sent, NEW h \in 0 .. 2, sent = 0, h <= 1
  PROVE  Fits(row, sent, Calls("dispatching", h))
<1> DEFINE me == Calls("dispatching", h)
<1>1. me.pc = "advance" /\ me.goal = "dispatching" /\ me.hard = TRUE /\ me.handlers = h
  BY DEF Calls, Frame
<1> HIDE DEF me
<1>2. Fits(row, sent, me)
  BY <1>1 DEF Fits, MaySend, FollowsPost, Advancing
<1> QED
  BY <1>2 DEF me

LEMMA DispatchedFits ==
  ASSUME NEW row, row.state # "absent", NEW sent, NEW h \in 0 .. 2, sent > 0, h <= 1
  PROVE  Fits(row, sent, Calls("dispatched", h)) /\ ~MaySend(Calls("dispatched", h))
<1> DEFINE me == Calls("dispatched", h)
<1>1. me.pc = "advance" /\ me.goal = "dispatched" /\ me.hard = TRUE /\ me.handlers = h
  BY DEF Calls, Frame
<1> HIDE DEF me
<1>2. Fits(row, sent, me) /\ ~MaySend(me)
  BY <1>1 DEF Fits, MaySend, FollowsPost, Advancing
<1> QED
  BY <1>2 DEF me

LEMMA ReadyFits ==
  ASSUME NEW row, row.state # "absent", NEW sent, NEW h \in 0 .. 2, sent > 0
  PROVE  Fits(row, sent, Calls("ready", h)) /\ ~MaySend(Calls("ready", h))
<1> DEFINE me == Calls("ready", h)
<1>1. me.pc = "advance" /\ me.goal = "ready" /\ me.hard = TRUE
  BY DEF Calls, Frame
<1> HIDE DEF me
<1>2. Fits(row, sent, me) /\ ~MaySend(me)
  BY <1>1 DEF Fits, MaySend, FollowsPost, Advancing
<1> QED
  BY <1>2 DEF me

LEMMA RefusedFits ==
  ASSUME NEW row, row.state # "absent", NEW sent, NEW h \in 0 .. 2, sent > 0, row.error = "worker"
  PROVE  Fits(row, sent, Calls("failed", h)) /\ ~MaySend(Calls("failed", h))
<1> DEFINE me == Calls("failed", h)
<1>1. me.pc = "advance" /\ me.goal = "failed" /\ me.hard = TRUE
  BY DEF Calls, Frame
<1> HIDE DEF me
<1>2. Fits(row, sent, me) /\ ~MaySend(me)
  BY <1>1 DEF Fits, MaySend, FollowsPost, Advancing
<1> QED
  BY <1>2 DEF me

LEMMA SenderFits ==
  ASSUME NEW row, row.state # "absent", NEW sent, NEW h \in 0 .. 2, sent = 0, h <= 1,
         NEW pc \in {"start", "register", "registered"}
  PROVE  Fits(row, sent, At(pc, h))
<1> DEFINE me == At(pc, h)
<1>1. me.pc = pc /\ me.handlers = h
  BY AtFrame DEF Awaiting
<1> HIDE DEF me
<1>2. Fits(row, sent, me)
  BY <1>1 DEF Fits, MaySend, FollowsPost, Advancing
<1> QED
  BY <1>2 DEF me

LEMMA PostFits ==
  ASSUME NEW row, row.state # "absent", NEW sent, NEW h \in 0 .. 2, sent = 0, h <= 1,
         row.state \in {"dispatching", "uncertain"}
  PROVE  Fits(row, sent, At("post", h))
<1> DEFINE me == At("post", h)
<1>1. me.pc = "post" /\ me.handlers = h
  BY AtFrame DEF Awaiting
<1> HIDE DEF me
<1>2. Fits(row, sent, me)
  BY <1>1 DEF Fits, MaySend, FollowsPost, Advancing
<1> QED
  BY <1>2 DEF me

LEMMA PostedFits ==
  ASSUME NEW row, row.state # "absent", NEW sent, NEW h \in 0 .. 2, sent > 0, h <= 1
  PROVE  Fits(row, sent, At("posted", h)) /\ ~MaySend(At("posted", h))
<1> DEFINE me == At("posted", h)
<1>1. me.pc = "posted" /\ me.handlers = h
  BY AtFrame DEF Awaiting
<1> HIDE DEF me
<1>2. Fits(row, sent, me) /\ ~MaySend(me)
  BY <1>1 DEF Fits, MaySend, FollowsPost, Advancing
<1> QED
  BY <1>2 DEF me

LEMMA PollerFits ==
  ASSUME NEW row, row.state # "absent", NEW sent, NEW h \in 0 .. 2, sent > 0,
         NEW pc \in {"resume", "poll", "check", "fetch"}
  PROVE  Fits(row, sent, At(pc, h)) /\ ~MaySend(At(pc, h))
<1> DEFINE me == At(pc, h)
<1>1. me.pc = pc
  BY AtFrame DEF Awaiting, Running
<1> HIDE DEF me
<1>2. Fits(row, sent, me) /\ ~MaySend(me)
  BY <1>1 DEF Fits, MaySend, FollowsPost, Advancing
<1> QED
  BY <1>2 DEF me

-----------------------------------------------------------------------------
(* A step of coroutine c that turns its job's row into new and its POSTs   *)
(* into n.  It may keep the permission to send, but not make one, and it   *)
(* may use it up.                                                          *)
LEMMA JobStep ==
  ASSUME IInv, NEW c \in Coroutines, NEW me \in Coroutine,
         NEW new \in Row, NEW n \in Nat,
         co' = [co EXCEPT ![c] = me],
         rows' = [rows EXCEPT ![JobOf(c)] = new],
         posts' = [posts EXCEPT ![JobOf(c)] = n],
         UNCHANGED <<session, resumable, orphans>>,
         slots' \in [Jobs -> Slot], accepted' \subseteq Jobs, now' \in Nat,
         answers' \in [Jobs -> SUBSET Bodies],
         \A k \in Jobs : answers'[k] \subseteq answers[k] \union {rows[k].digest},
         Fits(new, n, me),
         MaySend(me) => MaySend(co[c]),
         n # posts[JobOf(c)] => n = 1 /\ MaySend(co[c]) /\ ~MaySend(me),
         rows[JobOf(c)].state # "absent",
         new.state # "absent",
         \/ new.state \in {rows[JobOf(c)].state, "uncertain"}
         \/ posts[JobOf(c)] > 0
         \/ MaySend(co[c]),
         new.state \in {"dispatched", "ready", "conflict"} => n > 0,
         \/ new.state # "failed"
         \/ new.error = "worker"
         \/ rows[JobOf(c)] = new
         \/ MaySend(co[c]) /\ ~MaySend(me) /\ n = posts[JobOf(c)],
         new.state = "ready" => new.digest # NoBody,
         rows[JobOf(c)].digest # NoBody => new.digest = rows[JobOf(c)].digest,
         rows[JobOf(c)].error = "worker" => new.error = "worker",
         rows[JobOf(c)].state \in {"ready", "conflict"} => new.state \in {"ready", "conflict"}
  PROVE  IInv'
<1> DEFINE j == JobOf(c)
<1> USE DEF IInv
<1>1. j \in Jobs
  BY Coroutines3
<1>2. TypeOK'
  BY <1>1 DEF TypeOK
<1>3. \A d \in Coroutines : co'[d] = IF d = c THEN me ELSE co[d]
  BY DEF TypeOK
<1>4. \A k \in Jobs : /\ rows'[k] = IF k = j THEN new ELSE rows[k]
                      /\ posts'[k] = IF k = j THEN n ELSE posts[k]
  BY <1>1 DEF TypeOK
<1>5. /\ posts[j] \in Nat
      /\ Fits(rows[j], posts[j], co[c])
      /\ MaySend(co[c]) => posts[j] = 0 /\ j \notin orphans
  BY <1>1 DEF TypeOK, CoroutinesFit, Fits
<1>6. ASSUME NEW d \in Coroutines
      PROVE  /\ Fits(rows'[JobOf(d)], posts'[JobOf(d)], co'[d])
             /\ MaySend(co'[d]) => JobOf(d) \notin orphans
  <2>1. JobOf(d) \in Jobs
    BY Coroutines3
  <2>2. Fits(rows[JobOf(d)], posts[JobOf(d)], co[d]) /\ (MaySend(co[d]) => JobOf(d) \notin orphans)
    BY DEF CoroutinesFit
  <2>3. CASE d = c
    BY <1>3, <1>4, <1>5, <2>1, <2>3
  <2>4. CASE d # c /\ JobOf(d) # j
    BY <1>3, <1>4, <2>1, <2>2, <2>4
  <2>5. CASE d # c /\ JobOf(d) = j
    <3>1. co'[d] = co[d] /\ rows'[JobOf(d)] = new /\ posts'[JobOf(d)] = n
      BY <1>3, <1>4, <2>1, <2>5
    <3>2. MaySend(co[d]) => ~MaySend(co[c]) /\ posts[j] = 0 /\ n = posts[j]
      BY <2>2, <2>5 DEF OneSender, Fits
    <3>3. co[d].pc = "post" =>
            rows[j].state \in {"dispatching", "uncertain"} /\ MaySend(co[d])
      BY <2>2, <2>5 DEF Fits, MaySend
    <3>4. co[d].pc = "post" => new.state \in {"dispatching", "uncertain"}
      BY <3>2, <3>3, <1>5
    <3>5. FollowsPost(co[d]) => n > 0
      BY <2>2, <2>5, <1>5 DEF Fits
    <3>6. Fits(new, n, co[d])
      BY <2>2, <2>5, <3>2, <3>4, <3>5 DEF Fits
    <3> QED
      BY <2>2, <2>5, <3>1, <3>6
  <2> QED
    BY <2>3, <2>4, <2>5
<1>7. CoroutinesFit'
  BY <1>6 DEF CoroutinesFit, JobOf
<1>8. OneSender'
  BY <1>3 DEF OneSender, JobOf
<1>9. \A k \in Jobs : NoSender(k) => NoSender(k)'
  BY <1>3 DEF NoSender, JobOf
<1>10. MaySend(co[c]) /\ ~MaySend(me) => NoSender(j)'
  BY <1>3 DEF NoSender, OneSender, JobOf
<1>11. ASSUME NEW k \in Jobs PROVE RowConsistent(k)'
  <2>1. RowConsistent(k)
    BY DEF RowsConsistent
  <2>2. CASE k # j
    <3>1. /\ rows'[k] = rows[k] /\ posts'[k] = posts[k]
          /\ answers'[k] \subseteq {rows[k].digest}
      BY <1>4, <2>1, <2>2 DEF RowConsistent
    <3> QED
      BY <2>1, <3>1, <1>9 DEF RowConsistent
  <2>3. CASE k = j
    <3>1. rows'[k] = new /\ posts'[k] = n
      BY <1>4, <2>3
    <3>2. \A s \in Sessions : k \in resumable[s] => n > 0
      BY <1>5, <2>1, <2>3 DEF RowConsistent
    <3>3. k \in orphans => n = 0 /\ new.state \in {"dispatching", "uncertain"}
      BY <1>5, <2>1, <2>3 DEF RowConsistent
    <3>4. new.state = "failed" =>
            new.error = "worker" \/ (n = 0 /\ k \notin orphans /\ NoSender(k)')
      BY <1>5, <1>9, <1>10, <2>1, <2>3 DEF RowConsistent, NoSender, JobOf
    <3>5. n <= 1
      BY <2>1, <2>3 DEF RowConsistent
    <3>6. answers'[k] \subseteq {new.digest}
      <4>1. answers'[k] \in SUBSET Bodies /\ answers'[k] \subseteq {rows[k].digest}
        BY <2>1 DEF RowConsistent
      <4> QED
        BY <4>1, <2>3, CallbackAssumption
    <3> QED
      BY <3>1, <3>2, <3>3, <3>4, <3>5, <3>6 DEF RowConsistent
  <2> QED
    BY <2>2, <2>3
<1> QED
  BY <1>2, <1>7, <1>8, <1>11 DEF RowsConsistent

(* A step that moves one coroutine and no row or POST, and answers at most *)
(* with pinned bodies.                                                     *)
LEMMA CoroutineStep ==
  ASSUME IInv, NEW c \in Coroutines, NEW me \in Coroutine,
         co' = [co EXCEPT ![c] = me],
         UNCHANGED <<rows, session, resumable, posts, orphans>>,
         slots' \in [Jobs -> Slot], accepted' \subseteq Jobs, now' \in Nat,
         answers' \in [Jobs -> SUBSET Bodies],
         \A k \in Jobs : answers'[k] \subseteq answers[k] \union {rows[k].digest},
         rows[JobOf(c)].state # "absent",
         Fits(rows[JobOf(c)], posts[JobOf(c)], me),
         MaySend(me) => MaySend(co[c])
  PROVE  IInv'
<1> DEFINE j == JobOf(c)
<1>1. j \in Jobs
  BY Coroutines3
<1>2. rows[j] \in Row /\ posts[j] \in Nat /\ RowConsistent(j)
  BY <1>1 DEF IInv, TypeOK, RowsConsistent
<1>3. rows' = [rows EXCEPT ![j] = rows[j]] /\ posts' = [posts EXCEPT ![j] = posts[j]]
  BY <1>1 DEF IInv, TypeOK
<1> HIDE DEF j
<1> QED
  BY <1>2, <1>3, JobStep DEF j, RowConsistent

-----------------------------------------------------------------------------
(* What the invariant says of a coroutine at work.                         *)
LEMMA AtWork ==
  ASSUME IInv, NEW c \in Coroutines
  PROVE  /\ JobOf(c) \in Jobs
         /\ co[c] \in Coroutine /\ co[c].handlers \in 0 .. 2
         /\ rows[JobOf(c)] \in Row /\ posts[JobOf(c)] \in Nat
         /\ RowConsistent(JobOf(c))
         /\ Fits(rows[JobOf(c)], posts[JobOf(c)], co[c])
         /\ co[c].pc # "idle" => rows[JobOf(c)].state # "absent"
         /\ MaySend(co[c]) => JobOf(c) \notin orphans
  BY Coroutines3 DEF IInv, TypeOK, RowsConsistent, CoroutinesFit, Fits, Coroutine

LEMMA Sending ==
  ASSUME IInv, NEW c \in Coroutines,
         co[c].pc \in {"start", "register", "registered", "post"}
  PROVE  MaySend(co[c]) /\ posts[JobOf(c)] = 0 /\ co[c].handlers <= 1
  BY AtWork DEF Fits, MaySend

LEMMA Following ==
  ASSUME IInv, NEW c \in Coroutines,
         co[c].pc \in {"posted", "resume", "poll", "check", "fetch", "settle",
                       "refetch", "revalidate"}
  PROVE  posts[JobOf(c)] > 0
  BY AtWork DEF Fits, FollowsPost

LEMMA RaisedFits ==
  ASSUME NEW old \in Coroutine, NEW row, row.state # "absent", NEW sent
  PROVE  Raised(old) \in Coroutine /\ Fits(row, sent, Raised(old)) /\ ~MaySend(Raised(old))
<1>1. CASE old.handlers = 0
  BY <1>1, IdleFrame, IdleFits DEF Raised
<1>2. CASE old.handlers # 0
  <2>1. old.handlers - 1 \in 0 .. 2 /\ "uncertain" \in JobStates
    BY <1>2 DEF Coroutine, JobStates
  <2> QED
    BY <1>2, <2>1, SettlesStateFrame, UncertainFits DEF Raised
<1> QED
  BY <1>1, <1>2

(* A step that moves a coroutine at work and nothing else.                 *)
LEMMA Move ==
  ASSUME IInv, NEW c \in Coroutines, co[c].pc # "idle", NEW me \in Coroutine, Goes(c, me),
         UNCHANGED <<rows, session, resumable, slots, posts, accepted, orphans, now, answers>>,
         Fits(rows[JobOf(c)], posts[JobOf(c)], me),
         MaySend(me) => MaySend(co[c])
  PROVE  IInv'
  BY AtWork, CoroutineStep DEF Goes, IInv, TypeOK

LEMMA Begins == ASSUME IInv, NEW c \in Coroutines, BeginDispatch(c) PROVE IInv'
<1>1. co[c].pc = "start"
  BY DEF BeginDispatch, Runs
<1>2. CASE rows[JobOf(c)].state = "queued"
  BY <1>1, <1>2, AtWork, Sending, SenderFits, AtFrame, Move DEF BeginDispatch, Awaiting
<1>3. CASE rows[JobOf(c)].state # "queued"
  BY <1>1, <1>3, AtWork, RaisedFits, Move DEF BeginDispatch
<1> QED
  BY <1>2, <1>3

LEMMA Registers == ASSUME IInv, NEW c \in Coroutines, RegisterArrives(c) PROVE IInv'
<1>1. co[c].pc = "register"
  BY DEF RegisterArrives
<1>2. slots' \in [Jobs -> Slot]
  BY AtWork DEF RegisterArrives, IInv, TypeOK, Expected, Slot, OptionalBody, Row
<1> QED
  BY <1>1, <1>2, AtWork, Sending, SenderFits, AtFrame, CoroutineStep
     DEF RegisterArrives, Goes, Awaiting, IInv, TypeOK

LEMMA Registered == ASSUME IInv, NEW c \in Coroutines, RegisterReturns(c) PROVE IInv'
<1>1. co[c].pc = "registered" /\ "dispatching" \in JobStates
  BY DEF RegisterReturns, Runs, JobStates
<1>2. /\ Calls("dispatching", co[c].handlers) \in Coroutine
      /\ Fits(rows[JobOf(c)], posts[JobOf(c)], Calls("dispatching", co[c].handlers))
  BY <1>1, AtWork, Sending, DispatchingFits, CallsFrame
<1> QED
  BY <1>1, <1>2, Sending, Move DEF RegisterReturns

LEMMA RegistrationFails == ASSUME IInv, NEW c \in Coroutines, RegisterFails(c) PROVE IInv'
<1>1. co[c].pc \in {"register", "registered"} /\ "failed" \in JobStates
  BY DEF RegisterFails, Runs, JobStates
<1> QED
  BY <1>1, AtWork, Sending, FailedFits, SettlesStateFrame, Move DEF RegisterFails

LEMMA Refused == ASSUME IInv, NEW c \in Coroutines, PostRefused(c) PROVE IInv'
<1>1. co[c].pc = "post" /\ "failed" \in JobStates
  BY DEF PostRefused, Runs, JobStates
<1> QED
  BY <1>1, AtWork, Sending, FailedFits, SettlesStateFrame, Move DEF PostRefused

LEMMA PostAnswered ==
  ASSUME IInv, NEW c \in Coroutines, PostReturns(c) \/ PostUncertain(c) PROVE IInv'
<1>1. co[c].pc = "posted" /\ {"dispatched", "uncertain"} \subseteq JobStates
  BY DEF PostReturns, PostUncertain, Runs, JobStates
<1>2. co[c].handlers <= 1
  BY <1>1, AtWork DEF Fits
<1>3. CASE PostReturns(c)
  BY <1>1, <1>2, <1>3, AtWork, Following, DispatchedFits, CallsFrame, Move DEF PostReturns
<1>4. CASE PostUncertain(c)
  BY <1>1, <1>4, AtWork, UncertainFits, SettlesStateFrame, Move DEF PostUncertain
<1> QED
  BY <1>3, <1>4

LEMMA Polls ==
  ASSUME IInv, NEW c \in Coroutines, BeginPoll(c) \/ CheckDeadline(c) \/ FetchNothing(c)
  PROVE  IInv'
<1>1. co[c].pc \in {"resume", "poll", "check", "fetch"} /\ "uncertain" \in JobStates
  BY DEF BeginPoll, CheckDeadline, FetchNothing, Runs, JobStates
<1>2. UNCHANGED <<rows, session, resumable, slots, posts, accepted, orphans, now, answers>>
  BY DEF BeginPoll, CheckDeadline, FetchNothing
<1>3. \/ Goes(c, Idle)
      \/ Goes(c, At("check", co[c].handlers))
      \/ Goes(c, At("fetch", co[c].handlers))
      \/ Goes(c, SettlesState("uncertain", co[c].handlers))
  BY DEF BeginPoll, CheckDeadline, FetchNothing
<1>4. CASE Goes(c, Idle)
  BY <1>1, <1>2, <1>4, IdleFrame, IdleFits, Move
<1>5. CASE Goes(c, At("check", co[c].handlers)) \/ Goes(c, At("fetch", co[c].handlers))
  BY <1>1, <1>2, <1>5, AtWork, Following, PollerFits, AtFrame, Move DEF Awaiting
<1>6. CASE Goes(c, SettlesState("uncertain", co[c].handlers))
  <2>1. /\ SettlesState("uncertain", co[c].handlers) \in Coroutine
        /\ Fits(rows[JobOf(c)], posts[JobOf(c)], SettlesState("uncertain", co[c].handlers))
        /\ ~MaySend(SettlesState("uncertain", co[c].handlers))
    BY <1>1, AtWork, UncertainFits, SettlesStateFrame
  <2> QED
    BY <1>1, <1>2, <1>6, <2>1, Move
<1> QED
  BY <1>3, <1>4, <1>5, <1>6

LEMMA Fetches == ASSUME IInv, NEW c \in Coroutines, FetchStored(c) PROVE IInv'
<1> DEFINE me == [At("settle", co[c].handlers) EXCEPT !.payload = slots[JobOf(c)].body]
<1>1. co[c].pc = "fetch" /\ Goes(c, me)
  BY DEF FetchStored
<1>2. slots[JobOf(c)].body \in OptionalBody /\ slots[JobOf(c)].body # NoBody
  BY AtWork DEF FetchStored, CanBeRead, IInv, TypeOK, Slot
<1>3. me \in Coroutine /\ me.pc = "settle" /\ me.payload # NoBody
  BY <1>2, AtWork DEF At, Frame, Coroutine, Awaiting, RowStates, OptionalBody
<1>4. UNCHANGED <<rows, session, resumable, slots, posts, accepted, orphans, now, answers>>
  BY DEF FetchStored
<1> HIDE DEF me
<1>5. Fits(rows[JobOf(c)], posts[JobOf(c)], me) /\ ~MaySend(me)
  BY <1>1, <1>3, AtWork, Following DEF Fits, MaySend, FollowsPost, Advancing
<1> QED
  BY <1>1, <1>3, <1>4, <1>5, Move

LEMMA Raises ==
  ASSUME IInv, NEW c \in Coroutines,
         ClientRaises(c) \/ JournalRaises(c) \/ SettleUnwritable(c)
  PROVE  IInv'
<1>1. co[c].pc # "idle" /\ Goes(c, Raised(co[c]))
  BY DEF ClientRaises, JournalRaises, SettleUnwritable, Runs
<1>2. UNCHANGED <<rows, session, resumable, slots, posts, accepted, orphans, now, answers>>
  BY DEF ClientRaises, JournalRaises, SettleUnwritable
<1> QED
  BY <1>1, <1>2, AtWork, RaisedFits, Move

(* An exception JobStateError of a store.advance leads a coroutine where   *)
(* it may be.                                                              *)
LEMMA AfterRefusalFits ==
  ASSUME NEW old \in Coroutine, NEW row, row.state # "absent", NEW sent,
         Fits(row, sent, old), old.pc \in {"advance", "cas"}
  PROVE  /\ AfterRefusal(old) \in Coroutine
         /\ Fits(row, sent, AfterRefusal(old))
         /\ MaySend(AfterRefusal(old)) => MaySend(old)
<1>1. old.handlers \in 0 .. 2 /\ {"failed", "uncertain"} \subseteq JobStates
  BY DEF Coroutine, JobStates
<1>2. CASE ~old.hard
  BY <1>2, IdleFrame, IdleFits DEF AfterRefusal
<1>3. CASE old.hard /\ old.goal = "dispatching"
  <2>1. MaySend(old) /\ sent = 0 /\ old.handlers <= 1
    BY <1>3 DEF Fits, MaySend, Advancing
  <2> QED
    BY <1>1, <1>3, <2>1, FailedFits, SettlesStateFrame DEF AfterRefusal
<1>4. CASE old.hard /\ old.goal # "dispatching"
  BY <1>1, <1>4, UncertainFits, SettlesStateFrame DEF AfterRefusal
<1> QED
  BY <1>2, <1>3, <1>4

LEMMA AdvanceReads == ASSUME IInv, NEW c \in Coroutines, AdvanceRead(c) PROVE IInv'
<1> DEFINE me == [co[c] EXCEPT !.pc = "cas", !.seen = rows[JobOf(c)].state]
<1>1. co[c].pc = "advance"
  BY DEF AdvanceRead, Runs
<1>2. UNCHANGED <<rows, session, resumable, slots, posts, accepted, orphans, now, answers>>
  BY DEF AdvanceRead
<1>3. CASE CanAdvance(rows[JobOf(c)], co[c].goal)
  <2>1. Goes(c, me)
    BY <1>3 DEF AdvanceRead
  <2>2. /\ me \in Coroutine
        /\ me.pc = "cas" /\ me.seen = rows[JobOf(c)].state /\ me.goal = co[c].goal
        /\ me.hard = co[c].hard /\ me.handlers = co[c].handlers
    BY AtWork DEF Coroutine, Running, Row
  <2> HIDE DEF me
  <2>3. Fits(rows[JobOf(c)], posts[JobOf(c)], me) /\ (MaySend(me) => MaySend(co[c]))
    BY <1>1, <1>3, <2>2, AtWork DEF Fits, MaySend, FollowsPost, Advancing, CanAdvance
  <2> QED
    BY <1>1, <1>2, <2>1, <2>2, <2>3, Move
<1>4. CASE ~CanAdvance(rows[JobOf(c)], co[c].goal)
  <2>1. Goes(c, AfterRefusal(co[c]))
    BY <1>4 DEF AdvanceRead
  <2> QED
    BY <1>1, <1>2, <2>1, AtWork, AfterRefusalFits, Move
<1> QED
  BY <1>3, <1>4

LEMMA PostsPacket == ASSUME IInv, NEW c \in Coroutines, PostSends(c) PROVE IInv'
<1> DEFINE me == At("posted", co[c].handlers)
           j == JobOf(c)
<1>1. co[c].pc = "post" /\ co' = [co EXCEPT ![c] = me]
  BY DEF PostSends, Goes
<1>2. /\ rows[j].state \in {"dispatching", "uncertain"}
      /\ posts[j] = 0 /\ MaySend(co[c])
  BY <1>1, AtWork, Sending DEF Fits
<1>3. rows' = [rows EXCEPT ![j] = rows[j]] /\ posts' = [posts EXCEPT ![j] = 1]
  BY <1>2, AtWork DEF PostSends, IInv, TypeOK
<1>4. me \in Coroutine /\ Fits(rows[j], 1, me) /\ ~MaySend(me)
  BY <1>1, <1>2, AtWork, Sending, AtFrame, PostedFits DEF Awaiting
<1>5. /\ UNCHANGED <<session, resumable, orphans>>
      /\ slots' \in [Jobs -> Slot] /\ accepted' \subseteq Jobs /\ now' \in Nat
      /\ answers' \in [Jobs -> SUBSET Bodies]
      /\ \A k \in Jobs : answers'[k] \subseteq answers[k] \union {rows[k].digest}
  BY DEF PostSends, IInv, TypeOK
<1>6. rows[j] \in Row /\ 1 \in Nat
  BY AtWork
<1> HIDE DEF me
<1> QED
  BY <1>1, <1>2, <1>3, <1>4, <1>5, <1>6, JobStep

(* A statement that records evidence on a dispatched row, or finds that it *)
(* may not, in a coroutine that goes on without the permission to send.    *)
LEMMA Records ==
  ASSUME IInv, NEW c \in Coroutines, co[c].pc = "settle",
         NEW me \in Coroutine, Goes(c, me), NEW new \in Row,
         rows' = [rows EXCEPT ![JobOf(c)] = new],
         UNCHANGED <<session, resumable, slots, posts, accepted, orphans, now, answers>>,
         Fits(new, posts[JobOf(c)], me), ~MaySend(me),
         \/ new = rows[JobOf(c)]
         \/ rows[JobOf(c)].state = "dispatched" /\ new.state = "dispatched",
         rows[JobOf(c)].digest # NoBody => new.digest = rows[JobOf(c)].digest,
         rows[JobOf(c)].error = "worker" => new.error = "worker"
  PROVE  IInv'
<1> DEFINE j == JobOf(c)
<1>1. posts[j] > 0 /\ posts[j] \in Nat /\ rows[j].state # "absent"
  BY AtWork, Following
<1>2. posts' = [posts EXCEPT ![j] = posts[j]] /\ co' = [co EXCEPT ![c] = me]
  BY AtWork DEF IInv, TypeOK, Goes
<1>3. /\ slots' \in [Jobs -> Slot] /\ accepted' \subseteq Jobs /\ now' \in Nat
      /\ answers' \in [Jobs -> SUBSET Bodies]
      /\ \A k \in Jobs : answers'[k] \subseteq answers[k] \union {rows[k].digest}
  BY DEF IInv, TypeOK
<1>4. /\ new.state \in {"dispatched", "ready", "conflict"} => posts[j] > 0
      /\ new.state = "ready" => new.digest # NoBody
  BY <1>1, AtWork DEF RowConsistent
<1> QED
  BY <1>1, <1>2, <1>3, <1>4, JobStep

LEMMA SettlesInvalid == ASSUME IInv, NEW c \in Coroutines, SettleInvalid(c) PROVE IInv'
<1> DEFINE j == JobOf(c)
           me == SettlesState("conflict", co[c].handlers)
           new == IF CanRecordError(rows[j])
                    THEN [rows[j] EXCEPT !.error = "invalid_result"] ELSE rows[j]
<1>1. co[c].pc = "settle" /\ Goes(c, me)
  BY DEF SettleInvalid, Runs
<1>2. rows' = [rows EXCEPT ![j] = new]
  BY AtWork DEF SettleInvalid, IInv, TypeOK
<1>3. /\ new \in Row /\ new.digest = rows[j].digest /\ new.state = rows[j].state
      /\ rows[j].error = "worker" => new.error = "worker"
      /\ new = rows[j] \/ rows[j].state = "dispatched"
  BY AtWork DEF CanRecordError, Row, Errors
<1>4. UNCHANGED <<session, resumable, slots, posts, accepted, orphans, now, answers>>
  BY DEF SettleInvalid
<1> HIDE DEF new
<1>5. me \in Coroutine /\ Fits(new, posts[j], me) /\ ~MaySend(me)
  BY <1>1, <1>3, AtWork, Following, ConflictFits, SettlesStateFrame DEF JobStates
<1> HIDE DEF me
<1> QED
  BY <1>1, <1>2, <1>3, <1>4, <1>5, Records

LEMMA SettlesOk == ASSUME IInv, NEW c \in Coroutines, SettleOk(c) PROVE IInv'
<1> DEFINE j == JobOf(c)
           me == Calls("ready", co[c].handlers)
           new == [rows[j] EXCEPT !.digest = co[c].payload]
<1>1. co[c].pc = "settle"
  BY DEF SettleOk, Runs
<1>2. UNCHANGED <<session, resumable, slots, posts, accepted, orphans, now, answers>>
  BY DEF SettleOk
<1>3. CASE CanRecordResult(rows[j])
  <2>1. rows' = [rows EXCEPT ![j] = new] /\ Goes(c, me)
    BY <1>3, AtWork DEF SettleOk, IInv, TypeOK
  <2>2. /\ new \in Row /\ new.error = rows[j].error
        /\ new.state = "dispatched" /\ rows[j].state = "dispatched"
        /\ rows[j].digest = NoBody
    BY <1>3, AtWork DEF CanRecordResult, Row, Coroutine
  <2> HIDE DEF new
  <2>3. me \in Coroutine /\ Fits(new, posts[j], me) /\ ~MaySend(me)
    BY <1>1, <2>2, AtWork, Following, ReadyFits, CallsFrame DEF JobStates
  <2> HIDE DEF me
  <2> QED
    BY <1>1, <1>2, <2>1, <2>2, <2>3, Records
<1>4. CASE ~CanRecordResult(rows[j])
  <2>1. Goes(c, SettlesState("uncertain", co[c].handlers)) /\ UNCHANGED rows
    BY <1>4 DEF SettleOk
  <2>2. /\ SettlesState("uncertain", co[c].handlers) \in Coroutine
        /\ Fits(rows[j], posts[j], SettlesState("uncertain", co[c].handlers))
        /\ ~MaySend(SettlesState("uncertain", co[c].handlers))
    BY <1>1, AtWork, UncertainFits, SettlesStateFrame DEF JobStates
  <2> QED
    BY <1>1, <1>2, <2>1, <2>2, Move
<1> QED
  BY <1>3, <1>4

LEMMA SettlesError == ASSUME IInv, NEW c \in Coroutines, SettleError(c) PROVE IInv'
<1> DEFINE j == JobOf(c)
           me == Calls("failed", co[c].handlers)
           new == [rows[j] EXCEPT !.error = "worker"]
<1>1. co[c].pc = "settle"
  BY DEF SettleError, Runs
<1>2. UNCHANGED <<session, resumable, slots, posts, accepted, orphans, now, answers>>
  BY DEF SettleError
<1>3. CASE CanRecordError(rows[j])
  <2>1. rows' = [rows EXCEPT ![j] = new] /\ Goes(c, me)
    BY <1>3, AtWork DEF SettleError, IInv, TypeOK
  <2>2. /\ new \in Row /\ new.error = "worker" /\ new.digest = rows[j].digest
        /\ new.state = "dispatched" /\ rows[j].state = "dispatched"
    BY <1>3, AtWork DEF CanRecordError, Row, Errors
  <2> HIDE DEF new
  <2>3. me \in Coroutine /\ Fits(new, posts[j], me) /\ ~MaySend(me)
    BY <1>1, <2>2, AtWork, Following, RefusedFits, CallsFrame DEF JobStates
  <2> HIDE DEF me
  <2> QED
    BY <1>1, <1>2, <2>1, <2>2, <2>3, Records
<1>4. CASE ~CanRecordError(rows[j])
  <2>1. Goes(c, SettlesState("uncertain", co[c].handlers)) /\ UNCHANGED rows
    BY <1>4 DEF SettleError
  <2>2. /\ SettlesState("uncertain", co[c].handlers) \in Coroutine
        /\ Fits(rows[j], posts[j], SettlesState("uncertain", co[c].handlers))
        /\ ~MaySend(SettlesState("uncertain", co[c].handlers))
    BY <1>1, AtWork, UncertainFits, SettlesStateFrame DEF JobStates
  <2> QED
    BY <1>1, <1>2, <2>1, <2>2, Move
<1> QED
  BY <1>3, <1>4

(* A successful store.advance leads a coroutine where it may be.           *)
LEMMA AfterAdvanceFits ==
  ASSUME NEW old \in Coroutine, NEW row, row.state # "absent", NEW sent,
         Fits(row, sent, old), old.pc = "cas",
         NEW new, new.state = old.goal, new.state # "absent"
  PROVE  /\ AfterAdvance(old) \in Coroutine
         /\ Fits(new, sent, AfterAdvance(old))
         /\ MaySend(AfterAdvance(old)) => MaySend(old) /\ old.goal = "dispatching"
<1>1. old.handlers \in 0 .. 2
  BY DEF Coroutine
<1>2. CASE old.hard /\ old.goal = "dispatching"
  <2>1. MaySend(old) /\ sent = 0 /\ old.handlers <= 1
    BY <1>2 DEF Fits, MaySend, Advancing
  <2>2. AfterAdvance(old) = At("post", old.handlers)
    BY <1>2 DEF AfterAdvance
  <2> QED
    BY <1>1, <1>2, <2>1, <2>2, PostFits, AtFrame DEF Awaiting
<1>3. CASE old.hard /\ old.goal = "dispatched"
  <2>1. sent > 0 /\ old.handlers + 1 \in 0 .. 2
    BY <1>1, <1>3 DEF Fits, FollowsPost, Advancing
  <2>2. AfterAdvance(old) = At("poll", old.handlers + 1)
    BY <1>3 DEF AfterAdvance
  <2> QED
    BY <2>1, <2>2, PollerFits, AtFrame DEF Running
<1>4. CASE ~old.hard \/ old.goal \notin {"dispatching", "dispatched"}
  <2>1. AfterAdvance(old) = Idle
    BY <1>4 DEF AfterAdvance
  <2> QED
    BY <2>1, IdleFrame, IdleFits
<1> QED
  BY <1>2, <1>3, <1>4

LEMMA AdvanceWrites == ASSUME IInv, NEW c \in Coroutines, AdvanceWrite(c) PROVE IInv'
<1> DEFINE j == JobOf(c)
           new == [rows[j] EXCEPT !.state = co[c].goal]
           me == AfterAdvance(co[c])
<1>1. co[c].pc = "cas"
  BY DEF AdvanceWrite, Runs
<1>2. UNCHANGED <<session, resumable, slots, posts, accepted, orphans, now, answers>>
  BY DEF AdvanceWrite
<1>3. CASE rows[j].state = co[c].seen
  <2>1. rows' = [rows EXCEPT ![j] = new] /\ co' = [co EXCEPT ![c] = me]
    BY <1>3, AtWork DEF AdvanceWrite, Goes, IInv, TypeOK
  <2>2. co[c].goal \in NextStates[rows[j].state] /\ rows[j].state \in RowStates
    BY <1>1, <1>3, AtWork DEF Fits, Row
  <2>3. co[c].goal \in JobStates
    BY <2>2 DEF NextStates, JobStates, RowStates
  <2>4. /\ new \in Row /\ new.state = co[c].goal /\ new.state # "absent"
        /\ new.digest = rows[j].digest /\ new.error = rows[j].error
    BY <2>3, AtWork DEF Row, RowStates, JobStates
  <2> HIDE DEF new
  <2>5. /\ me \in Coroutine /\ Fits(new, posts[j], me)
        /\ MaySend(me) => MaySend(co[c]) /\ co[c].goal = "dispatching"
    BY <1>1, <2>4, AtWork, AfterAdvanceFits
  <2> HIDE DEF me
  <2>6. posts' = [posts EXCEPT ![j] = posts[j]]
    BY <1>2, AtWork DEF IInv, TypeOK
  <2>7. /\ slots' \in [Jobs -> Slot] /\ accepted' \subseteq Jobs /\ now' \in Nat
        /\ answers' \in [Jobs -> SUBSET Bodies]
        /\ \A k \in Jobs : answers'[k] \subseteq answers[k] \union {rows[k].digest}
    BY <1>2 DEF IInv, TypeOK
  <2>8. /\ MaySend(co[c]) \/ FollowsPost(co[c]) \/ Advancing(co[c], FALSE, {"uncertain"})
        /\ FollowsPost(co[c]) => posts[j] > 0
        /\ co[c].goal = "ready" => rows[j].digest # NoBody
        /\ Advancing(co[c], TRUE, {"failed"}) => rows[j].error = "worker"
    BY <1>1, AtWork DEF Fits
  <2>9. new.state \in {rows[j].state, "uncertain"} \/ posts[j] > 0 \/ MaySend(co[c])
    BY <2>4, <2>8 DEF Advancing
  <2>10. new.state \in {"dispatched", "ready", "conflict"} => posts[j] > 0
    BY <1>1, <2>4, <2>8 DEF MaySend, Advancing
  <2>11. new.state = "failed" => new.error = "worker" \/ (MaySend(co[c]) /\ ~MaySend(me))
    BY <1>1, <2>4, <2>5, <2>8 DEF MaySend, FollowsPost, Advancing
  <2>12. posts[j] \in Nat /\ rows[j].state # "absent" /\ (new.state = "ready" => new.digest # NoBody)
    BY <1>1, <2>4, <2>8, AtWork
  <2>13. rows[j].state \in {"ready", "conflict"} => new.state \in {"ready", "conflict"}
    BY <2>2, <2>4 DEF NextStates
  <2> QED
    BY <1>2, <2>1, <2>4, <2>5, <2>6, <2>7, <2>9, <2>10, <2>11, <2>12, <2>13, JobStep
<1>4. CASE rows[j].state # co[c].seen
  <2>1. Goes(c, AfterRefusal(co[c])) /\ UNCHANGED rows
    BY <1>4 DEF AdvanceWrite
  <2> QED
    BY <1>1, <1>2, <2>1, AtWork, AfterRefusalFits, Move
<1> QED
  BY <1>3, <1>4

LEMMA ReadsResult ==
  ASSUME IInv, NEW s \in Sessions, NEW j \in Jobs, ReadResult(s, j) PROVE IInv'
<1> DEFINE c == <<s, "reader", j>>
           me == [At("refetch", 0) EXCEPT !.digest = rows[j].digest]
<1>1. c \in Coroutines /\ JobOf(c) = j
  BY Coroutines3
<1>2. rows[j].state = "ready" /\ co' = [co EXCEPT ![c] = me]
  BY DEF ReadResult, Goes
<1>3. /\ UNCHANGED <<rows, session, resumable, posts, orphans>>
      /\ slots' \in [Jobs -> Slot] /\ accepted' \subseteq Jobs /\ now' \in Nat
      /\ answers' \in [Jobs -> SUBSET Bodies]
      /\ \A k \in Jobs : answers'[k] \subseteq answers[k] \union {rows[k].digest}
  BY DEF ReadResult, IInv, TypeOK
<1>4. posts[j] > 0 /\ rows[j].digest # NoBody /\ rows[j].digest \in OptionalBody
  BY <1>2 DEF IInv, RowsConsistent, RowConsistent, TypeOK, Row
<1>5. me \in Coroutine /\ me.pc = "refetch" /\ me.digest = rows[j].digest
  <2>1. At("refetch", 0) \in Coroutine /\ At("refetch", 0).pc = "refetch"
    BY AtFrame DEF Awaiting
  <2> QED
    BY <1>4, <2>1 DEF Coroutine
<1> HIDE DEF me
<1>6. Fits(rows[j], posts[j], me) /\ ~MaySend(me)
  BY <1>2, <1>4, <1>5 DEF Fits, MaySend, FollowsPost, Advancing
<1> HIDE DEF c
<1> QED
  BY <1>1, <1>2, <1>3, <1>5, <1>6, CoroutineStep

LEMMA Refetches == ASSUME IInv, NEW c \in Coroutines, RefetchReturns(c) PROVE IInv'
<1> DEFINE j == JobOf(c)
           me == [co[c] EXCEPT !.pc = "revalidate", !.payload = slots[j].body]
<1>1. co[c].pc = "refetch" /\ Goes(c, me)
  BY DEF RefetchReturns
<1>2. UNCHANGED <<rows, session, resumable, slots, posts, accepted, orphans, now, answers>>
  BY DEF RefetchReturns
<1>3. slots[j].body \in OptionalBody
  BY AtWork DEF IInv, TypeOK, Slot
<1>4. me \in Coroutine /\ me.pc = "revalidate" /\ me.digest = co[c].digest
  BY <1>3, AtWork DEF Coroutine, Awaiting
<1> HIDE DEF me
<1>5. Fits(rows[j], posts[j], me) /\ ~MaySend(me)
  BY <1>1, <1>4, AtWork, Following DEF Fits, MaySend, FollowsPost, Advancing
<1> QED
  BY <1>1, <1>2, <1>4, <1>5, Move

LEMMA RefetchGivesUp == ASSUME IInv, NEW c \in Coroutines, RefetchFails(c) PROVE IInv'
<1>1. co[c].pc = "refetch" /\ Goes(c, Idle)
  BY DEF RefetchFails
<1> QED
  BY <1>1, IdleFrame, IdleFits, Move DEF RefetchFails

LEMMA Revalidates == ASSUME IInv, NEW c \in Coroutines, Revalidate(c) PROVE IInv'
<1> DEFINE j == JobOf(c)
<1>1. co[c].pc = "revalidate" /\ rows[j].state # "absent"
  BY AtWork DEF Revalidate, Runs
<1>2. co[c].digest = rows[j].digest /\ co[c].digest # NoBody
  BY <1>1, AtWork DEF Fits
<1>3. CASE Genuine(co[c], now)
  <2>1. answers' = [answers EXCEPT ![j] = @ \union {rows[j].digest}] /\ Goes(c, Idle)
    BY <1>2, <1>3 DEF Revalidate, Genuine
  <2>2. rows[j].digest \in Bodies
    BY <1>2, AtWork DEF Row, OptionalBody
  <2>3. /\ answers' \in [Jobs -> SUBSET Bodies]
        /\ \A k \in Jobs : answers'[k] \subseteq answers[k] \union {rows[k].digest}
    BY <2>1, <2>2, AtWork DEF IInv, TypeOK
  <2>4. /\ UNCHANGED <<rows, session, resumable, posts, orphans>>
        /\ slots' \in [Jobs -> Slot] /\ accepted' \subseteq Jobs /\ now' \in Nat
        /\ co' = [co EXCEPT ![c] = Idle]
    BY <2>1 DEF Revalidate, Goes, IInv, TypeOK
  <2> QED
    BY <1>1, <2>3, <2>4, IdleFrame, IdleFits, CoroutineStep
<1>4. CASE ~Genuine(co[c], now)
  <2>1. /\ Goes(c, SettlesState("conflict", 0))
        /\ UNCHANGED <<rows, session, resumable, slots, posts, accepted, orphans, now, answers>>
    BY <1>4 DEF Revalidate
  <2>2. /\ SettlesState("conflict", 0) \in Coroutine
        /\ Fits(rows[j], posts[j], SettlesState("conflict", 0))
        /\ ~MaySend(SettlesState("conflict", 0))
    BY <1>1, AtWork, Following, ConflictFits, SettlesStateFrame DEF JobStates
  <2> QED
    BY <1>1, <2>1, <2>2, Move
<1> QED
  BY <1>3, <1>4

-----------------------------------------------------------------------------
(* Steps that are no coroutine's.                                          *)

\* A job without a row has nobody at work on it.
LEMMA AbsentJob ==
  ASSUME IInv, NEW j \in Jobs, rows[j].state = "absent"
  PROVE  /\ \A c \in Coroutines : JobOf(c) = j => co[c].pc = "idle" /\ ~MaySend(co[c])
         /\ rows[j] = NoRow /\ posts[j] = 0 /\ j \notin orphans
         /\ \A s \in Sessions : j \notin resumable[s]
         /\ answers[j] = {}
<1>1. /\ rows[j] = NoRow /\ posts[j] = 0 /\ j \notin orphans
      /\ \A s \in Sessions : j \notin resumable[s]
      /\ answers[j] \subseteq {rows[j].digest}
  BY DEF IInv, RowsConsistent, RowConsistent
<1>2. answers[j] = {}
  BY <1>1, CallbackAssumption DEF NoRow, IInv, TypeOK
<1>3. ASSUME NEW c \in Coroutines, JobOf(c) = j PROVE co[c].pc = "idle" /\ ~MaySend(co[c])
  <2>1. co[c].pc = "idle"
    BY <1>3 DEF IInv, CoroutinesFit, Fits
  <2> QED
    BY <2>1 DEF MaySend, Advancing
<1> QED
  BY <1>1, <1>2, <1>3

LEMMA Starts ==
  ASSUME IInv, NEW s \in Sessions, NEW j \in Jobs, Start(s, j) PROVE IInv'
<1> DEFINE c == Task(s, j)
           me == At("start", 1)
           new == NewRow(now + Lifetime)
<1>1. c \in Coroutines /\ JobOf(c) = j
  BY Coroutines3
<1>2. /\ rows[j].state = "absent" /\ rows' = [rows EXCEPT ![j] = new]
      /\ co' = [co EXCEPT ![c] = me]
      /\ UNCHANGED <<session, resumable, slots, posts, accepted, orphans, now, answers>>
  BY DEF Start, Goes
<1>3. new \in Row /\ new.state = "queued" /\ new.digest = NoBody
  BY CoordinatorAssumption DEF NewRow, Row, RowStates, JobStates, OptionalBody, Errors, IInv, TypeOK
<1>4. me \in Coroutine /\ Fits(new, 0, me)
  <2>1. new.state # "absent" /\ 1 \in 0 .. 2 /\ 1 <= 1
    BY <1>3
  <2> HIDE DEF new
  <2> QED
    BY <2>1, AtFrame, SenderFits DEF Awaiting
<1> HIDE DEF me, new
<1>5. /\ \A d \in Coroutines : co'[d] = IF d = c THEN me ELSE co[d]
      /\ \A k \in Jobs : rows'[k] = IF k = j THEN new ELSE rows[k]
  BY <1>1, <1>2 DEF IInv, TypeOK
<1>6. TypeOK'
  BY <1>1, <1>2, <1>3, <1>4 DEF IInv, TypeOK
<1>7. CoroutinesFit'
  <2> SUFFICES ASSUME NEW d \in Coroutines
               PROVE  /\ Fits(rows'[JobOf(d)], posts'[JobOf(d)], co'[d])
                      /\ MaySend(co'[d]) => JobOf(d) \notin orphans'
    BY DEF CoroutinesFit, JobOf
  <2>1. /\ Fits(rows[JobOf(d)], posts[JobOf(d)], co[d])
        /\ MaySend(co[d]) => JobOf(d) \notin orphans
        /\ JobOf(d) \in Jobs
    BY Coroutines3 DEF IInv, CoroutinesFit
  <2>2. CASE d = c
    BY <1>1, <1>2, <1>4, <1>5, <2>2, AbsentJob
  <2>3. CASE d # c /\ JobOf(d) = j
    <3>1. co[d].pc = "idle" /\ ~MaySend(co[d]) /\ co'[d] = co[d] /\ posts'[j] = 0
      BY <1>2, <1>5, <2>3, AbsentJob
    <3>2. Fits(new, 0, co[d])
      BY <3>1 DEF Fits, MaySend, FollowsPost, Advancing
    <3> QED
      BY <1>5, <2>1, <2>3, <3>1, <3>2
  <2>4. CASE JobOf(d) # j
    BY <1>1, <1>2, <1>5, <2>1, <2>4
  <2> QED
    BY <2>2, <2>3, <2>4
<1>8. OneSender'
  <2>1. \A d \in Coroutines : JobOf(d) = j /\ MaySend(co'[d]) => d = c
    BY <1>2, <1>5, AbsentJob
  <2>2. \A d \in Coroutines : JobOf(d) # j => co'[d] = co[d]
    BY <1>1, <1>5
  <2> QED
    BY <2>1, <2>2 DEF IInv, OneSender, JobOf
<1>9. ASSUME NEW k \in Jobs PROVE RowConsistent(k)'
  <2>1. CASE k = j
    BY <1>2, <1>3, <1>5, <2>1, AbsentJob DEF RowConsistent
  <2>2. CASE k # j
    <3>1. RowConsistent(k) /\ rows'[k] = rows[k]
      BY <1>5, <2>2 DEF IInv, RowsConsistent
    <3>2. NoSender(k) => NoSender(k)'
      BY <1>1, <1>5, <2>2 DEF NoSender, JobOf
    <3> QED
      BY <1>2, <3>1, <3>2 DEF RowConsistent
  <2> QED
    BY <2>1, <2>2
<1> QED
  BY <1>6, <1>7, <1>8, <1>9 DEF IInv, RowsConsistent

\* A coroutine that may not send fits any positive number of POSTs.
LEMMA SentFits ==
  ASSUME NEW row, NEW sent, NEW me, Fits(row, sent, me), ~MaySend(me)
  PROVE  Fits(row, 1, me)
<1>1. FollowsPost(me) => 1 > 0
  OBVIOUS
<1> QED
  BY <1>1 DEF Fits

LEMMA OrphansPost == ASSUME IInv, NEW j \in Jobs, OrphanPosts(j) PROVE IInv'
<1>1. /\ posts' = [posts EXCEPT ![j] = 1] /\ posts[j] = 0
      /\ j \in orphans /\ orphans' = orphans \ {j}
      /\ rows[j].state \in {"dispatching", "uncertain"}
  <2>1. /\ j \in orphans /\ orphans' = orphans \ {j}
        /\ posts' = [posts EXCEPT ![j] = posts[j] + 1]
    BY DEF OrphanPosts
  <2>2. posts[j] = 0 /\ rows[j].state \in {"dispatching", "uncertain"}
    BY <2>1 DEF IInv, RowsConsistent, RowConsistent
  <2> QED
    BY <2>1, <2>2
<1>2. UNCHANGED <<rows, session, resumable, co, slots, accepted, now, answers>>
  BY DEF OrphanPosts
<1>3. \A k \in Jobs : posts'[k] = IF k = j THEN 1 ELSE posts[k]
  BY <1>1 DEF IInv, TypeOK
<1>4. TypeOK'
  BY <1>1, <1>2 DEF IInv, TypeOK
<1>5. CoroutinesFit'
  <2> SUFFICES ASSUME NEW d \in Coroutines
               PROVE  /\ Fits(rows[JobOf(d)], posts'[JobOf(d)], co[d])
                      /\ MaySend(co[d]) => JobOf(d) \notin orphans'
    BY <1>2 DEF CoroutinesFit, JobOf
  <2>1. /\ Fits(rows[JobOf(d)], posts[JobOf(d)], co[d])
        /\ MaySend(co[d]) => JobOf(d) \notin orphans
        /\ JobOf(d) \in Jobs
    BY Coroutines3 DEF IInv, CoroutinesFit
  <2>2. CASE JobOf(d) = j
    <3>1. ~MaySend(co[d]) /\ posts'[JobOf(d)] = 1
      BY <1>1, <1>3, <2>1, <2>2
    <3>2. Fits(rows[JobOf(d)], 1, co[d])
      BY <2>1, <3>1, SentFits
    <3> QED
      BY <3>1, <3>2
  <2>3. CASE JobOf(d) # j
    BY <1>1, <1>3, <2>1, <2>3
  <2> QED
    BY <2>2, <2>3
<1>6. OneSender'
  BY <1>2 DEF IInv, OneSender, JobOf
<1>7. ASSUME NEW k \in Jobs PROVE RowConsistent(k)'
  <2>1. RowConsistent(k) /\ (NoSender(k) => NoSender(k)')
    BY <1>2 DEF IInv, RowsConsistent, NoSender, JobOf
  <2> QED
    BY <1>1, <1>2, <1>3, <2>1 DEF RowConsistent
<1> QED
  BY <1>4, <1>5, <1>6, <1>7 DEF IInv, RowsConsistent

LEMMA Opens == ASSUME IInv, NEW s \in Sessions, Open(s) PROVE IInv'
<1>1. /\ resumable' = [resumable EXCEPT ![s] = Resumable(rows)]
      /\ session' = [session EXCEPT ![s] = "opening"]
      /\ UNCHANGED <<rows, co, slots, posts, accepted, orphans, now, answers>>
  BY DEF Open
<1>2. TypeOK'
  BY <1>1 DEF IInv, TypeOK, Resumable
<1>3. CoroutinesFit' /\ OneSender'
  BY <1>1 DEF IInv, CoroutinesFit, OneSender, JobOf
<1>4. ASSUME NEW k \in Jobs PROVE RowConsistent(k)'
  <2>1. RowConsistent(k) /\ (NoSender(k) => NoSender(k)')
    BY <1>1 DEF IInv, RowsConsistent, NoSender, JobOf
  <2>2. ASSUME NEW t \in Sessions, k \in resumable'[t] PROVE posts[k] > 0
    BY <1>1, <2>1, <2>2 DEF RowConsistent, Resumable, IInv, TypeOK
  <2> QED
    BY <1>1, <2>1, <2>2 DEF RowConsistent
<1> QED
  BY <1>2, <1>3, <1>4 DEF IInv, RowsConsistent

LEMMA Reconciles == ASSUME IInv, NEW s \in Sessions, Reconcile(s) PROVE IInv'
<1> DEFINE resumed == {Task(s, j) : j \in resumable[s]}
<1>1. /\ rows' = [j \in Jobs |-> Reconciled(rows[j])]
      /\ co' = [c \in Coroutines |-> IF c \in resumed THEN At("resume", 1) ELSE co[c]]
      /\ session' = [session EXCEPT ![s] = "up"]
      /\ resumable' = [resumable EXCEPT ![s] = {}]
      /\ UNCHANGED <<slots, posts, accepted, orphans, now, answers>>
  BY DEF Reconcile
<1>2. ASSUME NEW j \in Jobs
      PROVE  /\ rows'[j] = Reconciled(rows[j]) /\ rows'[j] \in Row
             /\ rows'[j].digest = rows[j].digest /\ rows'[j].error = rows[j].error
             /\ rows'[j].state # rows[j].state =>
                  rows[j].state \in PreDispatch /\ rows'[j].state = "uncertain"
             /\ rows[j].state = "absent" => rows'[j] = rows[j]
  BY <1>1 DEF Reconciled, Row, RowStates, JobStates, PreDispatch, IInv, TypeOK
<1>3. ASSUME NEW c \in Coroutines, c \in resumed
      PROVE  posts[JobOf(c)] > 0 /\ rows'[JobOf(c)].state # "absent"
  <2>1. JobOf(c) \in resumable[s] /\ JobOf(c) \in Jobs
    BY <1>3, Coroutines3 DEF IInv, TypeOK
  <2> QED
    BY <1>2, <2>1 DEF IInv, RowsConsistent, RowConsistent
<1>4. \A c \in Coroutines : co'[c] = IF c \in resumed THEN At("resume", 1) ELSE co[c]
  BY <1>1
<1> HIDE DEF resumed
<1>5. At("resume", 1) \in Coroutine /\ 1 \in 0 .. 2
  BY AtFrame DEF Awaiting
<1>6. TypeOK'
  BY <1>1, <1>2, <1>5 DEF IInv, TypeOK
<1>7. ~MaySend(At("resume", 1))
  BY AtFrame DEF Awaiting, MaySend, Advancing
<1>8. CoroutinesFit'
  <2> SUFFICES ASSUME NEW d \in Coroutines
               PROVE  /\ Fits(rows'[JobOf(d)], posts[JobOf(d)], co'[d])
                      /\ MaySend(co'[d]) => JobOf(d) \notin orphans
    BY <1>1 DEF CoroutinesFit, JobOf
  <2>1. /\ Fits(rows[JobOf(d)], posts[JobOf(d)], co[d])
        /\ MaySend(co[d]) => JobOf(d) \notin orphans
        /\ JobOf(d) \in Jobs
    BY Coroutines3 DEF IInv, CoroutinesFit
  <2>2. CASE d \in resumed
    BY <1>3, <1>4, <1>5, <1>7, <2>2, PollerFits
  <2>3. CASE d \notin resumed
    <3>1. co'[d] = co[d]
      BY <1>4, <2>3
    <3>2. /\ rows'[JobOf(d)].digest = rows[JobOf(d)].digest
          /\ rows'[JobOf(d)].error = rows[JobOf(d)].error
          /\ rows[JobOf(d)].state # "absent" => rows'[JobOf(d)].state # "absent"
          /\ rows[JobOf(d)].state \in {"dispatching", "uncertain"} =>
               rows'[JobOf(d)].state \in {"dispatching", "uncertain"}
          /\ rows[JobOf(d)].state \in {"ready", "conflict"} =>
               rows'[JobOf(d)].state \in {"ready", "conflict"}
      BY <1>2, <2>1 DEF PreDispatch
    <3>3. Fits(rows'[JobOf(d)], posts[JobOf(d)], co[d])
      BY <2>1, <3>2 DEF Fits
    <3> QED
      BY <2>1, <3>1, <3>3
  <2> QED
    BY <2>2, <2>3
<1>9. OneSender'
  BY <1>4, <1>7 DEF IInv, OneSender, JobOf
<1>10. ASSUME NEW k \in Jobs PROVE RowConsistent(k)'
  <2>1. RowConsistent(k)
    BY DEF IInv, RowsConsistent
  <2>2. NoSender(k) => NoSender(k)'
    BY <1>4, <1>7 DEF NoSender, JobOf
  <2>3. \A t \in Sessions : k \in resumable'[t] => posts[k] > 0
    BY <1>1, <2>1 DEF RowConsistent, IInv, TypeOK
  <2> QED
    BY <1>1, <1>2, <2>1, <2>2, <2>3 DEF RowConsistent, PreDispatch
<1> QED
  BY <1>6, <1>8, <1>9, <1>10 DEF IInv, RowsConsistent

(* A session ends, and the threads of some of its tasks go on.             *)
LEMMA Ends ==
  ASSUME IInv, NEW s \in Sessions, NEW threads \in SUBSET Jobs,
         \A j \in threads : co[Task(s, j)].pc = "post",
         co' = [c \in Coroutines |-> IF SessionOf(c) = s THEN Idle ELSE co[c]],
         orphans' = orphans \union threads,
         resumable' \in [Sessions -> SUBSET Jobs],
         \A t \in Sessions : resumable'[t] \subseteq resumable[t],
         session' = [session EXCEPT ![s] = "down"],
         UNCHANGED <<rows, slots, posts, accepted, now, answers>>
  PROVE  IInv'
<1>1. ASSUME NEW j \in threads
      PROVE  /\ posts[j] = 0 /\ MaySend(co[Task(s, j)])
             /\ rows[j].state \in {"dispatching", "uncertain"}
             /\ Task(s, j) \in Coroutines /\ JobOf(Task(s, j)) = j
  <2>1. Task(s, j) \in Coroutines /\ JobOf(Task(s, j)) = j /\ co[Task(s, j)].pc = "post"
    BY Coroutines3
  <2> QED
    BY <2>1, Sending, AtWork DEF Fits
<1>2. \A c \in Coroutines : co'[c] = IF SessionOf(c) = s THEN Idle ELSE co[c]
  OBVIOUS
<1>3. TypeOK'
  BY IdleFrame DEF IInv, TypeOK
<1>4. ASSUME NEW d \in Coroutines, MaySend(co'[d])
      PROVE  SessionOf(d) # s /\ co'[d] = co[d] /\ JobOf(d) \notin orphans'
  <2>1. SessionOf(d) # s /\ co'[d] = co[d] /\ MaySend(co[d]) /\ JobOf(d) \notin orphans
    BY <1>2, <1>4, IdleFrame DEF IInv, CoroutinesFit
  <2>2. ASSUME JobOf(d) \in threads PROVE FALSE
    <3>1. d = Task(s, JobOf(d))
      BY <1>1, <2>1, <2>2 DEF IInv, OneSender
    <3> QED
      BY <2>1, <3>1 DEF Task, SessionOf
  <2> QED
    BY <2>1, <2>2
<1>5. CoroutinesFit'
  <2> SUFFICES ASSUME NEW d \in Coroutines
               PROVE  /\ Fits(rows[JobOf(d)], posts[JobOf(d)], co'[d])
                      /\ MaySend(co'[d]) => JobOf(d) \notin orphans'
    BY DEF CoroutinesFit, JobOf
  <2> QED
    BY <1>2, <1>4, IdleFits DEF IInv, CoroutinesFit
<1>6. OneSender'
  BY <1>4 DEF IInv, OneSender, JobOf
<1>7. ASSUME NEW k \in Jobs PROVE RowConsistent(k)'
  <2>1. RowConsistent(k) /\ (NoSender(k) => NoSender(k)')
    BY <1>4 DEF IInv, RowsConsistent, NoSender, JobOf
  <2>2. k \in orphans' =>
          posts[k] = 0 /\ rows[k].state \in {"dispatching", "uncertain"}
    BY <1>1, <2>1 DEF RowConsistent
  <2> QED
    BY <2>1, <2>2 DEF RowConsistent
<1> QED
  BY <1>3, <1>5, <1>6, <1>7 DEF IInv, RowsConsistent

LEMMA Stops == ASSUME IInv, NEW s \in Sessions, Crash(s) \/ Shutdown(s) PROVE IInv'
<1>1. CASE Crash(s)
  <2>1. /\ orphans' = orphans \union {}
        /\ resumable' \in [Sessions -> SUBSET Jobs]
        /\ \A t \in Sessions : resumable'[t] \subseteq resumable[t]
    BY <1>1 DEF Crash, IInv, TypeOK
  <2> QED
    BY <1>1, <2>1, Ends DEF Crash
<1>2. CASE Shutdown(s)
  <2>1. PICK threads \in SUBSET {j \in Jobs : co[Task(s, j)].pc = "post"} :
          orphans' = orphans \union threads
    BY <1>2 DEF Shutdown
  <2>2. threads \in SUBSET Jobs /\ \A j \in threads : co[Task(s, j)].pc = "post"
    OBVIOUS
  <2>3. resumable' \in [Sessions -> SUBSET Jobs]
        /\ \A t \in Sessions : resumable'[t] \subseteq resumable[t]
    BY <1>2 DEF Shutdown, IInv, TypeOK
  <2> QED
    BY <1>2, <2>1, <2>2, <2>3, Ends DEF Shutdown
<1> QED
  BY <1>1, <1>2

(* The webhook, the worker, the inbox and the clock change nothing the     *)
(* invariant relates.                                                      *)
LEMMA Outside ==
  ASSUME IInv, UNCHANGED <<rows, session, resumable, co, posts, orphans, answers>>,
         slots' \in [Jobs -> Slot], accepted' \subseteq Jobs, now' \in Nat
  PROVE  IInv'
<1>1. TypeOK' /\ CoroutinesFit' /\ OneSender'
  BY DEF IInv, TypeOK, CoroutinesFit, OneSender, JobOf
<1>2. ASSUME NEW k \in Jobs PROVE RowConsistent(k)'
  <2>1. RowConsistent(k) /\ (NoSender(k) => NoSender(k)')
    BY DEF IInv, RowsConsistent, NoSender, JobOf
  <2> QED
    BY <2>1 DEF RowConsistent
<1> QED
  BY <1>1, <1>2 DEF IInv, RowsConsistent

LEMMA Environment ==
  ASSUME IInv,
         \/ \E j \in Jobs : WebhookAccepts(j)
         \/ \E j \in Jobs, b \in Bodies : WorkerSubmits(j, b) \/ InboxChanges(j, b)
         \/ InboxRestarts
         \/ Tick
         \/ UNCHANGED vars
  PROVE  IInv'
<1>1. ASSUME NEW j \in Jobs, WebhookAccepts(j) PROVE IInv'
  BY <1>1, Outside DEF WebhookAccepts, IInv, TypeOK
<1>2. ASSUME NEW j \in Jobs, NEW b \in Bodies, WorkerSubmits(j, b) \/ InboxChanges(j, b)
      PROVE  IInv'
  <2>1. slots' \in [Jobs -> Slot]
    BY <1>2 DEF WorkerSubmits, InboxChanges, Offered, Slot, OptionalBody, IInv, TypeOK
  <2> QED
    BY <1>2, <2>1, Outside DEF WorkerSubmits, InboxChanges, IInv, TypeOK
<1>3. CASE InboxRestarts
  BY <1>3, Outside DEF InboxRestarts, NoSlot, Slot, OptionalBody, IInv, TypeOK
<1>4. CASE Tick
  BY <1>4, Outside DEF Tick, IInv, TypeOK
<1>5. CASE UNCHANGED vars
  BY <1>5, Outside DEF vars, IInv, TypeOK
<1> QED
  BY <1>1, <1>2, <1>3, <1>4, <1>5

-----------------------------------------------------------------------------
LEMMA NextIInv == IInv /\ [Next]_vars => IInv'
<1> SUFFICES ASSUME IInv, [Next]_vars PROVE IInv'
  OBVIOUS
<1>1. ASSUME NEW s \in Sessions, Open(s) \/ Reconcile(s) \/ Crash(s) \/ Shutdown(s)
      PROVE  IInv'
  BY <1>1, Opens, Reconciles, Stops
<1>2. ASSUME NEW s \in Sessions, NEW j \in Jobs, Start(s, j) \/ ReadResult(s, j) PROVE IInv'
  BY <1>2, Starts, ReadsResult
<1>3. ASSUME NEW c \in Coroutines, Steps(c) \/ Disturbs(c) PROVE IInv'
  <2>1. CASE Dispatches(c)
    BY <2>1, Begins, Registers, Registered, RegistrationFails, Refused, PostsPacket, PostAnswered
       DEF Dispatches
  <2>2. CASE Waits(c)
    BY <2>2, Polls, Fetches, SettlesInvalid, SettlesOk, SettlesError, Raises DEF Waits
  <2>3. CASE Advances(c)
    BY <2>3, AdvanceReads, AdvanceWrites DEF Advances
  <2>4. CASE Answers(c)
    BY <2>4, Refetches, RefetchGivesUp, Revalidates DEF Answers
  <2>5. CASE Disturbs(c)
    BY <2>5, Raises DEF Disturbs
  <2> QED
    BY <1>3, <2>1, <2>2, <2>3, <2>4, <2>5 DEF Steps
<1>4. ASSUME NEW j \in Jobs, OrphanPosts(j) PROVE IInv'
  BY <1>4, OrphansPost
<1> QED
  BY <1>1, <1>2, <1>3, <1>4, Environment DEF Next

(* The invariant the coordinator's promises follow from.                   *)
THEOREM Invariance == Spec => []IInv
  BY InitIInv, NextIInv, PTL DEF Spec

(* The coordinator's state keeps its types: rows, coroutines with at most  *)
(* two handlers, slots, counts.                                            *)
THEOREM TypeCorrect == Spec => []TypeOK
<1>1. IInv => TypeOK
  BY DEF IInv
<1> QED
  BY <1>1, Invariance, PTL

(* One request becomes one POST, for any number of sessions and through    *)
(* crashes, shutdowns with running threads and reconciliations             *)
(* (coordinator.py, _execute_dispatch and resume_dispatched).              *)
THEOREM PostedOnce == Spec => []AtMostOnePost
<1>1. IInv => AtMostOnePost
  BY DEF IInv, RowsConsistent, RowConsistent, AtMostOnePost
<1> QED
  BY <1>1, Invariance, PTL

\* Only PostSends and OrphanPosts touch posts.
LEMMA OnlyPostsSend ==
  ASSUME Next
  PROVE  \/ UNCHANGED posts
         \/ \E c \in Coroutines : PostSends(c)
         \/ \E j \in Jobs : OrphanPosts(j)
<1>1. ASSUME NEW s \in Sessions, Open(s) \/ Reconcile(s) \/ Crash(s) \/ Shutdown(s)
      PROVE  UNCHANGED posts
  BY <1>1 DEF Open, Reconcile, Crash, Shutdown
<1>2. ASSUME NEW s \in Sessions, NEW j \in Jobs, Start(s, j) \/ ReadResult(s, j)
      PROVE  UNCHANGED posts
  BY <1>2 DEF Start, ReadResult
<1>3. ASSUME NEW c \in Coroutines, Steps(c) \/ Disturbs(c)
      PROVE  UNCHANGED posts \/ PostSends(c)
  <2>1. CASE Dispatches(c)
    BY <2>1 DEF Dispatches, BeginDispatch, RegisterArrives, RegisterReturns,
         RegisterFails, PostRefused, PostReturns, PostUncertain
  <2>2. CASE Waits(c)
    BY <2>2 DEF Waits, BeginPoll, CheckDeadline, FetchStored, FetchNothing,
         SettleInvalid, SettleOk, SettleError, SettleUnwritable
  <2>3. CASE Advances(c) \/ Answers(c)
    BY <2>3 DEF Advances, AdvanceRead, AdvanceWrite, Answers, RefetchReturns,
         RefetchFails, Revalidate
  <2>4. CASE Disturbs(c)
    BY <2>4 DEF Disturbs, ClientRaises, JournalRaises
  <2> QED
    BY <1>3, <2>1, <2>2, <2>3, <2>4 DEF Steps
<1>4. ASSUME NEW j \in Jobs, NEW b \in Bodies, WorkerSubmits(j, b) \/ InboxChanges(j, b)
      PROVE  UNCHANGED posts
  BY <1>4 DEF WorkerSubmits, InboxChanges
<1>5. ASSUME NEW j \in Jobs, WebhookAccepts(j) PROVE UNCHANGED posts
  BY <1>5 DEF WebhookAccepts
<1>6. InboxRestarts \/ Tick => UNCHANGED posts
  BY DEF InboxRestarts, Tick
<1> QED
  BY <1>1, <1>2, <1>3, <1>4, <1>5, <1>6 DEF Next

(* A packet leaves only for a job the journal calls dispatching, or that a *)
(* reconciliation called uncertain meanwhile (coordinator.py:165).         *)
THEOREM PostsAreJournaled == Spec => PostIsJournaled
<1> DEFINE Journaled == \A j \in Jobs : posts'[j] # posts[j] =>
                          rows[j].state \in {"dispatching", "uncertain"}
<1>1. IInv /\ Next => Journaled
  <2> SUFFICES ASSUME IInv, Next PROVE Journaled
    OBVIOUS
  <2>1. ASSUME NEW c \in Coroutines, PostSends(c) PROVE Journaled
    <3>1. JobOf(c) \in Jobs /\ co[c].pc = "post"
      BY <2>1, Coroutines3 DEF PostSends
    <3>2. rows[JobOf(c)].state \in {"dispatching", "uncertain"}
      BY <3>1 DEF IInv, CoroutinesFit, Fits
    <3>3. \A j \in Jobs : j # JobOf(c) => posts'[j] = posts[j]
      BY <2>1 DEF PostSends, IInv, TypeOK
    <3> QED
      BY <3>2, <3>3
  <2>2. ASSUME NEW k \in Jobs, OrphanPosts(k) PROVE Journaled
    <3>1. rows[k].state \in {"dispatching", "uncertain"}
      BY <2>2 DEF OrphanPosts, IInv, RowsConsistent, RowConsistent
    <3>2. \A j \in Jobs : j # k => posts'[j] = posts[j]
      BY <2>2 DEF OrphanPosts, IInv, TypeOK
    <3> QED
      BY <3>1, <3>2
  <2> QED
    BY <2>1, <2>2, OnlyPostsSend
<1>2. IInv /\ [Next]_vars => [Journaled]_<<posts, rows>>
  BY <1>1 DEF vars
<1> QED
  BY <1>2, Invariance, PTL DEF Spec, PostIsJournaled

(* Only a registration that reaches the inbox makes it expect a callback.  *)
LEMMA OnlyRegistrationExpects ==
  ASSUME IInv, Next, NEW j \in Jobs, ~slots[j].registered, slots'[j].registered
  PROVE  \E c \in Coroutines : RegisterArrives(c) /\ JobOf(c) = j
<1> SUFFICES ASSUME \A c \in Coroutines : RegisterArrives(c) => JobOf(c) # j  PROVE FALSE
  OBVIOUS
<1>1. ASSUME NEW c \in Coroutines, RegisterArrives(c) PROVE FALSE
  <2>1. slots'[j] = slots[j]
    BY <1>1 DEF RegisterArrives, IInv, TypeOK
  <2> QED
    BY <2>1
<1>2. ASSUME NEW c \in Coroutines, Steps(c) \/ Disturbs(c) PROVE FALSE
  BY <1>1, <1>2 DEF Steps, Disturbs, Dispatches, Waits, Advances, Answers, BeginDispatch,
     RegisterReturns, RegisterFails, PostRefused, PostSends, PostReturns,
     PostUncertain, BeginPoll, CheckDeadline, FetchStored, FetchNothing, SettleInvalid,
     SettleOk, SettleError, SettleUnwritable, AdvanceRead, AdvanceWrite, RefetchReturns,
     RefetchFails, Revalidate, ClientRaises, JournalRaises
<1>3. ASSUME NEW k \in Jobs, NEW b \in Bodies, WorkerSubmits(k, b) \/ InboxChanges(k, b)
      PROVE  FALSE
  <2>1. slots \in [Jobs -> Slot] /\ slots[k] \in Slot
    BY DEF IInv, TypeOK
  <2>2. Offered(slots[k], b).registered = slots[k].registered
    BY <2>1 DEF Offered, Slot
  <2>3. CASE WorkerSubmits(k, b)
    <3>1. slots' = [slots EXCEPT ![k] = Offered(slots[k], b)]
      BY <2>3 DEF WorkerSubmits
    <3> QED
      BY <2>1, <2>2, <3>1
  <2>4. CASE InboxChanges(k, b)
    <3>1. slots' = [slots EXCEPT ![k].body = b]
      BY <2>4 DEF InboxChanges
    <3> QED
      BY <2>1, <3>1 DEF Slot
  <2> QED
    BY <1>3, <2>3, <2>4
<1>4. ~InboxRestarts
  BY DEF InboxRestarts, NoSlot
<1> QED
  BY <1>2, <1>3, <1>4
     DEF Next, Open, Reconcile, Crash, Shutdown, Start, ReadResult, OrphanPosts, WebhookAccepts, Tick

(* Whatever restarts, and whatever the inbox forgets: no expectation is    *)
(* registered for a job whose packet was sent or is on its way.            *)
THEOREM RegistrationsPrecedePosts == Spec => RegistersBeforePost
<1> DEFINE Before == \A j \in Jobs : ~slots[j].registered /\ slots'[j].registered =>
                       posts[j] = 0 /\ j \notin orphans
<1>1. IInv /\ Next => Before
  <2> SUFFICES ASSUME IInv, Next, NEW j \in Jobs, ~slots[j].registered, slots'[j].registered
               PROVE  posts[j] = 0 /\ j \notin orphans
    OBVIOUS
  <2>1. PICK c \in Coroutines : RegisterArrives(c) /\ JobOf(c) = j
    BY OnlyRegistrationExpects
  <2>2. MaySend(co[c])
    BY <2>1 DEF RegisterArrives, MaySend
  <2> QED
    BY <2>1, <2>2 DEF IInv, CoroutinesFit, Fits
<1>2. IInv /\ [Next]_vars => [Before]_slots
  BY <1>1 DEF vars
<1> QED
  BY <1>2, Invariance, PTL DEF Spec, RegistersBeforePost

(* failed means not sent, now or later, or refused by the worker           *)
(* (coordinator.py, _execute_dispatch's handlers and _settle).             *)
THEOREM FailureIsProven == Spec => []FailedIsProven
<1>1. IInv => FailedIsProven
  BY DEF IInv, RowsConsistent, RowConsistent, FailedIsProven
<1> QED
  BY <1>1, Invariance, PTL

(* result() never hands out a body other than the pinned one, whatever the *)
(* inbox shows (coordinator.py, _ready_result).                            *)
THEOREM AnswersPinned == Spec => []AnswersArePinned
<1>1. IInv => AnswersArePinned
  BY DEF IInv, RowsConsistent, RowConsistent, AnswersArePinned
<1> QED
  BY <1>1, Invariance, PTL

-----------------------------------------------------------------------------
(***************************************************************************)
(* No open job is forgotten: TInv, by one lemma per group of actions.      *)
(***************************************************************************)
LEMMA Roles2 ==
  ASSUME NEW c \in Coroutines
  PROVE  /\ RoleOf(c) \in {"task", "reader"}
         /\ RoleOf(c) = "task" <=> c = Task(SessionOf(c), JobOf(c))
  BY DEF Coroutines, Roles, RoleOf, SessionOf, JobOf, Task

LEMMA TaskRole ==
  ASSUME NEW s, NEW j
  PROVE  RoleOf(Task(s, j)) = "task" /\ RoleOf(<<s, "reader", j>>) = "reader"
  BY DEF RoleOf, Task

LEMMA InitTInv == ASSUME Init PROVE TInv
<1>1. \A c \in Coroutines : co[c] = Idle /\ JobOf(c) \in Jobs
  BY Coroutines3 DEF Init
<1>2. \A j \in Jobs : rows[j].state = "absent"
  BY DEF Init, NoRow
<1>3. Idle.pc = "idle" /\ Idle.handlers = 0
  BY DEF Idle, Frame
<1>4. \A s \in Sessions : resumable[s] = {}
  BY DEF Init
<1> QED
  BY <1>1, <1>2, <1>3, <1>4
     DEF TInv, RoleFits, TaskFits, ReaderFits, PreDispatch, Unsettled

\* Where the state of a row with coroutines at work may go.
Succeeds(old, new) ==
  /\ old \notin Early => new = old \/ new \in SettledStates
  /\ old \in SettledStates => new \in SettledStates

(* A step of coroutine c that turns its job's row into new.                *)
LEMMA TaskStep ==
  ASSUME IInv, TInv, NEW c \in Coroutines, NEW me, co' = [co EXCEPT ![c] = me],
         NEW new, rows' = [rows EXCEPT ![JobOf(c)] = new],
         UNCHANGED <<session, resumable>>,
         RoleFits(c, new, me),
         co[c].pc # "idle" \/ rows[JobOf(c)].state \notin PreDispatch,
         Succeeds(rows[JobOf(c)].state, new.state),
         new.state \in PreDispatch => rows[JobOf(c)].state \in PreDispatch \union {"absent"},
         new.state \in OpenStates /\ new.state # rows[JobOf(c)].state =>
            RoleOf(c) = "task" /\ me.pc # "idle",
         Reliable /\ new.state \in OpenStates /\ co[c].pc # "idle" =>
            RoleOf(c) = "reader" \/ me.pc # "idle"
  PROVE  TInv'
<1> DEFINE j == JobOf(c)
<1>1. j \in Jobs
  BY Coroutines3
<1>2. \A d \in Coroutines : co'[d] = IF d = c THEN me ELSE co[d]
  BY DEF IInv, TypeOK
<1>3. \A k \in Jobs : rows'[k] = IF k = j THEN new ELSE rows[k]
  BY <1>1 DEF IInv, TypeOK
<1>4. ASSUME NEW d \in Coroutines PROVE RoleFits(d, rows'[JobOf(d)], co'[d])
  <2>1. /\ JobOf(d) \in Jobs /\ RoleFits(d, rows[JobOf(d)], co[d])
        /\ co[d].pc # "idle" => rows[JobOf(d)].state # "absent"
        /\ rows[JobOf(d)].state \in RowStates
    BY AtWork DEF TInv, Row
  <2>2. CASE d = c
    BY <1>1, <1>2, <1>3, <2>2
  <2>3. CASE d # c /\ JobOf(d) # j
    BY <1>2, <1>3, <2>1, <2>3
  <2>4. CASE d # c /\ JobOf(d) = j
    <3>1. co'[d] = co[d] /\ rows'[JobOf(d)] = new
      BY <1>1, <1>2, <1>3, <2>4
    <3>2. CASE RoleOf(d) = "task" /\ co[d].pc = "idle"
      BY <2>1, <3>1, <3>2 DEF RoleFits, TaskFits
    <3>3. CASE RoleOf(d) = "task" /\ co[d].pc # "idle"
      <4>1. rows[j].state \notin PreDispatch
        BY <2>4, <3>3 DEF TInv
      <4>2. rows[j].state \notin Early
        BY <2>1, <2>4, <3>3, <4>1 DEF Early, PreDispatch
      <4>3. /\ new.state \notin Early
            /\ new.state = rows[j].state \/ new.state \in SettledStates
        BY <4>2 DEF Succeeds, SettledStates, Early
      <4> QED
        BY <2>1, <2>4, <3>1, <3>3, <4>3 DEF RoleFits, TaskFits, Succeeds
    <3>4. CASE RoleOf(d) # "task"
      BY <2>1, <3>1, <3>4 DEF RoleFits
    <3> QED
      BY <3>2, <3>3, <3>4
  <2> QED
    BY <2>2, <2>3, <2>4
<1>5. ASSUME NEW d \in Coroutines, NEW e \in Coroutines,
             JobOf(d) = JobOf(e), rows'[JobOf(d)].state \in PreDispatch,
             co'[d].pc # "idle", co'[e].pc # "idle"
      PROVE  d = e
  <2>1. JobOf(d) \in Jobs
    BY Coroutines3
  <2>2. CASE JobOf(d) # j
    BY <1>2, <1>3, <1>5, <2>1, <2>2 DEF TInv
  <2>3. CASE JobOf(d) = j
    <3>1. \A x \in Coroutines : JobOf(x) = j /\ x # c => co[x].pc = "idle"
      <4>1. CASE rows[j].state \in PreDispatch
        BY <1>1, <4>1 DEF TInv
      <4>2. CASE rows[j].state = "absent"
        BY <4>2, AtWork
      <4> QED
        BY <1>3, <1>5, <2>3, <4>1, <4>2
    <3> QED
      BY <1>2, <1>5, <2>3, <3>1
  <2> QED
    BY <2>2, <2>3
<1>6. ASSUME NEW s \in Sessions, NEW k \in resumable[s] PROVE rows'[k].state \notin Early
  <2>1. k \in Jobs /\ rows[k].state \notin Early
    BY DEF TInv, IInv, TypeOK
  <2> QED
    BY <1>3, <2>1 DEF Succeeds, SettledStates, Early
<1>7. ASSUME Reliable, NEW k \in Jobs, Unsettled(k)' PROVE Watched(k)'
  <2>1. rows'[k].state \in OpenStates
    BY <1>7 DEF Unsettled, OpenStates
  <2>2. CASE k = j /\ RoleOf(c) = "task" /\ me.pc # "idle"
    <3>1. c = Task(SessionOf(c), k) /\ SessionOf(c) \in Sessions /\ co'[c].pc # "idle"
      BY <1>2, <2>2, Roles2, Coroutines3
    <3> QED
      BY <3>1 DEF Watched, Task
  <2>3. CASE ~(k = j /\ RoleOf(c) = "task" /\ me.pc # "idle")
    <3>1. rows'[k].state = rows[k].state
      BY <1>3, <2>1, <2>3
    <3>2. Watched(k)
      BY <1>7, <2>1, <3>1 DEF TInv, Unsettled, OpenStates
    <3>3. ASSUME NEW s \in Sessions, co[Task(s, k)].pc # "idle"
          PROVE  co'[Task(s, k)].pc # "idle"
      <4>1. Task(s, k) \in Coroutines /\ JobOf(Task(s, k)) = k /\ RoleOf(Task(s, k)) = "task"
        BY Coroutines3, TaskRole
      <4>2. CASE Task(s, k) = c
        BY <1>2, <1>3, <1>7, <2>1, <2>3, <3>3, <4>1, <4>2
      <4>3. CASE Task(s, k) # c
        BY <1>2, <3>3, <4>1, <4>3
      <4> QED
        BY <4>2, <4>3
    <3> QED
      BY <3>1, <3>2, <3>3 DEF Watched, Task
  <2> QED
    BY <2>2, <2>3
<1> QED
  BY <1>4, <1>5, <1>6, <1>7 DEF TInv, JobOf, RoleFits, RoleOf

(* A step that only moves a coroutine.                                     *)
LEMMA TaskMove ==
  ASSUME IInv, TInv, NEW c \in Coroutines, co[c].pc # "idle", NEW me, Goes(c, me),
         UNCHANGED <<rows, session, resumable>>,
         RoleFits(c, rows[JobOf(c)], me),
         Reliable /\ rows[JobOf(c)].state \in OpenStates =>
            RoleOf(c) = "reader" \/ me.pc # "idle"
  PROVE  TInv'
<1> DEFINE j == JobOf(c)
<1>1. j \in Jobs
  BY Coroutines3
<1>2. rows' = [rows EXCEPT ![j] = rows[j]] /\ co' = [co EXCEPT ![c] = me]
  BY <1>1 DEF IInv, TypeOK, Goes
<1>3. Succeeds(rows[j].state, rows[j].state)
  BY DEF Succeeds
<1> HIDE DEF j
<1> QED
  BY <1>2, <1>3, TaskStep DEF j

LEMMA TaskFrames ==
  ASSUME NEW row, NEW h
  PROVE  /\ TaskFits(row, Idle) /\ ReaderFits(Idle) /\ Idle.pc = "idle"
         /\ \A g : TaskFits(row, SettlesState(g, h)) /\ SettlesState(g, h).pc = "advance"
         /\ h > 0 =>
              /\ \A g : TaskFits(row, Calls(g, h)) /\ Calls(g, h).pc = "advance"
              /\ \A pc \in {"start", "register", "registered", "post", "posted",
                            "check", "fetch"} :
                   TaskFits(row, At(pc, h)) /\ At(pc, h).pc = pc
              /\ row.state \notin Early =>
                   \A pc \in {"resume", "poll"} : TaskFits(row, At(pc, h)) /\ At(pc, h).pc = pc
  BY DEF TaskFits, ReaderFits, Idle, SettlesState, Calls, At, Frame

\* A coroutine in one of these places is a task, with a handler around it.
LEMMA AtTask ==
  ASSUME IInv, TInv, NEW c \in Coroutines,
         \/ co[c].pc \notin {"idle", "refetch", "revalidate", "advance", "cas"}
         \/ co[c].pc \in {"advance", "cas"} /\ co[c].hard
  PROVE  /\ RoleOf(c) = "task" /\ co[c].handlers > 0 /\ co[c].handlers - 1 \in 0 .. 2
         /\ Raised(co[c]) = SettlesState("uncertain", co[c].handlers - 1)
<1>1. co[c].handlers \in 0 .. 2 /\ RoleFits(c, rows[JobOf(c)], co[c])
  BY AtWork DEF TInv
<1>2. RoleOf(c) = "task" /\ co[c].handlers > 0
  BY <1>1, Roles2 DEF RoleFits, ReaderFits, TaskFits, Advancing
<1> QED
  BY <1>1, <1>2 DEF Raised

LEMMA DispatchesWatched ==
  ASSUME IInv, TInv, NEW c \in Coroutines, Dispatches(c) PROVE TInv'
<1>1. co[c].pc \in {"start", "register", "registered", "post", "posted"}
  BY DEF Dispatches, BeginDispatch, RegisterArrives, RegisterReturns, RegisterFails,
     PostRefused, PostSends, PostReturns, PostUncertain, Runs
<1>2. UNCHANGED <<rows, session, resumable>>
  BY DEF Dispatches, BeginDispatch, RegisterArrives, RegisterReturns, RegisterFails,
     PostRefused, PostSends, PostReturns, PostUncertain
<1>3. \/ \E g : Goes(c, SettlesState(g, co[c].handlers))
      \/ \E g : Goes(c, Calls(g, co[c].handlers))
      \/ \E pc \in {"register", "registered", "posted"} : Goes(c, At(pc, co[c].handlers))
      \/ Goes(c, Raised(co[c]))
  BY DEF Dispatches, BeginDispatch, RegisterArrives, RegisterReturns, RegisterFails,
     PostRefused, PostSends, PostReturns, PostUncertain
<1>4. RoleOf(c) = "task" /\ co[c].handlers > 0
      /\ Raised(co[c]) = SettlesState("uncertain", co[c].handlers - 1)
  BY <1>1, AtTask
<1>5. PICK me : Goes(c, me) /\ TaskFits(rows[JobOf(c)], me) /\ me.pc # "idle"
  BY <1>3, <1>4, TaskFrames
<1> QED
  BY <1>1, <1>2, <1>4, <1>5, TaskMove DEF RoleFits

LEMMA PollsWatched ==
  ASSUME IInv, TInv, NEW c \in Coroutines,
         \/ BeginPoll(c) \/ CheckDeadline(c) \/ FetchStored(c) \/ FetchNothing(c)
         \/ SettleUnwritable(c)
  PROVE  TInv'
<1>1. co[c].pc \in {"resume", "poll", "check", "fetch", "settle"}
  BY DEF BeginPoll, CheckDeadline, FetchStored, FetchNothing, SettleUnwritable, Runs
<1>2. UNCHANGED <<rows, session, resumable>>
  BY DEF BeginPoll, CheckDeadline, FetchStored, FetchNothing, SettleUnwritable
<1>3. RoleOf(c) = "task" /\ co[c].handlers > 0
      /\ Raised(co[c]) = SettlesState("uncertain", co[c].handlers - 1)
  BY <1>1, AtTask
<1>4. CASE FetchStored(c)
  <2> DEFINE me == [At("settle", co[c].handlers) EXCEPT !.payload = slots[JobOf(c)].body]
  <2>1. Goes(c, me) /\ me.pc = "settle" /\ me.handlers = co[c].handlers
    BY <1>4 DEF FetchStored, At, Frame
  <2> HIDE DEF me
  <2>2. TaskFits(rows[JobOf(c)], me)
    BY <1>3, <2>1 DEF TaskFits
  <2> QED
    BY <1>1, <1>2, <1>3, <2>1, <2>2, TaskMove DEF RoleFits
<1>5. CASE BeginPoll(c) /\ rows[JobOf(c)].state # "dispatched"
  <2>1. Goes(c, Idle) /\ co[c].pc \in {"resume", "poll"}
    BY <1>5 DEF BeginPoll, Runs
  <2>2. rows[JobOf(c)].state \notin Early
    BY <1>3, <2>1 DEF TInv, RoleFits, TaskFits
  <2>3. rows[JobOf(c)].state \notin OpenStates
    BY <1>5, <2>2 DEF OpenStates, Early
  <2> QED
    BY <1>1, <1>2, <1>3, <2>1, <2>3, TaskFrames, TaskMove DEF RoleFits
<1>6. CASE \/ BeginPoll(c) /\ rows[JobOf(c)].state = "dispatched"
           \/ CheckDeadline(c) \/ FetchNothing(c) \/ SettleUnwritable(c)
  <2>1. \/ \E g : Goes(c, SettlesState(g, co[c].handlers))
        \/ \E pc \in {"check", "fetch"} : Goes(c, At(pc, co[c].handlers))
        \/ Goes(c, Raised(co[c]))
    BY <1>6 DEF BeginPoll, CheckDeadline, FetchNothing, SettleUnwritable
  <2>2. PICK me : Goes(c, me) /\ TaskFits(rows[JobOf(c)], me) /\ me.pc # "idle"
    BY <1>3, <2>1, TaskFrames
  <2> QED
    BY <1>1, <1>2, <1>3, <2>2, TaskMove DEF RoleFits
<1> QED
  BY <1>4, <1>5, <1>6

LEMMA SettlesWatched ==
  ASSUME IInv, TInv, NEW c \in Coroutines, SettleInvalid(c) \/ SettleOk(c) \/ SettleError(c)
  PROVE  TInv'
<1> DEFINE j == JobOf(c)
<1>1. co[c].pc = "settle" /\ UNCHANGED <<session, resumable>>
  BY DEF SettleInvalid, SettleOk, SettleError, Runs
<1>2. RoleOf(c) = "task" /\ co[c].handlers > 0
  BY <1>1, AtTask
<1>3. PICK me : /\ Goes(c, me)
                /\ \E g : me \in {SettlesState(g, co[c].handlers), Calls(g, co[c].handlers)}
  BY DEF SettleInvalid, SettleOk, SettleError
<1>4. j \in Jobs /\ rows[j] \in Row
  BY AtWork
<1>5. \/ rows' = rows
      \/ rows' = [rows EXCEPT ![j] = [rows[j] EXCEPT !.error = "invalid_result"]]
      \/ rows' = [rows EXCEPT ![j] = [rows[j] EXCEPT !.digest = co[c].payload]]
      \/ rows' = [rows EXCEPT ![j] = [rows[j] EXCEPT !.error = "worker"]]
  BY <1>4 DEF SettleInvalid, SettleOk, SettleError, IInv, TypeOK
<1>6. PICK new : rows' = [rows EXCEPT ![j] = new] /\ new.state = rows[j].state
  <2>1. rows = [rows EXCEPT ![j] = rows[j]]
    BY <1>4 DEF IInv, TypeOK
  <2>2. /\ [rows[j] EXCEPT !.error = "invalid_result"].state = rows[j].state
        /\ [rows[j] EXCEPT !.digest = co[c].payload].state = rows[j].state
        /\ [rows[j] EXCEPT !.error = "worker"].state = rows[j].state
    BY <1>4 DEF Row
  <2> QED
    BY <1>5, <2>1, <2>2
<1>7. TaskFits(new, me) /\ me.pc # "idle"
  <2>1. PICK g : me \in {SettlesState(g, co[c].handlers), Calls(g, co[c].handlers)}
    BY <1>3
  <2>2. TaskFits(new, SettlesState(g, co[c].handlers)) /\ SettlesState(g, co[c].handlers).pc # "idle"
    BY TaskFrames
  <2>3. TaskFits(new, Calls(g, co[c].handlers)) /\ Calls(g, co[c].handlers).pc # "idle"
    BY <1>2, TaskFrames
  <2> QED
    BY <2>1, <2>2, <2>3
<1>8. Succeeds(rows[j].state, new.state)
  BY <1>6 DEF Succeeds
<1> QED
  BY <1>1, <1>2, <1>3, <1>6, <1>7, <1>8, TaskStep DEF RoleFits, Goes

LEMMA RaisesWatched == ASSUME IInv, TInv, NEW c \in Coroutines, Disturbs(c) PROVE TInv'
<1>1. /\ co[c].pc # "idle"
      /\ Goes(c, Raised(co[c])) /\ UNCHANGED <<rows, session, resumable>>
      /\ Reliable => co[c].pc \in {"register", "registered", "posted", "fetch", "refetch"}
  BY DEF Disturbs, ClientRaises, JournalRaises, Reliable, Runs
<1>2. CASE RoleOf(c) = "reader"
  <2>1. co[c].handlers = 0
    BY <1>2 DEF TInv, RoleFits, ReaderFits
  <2> QED
    BY <1>1, <1>2, <2>1, TaskFrames, TaskMove DEF RoleFits, Raised
<1>3. CASE RoleOf(c) = "task"
  <2>1. TaskFits(rows[JobOf(c)], Raised(co[c]))
    BY TaskFrames DEF Raised
  <2>2. Reliable => Raised(co[c]).pc # "idle"
    <3>1. Reliable => co[c].pc \in {"register", "registered", "posted", "fetch"}
      BY <1>1, <1>3 DEF TInv, RoleFits, TaskFits
    <3> QED
      BY <3>1, AtTask, TaskFrames
  <2> QED
    BY <1>1, <1>3, <2>1, <2>2, TaskMove DEF RoleFits
<1> QED
  BY <1>2, <1>3, Roles2

LEMMA AdvanceReadWatched ==
  ASSUME IInv, TInv, NEW c \in Coroutines, AdvanceRead(c) PROVE TInv'
<1> DEFINE j == JobOf(c)
           me == [co[c] EXCEPT !.pc = "cas", !.seen = rows[j].state]
<1>1. co[c].pc = "advance" /\ UNCHANGED <<rows, session, resumable>>
  BY DEF AdvanceRead, Runs
<1>2. RoleFits(c, rows[j], co[c]) /\ Fits(rows[j], posts[j], co[c]) /\ rows[j].state \in RowStates
  BY AtWork DEF TInv, Row
<1>3. CASE CanAdvance(rows[j], co[c].goal)
  <2>1. Goes(c, me)
    BY <1>3 DEF AdvanceRead
  <2>2. /\ me.pc = "cas" /\ me.seen = rows[j].state /\ me.goal = co[c].goal
        /\ me.hard = co[c].hard /\ me.handlers = co[c].handlers
    BY AtWork DEF Coroutine
  <2> HIDE DEF me
  <2>3. RoleFits(c, rows[j], me)
    BY <1>1, <1>2, <2>2 DEF RoleFits, TaskFits, ReaderFits, Advancing
  <2> QED
    BY <1>1, <2>1, <2>2, <2>3, TaskMove
<1>4. CASE ~CanAdvance(rows[j], co[c].goal)
  <2>1. Goes(c, AfterRefusal(co[c]))
    BY <1>4 DEF AdvanceRead
  <2>2. CASE co[c].hard
    <3>1. RoleOf(c) = "task" /\ \E g : AfterRefusal(co[c]) = SettlesState(g, co[c].handlers)
      BY <1>1, <2>2, AtTask DEF AfterRefusal
    <3> QED
      BY <1>1, <2>1, <3>1, TaskFrames, TaskMove DEF RoleFits
  <2>3. CASE ~co[c].hard
    <3>1. co[c].goal \in {"failed", "conflict", "uncertain"}
      BY <1>1, <1>2, <2>3 DEF Fits, MaySend, FollowsPost, Advancing
    <3>2. rows[j].state \notin OpenStates
      BY <1>2, <1>4, <3>1 DEF CanAdvance, NextStates, OpenStates
    <3>3. AfterRefusal(co[c]) = Idle
      BY <2>3 DEF AfterRefusal
    <3> QED
      BY <1>1, <2>1, <3>2, <3>3, TaskFrames, TaskMove DEF RoleFits
  <2> QED
    BY <2>2, <2>3
<1> QED
  BY <1>3, <1>4

LEMMA GoalsSucceed ==
  ASSUME NEW old \in RowStates, NEW new \in NextStates[old]
  PROVE  /\ Succeeds(old, new)
         /\ new \in PreDispatch => old \in PreDispatch
         /\ new = "dispatched" \/ new = "dispatching" \/ new \in SettledStates
  BY DEF NextStates, RowStates, JobStates, Succeeds, SettledStates, Early, PreDispatch

LEMMA AdvanceWriteWatched ==
  ASSUME IInv, TInv, NEW c \in Coroutines, AdvanceWrite(c) PROVE TInv'
<1> DEFINE j == JobOf(c)
           new == [rows[j] EXCEPT !.state = co[c].goal]
           me == AfterAdvance(co[c])
<1>1. co[c].pc = "cas" /\ UNCHANGED <<session, resumable>>
  BY DEF AdvanceWrite, Runs
<1>2. /\ RoleFits(c, rows[j], co[c]) /\ Fits(rows[j], posts[j], co[c])
      /\ j \in Jobs /\ rows[j] \in Row /\ rows[j].state \in RowStates
  BY AtWork DEF TInv, Row
<1>3. CASE rows[j].state = co[c].seen
  <2>1. rows' = [rows EXCEPT ![j] = new] /\ co' = [co EXCEPT ![c] = me]
    BY <1>2, <1>3 DEF AdvanceWrite, Goes, IInv, TypeOK
  <2>2. co[c].goal \in NextStates[rows[j].state] /\ new.state = co[c].goal
    BY <1>1, <1>2, <1>3 DEF Fits, Row
  <2>3. /\ Succeeds(rows[j].state, new.state)
        /\ new.state \in PreDispatch => rows[j].state \in PreDispatch
        /\ new.state \in {"dispatching", "dispatched"} \union SettledStates
    BY <1>2, <2>2, GoalsSucceed
  <2> HIDE DEF new, me
  <2>4. CASE new.state \in {"dispatching", "dispatched"}
    <3>1. co[c].hard
      BY <1>1, <1>2, <2>2, <2>4 DEF Fits, MaySend, FollowsPost, Advancing
    <3>2. RoleOf(c) = "task" /\ co[c].handlers > 0 /\ co[c].handlers \in 0 .. 2
      BY <1>1, <3>1, AtTask, AtWork
    <3>3. co[c].handlers + 1 > 0
      BY <3>2
    <3>4. \/ me = At("post", co[c].handlers)
          \/ me = At("poll", co[c].handlers + 1) /\ new.state = "dispatched"
      BY <2>2, <2>4, <3>1 DEF me, AfterAdvance
    <3>5. TaskFits(new, me) /\ me.pc # "idle"
      <4>1. CASE me = At("post", co[c].handlers)
        BY <3>2, <4>1, TaskFrames
      <4>2. CASE me = At("poll", co[c].handlers + 1) /\ new.state \notin Early
        BY <3>3, <4>2, TaskFrames
      <4> QED
        BY <3>4, <4>1, <4>2 DEF Early
    <3> QED
      BY <1>1, <2>1, <2>3, <3>2, <3>5, TaskStep DEF RoleFits
  <2>5. CASE new.state \in SettledStates
    <3>1. me = Idle
      BY <2>2, <2>5 DEF me, AfterAdvance, SettledStates
    <3>2. RoleFits(c, new, me) /\ new.state \notin OpenStates
      BY <2>5, <3>1, TaskFrames DEF RoleFits, SettledStates, OpenStates
    <3> QED
      BY <1>1, <2>1, <2>3, <3>2, TaskStep
  <2> QED
    BY <2>3, <2>4, <2>5
<1>4. CASE rows[j].state # co[c].seen
  <2>1. Goes(c, AfterRefusal(co[c])) /\ UNCHANGED rows
    BY <1>4 DEF AdvanceWrite
  <2>2. CASE co[c].hard
    <3>1. RoleOf(c) = "task" /\ \E g : AfterRefusal(co[c]) = SettlesState(g, co[c].handlers)
      BY <1>1, <2>2, AtTask DEF AfterRefusal
    <3> QED
      BY <1>1, <2>1, <3>1, TaskFrames, TaskMove DEF RoleFits
  <2>3. CASE ~co[c].hard
    <3>1. AfterRefusal(co[c]) = Idle
      BY <2>3 DEF AfterRefusal
    <3>2. RoleOf(c) = "reader" \/ rows[j].state \notin OpenStates
      BY <1>1, <1>2, <1>4, Roles2 DEF RoleFits, TaskFits, SettledStates, OpenStates
    <3> QED
      BY <1>1, <2>1, <3>1, <3>2, TaskFrames, TaskMove DEF RoleFits
  <2> QED
    BY <2>2, <2>3
<1> QED
  BY <1>3, <1>4

LEMMA AnswersWatched ==
  ASSUME IInv, TInv, NEW c \in Coroutines, Answers(c) PROVE TInv'
<1>1. /\ co[c].pc \in {"refetch", "revalidate"}
      /\ UNCHANGED <<rows, session, resumable>>
  BY DEF Answers, RefetchReturns, RefetchFails, Revalidate, Runs
<1>2. RoleOf(c) = "reader" /\ co[c].handlers = 0
  BY <1>1, Roles2 DEF TInv, RoleFits, TaskFits, ReaderFits
<1>3. CASE RefetchReturns(c)
  <2> DEFINE me == [co[c] EXCEPT !.pc = "revalidate", !.payload = slots[JobOf(c)].body]
  <2>1. Goes(c, me) /\ me.pc = "revalidate" /\ me.handlers = 0
    BY <1>2, <1>3, AtWork DEF RefetchReturns, Coroutine
  <2> HIDE DEF me
  <2> QED
    BY <1>1, <1>2, <2>1, TaskMove DEF RoleFits, ReaderFits
<1>4. CASE RefetchFails(c) \/ Revalidate(c)
  <2>1. Goes(c, Idle) \/ Goes(c, SettlesState("conflict", 0))
    BY <1>4 DEF RefetchFails, Revalidate
  <2>2. ReaderFits(Idle) /\ ReaderFits(SettlesState("conflict", 0))
    BY DEF ReaderFits, Idle, SettlesState, Frame, Advancing
  <2> QED
    BY <1>1, <1>2, <2>1, <2>2, TaskMove DEF RoleFits
<1> QED
  BY <1>3, <1>4 DEF Answers

LEMMA RequestsWatched ==
  ASSUME IInv, TInv, NEW s \in Sessions, NEW j \in Jobs, Start(s, j) \/ ReadResult(s, j)
  PROVE  TInv'
<1>1. CASE Start(s, j)
  <2> DEFINE c == Task(s, j)
             me == At("start", 1)
             new == NewRow(now + Lifetime)
  <2>1. /\ c \in Coroutines /\ JobOf(c) = j /\ RoleOf(c) = "task"
        /\ co' = [co EXCEPT ![c] = me] /\ rows' = [rows EXCEPT ![j] = new]
        /\ UNCHANGED <<session, resumable>> /\ rows[j].state = "absent"
    BY <1>1, Coroutines3, TaskRole DEF Start, Goes
  <2>2. TaskFits(new, me) /\ me.pc # "idle" /\ new.state = "queued"
    BY TaskFrames DEF NewRow
  <2>3. Succeeds("absent", "queued")
    BY DEF Succeeds, Early, SettledStates
  <2> HIDE DEF c, me, new
  <2> QED
    BY <2>1, <2>2, <2>3, TaskStep DEF RoleFits, PreDispatch
<1>2. CASE ReadResult(s, j)
  <2> DEFINE c == <<s, "reader", j>>
             me == [At("refetch", 0) EXCEPT !.digest = rows[j].digest]
  <2>1. /\ c \in Coroutines /\ JobOf(c) = j /\ RoleOf(c) = "reader"
        /\ co' = [co EXCEPT ![c] = me] /\ rows' = [rows EXCEPT ![j] = rows[j]]
        /\ UNCHANGED <<session, resumable>> /\ rows[j].state = "ready"
    BY <1>2, Coroutines3, TaskRole DEF ReadResult, Goes, IInv, TypeOK
  <2>2. ReaderFits(me)
    BY DEF ReaderFits, At, Frame
  <2>3. Succeeds(rows[j].state, rows[j].state)
    BY DEF Succeeds
  <2> HIDE DEF c, me
  <2> QED
    BY <2>1, <2>2, <2>3, TaskStep DEF RoleFits, PreDispatch
<1> QED
  BY <1>1, <1>2

-----------------------------------------------------------------------------
LEMMA OpenWatched ==
  ASSUME IInv, TInv, NEW s \in Sessions, Open(s) PROVE TInv'
<1>1. /\ UNCHANGED <<rows, co>>
      /\ \A t \in Sessions : session'[t] = IF t = s THEN "opening" ELSE session[t]
      /\ \A t \in Sessions : resumable'[t] = IF t = s THEN Resumable(rows) ELSE resumable[t]
  BY DEF Open, IInv, TypeOK
<1>2. ASSUME NEW t \in Sessions, NEW j \in resumable'[t] PROVE rows[j].state \notin Early
  BY <1>1, <1>2 DEF TInv, Resumable, Early
<1>3. ASSUME NEW j \in Jobs, Unsettled(j) PROVE Watched(j)'
  <2>1. j \in Resumable(rows) \/ rows[j].state \in PreDispatch
    BY <1>3 DEF Unsettled, Resumable, PreDispatch
  <2>2. session'[s] = "opening" /\ (j \in resumable'[s] \/ rows'[j].state \in PreDispatch)
    BY <1>1, <2>1
  <2> QED
    BY <2>2 DEF Watched, Task
<1>4. \A c \in Coroutines : RoleFits(c, rows'[JobOf(c)], co'[c])
  BY <1>1 DEF TInv
<1>5. \A c, d \in Coroutines :
        /\ JobOf(c) = JobOf(d) /\ rows'[JobOf(c)].state \in PreDispatch
        /\ co'[c].pc # "idle" /\ co'[d].pc # "idle"
        => c = d
  BY <1>1 DEF TInv
<1>6. \A j \in Jobs : Unsettled(j)' => Watched(j)'
  BY <1>1, <1>3 DEF Unsettled
<1> QED
  BY <1>1, <1>2, <1>4, <1>5, <1>6 DEF TInv, JobOf, RoleFits, RoleOf

LEMMA ReconcileWatched ==
  ASSUME IInv, TInv, NEW s \in Sessions, Reconcile(s) PROVE TInv'
<1>1. /\ session[s] = "opening"
      /\ \A t \in Sessions : session'[t] = IF t = s THEN "up" ELSE session[t]
      /\ \A t \in Sessions : resumable'[t] = IF t = s THEN {} ELSE resumable[t]
      /\ \A c \in Coroutines :
            \/ co'[c] = co[c]
            \/ \E j \in resumable[s] : c = Task(s, j) /\ co'[c] = At("resume", 1)
      /\ \A j \in resumable[s] : Task(s, j) \in Coroutines => co'[Task(s, j)] = At("resume", 1)
  BY DEF Reconcile, IInv, TypeOK
<1>2. ASSUME NEW j \in Jobs
      PROVE  /\ rows'[j].state \notin PreDispatch
             /\ rows'[j].state \in OpenStates =>
                  rows'[j].state = rows[j].state /\ rows[j].state = "dispatched"
             /\ rows[j].state \notin Early => rows'[j].state = rows[j].state
             /\ rows[j].state \in PreDispatch => rows'[j].state \in SettledStates
             /\ rows'[j].state = rows[j].state \/ rows'[j].state \in SettledStates
  BY DEF Reconcile, Reconciled, PreDispatch, Early, OpenStates, SettledStates, IInv, TypeOK, Row
<1>3. ASSUME NEW c \in Coroutines PROVE RoleFits(c, rows'[JobOf(c)], co'[c])
  <2>1. JobOf(c) \in Jobs /\ RoleFits(c, rows[JobOf(c)], co[c])
    BY AtWork DEF TInv
  <2>2. CASE co'[c] = co[c]
    <3>1. /\ rows[JobOf(c)].state \notin Early => rows'[JobOf(c)].state \notin Early
          /\ \/ rows'[JobOf(c)].state = rows[JobOf(c)].state
             \/ rows'[JobOf(c)].state \in SettledStates
          /\ rows[JobOf(c)].state \in SettledStates => rows'[JobOf(c)].state \in SettledStates
      BY <1>2, <2>1
    <3> QED
      BY <2>1, <2>2, <3>1 DEF RoleFits, TaskFits
  <2>3. ASSUME NEW j \in resumable[s], c = Task(s, j), co'[c] = At("resume", 1)
        PROVE  RoleFits(c, rows'[JobOf(c)], co'[c])
    <3>1. JobOf(c) = j /\ RoleOf(c) = "task" /\ rows[j].state \notin Early
      BY <2>3, TaskRole DEF Task, JobOf, TInv
    <3>2. rows'[j].state \notin Early
      BY <1>2, <2>1, <3>1
    <3> QED
      BY <2>3, <3>1, <3>2, TaskFrames DEF RoleFits
  <2> QED
    BY <1>1, <2>2, <2>3
<1>4. \A t \in Sessions : \A j \in resumable'[t] : rows'[j].state \notin Early
  BY <1>1, <1>2 DEF TInv, IInv, TypeOK
<1>5. ASSUME Reliable, NEW j \in Jobs, rows'[j].state \in OpenStates PROVE Watched(j)'
  <2>1. rows[j].state = "dispatched" /\ rows'[j].state = "dispatched"
    BY <1>2, <1>5
  <2>2. PICK t \in Sessions :
          \/ session[t] = "down"
          \/ session[t] = "opening" /\ j \in resumable[t]
          \/ co[Task(t, j)].pc # "idle"
    BY <1>5, <2>1 DEF TInv, Unsettled, Watched, PreDispatch
  <2>3. Task(t, j) \in Coroutines /\ At("resume", 1).pc # "idle"
    BY Coroutines3 DEF At, Frame
  <2>4. CASE co[Task(t, j)].pc # "idle"
    <3>1. co'[Task(t, j)].pc # "idle"
      BY <1>1, <2>3, <2>4
    <3> QED
      BY <3>1 DEF Watched, Task
  <2>5. CASE t = s /\ j \in resumable[s]
    <3>1. co'[Task(t, j)].pc # "idle"
      BY <1>1, <2>3, <2>5
    <3> QED
      BY <3>1 DEF Watched, Task
  <2>6. CASE t # s /\ (session[t] = "down" \/ (session[t] = "opening" /\ j \in resumable[t]))
    <3>1. session'[t] = session[t] /\ resumable'[t] = resumable[t]
      BY <1>1, <2>6
    <3> QED
      BY <2>6, <3>1 DEF Watched
  <2> QED
    BY <1>1, <2>2, <2>4, <2>5, <2>6
<1>6. Reliable => \A j \in Jobs : Unsettled(j)' => Watched(j)'
  BY <1>5 DEF Unsettled, OpenStates
<1>7. \A c \in Coroutines : rows'[JobOf(c)].state \notin PreDispatch
  BY <1>2, Coroutines3
<1> QED
  BY <1>3, <1>4, <1>6, <1>7 DEF TInv, JobOf, RoleFits, RoleOf

LEMMA StopsWatched ==
  ASSUME IInv, TInv, NEW s \in Sessions, Crash(s) \/ Shutdown(s) PROVE TInv'
<1>1. /\ rows' = rows
      /\ session'[s] = "down"
      /\ \A t \in Sessions : resumable'[t] \subseteq resumable[t]
      /\ \A c \in Coroutines : co'[c] \in {co[c], Idle}
  BY DEF Crash, Shutdown, IInv, TypeOK
<1>2. ASSUME NEW c \in Coroutines PROVE RoleFits(c, rows'[JobOf(c)], co'[c])
  BY <1>1, TaskFrames DEF TInv, RoleFits
<1>3. \A c \in Coroutines : co'[c].pc # "idle" => co[c].pc # "idle"
  BY <1>1, IdleFrame
<1>4. \A c, d \in Coroutines :
        /\ JobOf(c) = JobOf(d) /\ rows'[JobOf(c)].state \in PreDispatch
        /\ co'[c].pc # "idle" /\ co'[d].pc # "idle"
        => c = d
  BY <1>1, <1>3 DEF TInv
<1>5. \A j \in Jobs : Watched(j)'
  BY <1>1 DEF Watched
<1>6. \A t \in Sessions : \A j \in resumable'[t] : rows'[j].state \notin Early
  BY <1>1 DEF TInv
<1> QED
  BY <1>2, <1>4, <1>5, <1>6 DEF TInv, JobOf, RoleFits, RoleOf

LEMMA UnwatchedStutter ==
  ASSUME TInv, UNCHANGED <<rows, session, resumable, co>> PROVE TInv'
  BY DEF TInv, JobOf, RoleFits, RoleOf, Unsettled, Watched, Task

LEMMA NextTInv == IInv /\ TInv /\ [Next]_vars => TInv'
<1> SUFFICES ASSUME IInv, TInv, [Next]_vars PROVE TInv'
  OBVIOUS
<1>1. ASSUME NEW s \in Sessions, Open(s) \/ Reconcile(s) \/ Crash(s) \/ Shutdown(s)
      PROVE  TInv'
  BY <1>1, OpenWatched, ReconcileWatched, StopsWatched
<1>2. ASSUME NEW s \in Sessions, NEW j \in Jobs, Start(s, j) \/ ReadResult(s, j) PROVE TInv'
  BY <1>2, RequestsWatched
<1>3. ASSUME NEW c \in Coroutines, Steps(c) \/ Disturbs(c) PROVE TInv'
  <2>1. CASE Waits(c)
    BY <2>1, PollsWatched, SettlesWatched DEF Waits
  <2>2. CASE Advances(c)
    BY <2>2, AdvanceReadWatched, AdvanceWriteWatched DEF Advances
  <2> QED
    BY <1>3, <2>1, <2>2, DispatchesWatched, AnswersWatched, RaisesWatched DEF Steps
<1>4. ASSUME NEW j \in Jobs, OrphanPosts(j) \/ WebhookAccepts(j) PROVE TInv'
  BY <1>4, UnwatchedStutter DEF OrphanPosts, WebhookAccepts
<1>5. ASSUME NEW j \in Jobs, NEW b \in Bodies, WorkerSubmits(j, b) \/ InboxChanges(j, b)
      PROVE  TInv'
  BY <1>5, UnwatchedStutter DEF WorkerSubmits, InboxChanges
<1>6. CASE InboxRestarts \/ Tick \/ UNCHANGED vars
  BY <1>6, UnwatchedStutter DEF InboxRestarts, Tick, vars
<1> QED
  BY <1>1, <1>2, <1>3, <1>4, <1>5, <1>6 DEF Next

LEMMA TaskInvariance == Spec => []TInv
<1>1. Init => TInv
  BY InitTInv
<1> QED
  BY <1>1, NextTInv, Invariance, PTL DEF Spec

(* With every process up, each open job has a task that will settle it     *)
(* (coordinator.py:80-178), however many sessions crash, reconcile and     *)
(* resume, if no statement fails on the journal.                           *)
THEOREM OpenJobsHaveTasks == Reliable => (Spec => []OpenJobHasTask)
<1> SUFFICES ASSUME Reliable PROVE Spec => []OpenJobHasTask
  OBVIOUS
<1>1. TInv => OpenJobHasTask
  BY DEF TInv, Watched, OpenJobHasTask
<1> QED
  BY <1>1, TaskInvariance, PTL

(* Where a task stands after a step of its own.                            *)
LEMMA GoneTo ==
  ASSUME IInv, NEW c \in Coroutines, NEW me, Goes(c, me)
  PROVE  co'[c] = me
  BY DEF Goes, IInv, TypeOK

\* Only its own steps, a failure or the end of its process move a task.
LEMMA TaskMoved ==
  ASSUME IInv, [Next]_vars, NEW s \in Sessions, NEW j \in Jobs,
         co[Task(s, j)].pc # "idle", co'[Task(s, j)].pc = "idle", session'[s] # "down"
  PROVE  Steps(Task(s, j)) \/ Disturbs(Task(s, j))
<1> DEFINE c == Task(s, j)
<1>1. c \in Coroutines /\ SessionOf(c) = s
  BY Coroutines3 DEF Task, SessionOf
<1>2. ASSUME NEW t \in Sessions, Open(t) \/ Reconcile(t) \/ Crash(t) \/ Shutdown(t) PROVE FALSE
  <2>1. CASE Reconcile(t)
    BY <1>1, <2>1 DEF Reconcile, At, Frame
  <2>2. CASE Crash(t) \/ Shutdown(t)
    BY <1>1, <2>2 DEF Crash, Shutdown, IInv, TypeOK
  <2> QED
    BY <1>2, <2>1, <2>2 DEF Open
<1>3. ASSUME NEW t \in Sessions, NEW k \in Jobs, Start(t, k) \/ ReadResult(t, k) PROVE FALSE
  <2>1. CASE Start(t, k)
    <3>1. \A d \in Coroutines : co'[d] = co[d] \/ co'[d] = At("start", 1)
      BY <2>1 DEF Start, Goes, IInv, TypeOK
    <3> QED
      BY <1>1, <3>1 DEF At, Frame
  <2>2. CASE ReadResult(t, k)
    <3>1. \A d \in Coroutines : co'[d] = co[d] \/ RoleOf(d) = "reader"
      BY <2>2, TaskRole DEF ReadResult, Goes, IInv, TypeOK
    <3> QED
      BY <1>1, <3>1, TaskRole
  <2> QED
    BY <1>3, <2>1, <2>2
<1>4. ASSUME NEW d \in Coroutines, Steps(d) \/ Disturbs(d), d # c PROVE FALSE
  <2>1. PICK me : Goes(d, me)
    BY <1>4 DEF Steps, Disturbs, Dispatches, Waits, Advances, Answers, BeginDispatch,
       RegisterArrives, RegisterReturns, RegisterFails, PostRefused, PostSends, PostReturns,
       PostUncertain, BeginPoll, CheckDeadline, FetchStored, FetchNothing, SettleInvalid,
       SettleOk, SettleError, SettleUnwritable, AdvanceRead, AdvanceWrite, RefetchReturns,
       RefetchFails, Revalidate, ClientRaises, JournalRaises
  <2> QED
    BY <1>1, <1>4, <2>1 DEF Goes, IInv, TypeOK
<1>5. ~UNCHANGED co
  OBVIOUS
<1> QED
  BY <1>1, <1>2, <1>3, <1>4, <1>5
     DEF Next, vars, OrphanPosts, WebhookAccepts, WorkerSubmits, InboxChanges, InboxRestarts, Tick

LEMMA DispatchGoesOn ==
  ASSUME IInv, TInv, NEW c \in Coroutines, Dispatches(c)
  PROVE  co'[c].pc # "idle"
<1>1. co[c].pc \in {"start", "register", "registered", "post", "posted"}
  BY DEF Dispatches, BeginDispatch, RegisterArrives, RegisterReturns, RegisterFails,
     PostRefused, PostSends, PostReturns, PostUncertain, Runs
<1>2. \/ \E g : Goes(c, SettlesState(g, co[c].handlers))
      \/ \E g : Goes(c, Calls(g, co[c].handlers))
      \/ \E pc \in {"register", "registered", "posted"} : Goes(c, At(pc, co[c].handlers))
      \/ Goes(c, Raised(co[c]))
  BY DEF Dispatches, BeginDispatch, RegisterArrives, RegisterReturns, RegisterFails,
     PostRefused, PostSends, PostReturns, PostUncertain
<1>3. co[c].handlers > 0 /\ Raised(co[c]) = SettlesState("uncertain", co[c].handlers - 1)
  BY <1>1, AtTask
<1>4. PICK me : Goes(c, me) /\ me.pc # "idle"
  BY <1>2, <1>3, TaskFrames
<1> QED
  BY <1>4, GoneTo

LEMMA WaitGoesOn ==
  ASSUME IInv, TInv, NEW c \in Coroutines, Waits(c)
  PROVE  co'[c].pc # "idle" \/ rows'[JobOf(c)].state \notin OpenStates
<1>1. co[c].pc \in {"resume", "poll", "check", "fetch", "settle"}
  BY DEF Waits, BeginPoll, CheckDeadline, FetchStored, FetchNothing, SettleInvalid, SettleOk,
     SettleError, SettleUnwritable, Runs
<1>2. /\ RoleOf(c) = "task" /\ co[c].handlers > 0
      /\ Raised(co[c]) = SettlesState("uncertain", co[c].handlers - 1)
  BY <1>1, AtTask
<1>3. CASE BeginPoll(c) /\ rows[JobOf(c)].state # "dispatched"
  <2>1. rows' = rows /\ rows[JobOf(c)].state \notin Early
    BY <1>2, <1>3 DEF BeginPoll, Runs, TInv, RoleFits, TaskFits
  <2> QED
    BY <1>3, <2>1 DEF OpenStates, Early
<1>4. CASE FetchStored(c)
  <2> DEFINE me == [At("settle", co[c].handlers) EXCEPT !.payload = slots[JobOf(c)].body]
  <2>1. Goes(c, me) /\ me.pc = "settle"
    BY <1>4 DEF FetchStored, At, Frame
  <2> HIDE DEF me
  <2> QED
    BY <2>1, GoneTo
<1>5. CASE \/ BeginPoll(c) /\ rows[JobOf(c)].state = "dispatched"
           \/ CheckDeadline(c) \/ FetchNothing(c) \/ SettleInvalid(c) \/ SettleOk(c)
           \/ SettleError(c) \/ SettleUnwritable(c)
  <2>1. \/ \E g : Goes(c, SettlesState(g, co[c].handlers))
        \/ \E g : Goes(c, Calls(g, co[c].handlers))
        \/ \E pc \in {"check", "fetch"} : Goes(c, At(pc, co[c].handlers))
        \/ Goes(c, Raised(co[c]))
    BY <1>5 DEF BeginPoll, CheckDeadline, FetchNothing, SettleInvalid, SettleOk, SettleError,
       SettleUnwritable
  <2>2. PICK me : Goes(c, me) /\ me.pc # "idle"
    BY <1>2, <2>1, TaskFrames
  <2> QED
    BY <2>2, GoneTo
<1> QED
  BY <1>3, <1>4, <1>5 DEF Waits

\* A settling advance ends its task when it wrote, or found the row settled.
LEMMA AdvanceGoesOn ==
  ASSUME IInv, TInv, NEW c \in Coroutines, Advances(c), RoleOf(c) = "task"
  PROVE  co'[c].pc # "idle" \/ rows'[JobOf(c)].state \notin OpenStates
<1> DEFINE j == JobOf(c)
<1>1. /\ RoleFits(c, rows[j], co[c]) /\ Fits(rows[j], posts[j], co[c])
      /\ j \in Jobs /\ rows[j] \in Row /\ rows[j].state \in RowStates
      /\ co[c] \in Coroutine /\ co[c].handlers \in 0 .. 2
  BY AtWork DEF TInv, Row
<1>2. co[c].pc \in {"advance", "cas"}
  BY DEF Advances, AdvanceRead, AdvanceWrite, Runs
<1>3. CASE Goes(c, AfterRefusal(co[c])) /\ rows' = rows
  <2>1. CASE co[c].hard
    <3>1. \E g : AfterRefusal(co[c]) = SettlesState(g, co[c].handlers)
      BY <1>2, <2>1 DEF AfterRefusal
    <3> QED
      BY <1>3, <3>1, TaskFrames, GoneTo
  <2>2. CASE ~co[c].hard
    <3>1. co[c].goal \in {"failed", "conflict", "uncertain"}
      BY <1>1, <1>2, <2>2 DEF Fits, MaySend, FollowsPost, Advancing
    <3>2. CASE AdvanceRead(c) /\ ~CanAdvance(rows[j], co[c].goal)
      BY <1>1, <1>3, <3>1, <3>2 DEF CanAdvance, NextStates, OpenStates
    <3>3. CASE AdvanceWrite(c) /\ rows[j].state # co[c].seen
      <4>1. co[c].pc = "cas"
        BY <3>3 DEF AdvanceWrite, Runs
      <4> QED
        BY <1>1, <1>3, <3>3, <4>1 DEF RoleFits, TaskFits, SettledStates, OpenStates
    <3>4. CASE AdvanceRead(c) /\ CanAdvance(rows[j], co[c].goal)
      <4> DEFINE me == [co[c] EXCEPT !.pc = "cas", !.seen = rows[j].state]
      <4>1. Goes(c, me) /\ me.pc = "cas"
        BY <1>1, <3>4 DEF AdvanceRead, Coroutine
      <4> HIDE DEF me
      <4> QED
        BY <4>1, GoneTo
    <3>5. CASE AdvanceWrite(c) /\ rows[j].state = co[c].seen
      <4>1. rows'[j].state = co[c].goal
        BY <1>1, <3>5 DEF AdvanceWrite, IInv, TypeOK, Row
      <4> QED
        BY <3>1, <4>1 DEF OpenStates
    <3> QED
      BY <3>2, <3>3, <3>4, <3>5 DEF Advances
  <2> QED
    BY <2>1, <2>2
<1>4. CASE AdvanceRead(c) /\ CanAdvance(rows[j], co[c].goal)
  <2> DEFINE me == [co[c] EXCEPT !.pc = "cas", !.seen = rows[j].state]
  <2>1. Goes(c, me) /\ me.pc = "cas"
    BY <1>1, <1>4 DEF AdvanceRead, Coroutine
  <2> HIDE DEF me
  <2> QED
    BY <2>1, GoneTo
<1>5. CASE AdvanceWrite(c) /\ rows[j].state = co[c].seen
  <2>1. Goes(c, AfterAdvance(co[c])) /\ rows'[j].state = co[c].goal
    BY <1>1, <1>5 DEF AdvanceWrite, IInv, TypeOK, Row
  <2>2. CASE co[c].hard /\ co[c].goal \in {"dispatching", "dispatched"}
    BY <2>1, <2>2, GoneTo DEF AfterAdvance, At, Frame
  <2>3. CASE ~(co[c].hard /\ co[c].goal \in {"dispatching", "dispatched"})
    BY <1>1, <1>2, <2>1, <2>3
       DEF Fits, MaySend, FollowsPost, Advancing, OpenStates
  <2> QED
    BY <2>2, <2>3
<1> QED
  BY <1>3, <1>4, <1>5 DEF Advances, AdvanceRead, AdvanceWrite

\* An exception ends a task only when no handler is left around it.
LEMMA RaiseGoesOn ==
  ASSUME IInv, TInv, NEW c \in Coroutines, Disturbs(c), RoleOf(c) = "task"
  PROVE  \/ co'[c].pc # "idle"
         \/ co[c].pc \in {"advance", "cas"} /\ ~co[c].hard /\ co[c].handlers = 0
<1>1. co[c].pc # "idle" /\ co'[c] = Raised(co[c])
  BY GoneTo DEF Disturbs, ClientRaises, JournalRaises, Runs
<1>2. RoleFits(c, rows[JobOf(c)], co[c]) /\ co[c].handlers \in 0 .. 2
  BY AtWork DEF TInv
<1>3. CASE co[c].handlers # 0
  BY <1>1, <1>3, TaskFrames DEF Raised
<1>4. CASE co[c].handlers = 0
  BY <1>1, <1>2, <1>4 DEF RoleFits, TaskFits
<1> QED
  BY <1>3, <1>4

(* Whatever fails, a task ends before its job is settled in one case only: *)
(* the journal refuses the write of the outermost exception handler        *)
(* (coordinator.py:80-178).                                                *)
THEOREM TasksOutliveJobs == Spec => TaskOutlivesJob
<1> DEFINE Outlives ==
      \A s \in Sessions, j \in Jobs :
        LET me == co[Task(s, j)] IN
        /\ me.pc # "idle" /\ co'[Task(s, j)].pc = "idle"
        /\ session[s] = "up" /\ session'[s] = "up"
        /\ Unsettled(j)'
        => me.pc \in {"advance", "cas"} /\ ~me.hard /\ me.handlers = 0
<1>1. ASSUME IInv, TInv, [Next]_vars, NEW s \in Sessions, NEW j \in Jobs,
             co[Task(s, j)].pc # "idle", co'[Task(s, j)].pc = "idle",
             session'[s] = "up", Unsettled(j)'
      PROVE  LET me == co[Task(s, j)] IN
             me.pc \in {"advance", "cas"} /\ ~me.hard /\ me.handlers = 0
  <2> DEFINE c == Task(s, j)
  <2>1. c \in Coroutines /\ RoleOf(c) = "task" /\ JobOf(c) = j
    BY Coroutines3, TaskRole
  <2>2. Steps(c) \/ Disturbs(c)
    BY <1>1, TaskMoved
  <2>3. rows'[j].state \in OpenStates
    BY <1>1 DEF Unsettled, OpenStates
  <2>4. ~Answers(c)
    <3>1. co[c].pc \notin {"refetch", "revalidate"}
      BY <1>1, <2>1 DEF TInv, RoleFits, TaskFits
    <3> QED
      BY <3>1 DEF Answers, RefetchReturns, RefetchFails, Revalidate, Runs
  <2> HIDE DEF c
  <2>5. ~Steps(c)
    BY <1>1, <2>1, <2>3, <2>4, DispatchGoesOn, WaitGoesOn, AdvanceGoesOn DEF c, Steps
  <2> QED
    BY <1>1, <2>1, <2>2, <2>5, RaiseGoesOn DEF c
<1>2. IInv /\ TInv /\ [Next]_vars => [Outlives]_vars
  BY <1>1
<1> QED
  BY <1>2, Invariance, TaskInvariance, PTL DEF Spec, TaskOutlivesJob

-----------------------------------------------------------------------------
(***************************************************************************)
(* The event loops: a coroutine at work belongs to a session that is up,   *)
(* and one of a session at most is between two statements.                 *)
(***************************************************************************)
LoopInv ==
  /\ \A c \in Coroutines : co[c].pc # "idle" => session[SessionOf(c)] = "up"
  /\ \A c, d \in Coroutines :
        /\ SessionOf(c) = SessionOf(d)
        /\ co[c].pc \in Running /\ co[d].pc \in Running
        => c = d

LEMMA InitLoopInv == ASSUME Init PROVE LoopInv
  BY DEF Init, LoopInv, Idle, Frame, Running

\* A step of one coroutine, whose session's loop it has unless it awaits.
LEMMA LoopStep ==
  ASSUME IInv, LoopInv, NEW c \in Coroutines, NEW me, Goes(c, me), UNCHANGED session,
         me.pc # "idle" => session[SessionOf(c)] = "up",
         me.pc \in Awaiting \/ HasLoop(SessionOf(c), c)
  PROVE  LoopInv'
<1>1. \A d \in Coroutines : co'[d] = IF d = c THEN me ELSE co[d]
  BY DEF Goes, IInv, TypeOK
<1>2. \A x : x \in Awaiting => x \notin Running
  BY DEF Awaiting, Running
<1>3. ASSUME NEW d \in Coroutines, co'[d].pc # "idle" PROVE session'[SessionOf(d)] = "up"
  BY <1>1, <1>3 DEF LoopInv
<1>4. ASSUME NEW d \in Coroutines, NEW e \in Coroutines, SessionOf(d) = SessionOf(e),
             co'[d].pc \in Running, co'[e].pc \in Running
      PROVE  d = e
  <2>1. CASE me.pc \in Awaiting
    BY <1>1, <1>2, <1>4, <2>1 DEF LoopInv
  <2>2. CASE HasLoop(SessionOf(c), c)
    <3>1. \A x \in Coroutines : SessionOf(x) = SessionOf(c) /\ x # c => co[x].pc \notin Running
      BY <1>2, <2>2 DEF HasLoop
    <3> QED
      BY <1>1, <1>4, <3>1 DEF LoopInv
  <2> QED
    BY <2>1, <2>2
<1> QED
  BY <1>3, <1>4 DEF LoopInv, SessionOf

\* How a coroutine moves: with the loop, or from one await to the next.
LEMMA StepMoves ==
  ASSUME NEW c \in Coroutines, Steps(c) \/ Disturbs(c)
  PROVE  /\ UNCHANGED <<session, resumable>>
         /\ \E me : /\ Goes(c, me)
                    /\ \/ HasLoop(SessionOf(c), c)
                       \/ /\ co[c].pc \notin {"idle", "cas"}
                          /\ me.pc \in Awaiting
                          /\ UNCHANGED rows
<1>1. CASE Dispatches(c)
  <2>1. CASE RegisterArrives(c)
    BY <2>1 DEF RegisterArrives, At, Frame, Awaiting
  <2>2. CASE PostSends(c)
    BY <2>2 DEF PostSends, At, Frame, Awaiting
  <2>3. CASE ~RegisterArrives(c) /\ ~PostSends(c)
    BY <1>1, <2>3 DEF Dispatches, BeginDispatch, RegisterReturns, RegisterFails, PostRefused,
       PostReturns, PostUncertain, Runs
  <2> QED
    BY <2>1, <2>2, <2>3
<1>2. CASE Waits(c)
  <2>1. CASE FetchStored(c)
    <3>1. [At("settle", co[c].handlers) EXCEPT !.payload = slots[JobOf(c)].body].pc = "settle"
      BY DEF At, Frame
    <3> QED
      BY <2>1, <3>1 DEF FetchStored, Awaiting
  <2>2. CASE FetchNothing(c)
    BY <2>2 DEF FetchNothing, At, Frame, Awaiting
  <2>3. CASE SettleOk(c) \/ SettleError(c)
    <3>1. Runs(c, {"settle"}) /\ UNCHANGED <<session, resumable>>
      BY <2>3 DEF SettleOk, SettleError
    <3>2. \E me : Goes(c, me)
      BY <2>3 DEF SettleOk, SettleError
    <3> QED
      BY <3>1, <3>2 DEF Runs
  <2>4. CASE ~FetchStored(c) /\ ~FetchNothing(c) /\ ~SettleOk(c) /\ ~SettleError(c)
    BY <1>2, <2>4 DEF Waits, BeginPoll, CheckDeadline, SettleInvalid, SettleUnwritable, Runs
  <2> QED
    BY <2>1, <2>2, <2>3, <2>4
<1>3. CASE Advances(c)
  <2>1. Runs(c, {"advance", "cas"}) /\ UNCHANGED <<session, resumable>>
    BY <1>3 DEF Advances, AdvanceRead, AdvanceWrite, Runs
  <2>2. \E me : Goes(c, me)
    BY <1>3 DEF Advances, AdvanceRead, AdvanceWrite
  <2> QED
    BY <2>1, <2>2 DEF Runs
<1>4. CASE Answers(c)
  <2>1. CASE RefetchReturns(c)
    <3> DEFINE me == [co[c] EXCEPT !.pc = "revalidate", !.payload = slots[JobOf(c)].body]
    <3>1. me.pc = "revalidate"
      BY <2>1 DEF RefetchReturns
    <3> QED
      BY <2>1, <3>1 DEF RefetchReturns, Awaiting
  <2>2. CASE RefetchFails(c)
    BY <2>2 DEF RefetchFails, Idle, Frame, Awaiting
  <2>3. CASE Revalidate(c)
    <3>1. Runs(c, {"revalidate"}) /\ UNCHANGED <<session, resumable>> /\ \E me : Goes(c, me)
      BY <2>3 DEF Revalidate
    <3> QED
      BY <3>1 DEF Runs
  <2> QED
    BY <1>4, <2>1, <2>2, <2>3 DEF Answers
<1>5. CASE Disturbs(c)
  BY <1>5 DEF Disturbs, ClientRaises, JournalRaises, Runs
<1> QED
  BY <1>1, <1>2, <1>3, <1>4, <1>5 DEF Steps

LEMMA NextLoopInv == IInv /\ LoopInv /\ [Next]_vars => LoopInv'
<1> SUFFICES ASSUME IInv, LoopInv, [Next]_vars PROVE LoopInv'
  OBVIOUS
<1>1. ASSUME NEW s \in Sessions, Open(s) PROVE LoopInv'
  <2>1. co' = co /\ session[s] = "down"
    BY <1>1 DEF Open
  <2>2. \A t \in Sessions : t # s => session'[t] = session[t]
    BY <1>1 DEF Open, IInv, TypeOK
  <2> QED
    BY <2>1, <2>2, Coroutines3 DEF LoopInv
<1>2. ASSUME NEW s \in Sessions, Reconcile(s) PROVE LoopInv'
  <2>1. \A t \in Sessions : session'[t] = IF t = s THEN "up" ELSE session[t]
    BY <1>2 DEF Reconcile, IInv, TypeOK
  <2>2. ASSUME NEW c \in Coroutines
        PROVE  co'[c] = co[c] \/ (SessionOf(c) = s /\ co'[c].pc = "resume")
    BY <1>2 DEF Reconcile, At, Frame, Task, SessionOf
  <2>3. \A c \in Coroutines : co'[c].pc # "idle" => session'[SessionOf(c)] = "up"
    BY <2>1, <2>2, Coroutines3 DEF LoopInv
  <2>4. \A c \in Coroutines : co'[c].pc \in Running => co[c].pc \in Running
    BY <2>2 DEF Running
  <2> QED
    BY <2>3, <2>4 DEF LoopInv, SessionOf
<1>3. ASSUME NEW s \in Sessions, Crash(s) \/ Shutdown(s) PROVE LoopInv'
  <2>1. \A t \in Sessions : t # s => session'[t] = session[t]
    BY <1>3 DEF Crash, Shutdown, IInv, TypeOK
  <2>2. ASSUME NEW c \in Coroutines
        PROVE  co'[c] = IF SessionOf(c) = s THEN Idle ELSE co[c]
    BY <1>3 DEF Crash, Shutdown
  <2>3. \A c \in Coroutines : co'[c].pc # "idle" => session'[SessionOf(c)] = "up"
    BY <2>1, <2>2, Coroutines3 DEF LoopInv, Idle, Frame
  <2>4. \A c \in Coroutines : co'[c].pc \in Running => co[c].pc \in Running
    BY <2>2 DEF Running, Idle, Frame
  <2> QED
    BY <2>3, <2>4 DEF LoopInv, SessionOf
<1>4. ASSUME NEW s \in Sessions, NEW j \in Jobs, Start(s, j) \/ ReadResult(s, j) PROVE LoopInv'
  <2>1. PICK c \in Coroutines :
          SessionOf(c) = s /\ HasLoop(s, c) /\ UNCHANGED session /\ \E me : Goes(c, me)
    <3>1. CASE Start(s, j)
      BY <3>1, Coroutines3 DEF Start, Task, SessionOf
    <3>2. CASE ReadResult(s, j)
      BY <3>2, Coroutines3 DEF ReadResult, SessionOf
    <3> QED
      BY <1>4, <3>1, <3>2
  <2>2. PICK me : Goes(c, me)
    BY <2>1
  <2> QED
    BY <2>1, <2>2, LoopStep DEF HasLoop
<1>5. ASSUME NEW c \in Coroutines, Steps(c) \/ Disturbs(c) PROVE LoopInv'
  <2>1. PICK me : /\ UNCHANGED session /\ Goes(c, me)
                  /\ \/ HasLoop(SessionOf(c), c)
                     \/ co[c].pc # "idle" /\ me.pc \in Awaiting
    BY <1>5, StepMoves
  <2>2. session[SessionOf(c)] = "up"
    BY <2>1 DEF HasLoop, LoopInv
  <2> QED
    BY <2>1, <2>2, LoopStep
<1>6. CASE UNCHANGED <<session, co>>
  BY <1>6 DEF LoopInv
<1>7. ASSUME NEW j \in Jobs, OrphanPosts(j) \/ WebhookAccepts(j) PROVE LoopInv'
  BY <1>6, <1>7 DEF OrphanPosts, WebhookAccepts
<1>8. ASSUME NEW j \in Jobs, NEW b \in Bodies, WorkerSubmits(j, b) \/ InboxChanges(j, b)
      PROVE  LoopInv'
  BY <1>6, <1>8 DEF WorkerSubmits, InboxChanges
<1>9. CASE InboxRestarts \/ Tick \/ UNCHANGED vars
  BY <1>6, <1>9 DEF InboxRestarts, Tick, vars
<1> QED
  BY <1>1, <1>2, <1>3, <1>4, <1>5, <1>7, <1>8, <1>9 DEF Next

LEMMA LoopInvariance == Spec => []LoopInv
<1>1. Init => LoopInv
  BY InitLoopInv
<1> QED
  BY <1>1, NextLoopInv, Invariance, PTL DEF Spec

-----------------------------------------------------------------------------
(***************************************************************************)
(* Every coroutine ends: the steps it may still have before it grow fewer. *)
(***************************************************************************)
LEMMA WriteAhead ==
  ASSUME NEW me
  PROVE  /\ AheadOfWrite(me) \in 1 .. 17
         /\ ~me.hard => AheadOfWrite(me) = 1
         /\ me.hard =>
              /\ me.goal = "dispatching" => AheadOfWrite(me) = 17
              /\ me.goal = "dispatched" => AheadOfWrite(me) = 13
              /\ me.goal \notin {"dispatching", "dispatched"} => AheadOfWrite(me) = 3
  BY DEF AheadOfWrite

LEMMA PlaceAhead ==
  ASSUME NEW me, NEW head
  PROVE  /\ me.pc = "idle" => Ahead(me, head) = 0
         /\ me.pc = "start" => Ahead(me, head) = 21
         /\ me.pc = "register" => Ahead(me, head) = 20
         /\ me.pc = "registered" => Ahead(me, head) = 19
         /\ me.pc = "post" => Ahead(me, head) = 16
         /\ me.pc = "posted" => Ahead(me, head) = 15
         /\ me.pc \in {"resume", "poll"} => Ahead(me, head) = 8
         /\ me.pc = "check" => Ahead(me, head) = head
         /\ me.pc = "fetch" => Ahead(me, head) = 6
         /\ me.pc = "settle" => Ahead(me, head) = 5
         /\ me.pc = "refetch" => Ahead(me, head) = 4
         /\ me.pc = "revalidate" => Ahead(me, head) = 3
         /\ me.pc = "advance" => Ahead(me, head) = AheadOfWrite(me) + 1
         /\ me.pc = "cas" => Ahead(me, head) = AheadOfWrite(me)
  BY DEF Ahead

LEMMA AheadBounds ==
  ASSUME NEW me, me.pc \in Awaiting \union Running, NEW head \in {5, 7}
  PROVE  /\ Ahead(me, head) \in 0 .. 21
         /\ me.pc # "idle" => Ahead(me, head) > 0
         /\ Ahead(me, 5) <= Ahead(me, head)
<1>1. \/ me.pc \in {"idle", "start", "register", "registered", "post", "posted", "resume",
                     "poll", "check", "fetch", "settle", "refetch", "revalidate"}
      \/ me.pc \in {"advance", "cas"}
  BY DEF Awaiting, Running
<1>2. CASE me.pc \in {"advance", "cas"}
  <2>1. AheadOfWrite(me) \in 1 .. 17 /\ me.pc # "idle"
    BY <1>2, WriteAhead
  <2>2. Ahead(me, head) \in {AheadOfWrite(me), AheadOfWrite(me) + 1}
    BY <1>2, PlaceAhead
  <2>3. Ahead(me, 5) = Ahead(me, head)
    BY <1>2, PlaceAhead
  <2> QED
    BY <2>1, <2>2, <2>3
<1>3. CASE me.pc \notin {"advance", "cas"}
  <2>1. me.pc = "check" \/ Ahead(me, 5) = Ahead(me, head)
    BY <1>1, <1>3, PlaceAhead
  <2>2. Ahead(me, head) \in 0 .. 21 /\ (me.pc # "idle" => Ahead(me, head) > 0)
    BY <1>1, <1>3, PlaceAhead
  <2>3. me.pc = "check" => Ahead(me, 5) <= Ahead(me, head)
    BY PlaceAhead
  <2> QED
    BY <2>1, <2>2, <2>3
<1> QED
  BY <1>2, <1>3

\* The distance of a coroutine whose frame is me.
Weight(me, head) == 4 * me.handlers + Ahead(me, head)

LEMMA HeadOfJob ==
  ASSUME IInv, NEW c \in Coroutines
  PROVE  /\ HeadAhead(JobOf(c)) \in {5, 7}
         /\ Distance(c) = Weight(co[c], HeadAhead(JobOf(c)))
         /\ co[c].pc \in Awaiting \union Running /\ co[c].handlers \in 0 .. 2
         /\ rows[JobOf(c)].deadline \in Nat /\ now \in Nat
  BY AtWork DEF HeadAhead, Distance, Weight, Coroutine, Row, IInv, TypeOK

\* The frames a step leaves a coroutine in.
LEMMA IdleWeight == ASSUME NEW head PROVE Weight(Idle, head) = 0
<1>1. Idle.pc = "idle" /\ Idle.handlers = 0
  BY DEF Idle, Frame
<1>2. Ahead(Idle, head) = 0
  BY <1>1, PlaceAhead
<1> QED
  BY <1>1, <1>2 DEF Weight

LEMMA SettlesWeight ==
  ASSUME NEW g, NEW h \in 0 .. 2, NEW head PROVE Weight(SettlesState(g, h), head) = 4 * h + 2
<1> DEFINE me == SettlesState(g, h)
<1>1. me.pc = "advance" /\ me.handlers = h /\ ~me.hard
  BY DEF SettlesState, Frame
<1> HIDE DEF me
<1>2. Ahead(me, head) = 2
  BY <1>1, WriteAhead, PlaceAhead
<1> QED
  BY <1>1, <1>2 DEF Weight, me

LEMMA CallsWeight ==
  ASSUME NEW g, NEW h \in 0 .. 2, NEW head
  PROVE  Weight(Calls(g, h), head) =
           4 * h + (IF g = "dispatching" THEN 18 ELSE IF g = "dispatched" THEN 14 ELSE 4)
<1> DEFINE me == Calls(g, h)
<1>1. me.pc = "advance" /\ me.handlers = h /\ me.hard /\ me.goal = g
  BY DEF Calls, Frame
<1> HIDE DEF me
<1>2. Ahead(me, head) = AheadOfWrite(me) + 1
  BY <1>1, PlaceAhead
<1>3. AheadOfWrite(me) = IF g = "dispatching" THEN 17 ELSE IF g = "dispatched" THEN 13 ELSE 3
  BY <1>1, WriteAhead
<1> QED
  BY <1>1, <1>2, <1>3 DEF Weight, me

LEMMA AtWeight ==
  ASSUME NEW h \in 0 .. 3, NEW head \in {5, 7}
  PROVE  /\ Weight(At("register", h), head) = 4 * h + 20
         /\ Weight(At("registered", h), head) = 4 * h + 19
         /\ Weight(At("post", h), head) = 4 * h + 16
         /\ Weight(At("posted", h), head) = 4 * h + 15
         /\ Weight(At("poll", h), head) = 4 * h + 8
         /\ Weight(At("check", h), head) = 4 * h + head
         /\ Weight(At("fetch", h), head) = 4 * h + 6
<1>1. \A pc : At(pc, h).pc = pc /\ At(pc, h).handlers = h
  BY DEF At, Frame
<1> QED
  BY <1>1, PlaceAhead DEF Weight

LEMMA RaisedNearer ==
  ASSUME NEW me, me.pc \in Awaiting \union Running, me.pc # "idle", me.handlers \in 0 .. 2,
         NEW head \in {5, 7}
  PROVE  Weight(Raised(me), head) < Weight(me, head)
<1>1. Ahead(me, head) \in 0 .. 21 /\ Ahead(me, head) > 0
  BY AheadBounds
<1>2. CASE me.handlers = 0
  <2>1. Weight(Raised(me), head) = 0
    BY <1>2, IdleWeight DEF Raised
  <2> QED
    BY <1>1, <1>2, <2>1 DEF Weight
<1>3. CASE me.handlers # 0
  <2>1. Raised(me) = SettlesState("uncertain", me.handlers - 1) /\ me.handlers - 1 \in 0 .. 2
    BY <1>3 DEF Raised
  <2>2. Weight(Raised(me), head) = 4 * (me.handlers - 1) + 2
    BY <2>1, SettlesWeight
  <2> QED
    BY <1>1, <1>3, <2>2 DEF Weight
<1> QED
  BY <1>2, <1>3

\* Each step of the dispatch.
LEMMA DispatchNearer ==
  ASSUME IInv, NEW c \in Coroutines, Dispatches(c), NEW head \in {5, 7}
  PROVE  Weight(co'[c], head) < Weight(co[c], head)
<1> DEFINE me == co[c]  h == co[c].handlers
<1>1. me.pc \in Awaiting \union Running /\ h \in 0 .. 2
  BY HeadOfJob
<1>2. CASE BeginDispatch(c)
  <2>1. me.pc = "start" /\ co'[c] \in {At("register", h), Raised(me)}
    BY <1>2, GoneTo DEF BeginDispatch, Runs
  <2>2. Weight(me, head) = 4 * h + 21
    BY <2>1, PlaceAhead DEF Weight
  <2>3. Weight(At("register", h), head) = 4 * h + 20
    BY <1>1, AtWeight
  <2> QED
    BY <1>1, <2>1, <2>2, <2>3, RaisedNearer
<1>3. CASE RegisterArrives(c)
  <2>1. me.pc = "register" /\ co'[c] = At("registered", h)
    BY <1>3, GoneTo DEF RegisterArrives
  <2>2. Weight(me, head) = 4 * h + 20
    BY <2>1, PlaceAhead DEF Weight
  <2> QED
    BY <1>1, <2>1, <2>2, AtWeight
<1>4. CASE RegisterReturns(c)
  <2>1. me.pc = "registered" /\ co'[c] = Calls("dispatching", h)
    BY <1>4, GoneTo DEF RegisterReturns, Runs
  <2>2. Weight(me, head) = 4 * h + 19
    BY <2>1, PlaceAhead DEF Weight
  <2> QED
    BY <1>1, <2>1, <2>2, CallsWeight
<1>5. CASE RegisterFails(c) \/ PostRefused(c) \/ PostUncertain(c)
  <2>1. me.pc \in {"register", "registered", "post", "posted"}
    BY <1>5 DEF RegisterFails, PostRefused, PostUncertain, Runs
  <2>2. PICK g : co'[c] = SettlesState(g, h)
    BY <1>5, GoneTo DEF RegisterFails, PostRefused, PostUncertain
  <2>3. Ahead(me, head) \in 15 .. 20
    BY <2>1, PlaceAhead
  <2>4. Weight(me, head) = 4 * h + Ahead(me, head)
    BY DEF Weight
  <2>5. Weight(co'[c], head) = 4 * h + 2
    BY <1>1, <2>2, SettlesWeight
  <2> QED
    BY <1>1, <2>3, <2>4, <2>5
<1>6. CASE PostSends(c)
  <2>1. me.pc = "post" /\ co'[c] = At("posted", h)
    BY <1>6, GoneTo DEF PostSends
  <2>2. Weight(me, head) = 4 * h + 16
    BY <2>1, PlaceAhead DEF Weight
  <2> QED
    BY <1>1, <2>1, <2>2, AtWeight
<1>7. CASE PostReturns(c)
  <2>1. me.pc = "posted" /\ co'[c] = Calls("dispatched", h)
    BY <1>7, GoneTo DEF PostReturns, Runs
  <2>2. Weight(me, head) = 4 * h + 15
    BY <2>1, PlaceAhead DEF Weight
  <2> QED
    BY <1>1, <2>1, <2>2, CallsWeight
<1> QED
  BY <1>2, <1>3, <1>4, <1>5, <1>6, <1>7 DEF Dispatches

\* Each step of the wait but the way round the polling loop.
LEMMA WaitNearer ==
  ASSUME IInv, NEW c \in Coroutines, Waits(c), NEW head, head = HeadAhead(JobOf(c))
  PROVE  \/ Weight(co'[c], head) < Weight(co[c], head)
         \/ /\ co[c].pc = "fetch" /\ co'[c].pc = "check"
            /\ now < rows[JobOf(c)].deadline
<1> DEFINE me == co[c]  h == co[c].handlers
<1>1. /\ me.pc \in Awaiting \union Running /\ h \in 0 .. 2 /\ head \in {5, 7}
      /\ rows[JobOf(c)].deadline \in Nat /\ now \in Nat
  BY HeadOfJob
<1>2. CASE BeginPoll(c)
  <2>1. me.pc \in {"resume", "poll"} /\ co'[c] \in {At("check", h), Idle}
    BY <1>2, GoneTo DEF BeginPoll, Runs
  <2>2. Weight(me, head) = 4 * h + 8
    BY <2>1, PlaceAhead DEF Weight
  <2>3. Weight(At("check", h), head) = 4 * h + head /\ Weight(Idle, head) = 0
    BY <1>1, AtWeight, IdleWeight
  <2> QED
    BY <1>1, <2>1, <2>2, <2>3
<1>3. CASE CheckDeadline(c)
  <2>1. /\ me.pc = "check"
        /\ \/ co'[c] = SettlesState("uncertain", h)
           \/ co'[c] = At("fetch", h) /\ now < rows[JobOf(c)].deadline
    BY <1>1, <1>3, GoneTo DEF CheckDeadline, Runs
  <2>2. Weight(me, head) = 4 * h + head
    BY <2>1, PlaceAhead DEF Weight
  <2>3. now < rows[JobOf(c)].deadline => head = 7
    BY <1>1 DEF HeadAhead
  <2>4. /\ Weight(At("fetch", h), head) = 4 * h + 6
        /\ Weight(SettlesState("uncertain", h), head) = 4 * h + 2
    BY <1>1, AtWeight, SettlesWeight
  <2> QED
    BY <1>1, <2>1, <2>2, <2>3, <2>4
<1>4. CASE FetchStored(c)
  <2> DEFINE new == [At("settle", h) EXCEPT !.payload = slots[JobOf(c)].body]
  <2>1. me.pc = "fetch" /\ Goes(c, new) /\ new.pc = "settle" /\ new.handlers = h
    BY <1>4 DEF FetchStored, At, Frame
  <2> HIDE DEF new
  <2>2. Weight(new, head) = 4 * h + 5 /\ Weight(me, head) = 4 * h + 6
    BY <2>1, PlaceAhead DEF Weight
  <2> QED
    BY <1>1, <2>1, <2>2, GoneTo
<1>5. CASE FetchNothing(c)
  <2>1. me.pc = "fetch" /\ co'[c] = At("check", h)
    BY <1>5, GoneTo DEF FetchNothing
  <2>2. Weight(me, head) = 4 * h + 6 /\ Weight(co'[c], head) = 4 * h + head
    BY <1>1, <2>1, PlaceAhead, AtWeight DEF Weight
  <2>3. now < rows[JobOf(c)].deadline \/ head = 5
    BY <1>1 DEF HeadAhead
  <2>4. co'[c].pc = "check"
    BY <2>1 DEF At, Frame
  <2> QED
    BY <1>1, <2>1, <2>2, <2>3, <2>4
<1>6. CASE SettleInvalid(c) \/ SettleOk(c) \/ SettleError(c)
  <2>1. PICK g \in {"ready", "failed", "conflict", "uncertain"} :
          co'[c] \in {SettlesState(g, h), Calls(g, h)}
    BY <1>6, GoneTo DEF SettleInvalid, SettleOk, SettleError
  <2>2. Weight(me, head) = 4 * h + 5
    BY <1>6, PlaceAhead DEF Weight, SettleInvalid, SettleOk, SettleError, Runs
  <2>3. Weight(SettlesState(g, h), head) = 4 * h + 2 /\ Weight(Calls(g, h), head) = 4 * h + 4
    BY <1>1, SettlesWeight, CallsWeight
  <2> QED
    BY <1>1, <2>1, <2>2, <2>3
<1>7. CASE SettleUnwritable(c)
  <2>1. me.pc = "settle" /\ co'[c] = Raised(me)
    BY <1>7, GoneTo DEF SettleUnwritable, Runs
  <2> QED
    BY <1>1, <2>1, RaisedNearer
<1> QED
  BY <1>2, <1>3, <1>4, <1>5, <1>6, <1>7 DEF Waits

\* Each statement of a store.advance, and each step of result().
LEMMA AdvanceNearer ==
  ASSUME IInv, NEW c \in Coroutines, Advances(c), NEW head \in {5, 7}
  PROVE  Weight(co'[c], head) < Weight(co[c], head)
<1> DEFINE me == co[c]  h == co[c].handlers
<1>1. /\ me.pc \in {"advance", "cas"} /\ h \in 0 .. 2 /\ me \in Coroutine
      /\ me.hard \in BOOLEAN
  BY HeadOfJob, AtWork DEF Advances, AdvanceRead, AdvanceWrite, Runs, Coroutine
<1>2. AheadOfWrite(me) \in 1 .. 17 /\ (me.hard => AheadOfWrite(me) >= 3)
  BY WriteAhead
<1>3. /\ Weight(me, head) = 4 * h + Ahead(me, head)
      /\ Ahead(me, head) = IF me.pc = "advance" THEN AheadOfWrite(me) + 1 ELSE AheadOfWrite(me)
  BY <1>1, PlaceAhead DEF Weight
<1>4. Weight(AfterRefusal(me), head) < Weight(me, head)
  <2>1. CASE me.hard
    <3>1. \E g : AfterRefusal(me) = SettlesState(g, h)
      BY <1>1, <2>1 DEF AfterRefusal
    <3>2. Weight(AfterRefusal(me), head) = 4 * h + 2
      BY <1>1, <3>1, SettlesWeight
    <3> QED
      BY <1>1, <1>2, <1>3, <2>1, <3>2
  <2>2. CASE ~me.hard
    <3>1. Weight(AfterRefusal(me), head) = 0
      BY <2>2, IdleWeight DEF AfterRefusal
    <3> QED
      BY <1>1, <1>2, <1>3, <3>1
  <2> QED
    BY <2>1, <2>2
<1>5. CASE co'[c] = AfterRefusal(me)
  BY <1>4, <1>5
<1>6. CASE me.pc = "advance" /\ Goes(c, [me EXCEPT !.pc = "cas", !.seen = rows[JobOf(c)].state])
  <2> DEFINE new == [me EXCEPT !.pc = "cas", !.seen = rows[JobOf(c)].state]
  <2>1. /\ new.pc = "cas" /\ new.handlers = h /\ new.hard = me.hard /\ new.goal = me.goal
        /\ co'[c] = new
    BY <1>1, <1>6, GoneTo DEF Coroutine
  <2> HIDE DEF new
  <2>2. Weight(new, head) = 4 * h + AheadOfWrite(new) /\ AheadOfWrite(new) = AheadOfWrite(me)
    BY <1>1, <2>1, PlaceAhead, WriteAhead DEF Weight
  <2> QED
    BY <1>1, <1>2, <1>3, <1>6, <2>1, <2>2
<1>7. CASE me.pc = "cas" /\ co'[c] = AfterAdvance(me)
  <2>1. CASE me.hard /\ me.goal = "dispatching"
    <3>1. co'[c] = At("post", h) /\ AheadOfWrite(me) = 17
      BY <1>7, <2>1, WriteAhead DEF AfterAdvance
    <3>2. Weight(co'[c], head) = 4 * h + 16
      BY <1>1, <3>1, AtWeight
    <3> QED
      BY <1>1, <1>3, <1>7, <3>1, <3>2
  <2>2. CASE me.hard /\ me.goal = "dispatched"
    <3>1. co'[c] = At("poll", h + 1) /\ AheadOfWrite(me) = 13
      BY <1>7, <2>2, WriteAhead DEF AfterAdvance
    <3>2. h + 1 \in 0 .. 3
      BY <1>1
    <3>3. Weight(co'[c], head) = 4 * (h + 1) + 8
      BY <3>1, <3>2, AtWeight
    <3> QED
      BY <1>1, <1>3, <1>7, <3>1, <3>3
  <2>3. CASE ~(me.hard /\ me.goal \in {"dispatching", "dispatched"})
    <3>1. co'[c] = Idle
      BY <1>7, <2>3 DEF AfterAdvance
    <3>2. Weight(co'[c], head) = 0
      BY <3>1, IdleWeight
    <3> QED
      BY <1>1, <1>2, <1>3, <3>2
  <2> QED
    BY <2>1, <2>2, <2>3
<1> QED
  <2>1. CASE AdvanceRead(c)
    BY <1>5, <1>6, <2>1, GoneTo DEF AdvanceRead, Runs
  <2>2. CASE AdvanceWrite(c)
    BY <1>5, <1>7, <2>2, GoneTo DEF AdvanceWrite, Runs
  <2> QED
    BY <2>1, <2>2 DEF Advances

LEMMA AnswerNearer ==
  ASSUME IInv, NEW c \in Coroutines, Answers(c), NEW head \in {5, 7}
  PROVE  Weight(co'[c], head) < Weight(co[c], head)
<1> DEFINE me == co[c]  h == co[c].handlers
<1>1. h \in 0 .. 2 /\ me \in Coroutine
  BY AtWork
<1>2. CASE RefetchReturns(c)
  <2> DEFINE new == [me EXCEPT !.pc = "revalidate", !.payload = slots[JobOf(c)].body]
  <2>1. me.pc = "refetch" /\ co'[c] = new /\ new.pc = "revalidate" /\ new.handlers = h
    BY <1>1, <1>2, GoneTo DEF RefetchReturns, Coroutine
  <2> HIDE DEF new
  <2>2. Weight(new, head) = 4 * h + 3 /\ Weight(me, head) = 4 * h + 4
    BY <2>1, PlaceAhead DEF Weight
  <2> QED
    BY <1>1, <2>1, <2>2
<1>3. CASE RefetchFails(c) \/ Revalidate(c)
  <2>1. /\ me.pc \in {"refetch", "revalidate"}
        /\ co'[c] \in {Idle, SettlesState("conflict", 0)}
    BY <1>3, GoneTo DEF RefetchFails, Revalidate, Runs
  <2>2. Weight(me, head) = 4 * h + Ahead(me, head) /\ Ahead(me, head) \in {3, 4}
    BY <2>1, PlaceAhead DEF Weight
  <2>3. Weight(Idle, head) = 0 /\ Weight(SettlesState("conflict", 0), head) = 2
    BY IdleWeight, SettlesWeight
  <2> QED
    BY <1>1, <2>1, <2>2, <2>3
<1> QED
  BY <1>2, <1>3 DEF Answers

-----------------------------------------------------------------------------
(* No row is given another deadline, and the clock does not go back.       *)
LEMMA DeadlinesKept ==
  ASSUME IInv, [Next]_vars, NEW j \in Jobs, rows[j].state # "absent"
  PROVE  rows'[j].deadline = rows[j].deadline /\ now' \in Nat /\ now' >= now
<1>1. rows[j] \in Row /\ now \in Nat /\ MaxNow \in Nat
  BY CoordinatorAssumption DEF IInv, TypeOK
<1>2. ASSUME NEW s \in Sessions, NEW k \in Jobs, Start(s, k)
      PROVE  rows'[j] = rows[j] /\ now' = now
  BY <1>2 DEF Start, IInv, TypeOK
<1>3. ASSUME NEW s \in Sessions, Reconcile(s)
      PROVE  rows'[j].deadline = rows[j].deadline /\ now' = now
  BY <1>1, <1>3 DEF Reconcile, Reconciled, Row
<1>4. ASSUME NEW c \in Coroutines,
             SettleInvalid(c) \/ SettleOk(c) \/ SettleError(c) \/ AdvanceWrite(c)
      PROVE  rows'[j].deadline = rows[j].deadline /\ now' = now
  <2>1. JobOf(c) \in Jobs /\ rows[JobOf(c)] \in Row
    BY AtWork
  <2> QED
    BY <1>1, <1>4, <2>1
       DEF SettleInvalid, SettleOk, SettleError, AdvanceWrite, Row, IInv, TypeOK
<1>5. CASE UNCHANGED <<rows, now>>
  BY <1>1, <1>5
<1>6. CASE Tick
  BY <1>1, <1>6 DEF Tick
<1>7. ASSUME NEW c \in Coroutines, Steps(c) \/ Disturbs(c)
      PROVE  rows'[j].deadline = rows[j].deadline /\ now' = now
  <2>1. CASE Dispatches(c)
    BY <2>1 DEF Dispatches, BeginDispatch, RegisterArrives, RegisterReturns, RegisterFails,
       PostRefused, PostSends, PostReturns, PostUncertain
  <2>2. CASE Waits(c)
    BY <1>4, <2>2 DEF Waits, BeginPoll, CheckDeadline, FetchStored, FetchNothing, SettleUnwritable
  <2>3. CASE Advances(c) \/ Answers(c) \/ Disturbs(c)
    BY <1>4, <2>3 DEF Advances, AdvanceRead, Answers, RefetchReturns, RefetchFails, Revalidate,
       Disturbs, ClientRaises, JournalRaises
  <2> QED
    BY <1>7, <2>1, <2>2, <2>3 DEF Steps
<1>8. ASSUME NEW s \in Sessions, Open(s) \/ Crash(s) \/ Shutdown(s) PROVE UNCHANGED <<rows, now>>
  BY <1>8 DEF Open, Crash, Shutdown
<1>9. ASSUME NEW s \in Sessions, NEW k \in Jobs, ReadResult(s, k) PROVE UNCHANGED <<rows, now>>
  BY <1>9 DEF ReadResult
<1>10. ASSUME NEW k \in Jobs, OrphanPosts(k) \/ WebhookAccepts(k) PROVE UNCHANGED <<rows, now>>
  BY <1>10 DEF OrphanPosts, WebhookAccepts
<1>11. ASSUME NEW k \in Jobs, NEW b \in Bodies, WorkerSubmits(k, b) \/ InboxChanges(k, b)
       PROVE  UNCHANGED <<rows, now>>
  BY <1>11 DEF WorkerSubmits, InboxChanges
<1>12. InboxRestarts \/ UNCHANGED vars => UNCHANGED <<rows, now>>
  BY DEF InboxRestarts, vars
<1>13. now >= now
  BY <1>1
<1> QED
  BY <1>1, <1>2, <1>3, <1>5, <1>6, <1>7, <1>8, <1>9, <1>10, <1>11, <1>12, <1>13 DEF Next

\* A coroutine that somebody else's step leaves alone is no further off.
LEMMA StillNear ==
  ASSUME IInv, [Next]_vars, NEW c \in Coroutines, co[c].pc # "idle", co'[c] = co[c]
  PROVE  Distance(c)' <= Distance(c)
<1> DEFINE j == JobOf(c)
<1>1. j \in Jobs /\ rows'[j].deadline = rows[j].deadline /\ now' \in Nat /\ now' >= now
  BY AtWork, DeadlinesKept
<1>2. /\ co[c].pc \in Awaiting \union Running /\ co[c].handlers \in 0 .. 2
      /\ rows[j].deadline \in Nat /\ now \in Nat
  BY HeadOfJob
<1>3. Distance(c)' = 4 * co[c].handlers + Ahead(co[c], HeadAhead(j)')
  BY DEF Distance, JobOf
<1>4. HeadAhead(j)' \in {5, HeadAhead(j)} /\ HeadAhead(j) \in {5, 7}
  BY <1>1, <1>2 DEF HeadAhead
<1>5. /\ Ahead(co[c], HeadAhead(j)') <= Ahead(co[c], HeadAhead(j))
      /\ Ahead(co[c], HeadAhead(j)') \in 0 .. 21 /\ Ahead(co[c], HeadAhead(j)) \in 0 .. 21
  BY <1>2, <1>4, AheadBounds
<1> QED
  BY <1>2, <1>3, <1>5 DEF Distance

\* A coroutine's own step, or the end of its process.
LEMMA OwnNearer ==
  ASSUME IInv, [Next]_vars, NEW c \in Coroutines, co[c].pc # "idle",
         Steps(c) \/ Disturbs(c) \/ co'[c] = Idle
  PROVE  \/ Distance(c)' < Distance(c)
         \/ /\ co[c].pc = "fetch" /\ co'[c].pc = "check"
            /\ now < rows[JobOf(c)].deadline
<1> DEFINE j == JobOf(c)
<1>1. /\ HeadAhead(j) \in {5, 7} /\ Distance(c) = Weight(co[c], HeadAhead(j))
      /\ co[c].pc \in Awaiting \union Running /\ co[c].handlers \in 0 .. 2
  BY HeadOfJob
<1>2. CASE co'[c] = Idle
  <2>1. Distance(c)' = Weight(Idle, HeadAhead(j)')
    BY <1>2 DEF Distance, Weight, JobOf
  <2>2. Distance(c)' = 0
    BY <2>1, IdleWeight
  <2>3. Ahead(co[c], HeadAhead(j)) \in 0 .. 21 /\ Ahead(co[c], HeadAhead(j)) > 0
    BY <1>1, AheadBounds
  <2> QED
    BY <1>1, <2>2, <2>3 DEF Weight
<1>3. CASE Steps(c) \/ Disturbs(c)
  <2>1. now' = now
    BY <1>3 DEF Steps, Disturbs, Dispatches, Waits, Advances, Answers, BeginDispatch,
       RegisterArrives, RegisterReturns, RegisterFails, PostRefused, PostSends, PostReturns,
       PostUncertain, BeginPoll, CheckDeadline, FetchStored, FetchNothing, SettleInvalid,
       SettleOk, SettleError, SettleUnwritable, AdvanceRead, AdvanceWrite, RefetchReturns,
       RefetchFails, Revalidate, ClientRaises, JournalRaises
  <2>2. HeadAhead(j)' = HeadAhead(j)
    BY <2>1, AtWork, DeadlinesKept DEF HeadAhead
  <2>3. Distance(c)' = Weight(co'[c], HeadAhead(j))
    BY <2>2 DEF Distance, Weight, JobOf
  <2>4. CASE Disturbs(c)
    <3>1. co'[c] = Raised(co[c])
      BY <2>4, GoneTo DEF Disturbs, ClientRaises, JournalRaises
    <3> QED
      BY <1>1, <2>3, <3>1, RaisedNearer
  <2> QED
    BY <1>1, <1>3, <2>3, <2>4, DispatchNearer, WaitNearer, AdvanceNearer, AnswerNearer DEF Steps
<1> QED
  BY <1>2, <1>3

\* Who moves a coroutine at work: itself, or the end of its process.
LEMMA OnlyOwnMoves ==
  ASSUME IInv, LoopInv, [Next]_vars, NEW c \in Coroutines, co[c].pc # "idle"
  PROVE  co'[c] \in {co[c], Idle} \/ Steps(c) \/ Disturbs(c)
<1>1. ASSUME NEW s \in Sessions, Open(s) \/ Reconcile(s) \/ Crash(s) \/ Shutdown(s)
      PROVE  co'[c] \in {co[c], Idle}
  <2>1. CASE Reconcile(s)
    <3>1. SessionOf(c) # s
      BY <2>1 DEF Reconcile, LoopInv
    <3>2. \A j : Task(s, j) # c
      BY <3>1 DEF Task, SessionOf
    <3> QED
      BY <2>1, <3>2 DEF Reconcile
  <2> QED
    BY <1>1, <2>1 DEF Open, Crash, Shutdown
<1>2. ASSUME NEW s \in Sessions, NEW j \in Jobs, Start(s, j) \/ ReadResult(s, j)
      PROVE  co'[c] = co[c]
  <2>1. CASE Start(s, j)
    <3>1. rows[j].state = "absent"
      BY <2>1 DEF Start
    <3>2. Task(s, j) # c
      BY <3>1, AtWork, Coroutines3
    <3> QED
      BY <2>1, <3>2 DEF Start, Goes, IInv, TypeOK
  <2>2. CASE ReadResult(s, j)
    BY <2>2, IdleFrame DEF ReadResult, Goes, IInv, TypeOK
  <2> QED
    BY <1>2, <2>1, <2>2
<1>3. ASSUME NEW d \in Coroutines, Steps(d) \/ Disturbs(d), d # c
      PROVE  co'[c] = co[c]
  <2>1. PICK me : Goes(d, me)
    BY <1>3, StepMoves
  <2> QED
    BY <1>3, <2>1 DEF Goes, IInv, TypeOK
<1> QED
  BY <1>1, <1>2, <1>3
     DEF Next, vars, OrphanPosts, WebhookAccepts, WorkerSubmits, InboxChanges, InboxRestarts, Tick

(* Whatever fails, and for any number of sessions and jobs, a coroutine    *)
(* has at most so many steps before it as Distance says, not counting      *)
(* those round the polling loop before the deadline (coordinator.py, every *)
(* clause of _execute_dispatch, _execute_poll, _settle and result).        *)
THEOREM CoroutinesComeToAnEnd == Spec => CoroutinesEnd
<1> DEFINE End ==
      \A c \in Coroutines : co[c].pc # "idle" =>
        IF co'[c] = co[c] THEN Distance(c)' <= Distance(c)
        ELSE \/ Distance(c)' < Distance(c)
             \/ /\ co[c].pc = "fetch" /\ co'[c].pc = "check"
                /\ now < rows[JobOf(c)].deadline
<1>1. IInv /\ LoopInv /\ [Next]_vars => [End]_vars
  BY StillNear, OwnNearer, OnlyOwnMoves
<1> QED
  BY <1>1, Invariance, LoopInvariance, PTL DEF Spec, CoroutinesEnd
=============================================================================
