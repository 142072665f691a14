--------------------------- MODULE JobStoreProofs ---------------------------
(***************************************************************************)
(* The journal keeps its promises to any callers over any number of        *)
(* connections, however their SELECTs and UPDATEs interleave.              *)
(***************************************************************************)
EXTENDS JobStore, TLAPS

(* An advance() between its SELECT and its UPDATE: the row read allows the *)
(* target, and the digest it saw is still there.                           *)
PendingIsAllowed ==
  \A c \in Connections : conn[c].pc = "advance" =>
    /\ conn[c].target \in NextStates[conn[c].seen]
    /\ conn[c].target = "ready" => rows[conn[c].job].digest # NoBody

AbsentIsNew ==
  \A j \in Jobs : rows[j].state = "absent" =>
    rows[j].digest = NoBody /\ rows[j].error = "none"

IInv == TypeOK /\ ReadyHasDigest /\ AbsentIsNew /\ PendingIsAllowed

-----------------------------------------------------------------------------
(* Where the state graph of jobs.py leads.                                 *)
LEMMA StateGraph ==
  /\ NextStates \in [RowStates -> SUBSET JobStates]
  /\ \A s \in PreDispatch : "uncertain" \in NextStates[s]
  BY DEF NextStates, RowStates, JobStates, PreDispatch

(* The rows the statements leave behind are rows.                          *)
LEMMA RowTypes ==
  ASSUME NEW row \in Row
  PROVE  /\ \A d \in Nat : NewRow(d) \in Row
         /\ \A s \in JobStates : [row EXCEPT !.state = s] \in Row
         /\ \A b \in Bodies : [row EXCEPT !.digest = b] \in Row
         /\ \A e \in Errors : [row EXCEPT !.error = e] \in Row
         /\ Reconciled(row) \in Row
  BY DEF Row, NewRow, NoRow, Reconciled, RowStates, JobStates, OptionalBody, Errors

LEMMA InitIInv == Init => IInv
<1> SUFFICES ASSUME Init PROVE IInv
  OBVIOUS
<1>1. NoRow \in Row
  BY DEF NoRow, Row, RowStates, OptionalBody, Errors
<1> QED
  BY <1>1 DEF Init, IInv, TypeOK, ReadyHasDigest, AbsentIsNew, PendingIsAllowed, NoRow, Idle

(* One step per call; the advance() pending on a row that another call     *)
(* changes keeps its digest, because no statement clears one.              *)
LEMMA NextIInv == IInv /\ [Next]_vars => IInv'
<1> SUFFICES ASSUME IInv, [Next]_vars PROVE IInv'
  OBVIOUS
<1> USE DEF IInv
<1>1. ASSUME NEW c \in Connections, NEW j \in Jobs, NEW d \in Deadlines,
             CreateRequest(c, j, d)
      PROVE  IInv'
  <2>1. rows' = [rows EXCEPT ![j] = NewRow(d)] /\ NewRow(d) \in Row /\ conn' = conn
    BY <1>1, RowTypes, DeadlinesAssumption DEF CreateRequest, TypeOK
  <2>2. TypeOK'
    BY <2>1 DEF TypeOK
  <2>3. ReadyHasDigest' /\ AbsentIsNew'
    BY <2>1 DEF TypeOK, ReadyHasDigest, AbsentIsNew, NewRow
  <2>4. PendingIsAllowed'
    BY <1>1, <2>1 DEF CreateRequest, TypeOK, PendingIsAllowed, AbsentIsNew, Idle, Advancing
  <2> QED
    BY <2>2, <2>3, <2>4
<1>2. ASSUME NEW c \in Connections, NEW j \in Jobs, NEW t \in JobStates,
             AdvanceRead(c, j, t)
      PROVE  IInv'
  <2>1. TypeOK' /\ ReadyHasDigest' /\ AbsentIsNew'
    BY <1>2 DEF AdvanceRead, TypeOK, ReadyHasDigest, AbsentIsNew, Advancing, Row
  <2>2. PendingIsAllowed'
    BY <1>2 DEF AdvanceRead, TypeOK, PendingIsAllowed, CanAdvance
  <2> QED
    BY <2>1, <2>2
<1>3. ASSUME NEW c \in Connections, AdvanceWrite(c)
      PROVE  IInv'
  <2> DEFINE j == conn[c].job  t == conn[c].target
  <2>1. j \in Jobs /\ t \in JobStates
    BY <1>3 DEF AdvanceWrite, TypeOK, Idle, Advancing, Reconciling
  <2>2. /\ conn' = [conn EXCEPT ![c] = Idle]
        /\ \/ rows' = rows
           \/ rows' = [rows EXCEPT ![j] = [rows[j] EXCEPT !.state = t]]
    BY <1>3 DEF AdvanceWrite, AfterUpdate, TypeOK
  <2>3. [rows[j] EXCEPT !.state = t] \in Row
    BY <2>1, RowTypes DEF TypeOK
  <2>4. TypeOK'
    BY <2>1, <2>2, <2>3 DEF TypeOK
  <2>5. ReadyHasDigest' /\ AbsentIsNew'
    BY <1>3, <2>1, <2>2
       DEF AdvanceWrite, TypeOK, Row, ReadyHasDigest, AbsentIsNew, PendingIsAllowed, JobStates
  <2>6. \A k \in Jobs : rows'[k].digest = rows[k].digest
    BY <2>1, <2>2 DEF TypeOK, Row
  <2>7. PendingIsAllowed'
    BY <2>2, <2>6 DEF TypeOK, PendingIsAllowed, Idle, Advancing, Reconciling
  <2> QED
    BY <2>4, <2>5, <2>7
<1>4. ASSUME NEW c \in Connections, NEW j \in Jobs, NEW b \in Bodies,
             RecordResult(c, j, b)
      PROVE  IInv'
  <2>1. rows' = [rows EXCEPT ![j] = [rows[j] EXCEPT !.digest = b]] /\ conn' = conn
    BY <1>4 DEF RecordResult
  <2>2. [rows[j] EXCEPT !.digest = b] \in Row
    BY RowTypes DEF TypeOK
  <2>3. TypeOK'
    BY <2>1, <2>2 DEF TypeOK
  <2>4. ReadyHasDigest' /\ AbsentIsNew' /\ PendingIsAllowed'
    BY <1>4, <2>1, CallbackAssumption
       DEF RecordResult, CanRecordResult, TypeOK, Row, ReadyHasDigest, AbsentIsNew, PendingIsAllowed
  <2> QED
    BY <2>3, <2>4
<1>5. ASSUME NEW c \in Connections, NEW j \in Jobs, NEW e \in Errors \ {"none"},
             RecordError(c, j, e)
      PROVE  IInv'
  <2>1. rows' = [rows EXCEPT ![j] = [rows[j] EXCEPT !.error = e]] /\ conn' = conn
    BY <1>5 DEF RecordError
  <2>2. [rows[j] EXCEPT !.error = e] \in Row
    BY RowTypes DEF TypeOK
  <2>3. TypeOK'
    BY <2>1, <2>2 DEF TypeOK
  <2>4. ReadyHasDigest' /\ AbsentIsNew' /\ PendingIsAllowed'
    BY <1>5, <2>1, CallbackAssumption
       DEF RecordError, CanRecordError, TypeOK, Row, ReadyHasDigest, AbsentIsNew, PendingIsAllowed
  <2> QED
    BY <2>3, <2>4
<1>6. ASSUME NEW c \in Connections, ReconcileRead(c)
      PROVE  IInv'
  BY <1>6 DEF ReconcileRead, TypeOK, ReadyHasDigest, AbsentIsNew, PendingIsAllowed, Reconciling, Resumable
<1>7. ASSUME NEW c \in Connections, ReconcileWrite(c)
      PROVE  IInv'
  <2>1. /\ rows' = [j \in Jobs |-> Reconciled(rows[j])]
        /\ conn' = [conn EXCEPT ![c] = Idle]
    BY <1>7 DEF ReconcileWrite
  <2>2. TypeOK'
    BY <2>1, RowTypes DEF TypeOK
  <2>3. \A j \in Jobs :
          /\ rows'[j].digest = rows[j].digest
          /\ rows'[j].error = rows[j].error
          /\ rows'[j].state = rows[j].state \/ rows'[j].state = "uncertain"
    BY <2>1 DEF TypeOK, Row, Reconciled
  <2>4. ReadyHasDigest' /\ AbsentIsNew'
    BY <2>3 DEF ReadyHasDigest, AbsentIsNew
  <2>5. PendingIsAllowed'
    BY <2>1, <2>3 DEF TypeOK, PendingIsAllowed, Idle, Advancing, Reconciling
  <2> QED
    BY <2>2, <2>4, <2>5
<1>8. ASSUME NEW c \in Connections, Close(c)
      PROVE  IInv'
  BY <1>8 DEF Close, TypeOK, ReadyHasDigest, AbsentIsNew, PendingIsAllowed, Idle
<1>9. CASE UNCHANGED vars
  BY <1>9 DEF vars, TypeOK, ReadyHasDigest, AbsentIsNew, PendingIsAllowed
<1> QED
  BY <1>1, <1>2, <1>3, <1>4, <1>5, <1>6, <1>7, <1>8, <1>9 DEF Next
(* Type correctness, and: no row ever reads as ready without the digest    *)
(* get() and result() rely on, for any connections, jobs and bodies.       *)
THEOREM Invariance == Spec => []IInv
  BY InitIInv, NextIInv, PTL DEF Spec

THEOREM TypeCorrect == Spec => []TypeOK
  BY Invariance, PTL DEF IInv

THEOREM ReadyIsPinned == Spec => []ReadyHasDigest
  BY Invariance, PTL DEF IInv

-----------------------------------------------------------------------------
(* The only step that moves a state otherwise than by creation or by       *)
(* reconciliation is an UPDATE whose pending check named an edge.          *)
THEOREM StateGraphKept == Spec => FollowsStateGraph
<1>1. ASSUME IInv, [Next]_vars, NEW k \in Jobs, rows'[k].state # rows[k].state
      PROVE  \/ rows'[k].state \in NextStates[rows[k].state]
             \/ rows[k].state = "absent" /\ rows'[k].state = "queued"
  <2> USE <1>1 DEF IInv, TypeOK
  <2>1. ASSUME NEW c \in Connections, NEW j \in Jobs, NEW d \in Deadlines,
               CreateRequest(c, j, d)
        PROVE  rows[k].state = "absent" /\ rows'[k].state = "queued"
    BY <2>1 DEF CreateRequest, NewRow
  <2>2. ASSUME NEW c \in Connections, AdvanceWrite(c)
        PROVE  rows'[k].state \in NextStates[rows[k].state]
    <3>1. k = conn[c].job /\ rows[k].state = conn[c].seen /\ rows'[k].state = conn[c].target
      BY <2>2 DEF AdvanceWrite, AfterUpdate, Row
    <3> QED
      BY <2>2, <3>1 DEF AdvanceWrite, PendingIsAllowed
  <2>3. ASSUME NEW c \in Connections, ReconcileWrite(c)
        PROVE  rows'[k].state \in NextStates[rows[k].state]
    <3>1. rows[k].state \in PreDispatch /\ rows'[k].state = "uncertain"
      BY <2>3 DEF ReconcileWrite, Reconciled, Row
    <3> QED
      BY <3>1, StateGraph
  <2>4. ASSUME NEW c \in Connections, NEW j \in Jobs,
               \/ \E b \in Bodies : RecordResult(c, j, b)
               \/ \E e \in Errors \ {"none"} : RecordError(c, j, e)
        PROVE  FALSE
    BY <2>4 DEF RecordResult, RecordError, Row
  <2>5. ASSUME NEW c \in Connections,
               \/ \E j \in Jobs, t \in JobStates : AdvanceRead(c, j, t)
               \/ ReconcileRead(c)
               \/ Close(c)
        PROVE  FALSE
    BY <2>5 DEF AdvanceRead, ReconcileRead, Close
  <2> QED
    BY <2>1, <2>2, <2>3, <2>4, <2>5 DEF Next, vars
<1>2. IInv /\ [Next]_vars =>
        [\A j \in Jobs :
           rows'[j].state # rows[j].state =>
             \/ rows'[j].state \in NextStates[rows[j].state]
             \/ rows[j].state = "absent" /\ rows'[j].state = "queued"]_rows
  BY <1>1
<1> QED
  BY <1>2, Invariance, PTL DEF Spec, FollowsStateGraph

(* What a row says about its answer, its error and its deadline is written *)
(* once, and only while the request is dispatched.                         *)
THEOREM EvidenceKept == Spec => EvidenceFrozen
<1> DEFINE Frozen(old, new) ==
      /\ old.digest # NoBody => new.digest = old.digest
      /\ old.error # "none" => new.error = old.error
      /\ old.state # "absent" => new.deadline = old.deadline
      /\ <<new.digest, new.error>> # <<old.digest, old.error>> =>
           old.state = "dispatched" /\ new.state = "dispatched"
<1>1. ASSUME IInv, [Next]_vars, NEW k \in Jobs
      PROVE  Frozen(rows[k], rows'[k])
  <2> USE <1>1 DEF IInv, TypeOK
  <2>1. ASSUME NEW c \in Connections, NEW j \in Jobs, NEW d \in Deadlines,
               CreateRequest(c, j, d)
        PROVE  Frozen(rows[k], rows'[k])
    BY <2>1 DEF CreateRequest, NewRow, AbsentIsNew, NoRow
  <2>2. ASSUME NEW c \in Connections, AdvanceWrite(c) \/ ReconcileWrite(c)
        PROVE  Frozen(rows[k], rows'[k])
    <3>1. /\ rows'[k].digest = rows[k].digest
          /\ rows'[k].error = rows[k].error
          /\ rows'[k].deadline = rows[k].deadline
      BY <2>2 DEF AdvanceWrite, AfterUpdate, ReconcileWrite, Reconciled, Row
    <3> QED
      BY <3>1
  <2>3. ASSUME NEW c \in Connections, NEW j \in Jobs,
               \/ \E b \in Bodies : RecordResult(c, j, b)
               \/ \E e \in Errors \ {"none"} : RecordError(c, j, e)
        PROVE  Frozen(rows[k], rows'[k])
    BY <2>3 DEF RecordResult, CanRecordResult, RecordError, CanRecordError, Row
  <2>4. ASSUME NEW c \in Connections,
               \/ \E j \in Jobs, t \in JobStates : AdvanceRead(c, j, t)
               \/ ReconcileRead(c)
               \/ Close(c)
        PROVE  Frozen(rows[k], rows'[k])
    BY <2>4 DEF AdvanceRead, ReconcileRead, Close
  <2>5. CASE UNCHANGED vars
    BY <2>5 DEF vars
  <2> QED
    BY <2>1, <2>2, <2>3, <2>4, <2>5 DEF Next
<1>2. IInv /\ [Next]_vars =>
        [\A j \in Jobs :
           LET old == rows[j]  new == rows'[j] IN
           /\ old.digest # NoBody => new.digest = old.digest
           /\ old.error # "none" => new.error = old.error
           /\ old.state # "absent" => new.deadline = old.deadline
           /\ <<new.digest, new.error>> # <<old.digest, old.error>> =>
                old.state = "dispatched" /\ new.state = "dispatched"]_rows
  BY <1>1
<1> QED
  BY <1>2, Invariance, PTL DEF Spec, EvidenceFrozen
=============================================================================
