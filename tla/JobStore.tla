------------------------------ MODULE JobStore ------------------------------
(***************************************************************************)
(* JobStore (jobs.py) used by arbitrary callers over several connections   *)
(* to one SQLite file.  Every statement is one transaction, but advance()  *)
(* and reconcile_restart() read in one and write in a later one, so        *)
(* another connection can change the row in between.                       *)
(***************************************************************************)
EXTENDS Journal

CONSTANTS
  Connections,  \* open JobStore objects, one per server process
  Deadlines     \* the deadlines a caller may ask for, all in the future

ASSUME DeadlinesAssumption == Deadlines \subseteq Nat

VARIABLES
  rows,  \* the jobs table
  conn   \* what each connection has read and not yet used

vars == <<rows, conn>>

Idle == [pc |-> "idle"]

Advancing ==
  [pc : {"advance"}, job : Jobs, target : JobStates, seen : RowStates]

Reconciling == [pc : {"reconcile"}, resumable : SUBSET Jobs]

TypeOK ==
  /\ rows \in [Jobs -> Row]
  /\ conn \in [Connections -> {Idle} \union Advancing \union Reconciling]

Init ==
  /\ rows = [j \in Jobs |-> NoRow]
  /\ conn = [c \in Connections |-> Idle]

-----------------------------------------------------------------------------
CreateRequest(c, j, d) ==
  /\ conn[c] = Idle
  /\ rows[j].state = "absent"
  /\ rows' = [rows EXCEPT ![j] = NewRow(d)]
  /\ UNCHANGED conn

\* advance(): the SELECT and the checks on the record it returned ...
AdvanceRead(c, j, target) ==
  /\ conn[c] = Idle
  /\ CanAdvance(rows[j], target)
  /\ conn' = [conn EXCEPT ![c] = [pc |-> "advance", job |-> j, target |-> target,
                                  seen |-> rows[j].state]]
  /\ UNCHANGED rows

(* A plausible slip: the UPDATE without AND state=?.                       *)
AfterUpdateBlind(row, call) == [row EXCEPT !.state = call.target]

\* ... the state an UPDATE ... WHERE job_id=? AND state=? leaves behind ...
AfterUpdate(row, call) ==
  IF row.state = call.seen THEN [row EXCEPT !.state = call.target] ELSE row

\* ... and the UPDATE; no matching row is "job state changed concurrently".
AdvanceWrite(c) ==
  /\ conn[c].pc = "advance"
  /\ rows' = [rows EXCEPT ![conn[c].job] = AfterUpdate(@, conn[c])]
  /\ conn' = [conn EXCEPT ![c] = Idle]

RecordResult(c, j, b) ==
  /\ conn[c] = Idle
  /\ CanRecordResult(rows[j])
  /\ rows' = [rows EXCEPT ![j].digest = b]
  /\ UNCHANGED conn

RecordError(c, j, e) ==
  /\ conn[c] = Idle
  /\ CanRecordError(rows[j])
  /\ rows' = [rows EXCEPT ![j].error = e]
  /\ UNCHANGED conn

\* reconcile_restart(): the SELECT runs before the transaction the UPDATE opens.
ReconcileRead(c) ==
  /\ conn[c] = Idle
  /\ conn' = [conn EXCEPT ![c] = [pc |-> "reconcile", resumable |-> Resumable(rows)]]
  /\ UNCHANGED rows

ReconcileWrite(c) ==
  /\ conn[c].pc = "reconcile"
  /\ rows' = [j \in Jobs |-> Reconciled(rows[j])]
  /\ conn' = [conn EXCEPT ![c] = Idle]

\* The process dies, or close() is called, between a read and its write.
Close(c) ==
  /\ conn[c] # Idle
  /\ conn' = [conn EXCEPT ![c] = Idle]
  /\ UNCHANGED rows

Next ==
  \E c \in Connections :
    \/ \E j \in Jobs, d \in Deadlines : CreateRequest(c, j, d)
    \/ \E j \in Jobs, t \in JobStates : AdvanceRead(c, j, t)
    \/ AdvanceWrite(c)
    \/ \E j \in Jobs, b \in Bodies : RecordResult(c, j, b)
    \/ \E j \in Jobs, e \in Errors \ {"none"} : RecordError(c, j, e)
    \/ ReconcileRead(c)
    \/ ReconcileWrite(c)
    \/ Close(c)

Spec == Init /\ [][Next]_vars

-----------------------------------------------------------------------------
(* A row reads as ready only with the digest result() compares against;    *)
(* get() treats any other ready row as a corrupt journal.                  *)
ReadyHasDigest ==
  \A j \in Jobs : rows[j].state = "ready" => rows[j].digest # NoBody

(* Whatever two connections do between each other's SELECT and UPDATE, a   *)
(* state changes only along NEXT_STATES, and only creation adds a row.     *)
FollowsStateGraph ==
  [][\A j \in Jobs :
        rows'[j].state # rows[j].state =>
          \/ rows'[j].state \in NextStates[rows[j].state]
          \/ rows[j].state = "absent" /\ rows'[j].state = "queued"]_rows

(* A recorded digest, error or deadline is never replaced or cleared, and  *)
(* a digest or an error is first recorded only while the row is dispatched.*)
EvidenceFrozen ==
  [][\A j \in Jobs :
        LET old == rows[j]  new == rows'[j] IN
        /\ old.digest # NoBody => new.digest = old.digest
        /\ old.error # "none" => new.error = old.error
        /\ old.state # "absent" => new.deadline = old.deadline
        /\ <<new.digest, new.error>> # <<old.digest, old.error>> =>
             old.state = "dispatched" /\ new.state = "dispatched"]_rows
=============================================================================
