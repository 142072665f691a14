------------------------------ MODULE Journal ------------------------------
(***************************************************************************)
(* The rows of the private request journal (jobs.py) and the conditions    *)
(* and effects of the SQL statements JobStore runs on one row.  Constant   *)
(* level: JobStore and Coordinator put these operators on state variables. *)
(*                                                                         *)
(* A row keeps what the program's decisions depend on: the state, the      *)
(* pinned callback digest, the class of the recorded error and the         *)
(* deadline.  Summary, answer and sources are written together with the    *)
(* digest and identified by it.                                            *)
(***************************************************************************)
EXTENDS Callback, Naturals

CONSTANT Jobs  \* job identifiers

JobStates == {"queued", "dispatching", "dispatched", "ready",
              "uncertain", "conflict", "failed"}

\* "absent": the journal has no row for this identifier.
RowStates == JobStates \union {"absent"}

NextStates ==
  [absent      |-> {},
   queued      |-> {"dispatching", "failed", "uncertain", "conflict"},
   dispatching |-> {"dispatched", "failed", "uncertain", "conflict"},
   dispatched  |-> {"ready", "failed", "uncertain", "conflict"},
   ready       |-> {"conflict"},
   uncertain   |-> {"conflict"},
   conflict    |-> {},
   failed      |-> {}]

\* "worker": the code and message of a validated error callback.
Errors == {"none", "invalid_result", "worker"}

Row == [state    : RowStates,
        digest   : OptionalBody,
        error    : Errors,
        deadline : Nat]

NoRow == [state |-> "absent", digest |-> NoBody, error |-> "none", deadline |-> 0]

(***************************************************************************)
(* The statements.  Each Can... is the statement's WHERE clause or the     *)
(* check made before it; a statement whose clause matches no row raises    *)
(* JobStateError and changes nothing.                                      *)
(***************************************************************************)
(* A plausible slip: a request starts in a state no statement expects.     *)
NewRowUnknown(deadline) == [NoRow EXCEPT !.state = "new", !.deadline = deadline]

NewRow(deadline) ==
  [state |-> "queued", digest |-> NoBody, error |-> "none", deadline |-> deadline]

(* A plausible slip: advance() without its digest check.                   *)
CanAdvanceUnpinned(row, target) == target \in NextStates[row.state]

CanAdvance(row, target) ==
  /\ target \in NextStates[row.state]
  /\ target = "ready" => row.digest # NoBody

(* A plausible slip: the UPDATE without AND body_sha256 IS NULL.           *)
CanRecordResultAgain(row) == row.state = "dispatched"

CanRecordResult(row) == row.state = "dispatched" /\ row.digest = NoBody

CanRecordError(row) == row.state = "dispatched" /\ row.error = "none"

PreDispatch == {"queued", "dispatching"}

(* A plausible slip: dispatching is not in the UPDATE's list of states.    *)
ReconciledQueued(row) ==
  IF row.state = "queued" THEN [row EXCEPT !.state = "uncertain"] ELSE row

Reconciled(row) ==
  IF row.state \in PreDispatch THEN [row EXCEPT !.state = "uncertain"] ELSE row

Resumable(rows) == {j \in Jobs : rows[j].state = "dispatched"}
=============================================================================
