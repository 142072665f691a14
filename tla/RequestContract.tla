--------------------------- MODULE RequestContract ---------------------------
(***************************************************************************)
(* What the coordinator promises of each request (coordinator.py's header  *)
(* and docs/mcp-coordinator.md): one POST at most, one answer at most, and *)
(* an outcome that never claims more than is known.  How the journal, the  *)
(* sessions and the inbox bring this about is left to Coordinator.         *)
(***************************************************************************)
EXTENDS Callback, Naturals, TLAPS

CONSTANT Jobs

VARIABLES
  outcome,  \* what the requestor is told of a job
  posted,   \* how often each job's packet was sent
  refused,  \* jobs for which the worker reported an error
  pinned,   \* the one body that may answer a job
  answered  \* what was returned as a job's answer

vars == <<outcome, posted, refused, pinned, answered>>

Outcomes == {"absent", "open", "ready", "failed", "uncertain", "conflict"}

TypeOK ==
  /\ outcome \in [Jobs -> Outcomes]
  /\ posted \in [Jobs -> Nat]
  /\ refused \subseteq Jobs
  /\ pinned \in [Jobs -> OptionalBody]
  /\ answered \in [Jobs -> SUBSET Bodies]

Init ==
  /\ outcome = [j \in Jobs |-> "absent"]
  /\ posted = [j \in Jobs |-> 0]
  /\ refused = {}
  /\ pinned = [j \in Jobs |-> NoBody]
  /\ answered = [j \in Jobs |-> {}]

-----------------------------------------------------------------------------
Moves(j, from, to) ==
  /\ outcome[j] \in from
  /\ outcome' = [outcome EXCEPT ![j] = to]

Request(j) ==
  /\ Moves(j, {"absent"}, "open")
  /\ UNCHANGED <<posted, refused, pinned, answered>>

\* A job given up on may still be posted: its outcome is uncertain.
Post(j) ==
  /\ outcome[j] \in {"open", "uncertain"}
  /\ posted[j] = 0
  /\ posted' = [posted EXCEPT ![j] = 1]
  /\ UNCHANGED <<outcome, refused, pinned, answered>>

Pin(j, b) ==
  /\ outcome[j] = "open"
  /\ posted[j] > 0
  /\ pinned[j] = NoBody
  /\ pinned' = [pinned EXCEPT ![j] = b]
  /\ UNCHANGED <<outcome, posted, refused, answered>>

Complete(j) ==
  /\ pinned[j] # NoBody
  /\ Moves(j, {"open"}, "ready")
  /\ UNCHANGED <<posted, refused, pinned, answered>>

Refuse(j) ==
  /\ outcome[j] = "open"
  /\ posted[j] > 0
  /\ refused' = refused \union {j}
  /\ UNCHANGED <<outcome, posted, pinned, answered>>

\* Only a request never sent, or refused by the worker, is called failed.
Fail(j) ==
  /\ posted[j] = 0 \/ j \in refused
  /\ Moves(j, {"open"}, "failed")
  /\ UNCHANGED <<posted, refused, pinned, answered>>

\* A restart gives up on every interrupted job at once.
GiveUp(js) ==
  /\ js # {}
  /\ \A j \in js : outcome[j] = "open"
  /\ outcome' = [j \in Jobs |-> IF j \in js THEN "uncertain" ELSE outcome[j]]
  /\ UNCHANGED <<posted, refused, pinned, answered>>

Dispute(j) ==
  /\ Moves(j, {"open", "ready", "uncertain"}, "conflict")
  /\ UNCHANGED <<posted, refused, pinned, answered>>

\* A reader that began while the job was ready may finish after a dispute.
Answer(j) ==
  /\ outcome[j] \in {"ready", "conflict"}
  /\ pinned[j] # NoBody
  /\ answered' = [answered EXCEPT ![j] = @ \union {pinned[j]}]
  /\ UNCHANGED <<outcome, posted, refused, pinned>>

Next ==
  \/ \E j \in Jobs :
       Request(j) \/ Post(j) \/ Complete(j) \/ Refuse(j) \/ Fail(j) \/ Dispute(j)
         \/ Answer(j)
  \/ \E j \in Jobs, b \in Bodies : Pin(j, b)
  \/ \E js \in SUBSET Jobs : GiveUp(js)

Spec == Init /\ [][Next]_vars

-----------------------------------------------------------------------------
(* Whatever was answered for a job, however often and by whichever         *)
(* session, is one and the same body.                                      *)
OneAnswer == \A j \in Jobs : \E b \in OptionalBody : answered[j] \subseteq {b}

(* A failed job has no effect to look for unless its worker said so: the   *)
(* requestor may ask again.                                                *)
NothingSentUnlessRefused ==
  \A j \in Jobs : outcome[j] = "failed" => posted[j] = 0 \/ j \in refused

-----------------------------------------------------------------------------
(* What follows from the contract, for any jobs and bodies: whatever       *)
(* implements it inherits it.                                              *)
\* Answers are the pinned body; a failed job's evidence is complete.
IInv ==
  /\ TypeOK
  /\ \A j \in Jobs : answered[j] \subseteq {pinned[j]}
  /\ NothingSentUnlessRefused

LEMMA InitIInv == Init => IInv
  BY DEF Init, IInv, TypeOK, NothingSentUnlessRefused, OptionalBody, Outcomes

(* A move of one job's outcome that keeps everything else.                 *)
LEMMA MovesIInv ==
  ASSUME IInv, NEW j \in Jobs, NEW from, NEW to \in Outcomes, Moves(j, from, to),
         UNCHANGED <<posted, refused, pinned, answered>>,
         to = "failed" => posted[j] = 0 \/ j \in refused
  PROVE  IInv'
<1>1. \A k \in Jobs : outcome'[k] = IF k = j THEN to ELSE outcome[k]
  BY DEF Moves, IInv, TypeOK
<1>2. TypeOK'
  BY DEF Moves, IInv, TypeOK
<1>3. NothingSentUnlessRefused'
  BY <1>1 DEF IInv, NothingSentUnlessRefused
<1> QED
  BY <1>2, <1>3 DEF IInv

LEMMA NextIInv == IInv /\ [Next]_vars => IInv'
<1> SUFFICES ASSUME IInv, [Next]_vars PROVE IInv'
  OBVIOUS
<1>1. ASSUME NEW j \in Jobs, Request(j) PROVE IInv'
  BY <1>1, MovesIInv DEF Request, Outcomes
<1>2. ASSUME NEW j \in Jobs, Post(j) PROVE IInv'
  <2>1. \A k \in Jobs : posted'[k] = IF k = j THEN 1 ELSE posted[k]
    BY <1>2 DEF Post, IInv, TypeOK
  <2>2. NothingSentUnlessRefused'
    BY <1>2, <2>1 DEF Post, IInv, NothingSentUnlessRefused
  <2> QED
    BY <1>2, <2>2 DEF Post, IInv, TypeOK
<1>3. ASSUME NEW j \in Jobs, NEW b \in Bodies, Pin(j, b) PROVE IInv'
  <2>1. \A k \in Jobs : pinned'[k] = IF k = j THEN b ELSE pinned[k]
    BY <1>3 DEF Pin, IInv, TypeOK
  <2>2. answered[j] = {}
    BY <1>3, CallbackAssumption DEF Pin, IInv, TypeOK
  <2>3. \A k \in Jobs : answered'[k] \subseteq {pinned'[k]}
    BY <1>3, <2>1, <2>2 DEF Pin, IInv
  <2>4. TypeOK'
    BY <1>3 DEF Pin, IInv, TypeOK, OptionalBody
  <2> QED
    BY <1>3, <2>3, <2>4 DEF Pin, IInv, NothingSentUnlessRefused
<1>4. ASSUME NEW j \in Jobs, Complete(j) PROVE IInv'
  BY <1>4, MovesIInv DEF Complete, Outcomes
<1>5. ASSUME NEW j \in Jobs, Refuse(j) PROVE IInv'
  BY <1>5 DEF Refuse, IInv, TypeOK, NothingSentUnlessRefused
<1>6. ASSUME NEW j \in Jobs, Fail(j) PROVE IInv'
  BY <1>6, MovesIInv DEF Fail, Outcomes
<1>7. ASSUME NEW js \in SUBSET Jobs, GiveUp(js) PROVE IInv'
  BY <1>7 DEF GiveUp, IInv, TypeOK, Outcomes, NothingSentUnlessRefused
<1>8. ASSUME NEW j \in Jobs, Dispute(j) PROVE IInv'
  BY <1>8, MovesIInv DEF Dispute, Outcomes
<1>9. ASSUME NEW j \in Jobs, Answer(j) PROVE IInv'
  <2>1. \A k \in Jobs :
          answered'[k] = IF k = j THEN answered[k] \union {pinned[k]} ELSE answered[k]
    BY <1>9 DEF Answer, IInv, TypeOK
  <2>2. pinned[j] \in Bodies
    BY <1>9 DEF Answer, IInv, TypeOK, OptionalBody
  <2>3. TypeOK'
    BY <1>9, <2>2 DEF Answer, IInv, TypeOK
  <2> QED
    BY <1>9, <2>1, <2>3 DEF Answer, IInv, NothingSentUnlessRefused
<1>10. CASE UNCHANGED vars
  BY <1>10 DEF vars, IInv, TypeOK, NothingSentUnlessRefused
<1> QED
  BY <1>1, <1>2, <1>3, <1>4, <1>5, <1>6, <1>7, <1>8, <1>9, <1>10 DEF Next

(* The invariant the two promises follow from.                             *)
THEOREM Invariance == Spec => []IInv
  BY InitIInv, NextIInv, PTL DEF Spec

(* A requestor never sees two answers to one request (coordinator.py,      *)
(* _ready_result, against the digest record_result pinned).                *)
THEOREM AtMostOneAnswer == Spec => []OneAnswer
<1>1. IInv => OneAnswer
  BY DEF IInv, TypeOK, OneAnswer
<1> QED
  BY <1>1, Invariance, PTL

(* A request reported failed was never sent, or its worker refused it      *)
(* (coordinator.py, _execute_dispatch and _settle).                        *)
THEOREM FailureIsCertain == Spec => []NothingSentUnlessRefused
<1>1. IInv => NothingSentUnlessRefused
  BY DEF IInv
<1> QED
  BY <1>1, Invariance, PTL
=============================================================================
