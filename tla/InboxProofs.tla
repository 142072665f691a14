----------------------------- MODULE InboxProofs -----------------------------
(***************************************************************************)
(* The inbox stores one body per slot and tells each worker the truth      *)
(* about it, for any number of handler threads, slots, tokens and bodies.  *)
(***************************************************************************)
EXTENDS Inbox, TLAPS

(* A slot nobody registered holds nothing.                                 *)
OnlyRegisteredStore ==
  \A k \in Keys : slots[k].body # NoBody => slots[k].registered

IInv ==
  /\ TypeOK
  /\ OnlyRegisteredStore
  /\ AcceptedIsStored
  /\ RejectedForAnother
  /\ StoredByHolderInTime
  /\ ReadsAgree

-----------------------------------------------------------------------------
(* An offer leaves a slot a slot, keeps its expectation, and its body is   *)
(* the one stored before, or else the one offered.                         *)
LEMMA OfferedSlot ==
  ASSUME NEW slot \in Slot, NEW b \in Bodies
  PROVE  /\ Offered(slot, b) \in Slot
         /\ Offered(slot, b).registered = slot.registered
         /\ Offered(slot, b).deadline = slot.deadline
         /\ Offered(slot, b).body = IF slot.body = NoBody THEN b ELSE slot.body
  BY DEF Offered, Slot, OptionalBody

LEMMA FreshSlots ==
  /\ NoSlot \in Slot /\ NoSlot.body = NoBody
  /\ \A d \in Nat : /\ Expected(d) \in Slot
                    /\ Expected(d).body = NoBody
                    /\ Expected(d).registered
                    /\ Expected(d).deadline = d
  BY DEF NoSlot, Expected, Slot, OptionalBody

LEMMA InitIInv == Init => IInv
  BY FreshSlots DEF Init, IInv, TypeOK, OnlyRegisteredStore, AcceptedIsStored,
       RejectedForAnother, StoredByHolderInTime, ReadsAgree, Idle, NoSlot

(* The status submit returns, case by case.                                *)
LEMMA StatusCases ==
  ASSUME TypeOK, NEW c \in Submitting
  PROVE  /\ Status(c) \in {200, 401, 409}
         /\ Status(c) = 200 =>
              /\ slots[c.key].registered /\ c.stamp <= slots[c.key].deadline
              /\ holder[c.key] = c.token
              /\ slots[c.key].body \in {NoBody, c.body}
         /\ Status(c) = 409 => slots[c.key].body \notin {NoBody, c.body}
  BY DEF Status, Authorized, InTime, TypeOK, Submitting

-----------------------------------------------------------------------------
(* Only submit writes a body or a receipt; the lock makes the two one step.*)
LEMMA SubmitIInv ==
  ASSUME IInv, NEW h \in Handlers, Submit(h)
  PROVE  IInv'
<1> DEFINE c == calls[h]
           r == [key |-> c.key, token |-> c.token, body |-> c.body,
                 stamp |-> c.stamp, status |-> Status(c)]
<1> USE DEF IInv
<1>1. c \in Submitting
  BY DEF Submit, TypeOK, Idle, Registering, Submitting
<1>2. /\ c.key \in Keys /\ c.token \in Tokens /\ c.body \in Bodies /\ c.stamp \in Nat
      /\ r \in Receipt /\ r.status = Status(c)
  BY <1>1, StatusCases DEF Submitting, Receipt
<1>3. /\ receipts' = receipts \union {r}
      /\ calls' = [calls EXCEPT ![h] = Idle]
      /\ holder' = holder /\ now' = now /\ reads' = reads
  BY DEF Submit
<1>4. CASE Status(c) = 200
  <2>1. slots' = [slots EXCEPT ![c.key] = Offered(slots[c.key], c.body)]
    BY <1>4 DEF Submit
  <2>2. /\ Offered(slots[c.key], c.body) \in Slot
        /\ slots[c.key].registered /\ slots'[c.key].registered
        /\ slots'[c.key].body = c.body
        /\ slots'[c.key].deadline = slots[c.key].deadline
        /\ slots[c.key].body \in {NoBody, c.body}
    BY <1>1, <1>2, <1>4, <2>1, StatusCases, OfferedSlot DEF TypeOK
  <2>3. \A k \in Keys \ {c.key} : slots'[k] = slots[k]
    BY <2>1 DEF TypeOK
  <2>4. TypeOK' /\ OnlyRegisteredStore'
    BY <1>2, <1>3, <2>1, <2>2, <2>3 DEF TypeOK, OnlyRegisteredStore
  <2>5. AcceptedIsStored' /\ ReadsAgree'
    BY <1>2, <1>3, <2>2, <2>3, CallbackAssumption
       DEF TypeOK, Receipt, AcceptedIsStored, ReadsAgree
  <2>6. RejectedForAnother'
    BY <1>2, <1>3, <1>4, <2>2, <2>3, CallbackAssumption
       DEF TypeOK, Receipt, RejectedForAnother
  <2>7. StoredByHolderInTime'
    <3>1. ASSUME NEW k \in Keys \ {c.key}, slots'[k].body # NoBody
          PROVE  \E s \in receipts' :
                   /\ s.key = k /\ s.body = slots'[k].body /\ s.status = 200
                   /\ s.token = holder'[k] /\ s.stamp <= slots'[k].deadline
      BY <1>3, <2>3, <3>1 DEF StoredByHolderInTime
    <3>2. /\ r \in receipts' /\ r.key = c.key /\ r.body = slots'[c.key].body
          /\ r.status = 200 /\ r.token = holder'[c.key]
          /\ r.stamp <= slots'[c.key].deadline
      BY <1>1, <1>2, <1>3, <1>4, <2>2, StatusCases
    <3> QED
      BY <3>1, <3>2 DEF StoredByHolderInTime
  <2> QED
    BY <2>4, <2>5, <2>6, <2>7
<1>5. CASE Status(c) # 200
  <2>1. slots' = slots
    BY <1>5 DEF Submit
  <2>2. TypeOK' /\ OnlyRegisteredStore' /\ ReadsAgree'
    BY <1>2, <1>3, <2>1 DEF TypeOK, OnlyRegisteredStore, ReadsAgree
  <2>3. AcceptedIsStored' /\ StoredByHolderInTime'
    BY <1>2, <1>3, <1>5, <2>1 DEF AcceptedIsStored, StoredByHolderInTime
  <2>4. RejectedForAnother'
    BY <1>1, <1>2, <1>3, <2>1, StatusCases DEF RejectedForAnother
  <2> QED
    BY <2>2, <2>3, <2>4
<1> QED
  BY <1>4, <1>5

(* A registration under the lock meets an empty slot or changes nothing.   *)
LEMMA RegisterIInv ==
  ASSUME IInv, NEW h \in Handlers, Register(h)
  PROVE  IInv'
<1> DEFINE c == calls[h]
<1> USE DEF IInv
<1>1. /\ c.key \in Keys /\ c.token \in Tokens /\ c.deadline \in Nat
      /\ calls' = [calls EXCEPT ![h] = Idle]
      /\ now' = now /\ receipts' = receipts /\ reads' = reads
  BY DEF Register, TypeOK, Idle, Registering, Submitting
<1>2. CASE slots[c.key].registered
  BY <1>1, <1>2 DEF Register, TypeOK, OnlyRegisteredStore, AcceptedIsStored,
       RejectedForAnother, StoredByHolderInTime, ReadsAgree
<1>3. CASE ~slots[c.key].registered
  <2>1. /\ slots' = [slots EXCEPT ![c.key] = Expected(c.deadline)]
        /\ holder' = [holder EXCEPT ![c.key] = c.token]
        /\ slots[c.key].body = NoBody
    BY <1>1, <1>3 DEF Register, OnlyRegisteredStore
  <2>2. TypeOK'
    BY <1>1, <2>1, FreshSlots DEF TypeOK
  <2>3. \A k \in Keys : /\ slots'[k].body = slots[k].body
                        /\ k # c.key => slots'[k] = slots[k] /\ holder'[k] = holder[k]
    BY <1>1, <2>1, FreshSlots DEF TypeOK
  <2>4. slots'[c.key].body = NoBody /\ slots'[c.key].registered
    BY <1>1, <2>1, FreshSlots DEF TypeOK
  <2>5. OnlyRegisteredStore' /\ StoredByHolderInTime'
    BY <1>1, <2>3, <2>4 DEF OnlyRegisteredStore, StoredByHolderInTime
  <2>6. AcceptedIsStored' /\ RejectedForAnother' /\ ReadsAgree'
    BY <1>1, <2>3 DEF TypeOK, Receipt, AcceptedIsStored, RejectedForAnother, ReadsAgree
  <2> QED
    BY <2>2, <2>5, <2>6
<1> QED
  BY <1>2, <1>3

LEMMA NextIInv == IInv /\ [Next]_vars => IInv'
<1> SUFFICES ASSUME IInv, [Next]_vars PROVE IInv'
  OBVIOUS
<1>1. ASSUME NEW h \in Handlers, Submit(h)
      PROVE  IInv'
  BY <1>1, SubmitIInv
<1>2. ASSUME NEW h \in Handlers, Register(h)
      PROVE  IInv'
  BY <1>2, RegisterIInv
<1> USE DEF IInv
<1>3. ASSUME NEW h \in Handlers, NEW k \in Keys, NEW t \in Tokens,
             \/ \E d \in 1 .. MaxNow : RegisterArrives(h, k, t, d)
             \/ \E b \in Bodies : SubmitArrives(h, k, t, b)
      PROVE  IInv'
  <2>1. calls' \in [Handlers -> {Idle} \union Registering \union Submitting]
    BY <1>3 DEF RegisterArrives, SubmitArrives, TypeOK, Registering, Submitting
  <2> QED
    BY <1>3, <2>1 DEF RegisterArrives, SubmitArrives, TypeOK, OnlyRegisteredStore,
         AcceptedIsStored, RejectedForAnother, StoredByHolderInTime, ReadsAgree
<1>4. ASSUME NEW k \in Keys, Read(k)
      PROVE  IInv'
  <2>1. /\ slots[k].body \in Bodies
        /\ reads' = reads \union {[key |-> k, body |-> slots[k].body]}
    BY <1>4 DEF Read, TypeOK, Slot, OptionalBody
  <2> QED
    BY <1>4, <2>1 DEF Read, TypeOK, OnlyRegisteredStore,
         AcceptedIsStored, RejectedForAnother, StoredByHolderInTime, ReadsAgree
<1>5. CASE Restart
  BY <1>5, FreshSlots DEF Restart, TypeOK, OnlyRegisteredStore, AcceptedIsStored,
       RejectedForAnother, StoredByHolderInTime, ReadsAgree, Idle
<1>6. CASE Tick \/ UNCHANGED vars
  BY <1>6, InboxAssumption DEF Tick, vars, TypeOK, OnlyRegisteredStore, AcceptedIsStored,
       RejectedForAnother, StoredByHolderInTime, ReadsAgree
<1> QED
  BY <1>1, <1>2, <1>3, <1>4, <1>5, <1>6 DEF Next

-----------------------------------------------------------------------------
LEMMA Invariance == Spec => []IInv
  BY InitIInv, NextIInv, PTL DEF Spec

(* Type correctness of every slot, call and receipt.                       *)
THEOREM TypeCorrect == Spec => []TypeOK
  BY Invariance, PTL DEF IInv

(* One body per slot: two different bodies are never both accepted.        *)
THEOREM OneBodyAccepted == Spec => []AcceptedIsStored
  BY Invariance, PTL DEF IInv

(* A body is refused as a conflict only for another body stored before.    *)
THEOREM ConflictIsReal == Spec => []RejectedForAnother
  BY Invariance, PTL DEF IInv

(* Only the holder of a slot's own token, in time, can fill it.            *)
THEOREM OnlyHolderStores == Spec => []StoredByHolderInTime
  BY Invariance, PTL DEF IInv

(* All requestors read one and the same body.                              *)
THEOREM OneBodyRead == Spec => []ReadsAgree
  BY Invariance, PTL DEF IInv

(* A registration never replaces another, whoever reached the lock first.  *)
THEOREM ExpectationsKept == Spec => ExpectationKept
<1>1. ASSUME TypeOK, [Next]_vars, NEW k \in Keys, slots[k].registered, slots'[k].registered
      PROVE  holder'[k] = holder[k] /\ slots'[k].deadline = slots[k].deadline
  <2> USE <1>1 DEF TypeOK
  <2>1. ASSUME NEW h \in Handlers, Register(h)
        PROVE  holder'[k] = holder[k] /\ slots'[k].deadline = slots[k].deadline
    <3>1. calls[h].key \in Keys
      BY <2>1 DEF Register, Idle, Registering, Submitting
    <3> QED
      BY <2>1, <3>1 DEF Register
  <2>2. ASSUME NEW h \in Handlers, Submit(h)
        PROVE  holder'[k] = holder[k] /\ slots'[k].deadline = slots[k].deadline
    <3>1. calls[h].key \in Keys /\ calls[h].body \in Bodies
      BY <2>2 DEF Submit, Idle, Registering, Submitting
    <3> QED
      BY <2>2, <3>1, OfferedSlot DEF Submit
  <2>3. ~Restart
    BY DEF Restart, NoSlot
  <2>4. CASE UNCHANGED <<slots, holder>>
    BY <2>4
  <2> QED
    BY <2>1, <2>2, <2>3, <2>4
       DEF Next, vars, RegisterArrives, SubmitArrives, Read, Tick
<1>2. TypeOK /\ [Next]_vars =>
        [\A k \in Keys : slots[k].registered /\ slots'[k].registered =>
           holder'[k] = holder[k] /\ slots'[k].deadline = slots[k].deadline]_<<slots, holder>>
  BY <1>1
<1> QED
  BY <1>2, TypeCorrect, PTL DEF Spec, ExpectationKept

-----------------------------------------------------------------------------
(* A worker once answered 200 holds the slot's token for good.             *)
AcceptedFromHolder ==
  \A r \in receipts : r.status = 200 => slots[r.key].registered /\ holder[r.key] = r.token

(* Only submit answers a worker, and it adds one receipt.                  *)
LEMMA SubmitAnswers ==
  ASSUME TypeOK, NEW h \in Handlers, Submit(h)
  PROVE  LET c == calls[h] IN
         /\ c \in Submitting
         /\ receipts' \ receipts \subseteq
              {[key |-> c.key, token |-> c.token, body |-> c.body, stamp |-> c.stamp,
                status |-> Status(c)]}
         /\ UNCHANGED holder
         /\ \A k \in Keys : /\ slots'[k].registered = slots[k].registered
                            /\ slots'[k].deadline = slots[k].deadline
<1>1. calls[h] \in Submitting
  BY DEF Submit, TypeOK, Idle, Registering, Submitting
<1>2. calls[h].key \in Keys /\ calls[h].body \in Bodies
  BY <1>1 DEF Submitting
<1> QED
  BY <1>1, <1>2, OfferedSlot DEF Submit, TypeOK

LEMMA HolderStep == TypeOK /\ AcceptedFromHolder /\ [Next]_vars => AcceptedFromHolder'
<1> SUFFICES ASSUME TypeOK, AcceptedFromHolder, [Next]_vars,
                    NEW r \in receipts', r.status = 200
             PROVE  slots'[r.key].registered /\ holder'[r.key] = r.token
  BY DEF AcceptedFromHolder
<1>1. CASE \E h \in Handlers : Submit(h)
  <2>1. PICK h \in Handlers : Submit(h)
    BY <1>1
  <2> DEFINE c == calls[h]
  <2>2. CASE r \in receipts
    <3>1. r.key \in Keys
      BY <2>2 DEF TypeOK, Receipt
    <3> QED
      BY <2>1, <2>2, <3>1, SubmitAnswers DEF AcceptedFromHolder
  <2>3. CASE r \notin receipts
    <3>1. c \in Submitting /\ r.key = c.key /\ r.token = c.token /\ Status(c) = 200
      BY <2>1, <2>3, SubmitAnswers
    <3>2. c.key \in Keys
      BY <3>1 DEF Submitting
    <3> QED
      BY <2>1, <3>1, <3>2, StatusCases, SubmitAnswers
  <2> QED
    BY <2>2, <2>3
<1>2. CASE \E h \in Handlers : Register(h)
  <2>1. PICK h \in Handlers : Register(h)
    BY <1>2
  <2>2. r \in receipts /\ slots[r.key].registered /\ holder[r.key] = r.token
    BY <2>1 DEF Register, AcceptedFromHolder
  <2>3. r.key \in Keys
    BY <2>2 DEF TypeOK, Receipt
  <2> QED
    BY <2>1, <2>2, <2>3 DEF Register, TypeOK
<1>3. CASE UNCHANGED <<slots, holder, receipts>>
  BY <1>3 DEF AcceptedFromHolder
<1>4. ~Restart
  BY DEF Restart
<1> QED
  BY <1>1, <1>2, <1>3, <1>4 DEF Next, vars, RegisterArrives, SubmitArrives, Read, Tick

(* For any handler threads: a replay of an accepted body that is stamped   *)
(* by the deadline of its slot is answered 200.                            *)
THEOREM ReplaysAnswered == Spec => ReplayAnswered
<1>1. Init => AcceptedFromHolder
  BY DEF Init, AcceptedFromHolder
<1>2. Spec => []AcceptedFromHolder
  BY <1>1, HolderStep, TypeCorrect, PTL DEF Spec
<1>3. ASSUME IInv, AcceptedFromHolder, [Next]_vars, NEW r \in receipts' \ receipts,
             Repeats(r), r.stamp <= slots[r.key].deadline
      PROVE  r.status = 200
  <2>1. \E h \in Handlers : Submit(h)
    BY <1>3 DEF Next, vars, RegisterArrives, SubmitArrives, Register, Read, Tick, Restart
  <2>2. PICK h \in Handlers : Submit(h)
    BY <2>1
  <2> DEFINE c == calls[h]
  <2>3. /\ r.key = c.key /\ r.token = c.token /\ r.body = c.body
        /\ r.stamp = c.stamp /\ r.status = Status(c)
    BY <1>3, <2>2, SubmitAnswers DEF IInv
  <2>4. /\ slots[c.key].registered /\ holder[c.key] = c.token
        /\ slots[c.key].body = c.body
    BY <1>3, <2>3 DEF IInv, AcceptedFromHolder, AcceptedIsStored, Repeats
  <2> QED
    BY <1>3, <2>3, <2>4 DEF Status, Authorized, InTime
<1>4. IInv /\ AcceptedFromHolder /\ [Next]_vars =>
        [\A r \in receipts' \ receipts :
           Repeats(r) /\ r.stamp <= slots[r.key].deadline => r.status = 200]_vars
  BY <1>3
<1> QED
  BY <1>2, <1>4, Invariance, PTL DEF Spec, ReplayAnswered

-----------------------------------------------------------------------------
(* A registration on its way to the lock carries a deadline of the contract.*)
DeadlinesGiven ==
  \A h \in Handlers : calls[h].call = "register" => calls[h].deadline \in 1 .. MaxNow

LEMMA DeadlinesStep == TypeOK /\ DeadlinesGiven /\ [Next]_vars => DeadlinesGiven'
<1> SUFFICES ASSUME TypeOK, DeadlinesGiven, [Next]_vars PROVE DeadlinesGiven'
  OBVIOUS
<1>1. ASSUME NEW h \in Handlers, NEW k \in Keys, NEW t \in Tokens,
             \/ \E d \in 1 .. MaxNow : RegisterArrives(h, k, t, d)
             \/ \E b \in Bodies : SubmitArrives(h, k, t, b)
      PROVE  DeadlinesGiven'
  BY <1>1 DEF RegisterArrives, SubmitArrives, TypeOK, DeadlinesGiven
<1>2. ASSUME NEW h \in Handlers, Register(h) \/ Submit(h)
      PROVE  DeadlinesGiven'
  <2>1. calls' = [calls EXCEPT ![h] = Idle]
    BY <1>2 DEF Register, Submit
  <2> QED
    BY <2>1 DEF TypeOK, DeadlinesGiven, Idle
<1>3. ASSUME NEW k \in Keys, Read(k)
      PROVE  DeadlinesGiven'
  BY <1>3 DEF Read, DeadlinesGiven
<1>4. CASE Restart
  BY <1>4 DEF Restart, DeadlinesGiven, Idle
<1>5. CASE Tick \/ UNCHANGED vars
  BY <1>5 DEF Tick, vars, DeadlinesGiven
<1> QED
  BY <1>1, <1>2, <1>3, <1>4, <1>5 DEF Next

(* A registration is the contract's Expect, or no step of it.              *)
LEMMA RegisterIsExpect ==
  ASSUME TypeOK, DeadlinesGiven, NEW h \in Handlers, Register(h)
  PROVE  \/ UNCHANGED slots
         \/ \E k \in Keys, d \in 1 .. MaxNow : Contract!Expect(k, d)
<1> DEFINE c == calls[h]
<1>1. c.key \in Keys /\ c.deadline \in 1 .. MaxNow
  BY DEF Register, TypeOK, DeadlinesGiven, Idle, Registering, Submitting
<1>2. CASE slots[c.key].registered
  BY <1>2 DEF Register
<1>3. CASE ~slots[c.key].registered
  <2>1. Contract!Expect(c.key, c.deadline)
    BY <1>3 DEF Register, Contract!Expect, Expected, Contract!Expected
  <2> QED
    BY <1>1, <2>1
<1> QED
  BY <1>2, <1>3

(* The first body submit accepts is the contract's Deliver; a replay, or   *)
(* an answer other than 200, is no step of it.                             *)
LEMMA SubmitIsDeliver ==
  ASSUME TypeOK, NEW h \in Handlers, Submit(h)
  PROVE  \/ UNCHANGED slots
         \/ \E k \in Keys, b \in Bodies : Contract!Deliver(k, b)
<1> DEFINE c == calls[h]
<1>1. c \in Submitting
  BY DEF Submit, TypeOK, Idle, Registering, Submitting
<1>2. c.key \in Keys /\ c.body \in Bodies
  BY <1>1 DEF Submitting
<1>3. CASE Status(c) = 200 /\ slots[c.key].body = NoBody
  <2>1. slots[c.key].registered
    BY <1>1, <1>3, StatusCases
  <2>2. slots' = [slots EXCEPT ![c.key].body = c.body]
    BY <1>3 DEF Submit, Offered
  <2>3. Contract!Deliver(c.key, c.body)
    BY <1>3, <2>1, <2>2 DEF Contract!Deliver
  <2> QED
    BY <1>2, <2>3
<1>4. CASE Status(c) = 200 /\ slots[c.key].body # NoBody
  <2>1. slots' = [slots EXCEPT ![c.key] = slots[c.key]]
    BY <1>4 DEF Submit, Offered
  <2> QED
    BY <1>2, <2>1 DEF TypeOK
<1>5. CASE Status(c) # 200
  BY <1>5 DEF Submit
<1> QED
  BY <1>3, <1>4, <1>5

(* Whatever its handler threads, its clock and the tokens, the inbox is    *)
(* the one-shot store of InboxContract.                                    *)
THEOREM InboxImplementsContract == Spec => InboxSpec
<1>1. Init => Contract!Init /\ DeadlinesGiven
  BY DEF Init, Contract!Init, NoSlot, Contract!NoSlot, DeadlinesGiven, Idle
<1>2. ASSUME TypeOK, DeadlinesGiven, [Next]_vars
      PROVE  [Contract!Next]_slots
  <2>1. ASSUME NEW h \in Handlers, Register(h) \/ Submit(h)
        PROVE  [Contract!Next]_slots
    BY <1>2, <2>1, RegisterIsExpect, SubmitIsDeliver DEF Contract!Next
  <2>2. CASE Restart
    <3>1. Contract!Lose
      BY <2>2 DEF Restart, Contract!Lose, NoSlot, Contract!NoSlot
    <3> QED
      BY <3>1 DEF Contract!Next
  <2>3. CASE UNCHANGED slots
    BY <2>3
  <2> QED
    BY <1>2, <2>1, <2>2, <2>3
       DEF Next, vars, RegisterArrives, SubmitArrives, Read, Tick
<1>3. Spec => []DeadlinesGiven
  BY <1>1, DeadlinesStep, TypeCorrect, PTL DEF Spec
<1> QED
  BY <1>1, <1>2, <1>3, TypeCorrect, PTL DEF Spec, InboxSpec, Contract!Spec
=============================================================================
