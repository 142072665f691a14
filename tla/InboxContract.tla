---------------------------- MODULE InboxContract ----------------------------
(***************************************************************************)
(* What the result inbox promises to requestors and workers together       *)
(* (inbox.py, Inbox, without handler threads, clock or tokens): a slot     *)
(* expects one callback, takes one body, keeps it, and shows no other; and *)
(* slots are lost all at once or not at all.                               *)
(***************************************************************************)
EXTENDS Slots

CONSTANTS
  Keys,      \* (job, kind) pairs
  Deadlines  \* the deadlines expectations are given

VARIABLE slots

Init == slots = [k \in Keys |-> NoSlot]

Expect(k, d) ==
  /\ ~slots[k].registered
  /\ slots' = [slots EXCEPT ![k] = Expected(d)]

Deliver(k, b) ==
  /\ slots[k].registered /\ slots[k].body = NoBody
  /\ slots' = [slots EXCEPT ![k].body = b]

Lose == slots' = [k \in Keys |-> NoSlot]

Next ==
  \/ \E k \in Keys, d \in Deadlines : Expect(k, d)
  \/ \E k \in Keys, b \in Bodies : Deliver(k, b)
  \/ Lose

Spec == Init /\ [][Next]_slots
=============================================================================
