---------------------------- MODULE MCAdmission ----------------------------
(* Small instances of Admission: one client against the clock, and two     *)
(* clients that compete for permits across a reload.                       *)
EXTENDS Admission, TLC

CONSTANTS r1, r2, r3, alice, bob

MCRequests == {r1, r2, r3}
MCTwoRequests == {r1, r2}

MCOneClient == {alice}
MCTwoClients == {alice, bob}

MCAllKinds == {"execute", "stream", "count"}
MCOneKind == {"execute"}

MCSlots == [c \in Clients |-> 2]
MCOneSlot == [c \in Clients |-> 1]
MCPermits == [c \in Clients |-> IF c = alice THEN 2 ELSE 1]

MCSymmetry == Permutations(Requests)
=============================================================================
