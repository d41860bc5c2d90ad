---------------------------- MODULE SlotRegistry ----------------------------
(***************************************************************************)
(* What the roster of a venue promises (Cycle.daml 58-83): it is the set   *)
(* of the players that ever received slots; a batch that names one of      *)
(* them, or one player twice, is refused as a whole; nobody leaves it.     *)
(* Roster.tla, the linked list of shards, implements this specification,   *)
(* and Cycle.tla issues its entitlements through Register.                 *)
(***************************************************************************)
EXTENDS FiniteSets

CONSTANT Player

VARIABLE registered     \* the players on the roster

Init == registered = {}

\* The roster accepts the players of one batch, all of them new to it.
Register(batch) ==
  /\ batch # {}
  /\ batch \cap registered = {}
  /\ registered' = registered \cup batch

Next == \E batch \in SUBSET Player : Register(batch)

Spec == Init /\ [][Next]_registered
=============================================================================
