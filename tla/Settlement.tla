----------------------------- MODULE Settlement -----------------------------
(***************************************************************************)
(* The algebra of a settlement: which declared outcome GameStake_Settle    *)
(* accepts for a stake (Cycle.daml 466-491).  Digests and revealed         *)
(* documents are left out.                                                 *)
(***************************************************************************)
EXTENDS Integers

Disposition ==
  { "ReturnedInFull", "ReturnedWithForfeit", "ForfeitedInFull",
    "Aborted", "ExpiredUnsettled" }

Mechanic == { "TimeLockedHolding", "TokenAllocation" }

\* What the operator declares: o has disposition, returned, forfeited, payout.
OutcomeAccepted(mechanic, stakeAmount, maxPayout, o) ==
  /\ o.disposition \in {"ReturnedInFull", "ReturnedWithForfeit", "ForfeitedInFull"}
  /\ o.returned + o.forfeited = stakeAmount
  /\ o.returned >= 0 /\ o.forfeited >= 0
  /\ o.disposition = "ReturnedInFull" => o.forfeited = 0
  /\ o.disposition = "ForfeitedInFull" => o.returned = 0
  /\ o.disposition = "ReturnedWithForfeit" => o.returned > 0 /\ o.forfeited > 0
  /\ mechanic = "TimeLockedHolding" => o.forfeited = 0
  /\ o.payout >= 0 /\ o.payout <= maxPayout
=============================================================================
