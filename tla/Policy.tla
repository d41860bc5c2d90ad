------------------------------- MODULE Policy -------------------------------
(***************************************************************************)
(* A venue's policy and the terms of one cycle (Types.daml, Policy.daml).  *)
(* Amounts are natural numbers of the smallest unit.                       *)
(***************************************************************************)
EXTENDS WholeSeconds

VenuePolicy ==
  [ minStakeAmount : Nat, maxStakeAmount : Nat,
    minPlatformFee : Nat, maxPayoutAmount : Nat,
    minLockSeconds : Int, maxLockSeconds : Int,
    minCycleSeconds : Int, maxCycleSeconds : Int,
    cooldownSeconds : Int, abortCooldownSeconds : Int,
    concurrencyLimit : Int, requireCustodyProof : BOOLEAN ]

\* Variant for mutation: a lock may end before the minimum cycle.
ValidPolicyUncoupled(p) ==
  /\ p.minStakeAmount > 0 /\ p.maxStakeAmount >= p.minStakeAmount
  /\ p.minPlatformFee >= 0 /\ p.maxPayoutAmount >= 0
  /\ p.minLockSeconds > 0 /\ p.maxLockSeconds >= p.minLockSeconds
  /\ p.minCycleSeconds > 0 /\ p.maxCycleSeconds >= p.minCycleSeconds
  /\ p.cooldownSeconds >= 0 /\ p.abortCooldownSeconds >= 0
  /\ p.concurrencyLimit > 0

\* The `ensure' of every contract that carries a policy to be played under.
ValidPolicy(p) ==
  /\ p.minStakeAmount > 0 /\ p.maxStakeAmount >= p.minStakeAmount
  /\ p.minPlatformFee >= 0 /\ p.maxPayoutAmount >= 0
  /\ p.minLockSeconds > 0 /\ p.maxLockSeconds >= p.minLockSeconds
  /\ p.minCycleSeconds > 0 /\ p.maxCycleSeconds >= p.minCycleSeconds
  /\ p.minLockSeconds >= p.minCycleSeconds
  /\ p.cooldownSeconds >= 0 /\ p.abortCooldownSeconds >= 0
  /\ p.concurrencyLimit > 0

\* Terms that name another fee receiver, another holder set or another tag are
\* refused here as well, so accepted terms always carry the venue and the tag
\* of their own cycle: those fields are not modelled.
TermsMeetPolicy(p, now, terms) ==
  LET lockSeconds == SecondsBetween(now, terms.lockExpiresAt) IN
  /\ terms.stakeAmount >= p.minStakeAmount
  /\ terms.stakeAmount <= p.maxStakeAmount
  /\ terms.feeAmount >= p.minPlatformFee
  /\ lockSeconds >= p.minLockSeconds
  /\ lockSeconds <= p.maxLockSeconds
=============================================================================
