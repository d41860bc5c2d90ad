------------------------------- MODULE MCCycle -------------------------------
(***************************************************************************)
(* Small instances of Cycle for TLC: policies, and the symmetry of the     *)
(* sets of model values.                                                   *)
(***************************************************************************)
EXTENDS CycleProperties, TLC

\* One second of minimum cycle under a lock of two, a cooldown of one and a
\* longer cooldown after an abort.
Standard ==
  [ minStakeAmount |-> 1, maxStakeAmount |-> 1,
    minPlatformFee |-> 0, maxPayoutAmount |-> 0,
    minLockSeconds |-> 2, maxLockSeconds |-> 2,
    minCycleSeconds |-> 1, maxCycleSeconds |-> 2,
    cooldownSeconds |-> 1, abortCooldownSeconds |-> 2,
    concurrencyLimit |-> 1, requireCustodyProof |-> TRUE ]

TwoSlots == [Standard EXCEPT !.concurrencyLimit = 2]
NoCooldown == [Standard EXCEPT !.cooldownSeconds = 0, !.abortCooldownSeconds = 0]
Unproved == [Standard EXCEPT !.requireCustodyProof = FALSE]
\* Refused by validPolicy: a lock that may end before the minimum cycle, and
\* a venue without slots.
ShortLock == [Standard EXCEPT !.minLockSeconds = 1, !.minCycleSeconds = 2]
NoSlots == [Standard EXCEPT !.concurrencyLimit = 0]

OneSlotPolicies == {Standard, NoCooldown, Unproved, ShortLock, NoSlots}
ChangingPolicies == {Standard, TwoSlots, NoSlots}
DirectPolicies == {[NoCooldown EXCEPT !.requireCustodyProof = FALSE], ShortLock, NoSlots}

Symmetry == Permutations(LockId) \cup Permutations(CycleTag)
=============================================================================
