--------------------------- MODULE CycleProperties ---------------------------
(***************************************************************************)
(* What the cycle contracts must guarantee, stated over Cycle.             *)
(***************************************************************************)
EXTENDS Cycle

\* The type invariant: the venue's policy passed its `ensure', the store holds
\* entitlements and stakes only, and a lock is unborn or a full holding.
TypeOK ==
  /\ now \in 0 .. MaxTime
  /\ venue \in [roster : BOOLEAN, policy : Policies, auditor : Observer]
  /\ EnsureVenue(venue.policy)
  /\ registered \subseteq Player
  /\ contract \in [Cid -> {NoContract} \cup PlayerEntitlement \cup GameStake]
  /\ lock \in [LockId -> {Unborn} \cup LockedHolding]
  /\ used \subseteq CycleTag

-----------------------------------------------------------------------------
\* A slot never exists twice: no two active contracts, entitlement or stake,
\* carry the same player and index, across any order of issuance, commitment,
\* closing and revocation (Cycle.daml 306-318 and 562-613).
SlotUniqueness ==
  \A c, d \in Cid :
    Active(c) /\ Active(d) /\ Who(c) = Who(d) /\ SlotIndex(c) = SlotIndex(d) => c = d

OpenCycles(p) == {c \in Cid : Who(c) = p /\ IsStake(c)}

\* A player never has more cycles open than the concurrencyLimit of the policy
\* any of them was opened under: "it is a ledger rule" (README.md 244-248).
ConcurrencyLimitHeld ==
  \A c \in Cid : IsStake(c) =>
    Cardinality(OpenCycles(Who(c))) <= contract[c].policy.concurrencyLimit

\* Every contract of the store belongs to a player on the roster, and its
\* index is below its own policy's limit: what the recycling of a closed cycle
\* recreates can always pass the `ensure' of PlayerEntitlement, whatever the
\* venue's policy has become meanwhile (Cycle.daml 344-347, 536-554).
EveryStakeRecycles ==
  \A c \in Cid : IsStake(c) =>
    /\ EnsureEntitlement(contract[c].policy, SlotIndex(c))
    /\ Who(c) \in registered

\* By the time the player may leave alone, the ledger already counts the
\* policy's minimum cycle duration as run: the lock cannot end under a cycle
\* that is still too short (Policy.daml 40-44).
MinimumRunByExpiry ==
  \A c \in Cid : IsStake(c) =>
    SecondsBetween(contract[c].committedAt, contract[c].lockExpiresAt)
      >= contract[c].policy.minCycleSeconds

\* The shortest time, in ticks, that one counted cycle takes from its slot:
\* the minimum duration, less what truncating both endpoints can hide, and the
\* cooldown.
TicksPerCycle(p) ==
  p.minCycleSeconds * TicksPerSecond - (TicksPerSecond - 1)
    + p.cooldownSeconds * TicksPerSecond

\* The throughput of an issued slot is bounded by the ledger clock: n counted
\* cycles take n times the minimum, whatever aborts, expiries and re-commitments
\* lie between them (Cycle.daml 364, 460-464, 501; DESIGN.md 563).
CycleRateBounded ==
  \A c \in Cid : Active(c) /\ ~contract[c].claim.direct =>
    /\ IsEntitlement(c) =>
         contract[c].nextEligibleAt
           >= contract[c].cyclesCompleted * TicksPerCycle(contract[c].policy)
    /\ IsStake(c) =>
         contract[c].committedAt
           >= contract[c].cyclesCompletedBefore * TicksPerCycle(contract[c].policy)

Gained(c) ==
  (IF IsEntitlement(c) THEN contract[c].cyclesCompleted
   ELSE contract[c].cyclesCompletedBefore) - contract[c].claim.cycles

\* A contract its signatories created without a choice carries the count, the
\* commitment time and the next eligible time they wrote into it, and yet gains
\* one cycle at most over the clock: n counted since then take n - 1 times the
\* minimum, the one settled first being at the mercy of the commitment time they
\* chose (Cycle.daml 339-347, 421-441, 460-464).
CreatedRateBounded ==
  \A c \in Cid : Active(c) /\ contract[c].claim.direct /\ Gained(c) > 0 =>
    LET earliest == contract[c].claim.at
                      + (Gained(c) - 1) * TicksPerCycle(contract[c].policy)
    IN  /\ IsEntitlement(c) => contract[c].nextEligibleAt >= earliest
        /\ IsStake(c) => contract[c].committedAt >= earliest

\* A locked holding proves at most one counted cycle, although a settlement
\* need not release it and the ledger does not look at tags already used
\* (cycle.js 34-42): this is what newCycleId is for.
ProofUsedOnce ==
  \A l \in LockId : lock[l].state # "unborn" => lock[l].proofs <= 1

Closes(c) == IsStake(c) /\ contract'[c].kind = "entitlement"
Counts(c) ==
  Closes(c) /\ contract'[c].cyclesCompleted > contract[c].cyclesCompletedBefore

\* In a live venue no cycle counts without a holding of the player's that
\* carries the cycle's tag and is still locked: no policy an operator gets
\* accepted at any time lets a later cycle settle unproved (Cycle.daml 168-186,
\* Custody.daml 157-167).
LiveCyclesAreProved ==
  [][\A c \in Cid : Mode = "Live" /\ Counts(c) =>
       \E l \in LockId :
         /\ lock[l].state = "held"
         /\ lock[l].owner = Who(c) /\ lock[l].tag = contract[c].tag
         /\ lock'[l].proofs = lock[l].proofs + 1]_vars

-----------------------------------------------------------------------------
(* The slot as its owner sees it. *)

SlotState ==
  [s \in Player \X Index |->
     IF \E k \in 1 .. Copies : IsStake(<<s[1], s[2], k>>) THEN "open"
     ELSE IF \E k \in 1 .. Copies : IsEntitlement(<<s[1], s[2], k>>) THEN "idle"
     ELSE IF s[1] \in registered THEN "gone" ELSE "unissued"]

ClaimedCycles(c) ==
  IF IsEntitlement(c) THEN contract[c].cyclesCompleted
  ELSE IF IsStake(c) THEN contract[c].cyclesCompletedBefore ELSE 0

SlotCounted ==
  [s \in Player \X Index |->
     LET live == {k \in 1 .. Copies : Active(<<s[1], s[2], k>>)}
     IN  IF live = {} THEN 0
         ELSE ClaimedCycles(<<s[1], s[2], CHOOSE k \in live : TRUE>>)]

Slots == INSTANCE SlotLifecycle WITH state <- SlotState, counted <- SlotCounted

\* The cycle contracts implement the abstract slot: issued once, one open
\* cycle at a time, counted by one, never back once given up.
ImplementsSlotLifecycle == Slots!Spec

-----------------------------------------------------------------------------
(* Exits.  Only the player's own exit and the clock are fair: nothing is   *)
(* assumed of the venue or the operator.                                   *)

PlayerFairness ==
  /\ WF_vars(Tick)
  /\ \A c \in Cid : WF_vars(ExpireCycle(c))

FairSpec == Spec /\ PlayerFairness

\* An open cycle always closes: the player clears it alone once the lock has
\* expired (Cycle.daml 522-532, INTEGRATION.md 256-273).
StakesAlwaysClose == \A c \in Cid : IsStake(c) ~> ~IsStake(c)

=============================================================================
