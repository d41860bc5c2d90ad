-------------------------------- MODULE Cycle --------------------------------
(***************************************************************************)
(* The two-write game cycle of one venue (Cycle.daml, Custody.daml): slots *)
(* are issued as PlayerEntitlements, a commitment consumes one and creates *)
(* a GameStake, and a settlement, an abort or an expiry consumes the stake *)
(* and recreates the entitlement.  The locked holding that backs a stake   *)
(* is a contract of the token registry (Splice), modelled as the SDK uses  *)
(* it.  A step is one ledger transaction.                                  *)
(***************************************************************************)
EXTENDS Policy, Settlement, FiniteSets

CONSTANTS
  Player, Auditor, NoAuditor,
  Mode,                 \* "Live" or "DryRun": GameVenue.mode
  Custody,              \* the venue's mechanic: GameVenue.custody
  Policies,             \* the policies an operator may try to set
  Amount, Fee,          \* stake and fee amounts a client may ask for
  CycleTag,             \* the pairs <<cycleId, entryDigest>> a client may use
  LockId, NoRef,        \* locked holdings that may ever be created; no custodyRef
  MaxConcurrency, Copies,  \* bounds: slot indices, live contracts per slot
  MaxTime,              \* bound of the ledger clock
  FreshCycleIds,        \* clients take cycle ids from newCycleId only
  DirectCreation,       \* signatories may create contracts without a choice
  Claims,               \* the counts they may write into such a contract
  Legacy                \* players issued by a 1.3.0 venue, before any roster

ASSUME CycleAssumption ==
  /\ Mode \in {"Live", "DryRun"} /\ Custody \in Mechanic
  /\ Policies \subseteq VenuePolicy
  /\ Amount \subseteq Nat /\ Fee \subseteq Nat
  /\ MaxConcurrency \in Nat /\ Copies \in Nat /\ MaxTime \in Nat
  /\ FreshCycleIds \in BOOLEAN /\ DirectCreation \in BOOLEAN
  /\ Claims \subseteq Int /\ Legacy \subseteq Player
  /\ NoAuditor \notin Auditor /\ NoRef \notin LockId

VARIABLES
  now,          \* ledger effective time
  venue,        \* the GameVenue contract: policy, auditor, whether it has a roster
  registered,   \* the players on its roster (see SlotRegistry)
  contract,     \* the active entitlements and stakes
  lock,         \* the locked holdings of the token registry
  used          \* history: the tags committed so far

vars == <<now, venue, registered, contract, lock, used>>

Registry == INSTANCE SlotRegistry

-----------------------------------------------------------------------------
(* Contracts.  The contracts of a player's slot are named by player, index *)
(* and copy, so that a second contract of one slot has a name to live      *)
(* under; the name of an archived contract is free again.                  *)

Index == 0 .. MaxConcurrency - 1
Cid == Player \X Index \X (1 .. Copies)
Who(c) == c[1]
SlotIndex(c) == c[2]

Observer == Auditor \cup {NoAuditor}

NoContract == [kind |-> "none"]

\* claim is history: whether the contract goes back to one that its signatories
\* created without a choice, when that was and the count they wrote into it.
Claim == [direct : BOOLEAN, at : Nat, cycles : Int]
Issued == [direct |-> FALSE, at |-> 0, cycles |-> 0]
ClaimedNow(cycles) == [direct |-> TRUE, at |-> now, cycles |-> cycles]

PlayerEntitlement ==
  [ kind : {"entitlement"}, policy : Policies, nextEligibleAt : Int,
    cyclesCompleted : Int, lifetimeStaked : Int, auditor : Observer,
    claim : Claim ]

GameStake ==
  [ kind : {"stake"}, policy : Policies, committedAt : Nat, tag : CycleTag,
    stakeAmount : Nat, feeAmount : Nat, lockExpiresAt : Nat,
    cyclesCompletedBefore : Int, lifetimeStakedBefore : Int,
    auditor : Observer, claim : Claim ]

IsEntitlement(c) == contract[c].kind = "entitlement"
IsStake(c) == contract[c].kind = "stake"
Active(c) == contract[c].kind # "none"

\* proofs is history: the counted settlements this holding has proved.
LockedHolding ==
  [ state : {"held", "released"}, owner : Player, amount : Nat,
    expiresAt : Nat, tag : CycleTag, venueHolds : BOOLEAN,
    proofs : Nat ]
Unborn == [state |-> "unborn"]

\* Variant for mutation: a live venue under any valid policy.
EnsureVenueUnproved(p) ==
  /\ ValidPolicy(p)
  /\ Mode = "DryRun" => p.minPlatformFee = 0 /\ p.maxPayoutAmount = 0

\* The `ensure' clauses.
EnsureVenue(p) ==
  /\ ValidPolicy(p)
  /\ Mode = "Live" => p.requireCustodyProof
  /\ Mode = "DryRun" => p.minPlatformFee = 0 /\ p.maxPayoutAmount = 0

EnsureEntitlement(p, index) ==
  /\ ValidPolicy(p)
  /\ index >= 0 /\ index < p.concurrencyLimit

EnsureStake(s) ==
  /\ s.stakeAmount > 0
  /\ s.feeAmount >= s.policy.minPlatformFee
  /\ s.stakeAmount >= s.policy.minStakeAmount
  /\ s.stakeAmount <= s.policy.maxStakeAmount

-----------------------------------------------------------------------------
NewEntitlement ==
  [ kind |-> "entitlement", policy |-> venue.policy, nextEligibleAt |-> now,
    cyclesCompleted |-> 0, lifetimeStaked |-> 0, auditor |-> venue.auditor,
    claim |-> Issued ]

\* A venue created by 1.3.0 comes without a roster but with slots issued.
Init ==
  /\ now = 0
  /\ \E p \in Policies :
       EnsureVenue(p) /\ venue = [roster |-> FALSE, policy |-> p, auditor |-> NoAuditor]
  /\ Registry!Init
  /\ contract = [c \in Cid |->
       IF /\ Who(c) \in Legacy
          /\ SlotIndex(c) < venue.policy.concurrencyLimit /\ c[3] = 1
       THEN NewEntitlement ELSE NoContract]
  /\ lock = [l \in LockId |-> Unborn]
  /\ used = {}

\* The ledger clock, shared by every contract and never running backwards.
Tick ==
  /\ now < MaxTime
  /\ now' = now + 1
  /\ UNCHANGED <<venue, registered, contract, lock, used>>

-----------------------------------------------------------------------------
(* GameVenue. *)

InitRoster ==
  /\ ~venue.roster
  /\ venue' = [venue EXCEPT !.roster = TRUE]
  /\ UNCHANGED <<now, registered, contract, lock, used>>

FreeCopy(p, i) == CHOOSE k \in 1 .. Copies : ~Active(<<p, i, k>>)

\* Variant for mutation: the roster is extended but never asked.
IssueAgain(batch) ==
  /\ venue.roster
  /\ batch # {} /\ registered' = registered \cup batch
  /\ venue.policy.concurrencyLimit <= MaxConcurrency
  /\ LET granted(c) == Who(c) \in batch /\ SlotIndex(c) < venue.policy.concurrencyLimit
     IN  /\ \A c \in Cid : granted(c) =>
              \E k \in 1 .. Copies : ~Active(<<Who(c), SlotIndex(c), k>>)
         /\ contract' = [c \in Cid |->
              IF granted(c) /\ c[3] = FreeCopy(Who(c), SlotIndex(c))
              THEN NewEntitlement ELSE contract[c]]
  /\ UNCHANGED <<now, venue, lock, used>>

\* One batch: every player on it gets exactly concurrencyLimit slots.
IssueEntitlements(batch) ==
  /\ venue.roster
  /\ Registry!Register(batch)
  /\ venue.policy.concurrencyLimit <= MaxConcurrency
  /\ LET granted(c) == Who(c) \in batch /\ SlotIndex(c) < venue.policy.concurrencyLimit
     IN  /\ \A c \in Cid : granted(c) =>
              \E k \in 1 .. Copies : ~Active(<<Who(c), SlotIndex(c), k>>)
         /\ contract' = [c \in Cid |->
              IF granted(c) /\ c[3] = FreeCopy(Who(c), SlotIndex(c))
              THEN NewEntitlement ELSE contract[c]]
  /\ UNCHANGED <<now, venue, lock, used>>

\* Variant for mutation: the new policy is not checked.
UpdatePolicyUnchecked(p) ==
  /\ venue' = [venue EXCEPT !.policy = p]
  /\ UNCHANGED <<now, registered, contract, lock, used>>

UpdatePolicy(p) ==
  /\ EnsureVenue(p)
  /\ venue' = [venue EXCEPT !.policy = p]
  /\ UNCHANGED <<now, registered, contract, lock, used>>

SetAuditor(a) ==
  /\ venue' = [venue EXCEPT !.auditor = a]
  /\ UNCHANGED <<now, registered, contract, lock, used>>

-----------------------------------------------------------------------------
(* The locked holding: external code of the token registry. *)

CreateLock(l, owner, amount, expiresAt, tag, venueHolds) ==
  /\ lock[l].state = "unborn"
  /\ expiresAt > now
  /\ lock' = [lock EXCEPT ![l] =
       [ state |-> "held", owner |-> owner, amount |-> amount,
         expiresAt |-> expiresAt, tag |-> tag, venueHolds |-> venueHolds,
         proofs |-> 0 ]]

\* LockedAmulet_UnlockV2: the owner and every holder agree; pays the owner.
Unlock(l) ==
  /\ lock[l].state = "held"
  /\ lock' = [lock EXCEPT ![l].state = "released"]

\* LockedAmulet_OwnerExpireLockV2: the owner alone, once the lock has expired.
OwnerExpireLock(l) ==
  /\ lock[l].state = "held"
  /\ now >= lock[l].expiresAt
  /\ lock' = [lock EXCEPT ![l].state = "released"]

\* Variant for mutation: any holding of the right size and expiry will do.
VerifyAnyTag(s, player, l) ==
  /\ lock[l].state = "held"
  /\ lock[l].owner = player
  /\ lock[l].amount >= s.stakeAmount
  /\ lock[l].venueHolds
  /\ lock[l].expiresAt = s.lockExpiresAt

VerifyLockedHolding(s, player, l) ==
  /\ lock[l].state = "held"
  /\ lock[l].owner = player
  /\ lock[l].amount >= s.stakeAmount
  /\ lock[l].venueHolds
  /\ lock[l].expiresAt = s.lockExpiresAt
  /\ lock[l].tag = s.tag

\* ref is a locked holding or NoRef.  An allocation reference is refused.
VerifyCustody(s, player, ref) ==
  /\ Custody = "TimeLockedHolding"
  /\ ref \in LockId => VerifyLockedHolding(s, player, ref)
  /\ ref = NoRef => ~s.policy.requireCustodyProof

-----------------------------------------------------------------------------
(* PlayerEntitlement. *)

\* Variant for mutation: the stake takes the venue's policy of the day.
StakeOfVenuePolicy(e, terms) ==
  [ kind |-> "stake", policy |-> venue.policy, committedAt |-> now,
    tag |-> terms.tag, stakeAmount |-> terms.stakeAmount,
    feeAmount |-> terms.feeAmount, lockExpiresAt |-> terms.lockExpiresAt,
    cyclesCompletedBefore |-> e.cyclesCompleted,
    lifetimeStakedBefore |-> e.lifetimeStaked,
    auditor |-> e.auditor, claim |-> e.claim ]

StakeOf(e, terms) ==
  [ kind |-> "stake", policy |-> e.policy, committedAt |-> now,
    tag |-> terms.tag, stakeAmount |-> terms.stakeAmount,
    feeAmount |-> terms.feeAmount, lockExpiresAt |-> terms.lockExpiresAt,
    cyclesCompletedBefore |-> e.cyclesCompleted,
    lifetimeStakedBefore |-> e.lifetimeStaked,
    auditor |-> e.auditor, claim |-> e.claim ]

Terms ==
  [ tag : CycleTag, stakeAmount : Amount, feeAmount : Fee,
    lockExpiresAt : now .. MaxTime ]

\* Variants for mutation: a commitment during the cooldown, and one that does
\* not consume the entitlement.
CommitAnyTime(c, terms) ==
  /\ IsEntitlement(c)
  /\ TermsMeetPolicy(contract[c].policy, now, terms)
  /\ EnsureStake(StakeOf(contract[c], terms))
  /\ FreshCycleIds => terms.tag \notin used
  /\ contract' = [contract EXCEPT ![c] = StakeOf(contract[c], terms)]
  /\ used' = used \cup {terms.tag}
  /\ UNCHANGED <<now, venue, registered>>

CommitKeepingSlot(c, terms) ==
  /\ IsEntitlement(c)
  /\ now >= contract[c].nextEligibleAt
  /\ TermsMeetPolicy(contract[c].policy, now, terms)
  /\ EnsureStake(StakeOf(contract[c], terms))
  /\ FreshCycleIds => terms.tag \notin used
  /\ \E k \in 1 .. Copies :
       /\ ~Active(<<Who(c), SlotIndex(c), k>>)
       /\ contract' = [contract EXCEPT
            ![<<Who(c), SlotIndex(c), k>>] = StakeOf(contract[c], terms)]
  /\ used' = used \cup {terms.tag}
  /\ UNCHANGED <<now, venue, registered>>

\* Entitlement_Commit, by operator and player.
Commit(c, terms) ==
  /\ IsEntitlement(c)
  /\ now >= contract[c].nextEligibleAt
  /\ TermsMeetPolicy(contract[c].policy, now, terms)
  /\ EnsureStake(StakeOf(contract[c], terms))
  /\ FreshCycleIds => terms.tag \notin used
  /\ contract' = [contract EXCEPT ![c] = StakeOf(contract[c], terms)]
  /\ used' = used \cup {terms.tag}
  /\ UNCHANGED <<now, venue, registered>>

\* Entitlement_Revoke, by the operator.
Revoke(c) ==
  /\ IsEntitlement(c)
  /\ contract' = [contract EXCEPT ![c] = NoContract]
  /\ UNCHANGED <<now, venue, registered, lock, used>>

\* Entitlement_Retire, by operator and player.
Retire(c) ==
  /\ IsEntitlement(c)
  /\ contract' = [contract EXCEPT ![c] = NoContract]
  /\ UNCHANGED <<now, venue, registered, lock, used>>

-----------------------------------------------------------------------------
(* GameStake. *)

RecycledEntitlement(s, counted, nextAt) ==
  [ kind |-> "entitlement", policy |-> s.policy, nextEligibleAt |-> nextAt,
    cyclesCompleted |-> s.cyclesCompletedBefore + (IF counted THEN 1 ELSE 0),
    lifetimeStaked |-> s.lifetimeStakedBefore + (IF counted THEN s.stakeAmount ELSE 0),
    auditor |-> s.auditor, claim |-> s.claim ]

\* The stake is archived and its slot recreated; the new contract's `ensure'
\* must hold, or the whole transaction is refused.
Recycle(c, counted, nextAt) ==
  /\ EnsureEntitlement(contract[c].policy, SlotIndex(c))
  /\ contract' = [contract EXCEPT ![c] = RecycledEntitlement(contract[c], counted, nextAt)]
  /\ UNCHANGED <<now, venue, registered, used>>

Outcome ==
  LET amounts == {0} \cup Amount IN
  [ disposition : Disposition, returned : amounts, forfeited : amounts, payout : amounts ]

\* GameStake_Settle, by the operator.
Settle(c, ref, outcome) ==
  /\ IsStake(c)
  /\ LET s == contract[c]
         seconds == SecondsBetween(s.committedAt, now)
     IN  /\ seconds >= s.policy.minCycleSeconds
         /\ seconds <= s.policy.maxCycleSeconds
         /\ OutcomeAccepted(Custody, s.stakeAmount, s.policy.maxPayoutAmount, outcome)
         /\ VerifyCustody(s, Who(c), ref)
         /\ Recycle(c, TRUE, AddSeconds(now, s.policy.cooldownSeconds))

\* Variant for mutation: an abort counts as a cycle.
AbortCounted(c, ref) ==
  /\ IsStake(c)
  /\ LET s == contract[c]
     IN  /\ ref \in LockId => VerifyLockedHolding(s, Who(c), ref)
         /\ Recycle(c, TRUE, AddSeconds(now, s.policy.abortCooldownSeconds))

\* GameStake_Abort, by operator and player; the proof is optional.
Abort(c, ref) ==
  /\ IsStake(c)
  /\ LET s == contract[c]
     IN  /\ ref \in LockId => VerifyLockedHolding(s, Who(c), ref)
         /\ Recycle(c, FALSE, AddSeconds(now, s.policy.abortCooldownSeconds))

\* Variant for mutation: an expiry only within the time a settlement has.
ExpireWithinCycle(c) ==
  /\ IsStake(c)
  /\ now >= contract[c].lockExpiresAt
  /\ SecondsBetween(contract[c].committedAt, now) <= contract[c].policy.maxCycleSeconds
  /\ Recycle(c, FALSE, now)

\* GameStake_ExpireUnsettled, by the player alone.
ExpireUnsettled(c) ==
  /\ IsStake(c)
  /\ now >= contract[c].lockExpiresAt
  /\ Recycle(c, FALSE, now)

-----------------------------------------------------------------------------
(* Transactions: what the command builders submit (cycle.js), and what the *)
(* parties can submit without them.                                        *)

\* buildCommitCommands: the lock and the commitment, atomically.
CommitFunded(c, terms, l) ==
  /\ CreateLock(l, Who(c), terms.stakeAmount, terms.lockExpiresAt, terms.tag, TRUE)
  /\ Commit(c, terms)

\* buildDryRunCommitCommands, and any commitment without its sibling transfer.
CommitUnfunded(c, terms) ==
  /\ Commit(c, terms)
  /\ UNCHANGED lock

\* buildSettleCommands: settle reads the lock, then the lock is released.
SettleAndUnlock(c, l, outcome) ==
  /\ Settle(c, l, outcome)
  /\ lock' = [lock EXCEPT ![l].state = "released", ![l].proofs = @ + 1]

\* A settlement that shows the lock and leaves the release for later.
SettleKeepingLock(c, l, outcome) ==
  /\ Settle(c, l, outcome)
  /\ lock' = [lock EXCEPT ![l].proofs = @ + 1]

\* buildSettleCommands without lockedAmuletCid.
SettleUnproved(c, outcome) ==
  /\ Settle(c, NoRef, outcome)
  /\ UNCHANGED lock

\* buildAbortCommands: one command, with or without a proof; no unlock.
AbortCycle(c, ref) ==
  /\ Abort(c, ref)
  /\ UNCHANGED lock

\* buildExpireCommands, with or without the lock it recovers.
ExpireCycle(c) ==
  /\ ExpireUnsettled(c)
  /\ UNCHANGED lock

ExpireAndRecover(c, l) ==
  /\ ExpireUnsettled(c)
  /\ OwnerExpireLock(l)
  /\ lock[l].owner = Who(c)

\* A transfer of the player's own, outside any commitment: the agreed expiry
\* of some open stake, any tag, with or without the venue as a holder.
LockSeparately(l, c, owner, amount, tag, venueHolds) ==
  /\ IsStake(c)
  /\ CreateLock(l, owner, amount, contract[c].lockExpiresAt, tag, venueHolds)
  /\ UNCHANGED <<now, venue, registered, contract, used>>

UnlockSeparately(l) ==
  /\ Unlock(l)
  /\ UNCHANGED <<now, venue, registered, contract, used>>

RecoverLock(l) ==
  /\ OwnerExpireLock(l)
  /\ UNCHANGED <<now, venue, registered, contract, used>>

\* The operator is the only signatory of an entitlement, and operator and player
\* those of a stake: together they create one without the venue or a slot, and
\* write what they like into every field the `ensure' does not mention.  A
\* custody mechanic other than the venue's and an index outside the limit are
\* left out: no settlement accepts the one, no slot the other.
CreateEntitlement(c, p, cycles, staked, nextAt, auditor) ==
  /\ DirectCreation
  /\ ~Active(c)
  /\ EnsureEntitlement(p, SlotIndex(c))
  /\ contract' = [contract EXCEPT ![c] =
       [ kind |-> "entitlement", policy |-> p, nextEligibleAt |-> nextAt,
         cyclesCompleted |-> cycles, lifetimeStaked |-> staked,
         auditor |-> auditor, claim |-> ClaimedNow(cycles) ]]
  /\ UNCHANGED <<now, venue, registered, lock, used>>

FreeStake(p, committedAt, cycles, staked, auditor, tag, stake, fee, expiresAt) ==
  [ kind |-> "stake", policy |-> p, committedAt |-> committedAt, tag |-> tag,
    stakeAmount |-> stake, feeAmount |-> fee, lockExpiresAt |-> expiresAt,
    cyclesCompletedBefore |-> cycles, lifetimeStakedBefore |-> staked,
    auditor |-> auditor, claim |-> ClaimedNow(cycles) ]

CreateStake(c, s) ==
  /\ DirectCreation
  /\ ~Active(c)
  /\ EnsureStake(s)
  /\ contract' = [contract EXCEPT ![c] = s]
  /\ used' = used \cup {s.tag}
  /\ UNCHANGED <<now, venue, registered, lock>>

-----------------------------------------------------------------------------
VenueStep ==
  \/ InitRoster
  \/ \E batch \in SUBSET Player : IssueEntitlements(batch)
  \/ \E p \in Policies : UpdatePolicy(p)
  \/ \E a \in Observer : SetAuditor(a)

CommitStep ==
  \E c \in Cid, terms \in Terms :
    \/ \E l \in LockId : CommitFunded(c, terms, l)
    \/ CommitUnfunded(c, terms)

SettleStep ==
  \E c \in Cid, outcome \in Outcome :
    \/ \E l \in LockId : SettleAndUnlock(c, l, outcome) \/ SettleKeepingLock(c, l, outcome)
    \/ SettleUnproved(c, outcome)

ExitStep ==
  \E c \in Cid :
    \/ \E ref \in LockId \cup {NoRef} : AbortCycle(c, ref)
    \/ ExpireCycle(c)
    \/ \E l \in LockId : ExpireAndRecover(c, l)
    \/ Revoke(c)
    \/ Retire(c)

LockStep ==
  \E l \in LockId :
    \/ \E c \in Cid, owner \in Player, amount \in Amount, tag \in CycleTag, h \in BOOLEAN :
         LockSeparately(l, c, owner, amount, tag, h)
    \/ UnlockSeparately(l)
    \/ RecoverLock(l)

DirectStep ==
  \E c \in Cid, p \in Policies, cycles, staked \in Claims, at \in 0 .. MaxTime,
     auditor \in Observer :
    \/ CreateEntitlement(c, p, cycles, staked, at, auditor)
    \/ \E tag \in CycleTag, stake \in Amount, fee \in Fee, expiresAt \in 0 .. MaxTime :
         CreateStake(c, FreeStake(p, at, cycles, staked, auditor, tag, stake, fee, expiresAt))

Next == Tick \/ VenueStep \/ CommitStep \/ SettleStep \/ ExitStep \/ LockStep \/ DirectStep

Spec == Init /\ [][Next]_vars

=============================================================================
