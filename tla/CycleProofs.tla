----------------------------- MODULE CycleProofs -----------------------------
(***************************************************************************)
(* Theorems about the cycle contracts, for every value of the constants:   *)
(* the types of every reachable state, the rate of the cycles, the slots   *)
(* and the limit, the proofs of custody, and the abstract slot they        *)
(* implement.  Each invariant is shown with the strengthening that makes   *)
(* it inductive, one step per contract choice (StepCases).                 *)
(***************************************************************************)
EXTENDS CycleProperties, NumberProofs

-----------------------------------------------------------------------------
(* What a step does to the contracts, whatever it does to the locks: the   *)
(* proofs below go through these cases, one per contract choice.           *)

IssueStep == \E batch \in SUBSET Player : IssueEntitlements(batch)

OpenStep ==
  \E c \in Cid, terms \in Terms : Commit(c, terms)

CloseStep ==
  \E c \in Cid :
    \/ \E ref \in LockId \cup {NoRef}, outcome \in Outcome : Settle(c, ref, outcome)
    \/ \E ref \in LockId \cup {NoRef} : Abort(c, ref)
    \/ ExpireUnsettled(c)

LeaveStep == \E c \in Cid : Revoke(c) \/ Retire(c)

IdleStep == UNCHANGED <<contract, registered, used>> /\ now' \in {now, now + 1}

\* Every step is one of these.
LEMMA StepCases ==
  ASSUME [Next]_vars
  PROVE  IdleStep \/ IssueStep \/ OpenStep \/ CloseStep \/ LeaveStep \/ DirectStep
<1>1. CASE UNCHANGED vars
  BY <1>1 DEF vars, IdleStep
<1>2. CASE Tick
  BY <1>2 DEF Tick, IdleStep
<1>3. CASE VenueStep
  BY <1>3 DEF VenueStep, InitRoster, UpdatePolicy, SetAuditor, IdleStep, IssueStep
<1>4. CASE CommitStep
  BY <1>4 DEF CommitStep, CommitFunded, CommitUnfunded, OpenStep
<1>5. CASE SettleStep
  BY <1>5 DEF SettleStep, SettleAndUnlock, SettleKeepingLock, SettleUnproved, CloseStep
<1>6. CASE ExitStep
  BY <1>6 DEF ExitStep, AbortCycle, ExpireCycle, ExpireAndRecover, CloseStep, LeaveStep
<1>7. CASE LockStep
  BY <1>7 DEF LockStep, LockSeparately, UnlockSeparately, RecoverLock, IdleStep
<1>9. QED
  BY <1>1, <1>2, <1>3, <1>4, <1>5, <1>6, <1>7 DEF Next

-----------------------------------------------------------------------------
(* Types. *)

\* The durations and limits of a policy are numbers.
LEMMA PolicyTypes ==
  ASSUME NEW p \in Policies
  PROVE  /\ p \in VenuePolicy
         /\ p.minCycleSeconds \in Int /\ p.minLockSeconds \in Int
         /\ p.cooldownSeconds \in Int /\ p.abortCooldownSeconds \in Int
         /\ p.concurrencyLimit \in Int /\ p.requireCustodyProof \in BOOLEAN
BY CycleAssumption DEF CycleAssumption, VenuePolicy

\* Terms of a client are typed, and their lock expires no earlier than now.
LEMMA TermsTypes ==
  ASSUME now \in Nat, NEW terms \in Terms
  PROVE  /\ terms.tag \in CycleTag
         /\ terms.stakeAmount \in Nat /\ terms.feeAmount \in Nat
         /\ terms.lockExpiresAt \in Nat /\ terms.lockExpiresAt >= now
<1>1. /\ terms.tag \in CycleTag /\ terms.stakeAmount \in Amount
      /\ terms.feeAmount \in Fee /\ terms.lockExpiresAt \in now .. MaxTime
  BY DEF Terms
<1>2. Amount \subseteq Nat /\ Fee \subseteq Nat /\ MaxTime \in Nat
  BY CycleAssumption DEF CycleAssumption
<1>3. terms.lockExpiresAt \in Nat /\ terms.lockExpiresAt >= now
  <2> DEFINE t == terms.lockExpiresAt
  <2>1. t \in now .. MaxTime
    BY <1>1
  <2> HIDE DEF t
  <2>2. t \in Nat /\ t >= now
    BY <1>2, <2>1, SMT
  <2>3. QED BY <2>2 DEF t
<1>4. QED BY <1>1, <1>2, <1>3

\* What the store holds is an absent contract, an entitlement or a stake.
LEMMA ContractTypes ==
  ASSUME TypeOK, NEW c \in Cid
  PROVE  /\ IsEntitlement(c) => contract[c] \in PlayerEntitlement
         /\ IsStake(c) => contract[c] \in GameStake
         /\ Active(c) <=> IsEntitlement(c) \/ IsStake(c)
         /\ ~(IsEntitlement(c) /\ IsStake(c))
BY DEF TypeOK, IsEntitlement, IsStake, Active, NoContract, PlayerEntitlement, GameStake

\* A stake opened by terms is typed.
LEMMA StakeOfTypes ==
  ASSUME now \in Nat, NEW e \in PlayerEntitlement, NEW terms \in Terms
  PROVE  StakeOf(e, terms) \in GameStake
BY TermsTypes DEF StakeOf, GameStake, PlayerEntitlement

\* The slot a closed stake gives back is typed.
LEMMA RecycledTypes ==
  ASSUME NEW s \in GameStake, NEW counted \in BOOLEAN, NEW nextAt \in Int
  PROVE  RecycledEntitlement(s, counted, nextAt) \in PlayerEntitlement
BY DEF RecycledEntitlement, PlayerEntitlement, GameStake

\* Ledger time plus a duration is a number.
LEMMA AddSecondsType ==
  ASSUME NEW t \in Int, NEW s \in Int
  PROVE  AddSeconds(t, s) \in Int
<1>1. TicksPerSecond \in Int
  BY TicksPerSecondAssumption DEF TicksPerSecondAssumption
<1>2. QED BY <1>1 DEF AddSeconds

\* The venue's contract stays typed and its policy accepted.
LEMMA VenueTyped ==
  ASSUME TypeOK, [Next]_vars
  PROVE  /\ now' \in 0 .. MaxTime
         /\ venue' \in [roster : BOOLEAN, policy : Policies, auditor : Observer]
         /\ EnsureVenue(venue'.policy)
<1> USE DEF TypeOK
<1>1. CASE UNCHANGED vars
  BY <1>1 DEF vars
<1>2. CASE Tick
  BY <1>2, CycleAssumption DEF Tick, CycleAssumption
<1>3. CASE VenueStep
  <2>1. CASE InitRoster
    BY <2>1 DEF InitRoster
  <2>2. ASSUME NEW batch \in SUBSET Player, IssueEntitlements(batch)
        PROVE  UNCHANGED <<now, venue>>
    BY <2>2 DEF IssueEntitlements
  <2>3. ASSUME NEW p \in Policies, UpdatePolicy(p)
        PROVE  /\ now' = now /\ EnsureVenue(venue'.policy)
               /\ venue' \in [roster : BOOLEAN, policy : Policies, auditor : Observer]
    BY <2>3 DEF UpdatePolicy
  <2>4. ASSUME NEW a \in Observer, SetAuditor(a)
        PROVE  /\ now' = now /\ EnsureVenue(venue'.policy)
               /\ venue' \in [roster : BOOLEAN, policy : Policies, auditor : Observer]
    BY <2>4 DEF SetAuditor
  <2>5. QED BY <1>3, <2>1, <2>2, <2>3, <2>4 DEF VenueStep
<1>4. CASE CommitStep
  BY <1>4 DEF CommitStep, CommitFunded, CommitUnfunded, Commit
<1>5. CASE SettleStep
  BY <1>5 DEF SettleStep, SettleAndUnlock, SettleKeepingLock, SettleUnproved, Settle, Recycle
<1>6. CASE ExitStep
  BY <1>6 DEF ExitStep, AbortCycle, ExpireCycle, ExpireAndRecover, Abort,
              ExpireUnsettled, Recycle, Revoke, Retire
<1>7. CASE LockStep
  BY <1>7 DEF LockStep, LockSeparately, UnlockSeparately, RecoverLock
<1>8. CASE DirectStep
  BY <1>8 DEF DirectStep, CreateEntitlement, CreateStake
<1>9. QED
  BY <1>1, <1>2, <1>3, <1>4, <1>5, <1>6, <1>7, <1>8 DEF Next

\* Issuing keeps the store typed.
LEMMA IssueTyped ==
  ASSUME TypeOK, IssueStep
  PROVE  /\ registered' \subseteq Player /\ used' \subseteq CycleTag
         /\ contract' \in [Cid -> {NoContract} \cup PlayerEntitlement \cup GameStake]
<1>1. PICK batch \in SUBSET Player : IssueEntitlements(batch)
  BY DEF IssueStep
<1>2. NewEntitlement \in PlayerEntitlement
  BY CycleAssumption
  DEF TypeOK, NewEntitlement, PlayerEntitlement, CycleAssumption, Issued, Claim
<1>3. QED
  BY <1>1, <1>2 DEF TypeOK, IssueEntitlements, Registry!Register

\* Commitments keep the store typed.
LEMMA OpenTyped ==
  ASSUME TypeOK, OpenStep
  PROVE  /\ registered' \subseteq Player /\ used' \subseteq CycleTag
         /\ contract' \in [Cid -> {NoContract} \cup PlayerEntitlement \cup GameStake]
<1>1. PICK c \in Cid, terms \in Terms : Commit(c, terms)
  BY DEF OpenStep
<1>2. now \in Nat
  BY CycleAssumption DEF TypeOK, CycleAssumption
<1>3. contract[c] \in PlayerEntitlement
  BY <1>1, ContractTypes DEF Commit
<1>4. StakeOf(contract[c], terms) \in GameStake
  BY <1>2, <1>3, StakeOfTypes
<1>5. terms.tag \in CycleTag
  BY <1>2, TermsTypes
<1>6. QED BY <1>1, <1>4, <1>5 DEF TypeOK, Commit

\* Closing a cycle is recycling its stake, counted or not, to a time that is
\* given by the choice.
LEMMA CloseCases ==
  ASSUME TypeOK, CloseStep
  PROVE  \E c \in Cid, counted \in BOOLEAN, nextAt \in Int :
           /\ IsStake(c) /\ Recycle(c, counted, nextAt)
           /\ counted => /\ \E ref \in LockId \cup {NoRef}, outcome \in Outcome :
                              Settle(c, ref, outcome)
                         /\ nextAt = AddSeconds(now, contract[c].policy.cooldownSeconds)
           /\ ~counted =>
                \/ nextAt = AddSeconds(now, contract[c].policy.abortCooldownSeconds)
                \/ nextAt = now
<1>0. now \in Int
  BY CycleAssumption DEF TypeOK, CycleAssumption
<1>1. PICK c \in Cid :
        \/ \E ref \in LockId \cup {NoRef}, outcome \in Outcome : Settle(c, ref, outcome)
        \/ \E ref \in LockId \cup {NoRef} : Abort(c, ref)
        \/ ExpireUnsettled(c)
  BY DEF CloseStep
<1>2. IsStake(c)
  BY <1>1 DEF Settle, Abort, ExpireUnsettled
<1>3. contract[c].policy \in Policies
  BY <1>2, ContractTypes DEF GameStake
<1>4. /\ AddSeconds(now, contract[c].policy.cooldownSeconds) \in Int
      /\ AddSeconds(now, contract[c].policy.abortCooldownSeconds) \in Int
  BY <1>0, <1>3, PolicyTypes, AddSecondsType
<1>5. ASSUME NEW ref \in LockId \cup {NoRef}, NEW outcome \in Outcome,
             Settle(c, ref, outcome)
      PROVE  Recycle(c, TRUE, AddSeconds(now, contract[c].policy.cooldownSeconds))
  BY <1>5 DEF Settle
<1>6. ASSUME NEW ref \in LockId \cup {NoRef}, Abort(c, ref)
      PROVE  Recycle(c, FALSE, AddSeconds(now, contract[c].policy.abortCooldownSeconds))
  BY <1>6 DEF Abort
<1>7. ASSUME ExpireUnsettled(c)
      PROVE  Recycle(c, FALSE, now)
  BY <1>7 DEF ExpireUnsettled
<1>8. QED BY <1>0, <1>1, <1>2, <1>4, <1>5, <1>6, <1>7

\* Closings keep the store typed.
LEMMA CloseTyped ==
  ASSUME TypeOK, CloseStep
  PROVE  /\ registered' \subseteq Player /\ used' \subseteq CycleTag
         /\ contract' \in [Cid -> {NoContract} \cup PlayerEntitlement \cup GameStake]
<1>1. PICK c \in Cid, counted \in BOOLEAN, nextAt \in Int :
        IsStake(c) /\ Recycle(c, counted, nextAt)
  BY CloseCases
<1>2. RecycledEntitlement(contract[c], counted, nextAt) \in PlayerEntitlement
  BY <1>1, ContractTypes, RecycledTypes
<1>3. QED BY <1>1, <1>2 DEF TypeOK, Recycle

\* A direct creation puts a contract in a free place: a typed one that carries
\* the claim of its signatories as made now.
LEMMA DirectEffect ==
  ASSUME TypeOK, DirectStep
  PROVE  \E c \in Cid, v \in PlayerEntitlement \cup GameStake :
           /\ DirectCreation /\ ~Active(c)
           /\ contract' = [contract EXCEPT ![c] = v]
           /\ v.claim.direct /\ v.claim.at = now
           /\ v.kind = "entitlement" => v.cyclesCompleted = v.claim.cycles
           /\ v.kind = "stake" => v.cyclesCompletedBefore = v.claim.cycles
           /\ now' = now /\ registered' = registered /\ used' \subseteq CycleTag
<1>1. PICK c \in Cid, p \in Policies, cycles \in Claims, staked \in Claims,
           at \in 0 .. MaxTime, auditor \in Observer :
        \/ CreateEntitlement(c, p, cycles, staked, at, auditor)
        \/ \E tag \in CycleTag, stake \in Amount, fee \in Fee, expiresAt \in 0 .. MaxTime :
             CreateStake(c, FreeStake(p, at, cycles, staked, auditor, tag, stake, fee, expiresAt))
  BY DEF DirectStep
<1>2. /\ now \in Nat /\ cycles \in Int /\ staked \in Int /\ at \in Nat
      /\ Amount \subseteq Nat /\ Fee \subseteq Nat /\ MaxTime \in Nat
  BY CycleAssumption DEF TypeOK, CycleAssumption
<1>3. ClaimedNow(cycles) \in Claim
  BY <1>2 DEF ClaimedNow, Claim
<1>4. CASE CreateEntitlement(c, p, cycles, staked, at, auditor)
  <2> DEFINE v == [ kind |-> "entitlement", policy |-> p, nextEligibleAt |-> at,
                    cyclesCompleted |-> cycles, lifetimeStaked |-> staked,
                    auditor |-> auditor, claim |-> ClaimedNow(cycles) ]
  <2>1. v \in PlayerEntitlement
    BY <1>2, <1>3 DEF PlayerEntitlement
  <2>2. v.claim.direct /\ v.claim.at = now /\ v.claim.cycles = cycles
    BY DEF ClaimedNow
  <2>3. contract' = [contract EXCEPT ![c] = v]
    BY <1>4 DEF CreateEntitlement
  <2>4. v.kind = "entitlement" /\ v.cyclesCompleted = cycles
    OBVIOUS
  <2> HIDE DEF v
  <2>5. QED BY <1>4, <2>1, <2>2, <2>3, <2>4 DEF CreateEntitlement, TypeOK
<1>5. ASSUME NEW tag \in CycleTag, NEW stake \in Amount, NEW fee \in Fee,
             NEW expiresAt \in 0 .. MaxTime,
             CreateStake(c, FreeStake(p, at, cycles, staked, auditor, tag, stake, fee, expiresAt))
      PROVE  \E v \in GameStake :
               /\ v.kind = "stake" /\ CreateStake(c, v)
               /\ v.claim.direct /\ v.claim.at = now
               /\ v.cyclesCompletedBefore = v.claim.cycles
  <2> DEFINE v == FreeStake(p, at, cycles, staked, auditor, tag, stake, fee, expiresAt)
  <2>1. v \in GameStake
    BY <1>2, <1>3 DEF FreeStake, GameStake
  <2>2. /\ v.kind = "stake" /\ v.claim.direct /\ v.claim.at = now
        /\ v.cyclesCompletedBefore = v.claim.cycles
    BY DEF FreeStake, ClaimedNow
  <2> HIDE DEF v
  <2>3. QED BY <1>5, <2>1, <2>2 DEF v
<1>6. ASSUME NEW v \in GameStake, CreateStake(c, v)
      PROVE  /\ DirectCreation /\ ~Active(c)
             /\ contract' = [contract EXCEPT ![c] = v]
             /\ now' = now /\ registered' = registered /\ used' \subseteq CycleTag
  BY <1>6 DEF CreateStake, TypeOK, GameStake
<1>7. QED BY <1>1, <1>4, <1>5, <1>6

\* Direct creations keep the store typed.
LEMMA CreateTyped ==
  ASSUME TypeOK, DirectStep
  PROVE  /\ registered' \subseteq Player /\ used' \subseteq CycleTag
         /\ contract' \in [Cid -> {NoContract} \cup PlayerEntitlement \cup GameStake]
BY DirectEffect DEF TypeOK

\* Locks stay typed: a lock is created in full and afterwards only released
\* or counted as shown.
LEMMA LockTyped ==
  ASSUME TypeOK, [Next]_vars
  PROVE  lock' \in [LockId -> {Unborn} \cup LockedHolding]
<1>0. lock \in [LockId -> {Unborn} \cup LockedHolding] /\ now \in Nat /\ Amount \subseteq Nat
  BY CycleAssumption DEF TypeOK, CycleAssumption
<1>1. ASSUME NEW l \in LockId, NEW owner \in Player, NEW amount \in Nat,
             NEW expiresAt \in Nat, NEW tag \in CycleTag, NEW h \in BOOLEAN,
             CreateLock(l, owner, amount, expiresAt, tag, h)
      PROVE  lock' \in [LockId -> {Unborn} \cup LockedHolding]
  BY <1>0, <1>1 DEF CreateLock, LockedHolding
<1>2. ASSUME NEW l \in LockId, lock[l].state = "held"
      PROVE  /\ [lock EXCEPT ![l].state = "released"]
                  \in [LockId -> {Unborn} \cup LockedHolding]
             /\ [lock EXCEPT ![l].proofs = @ + 1]
                  \in [LockId -> {Unborn} \cup LockedHolding]
             /\ [lock EXCEPT ![l].state = "released", ![l].proofs = @ + 1]
                  \in [LockId -> {Unborn} \cup LockedHolding]
  <2>1. lock[l] \in LockedHolding
    BY <1>0, <1>2 DEF Unborn
  <2>2. [lock[l] EXCEPT !.state = "released"] \in LockedHolding
    BY <2>1 DEF LockedHolding
  <2>3. lock[l].proofs + 1 \in Nat
    BY <2>1 DEF LockedHolding
  <2>4. [lock[l] EXCEPT !.proofs = @ + 1] \in LockedHolding
    BY <2>1, <2>3 DEF LockedHolding
  <2>5. [lock[l] EXCEPT !.state = "released", !.proofs = @ + 1] \in LockedHolding
    BY <2>1, <2>3 DEF LockedHolding
  <2>6. [lock EXCEPT ![l].state = "released", ![l].proofs = @ + 1]
          = [lock EXCEPT ![l] = [lock[l] EXCEPT !.state = "released", !.proofs = @ + 1]]
    BY <1>0
  <2>7. QED BY <1>0, <2>2, <2>4, <2>5, <2>6
<1>3. CASE UNCHANGED lock
  BY <1>0, <1>3
<1>4. CASE CommitStep
  <2>1. PICK c \in Cid, terms \in Terms :
          (\E l \in LockId : CommitFunded(c, terms, l)) \/ CommitUnfunded(c, terms)
    BY <1>4 DEF CommitStep
  <2>2. Who(c) \in Player
    BY DEF Cid, Who
  <2>3. QED
    BY <1>0, <1>1, <2>1, <2>2, TermsTypes DEF CommitFunded, CommitUnfunded
<1>5. CASE SettleStep
  <2>1. PICK c \in Cid, outcome \in Outcome :
          \/ \E l \in LockId : SettleAndUnlock(c, l, outcome) \/ SettleKeepingLock(c, l, outcome)
          \/ SettleUnproved(c, outcome)
    BY <1>5 DEF SettleStep
  <2>2. ASSUME NEW l \in LockId, Settle(c, l, outcome)
        PROVE  lock[l].state = "held"
    BY <2>2 DEF Settle, VerifyCustody, VerifyLockedHolding
  <2>3. QED
    BY <1>0, <1>2, <2>1, <2>2 DEF SettleAndUnlock, SettleKeepingLock, SettleUnproved
<1>6. CASE ExitStep
  <2>1. CASE UNCHANGED lock
    BY <1>0, <2>1
  <2>2. ASSUME NEW l \in LockId, OwnerExpireLock(l)
        PROVE  lock' \in [LockId -> {Unborn} \cup LockedHolding]
    BY <1>2, <2>2 DEF OwnerExpireLock
  <2>3. QED
    BY <1>6, <2>1, <2>2 DEF ExitStep, AbortCycle, ExpireCycle, ExpireAndRecover, Revoke, Retire
<1>7. CASE LockStep
  <2>1. ASSUME NEW l \in LockId, NEW c \in Cid, NEW owner \in Player,
               NEW amount \in Amount, NEW tag \in CycleTag, NEW h \in BOOLEAN,
               LockSeparately(l, c, owner, amount, tag, h)
        PROVE  lock' \in [LockId -> {Unborn} \cup LockedHolding]
    <3>1. contract[c] \in GameStake
      BY <2>1, ContractTypes DEF LockSeparately
    <3>2. contract[c].lockExpiresAt \in Nat
      BY <3>1 DEF GameStake
    <3>3. QED BY <1>0, <1>1, <2>1, <3>2 DEF LockSeparately
  <2>2. ASSUME NEW l \in LockId, UnlockSeparately(l) \/ RecoverLock(l)
        PROVE  lock' \in [LockId -> {Unborn} \cup LockedHolding]
    BY <1>2, <2>2 DEF UnlockSeparately, RecoverLock, Unlock, OwnerExpireLock
  <2>3. QED BY <1>7, <2>1, <2>2 DEF LockStep
<1>8. CASE Tick \/ VenueStep \/ DirectStep
  BY <1>0, <1>8 DEF Tick, VenueStep, InitRoster, IssueEntitlements, UpdatePolicy,
                    SetAuditor, DirectStep, CreateEntitlement, CreateStake
<1>9. QED
  BY <1>3, <1>4, <1>5, <1>6, <1>7, <1>8 DEF Next, vars

\* The store, the locks, the venue and the clock keep their types.
LEMMA TypeStep == TypeOK /\ [Next]_vars => TypeOK'
<1> SUFFICES ASSUME TypeOK, [Next]_vars PROVE TypeOK'
  OBVIOUS
<1>1. /\ registered' \subseteq Player /\ used' \subseteq CycleTag
      /\ contract' \in [Cid -> {NoContract} \cup PlayerEntitlement \cup GameStake]
  <2>1. CASE IdleStep
    BY <2>1 DEF IdleStep, TypeOK
  <2>2. CASE LeaveStep
    BY <2>2 DEF LeaveStep, Revoke, Retire, TypeOK
  <2>3. QED
    BY StepCases, IssueTyped, OpenTyped, CloseTyped, CreateTyped, <2>1, <2>2
<1>2. QED BY <1>1, VenueTyped, LockTyped DEF TypeOK

\* The initial state is typed.
LEMMA TypeInit == Init => TypeOK
<1> SUFFICES ASSUME Init PROVE TypeOK
  OBVIOUS
<1>1. venue.policy \in Policies /\ now = 0 /\ venue.auditor \in Observer
  BY DEF Init, Observer
<1>2. NewEntitlement \in PlayerEntitlement
  BY <1>1 DEF NewEntitlement, PlayerEntitlement, Issued, Claim
<1>3. 0 \in 0 .. MaxTime
  BY CycleAssumption DEF CycleAssumption
<1>4. QED BY <1>1, <1>2, <1>3 DEF Init, TypeOK, Observer, Registry!Init

\* The type invariant, for every instance: in particular the venue's policy
\* always satisfies the `ensure' of GameVenue, and a lock is never counted or
\* released before it exists (Cycle.daml 138-186).
THEOREM TypeCorrect == Spec => []TypeOK
<1>1. QED BY TypeInit, TypeStep, PTL DEF Spec

-----------------------------------------------------------------------------
(* The clock. *)

\* Ledger time is a natural number and never runs backwards.
LEMMA ClockStep ==
  ASSUME TypeOK, [Next]_vars
  PROVE  now \in Nat /\ now' \in Nat /\ now' >= now
<1>1. now \in Nat
  BY CycleAssumption DEF TypeOK, CycleAssumption
<1>2. CASE IdleStep
  BY <1>1, <1>2 DEF IdleStep
<1>3. CASE IssueStep \/ OpenStep \/ LeaveStep \/ DirectStep
  <2>1. IssueStep => UNCHANGED now
    BY DEF IssueStep, IssueEntitlements
  <2>2. OpenStep => UNCHANGED now
    BY DEF OpenStep, Commit
  <2>3. LeaveStep => UNCHANGED now
    BY DEF LeaveStep, Revoke, Retire
  <2>4. DirectStep => UNCHANGED now
    BY DirectEffect
  <2>5. QED BY <1>1, <1>3, <2>1, <2>2, <2>3, <2>4
<1>4. CASE CloseStep
  BY <1>1, <1>4, CloseCases DEF Recycle
<1>5. QED BY <1>2, <1>3, <1>4, StepCases

\* The ticks of a cycle are a number, under any policy.
LEMMA TicksPerCycleType ==
  ASSUME NEW p \in Policies
  PROVE  TicksPerCycle(p) \in Int
BY PolicyTypes, TicksPerSecondAssumption DEF TicksPerCycle, TicksPerSecondAssumption

-----------------------------------------------------------------------------
(* The throughput of a slot.  An issued slot and one that was created      *)
(* directly obey one bound: it counts the cycles gained since the claim,   *)
(* of which a direct creation has one free of charge.                      *)

\* The cycles an entitlement or a stake has gained since its claim, and the time
\* it carries.
GainedBy(e) ==
  (IF e.kind = "entitlement" THEN e.cyclesCompleted ELSE e.cyclesCompletedBefore)
    - e.claim.cycles
TimeOf(e) == IF e.kind = "entitlement" THEN e.nextEligibleAt ELSE e.committedAt

\* The bound binds issued slots from the start, others from the first cycle on.
Bound(e) == ~e.claim.direct \/ GainedBy(e) > 0

Earliest(e) ==
  e.claim.at + (GainedBy(e) - (IF e.claim.direct THEN 1 ELSE 0)) * TicksPerCycle(e.policy)

\* A contract keeps pace with a clock that shows t.
Paced(e, t) ==
  /\ ~e.claim.direct => e.claim = Issued
  /\ e.claim.at <= t /\ GainedBy(e) >= 0
  /\ Bound(e) => TimeOf(e) >= Earliest(e)
  /\ Bound(e) /\ e.kind = "stake" => e.committedAt <= t

RateInv == \A c \in Cid : Active(c) => Paced(contract[c], now)

\* The times and counts of a contract are numbers.
LEMMA PaceTypes ==
  ASSUME NEW e \in PlayerEntitlement \cup GameStake
  PROVE  /\ e.policy \in Policies /\ TicksPerCycle(e.policy) \in Int
         /\ e.claim.direct \in BOOLEAN /\ e.claim.at \in Nat /\ e.claim.cycles \in Int
         /\ GainedBy(e) \in Int /\ TimeOf(e) \in Int /\ Earliest(e) \in Int
         /\ e.kind \in {"entitlement", "stake"}
         /\ e.kind = "stake" => e \in GameStake
<1>1. /\ e.policy \in Policies /\ e.claim \in Claim /\ e.kind \in {"entitlement", "stake"}
      /\ e.kind = "entitlement" => e.cyclesCompleted \in Int /\ e.nextEligibleAt \in Int
      /\ e.kind = "stake" => /\ e \in GameStake
                             /\ e.cyclesCompletedBefore \in Int /\ e.committedAt \in Int
  BY DEF PlayerEntitlement, GameStake
<1>2. TicksPerCycle(e.policy) \in Int
  BY <1>1, TicksPerCycleType
<1>3. e.claim.direct \in BOOLEAN /\ e.claim.at \in Nat /\ e.claim.cycles \in Int
  BY <1>1 DEF Claim
<1>4. GainedBy(e) \in Int /\ TimeOf(e) \in Int
  BY <1>1, <1>3 DEF GainedBy, TimeOf
<1> DEFINE lead == GainedBy(e) - (IF e.claim.direct THEN 1 ELSE 0)
<1>5. lead \in Int
  BY <1>3, <1>4
<1>6. Earliest(e) = e.claim.at + lead * TicksPerCycle(e.policy)
  BY DEF Earliest
<1> HIDE DEF lead
<1>7. Earliest(e) \in Int
  BY <1>2, <1>3, <1>5, <1>6
<1>8. QED BY <1>1, <1>2, <1>3, <1>4, <1>7

\* One counted cycle adds its ticks to what went before; the slot is free no
\* earlier than they have passed.
LEMMA CountedCycleTakesTime ==
  ASSUME NEW p \in Policies, NEW f \in Int, NEW a \in Nat, NEW b \in Nat,
         a >= f, SecondsBetween(a, b) >= p.minCycleSeconds
  PROVE  AddSeconds(b, p.cooldownSeconds) >= f + TicksPerCycle(p)
<1> DEFINE m == p.minCycleSeconds * TicksPerSecond - (TicksPerSecond - 1)
           d == p.cooldownSeconds * TicksPerSecond
<1>1. TicksPerSecond \in Int /\ p.minCycleSeconds \in Int /\ p.cooldownSeconds \in Int
  BY PolicyTypes, TicksPerSecondAssumption DEF TicksPerSecondAssumption
<1>2. m \in Int /\ d \in Int
  BY <1>1
<1>3. b - a >= m
  BY <1>1, SecondsElapsed
<1>4. TicksPerCycle(p) = m + d
  BY DEF TicksPerCycle
<1>5. AddSeconds(b, p.cooldownSeconds) = b + d
  BY DEF AddSeconds
<1> HIDE DEF m, d
<1>6. QED BY <1>2, <1>3, <1>4, <1>5

\* A cooldown that is not negative never moves a time back.
LEMMA CooldownDelays ==
  ASSUME NEW t \in Nat, NEW s \in Int, s >= 0
  PROVE  AddSeconds(t, s) >= t
<1>1. TicksPerSecond \in Nat
  BY TicksPerSecondAssumption DEF TicksPerSecondAssumption
<1>2. s * TicksPerSecond >= 0
  BY <1>1
<1>3. QED BY <1>1, <1>2 DEF AddSeconds

\* A slot that is issued keeps pace with any clock.
LEMMA NewPaced ==
  ASSUME now \in Nat, venue.policy \in Policies
  PROVE  Paced(NewEntitlement, now)
<1>1. TicksPerCycle(venue.policy) \in Int
  BY TicksPerCycleType
<1>2. /\ GainedBy(NewEntitlement) = 0 /\ TimeOf(NewEntitlement) = now
      /\ NewEntitlement.claim = Issued /\ NewEntitlement.policy = venue.policy
      /\ NewEntitlement.kind = "entitlement" /\ ~Issued.direct /\ Issued.at = 0
  BY DEF GainedBy, TimeOf, NewEntitlement, Issued
<1>3. Earliest(NewEntitlement) = 0 + (0 - 0) * TicksPerCycle(venue.policy)
  BY <1>2 DEF Earliest
<1>4. QED BY <1>1, <1>2, <1>3 DEF Paced

\* What keeps pace with the clock does so when the clock has moved on.
LEMMA StillPaced ==
  ASSUME NEW e \in PlayerEntitlement \cup GameStake, NEW t \in Nat, NEW u \in Nat,
         t <= u, Paced(e, t)
  PROVE  Paced(e, u)
<1>1. e.claim.at \in Nat /\ (e.kind = "stake" => e.committedAt \in Nat)
  BY PaceTypes DEF GameStake
<1>2. QED BY <1>1 DEF Paced

\* A commitment takes over the count of its slot, at or after the time the slot
\* was free.
LEMMA StakePaced ==
  ASSUME now \in Nat, NEW e \in PlayerEntitlement, NEW terms \in Terms,
         now >= e.nextEligibleAt, Paced(e, now)
  PROVE  Paced(StakeOf(e, terms), now)
<1> DEFINE s == StakeOf(e, terms)
<1>1. /\ s.kind = "stake" /\ s.policy = e.policy /\ s.claim = e.claim
      /\ s.cyclesCompletedBefore = e.cyclesCompleted /\ s.committedAt = now
  BY DEF StakeOf
<1>2. e.kind = "entitlement" /\ e.nextEligibleAt \in Int
  BY DEF PlayerEntitlement
<1> HIDE DEF s
<1>3. GainedBy(s) = GainedBy(e)
  BY <1>1, <1>2 DEF GainedBy
<1>4. Earliest(s) = Earliest(e) /\ (Bound(s) <=> Bound(e))
  BY <1>1, <1>3 DEF Earliest, Bound
<1>5. TimeOf(s) = now /\ TimeOf(e) = e.nextEligibleAt /\ Earliest(e) \in Int
  BY <1>1, <1>2, PaceTypes DEF TimeOf
<1>6. Bound(e) => now >= Earliest(e)
  BY <1>2, <1>5 DEF Paced
<1>7. QED BY <1>1, <1>3, <1>4, <1>5, <1>6 DEF Paced, s

\* A closed cycle gives back a slot that keeps pace: a counted one has taken its
\* ticks, or is the one a direct creation has free of charge.
LEMMA RecycledPaced ==
  ASSUME now \in Nat, NEW s \in GameStake, Paced(s, now),
         NEW counted \in BOOLEAN, NEW nextAt \in Int, nextAt >= now,
         counted => /\ SecondsBetween(s.committedAt, now) >= s.policy.minCycleSeconds
                    /\ nextAt = AddSeconds(now, s.policy.cooldownSeconds)
  PROVE  Paced(RecycledEntitlement(s, counted, nextAt), now)
<1> DEFINE e == RecycledEntitlement(s, counted, nextAt)
           k == TicksPerCycle(s.policy)
           gain == IF counted THEN 1 ELSE 0
           free == IF s.claim.direct THEN 1 ELSE 0
<1>1. /\ e.kind = "entitlement" /\ e.policy = s.policy /\ e.claim = s.claim
      /\ e.cyclesCompleted = s.cyclesCompletedBefore + gain /\ e.nextEligibleAt = nextAt
  BY DEF RecycledEntitlement
<1>2. /\ s.kind = "stake" /\ s.committedAt \in Nat /\ s.policy \in Policies
      /\ s.cyclesCompletedBefore \in Int
  BY DEF GameStake
<1>3. /\ k \in Int /\ s.claim.at \in Nat /\ s.claim.cycles \in Int
      /\ s.claim.direct \in BOOLEAN /\ GainedBy(s) \in Int /\ Earliest(s) \in Int
  BY PaceTypes
<1>4. gain \in 0 .. 1 /\ free \in 0 .. 1
  OBVIOUS
<1> HIDE DEF e
<1>5. GainedBy(e) = GainedBy(s) + gain
  <2> HIDE DEF gain
  <2>1. QED BY <1>1, <1>2, <1>3, <1>4 DEF GainedBy
<1>6. /\ Earliest(s) = s.claim.at + (GainedBy(s) - free) * k
      /\ Earliest(e) = s.claim.at + (GainedBy(e) - free) * k
  BY <1>1 DEF Earliest
<1>7. TimeOf(e) = nextAt
  BY <1>1 DEF TimeOf
<1>8. /\ ~s.claim.direct => s.claim = Issued
      /\ s.claim.at <= now /\ GainedBy(s) >= 0
      /\ Bound(s) => s.committedAt >= Earliest(s) /\ s.committedAt <= now
  BY <1>2 DEF Paced, TimeOf
<1>9. ASSUME Bound(e) PROVE nextAt >= Earliest(e)
  <2>1. CASE counted /\ Bound(s)
    <3>1. nextAt >= Earliest(s) + k
      BY <1>2, <1>3, <1>8, <2>1, CountedCycleTakesTime
    <3> HIDE DEF k, free, gain
    <3>2. GainedBy(e) = GainedBy(s) + 1
      BY <1>5, <2>1 DEF gain
    <3> DEFINE g == GainedBy(s) - free
               x == g * k
    <3>3. g \in Int
      BY <1>3, <1>4
    <3>4. GainedBy(e) - free = g + 1
      BY <1>3, <1>4, <3>2
    <3>5. Earliest(s) = s.claim.at + x /\ Earliest(e) = s.claim.at + (g + 1) * k
      BY <1>6, <3>4
    <3> HIDE DEF g
    <3>6. (g + 1) * k = x + k /\ x \in Int
      BY <1>3, <3>3
    <3> HIDE DEF x
    <3>7. QED BY <1>3, <3>1, <3>5, <3>6
  <2>2. CASE counted /\ ~Bound(s)
    <3>1. GainedBy(s) = 0 /\ free = 1
      BY <1>3, <1>8, <2>2 DEF Bound
    <3>2. GainedBy(e) - free = 0
      BY <1>5, <2>2, <3>1
    <3> HIDE DEF k, free, gain
    <3>3. Earliest(e) = s.claim.at
      BY <1>3, <1>6, <3>2
    <3>4. QED BY <1>3, <1>8, <3>3
  <2>3. CASE ~counted
    <3>1. GainedBy(e) = GainedBy(s)
      BY <1>3, <1>5, <2>3
    <3>2. Bound(s) /\ Earliest(e) = Earliest(s)
      BY <1>1, <1>6, <1>9, <3>1 DEF Bound
    <3>3. QED BY <1>2, <1>3, <1>8, <3>2
  <2>4. QED BY <2>1, <2>2, <2>3
<1>10. GainedBy(e) >= 0
  BY <1>3, <1>4, <1>5, <1>8
<1>11. QED BY <1>1, <1>7, <1>8, <1>9, <1>10 DEF Paced, e

\* A contract that was created directly has gained nothing yet.
LEMMA ClaimPaced ==
  ASSUME now \in Nat, NEW v \in PlayerEntitlement \cup GameStake,
         v.claim.direct, v.claim.at = now,
         v.kind = "entitlement" => v.cyclesCompleted = v.claim.cycles,
         v.kind = "stake" => v.cyclesCompletedBefore = v.claim.cycles
  PROVE  Paced(v, now)
<1>1. v.kind \in {"entitlement", "stake"} /\ v.claim.cycles \in Int
  BY PaceTypes
<1>2. GainedBy(v) = 0
  BY <1>1 DEF GainedBy
<1>3. QED BY <1>2 DEF Paced, Bound

\* No slot starts ahead of the clock.
LEMMA RateInit == Init => RateInv
<1> SUFFICES ASSUME Init, NEW c \in Cid, Active(c) PROVE Paced(contract[c], now)
  BY DEF RateInv
<1>1. contract[c] = NewEntitlement
  BY DEF Init, Active, NoContract
<1>2. venue.policy \in Policies /\ now \in Nat
  BY DEF Init
<1>3. QED BY <1>1, <1>2, NewPaced

\* Issuing, opening, closing, leaving and creating keep every slot behind the
\* clock.
LEMMA RateStep == TypeOK /\ RateInv /\ [Next]_vars => RateInv'
<1> SUFFICES ASSUME TypeOK, RateInv, [Next]_vars, NEW c \in Cid, Active(c)'
             PROVE  Paced(contract'[c], now')
  BY DEF RateInv
<1> DEFINE Store == PlayerEntitlement \cup GameStake
<1>0. now \in Nat /\ now' \in Nat /\ now' >= now
  BY ClockStep
<1>1. Active(c) => contract[c] \in Store /\ Paced(contract[c], now)
  BY ContractTypes DEF RateInv
<1>2. contract'[c] = contract[c] => Paced(contract'[c], now')
  BY <1>0, <1>1, StillPaced DEF Active
<1>3. ASSUME NEW d \in Cid, NEW v \in Store, contract' = [contract EXCEPT ![d] = v],
             Paced(v, now)
      PROVE  Paced(contract'[c], now')
  <2>1. CASE c = d
    <3>1. contract'[c] = v
      BY <1>3, <2>1 DEF TypeOK
    <3> HIDE DEF Store
    <3>2. Paced(v, now')
      BY <1>0, <1>3, StillPaced DEF Store
    <3>3. QED BY <3>1, <3>2
  <2>2. CASE c # d
    BY <1>2, <1>3, <2>2 DEF TypeOK
  <2>3. QED BY <2>1, <2>2
<1>4. CASE IdleStep
  BY <1>2, <1>4 DEF IdleStep
<1>5. CASE IssueStep
  <2>1. PICK batch \in SUBSET Player : IssueEntitlements(batch)
    BY <1>5 DEF IssueStep
  <2>2. contract'[c] = NewEntitlement \/ contract'[c] = contract[c]
    BY <2>1 DEF IssueEntitlements
  <2>3. now' = now /\ venue.policy \in Policies
    BY <2>1 DEF IssueEntitlements, TypeOK
  <2>4. QED BY <1>0, <1>2, <2>2, <2>3, NewPaced
<1>6. CASE OpenStep
  <2>1. PICK d \in Cid, terms \in Terms : Commit(d, terms)
    BY <1>6 DEF OpenStep
  <2>2. contract[d] \in PlayerEntitlement /\ now >= contract[d].nextEligibleAt /\ Active(d)
    BY <2>1, ContractTypes DEF Commit
  <2>3. Paced(contract[d], now)
    BY <2>2 DEF RateInv
  <2>4. StakeOf(contract[d], terms) \in GameStake /\ Paced(StakeOf(contract[d], terms), now)
    BY <1>0, <2>2, <2>3, StakeOfTypes, StakePaced
  <2>5. contract' = [contract EXCEPT ![d] = StakeOf(contract[d], terms)]
    BY <2>1 DEF Commit
  <2>6. QED BY <1>3, <2>4, <2>5
<1>7. CASE CloseStep
  <2>1. PICK d \in Cid, counted \in BOOLEAN, nextAt \in Int :
           /\ IsStake(d) /\ Recycle(d, counted, nextAt)
           /\ counted => /\ \E ref \in LockId \cup {NoRef}, outcome \in Outcome :
                              Settle(d, ref, outcome)
                         /\ nextAt = AddSeconds(now, contract[d].policy.cooldownSeconds)
           /\ ~counted =>
                \/ nextAt = AddSeconds(now, contract[d].policy.abortCooldownSeconds)
                \/ nextAt = now
    BY <1>7, CloseCases
  <2>2. contract[d] \in GameStake /\ Active(d)
    BY <2>1, ContractTypes
  <2>3. Paced(contract[d], now)
    BY <2>2 DEF RateInv
  <2>4. counted => SecondsBetween(contract[d].committedAt, now)
                     >= contract[d].policy.minCycleSeconds
    BY <2>1 DEF Settle
  <2>5. contract[d].policy \in Policies
    BY <2>2 DEF GameStake
  <2>6. /\ contract[d].policy.cooldownSeconds \in Int
        /\ contract[d].policy.abortCooldownSeconds \in Int
        /\ contract[d].policy.cooldownSeconds >= 0
        /\ contract[d].policy.abortCooldownSeconds >= 0
    BY <2>1, <2>5, PolicyTypes DEF Recycle, EnsureEntitlement, ValidPolicy
  <2>7. nextAt >= now
    BY <1>0, <2>1, <2>6, CooldownDelays
  <2>8. /\ RecycledEntitlement(contract[d], counted, nextAt) \in PlayerEntitlement
        /\ Paced(RecycledEntitlement(contract[d], counted, nextAt), now)
    BY <1>0, <2>1, <2>2, <2>3, <2>4, <2>7, RecycledTypes, RecycledPaced
  <2>9. contract' = [contract EXCEPT ![d] = RecycledEntitlement(contract[d], counted, nextAt)]
    BY <2>1 DEF Recycle
  <2>10. QED BY <1>3, <2>8, <2>9
<1>8. CASE LeaveStep
  <2>1. PICK d \in Cid : contract' = [contract EXCEPT ![d] = NoContract]
    BY <1>8 DEF LeaveStep, Revoke, Retire
  <2>2. contract'[c] = contract[c]
    BY <2>1 DEF TypeOK, Active, NoContract
  <2>3. QED BY <1>2, <2>2
<1>9. CASE DirectStep
  <2>1. PICK d \in Cid, v \in Store :
           /\ contract' = [contract EXCEPT ![d] = v]
           /\ v.claim.direct /\ v.claim.at = now
           /\ v.kind = "entitlement" => v.cyclesCompleted = v.claim.cycles
           /\ v.kind = "stake" => v.cyclesCompletedBefore = v.claim.cycles
    BY <1>9, DirectEffect
  <2>2. Paced(v, now)
    BY <1>0, <2>1, ClaimPaced
  <2>3. QED BY <1>3, <2>1, <2>2
<1>10. QED BY <1>4, <1>5, <1>6, <1>7, <1>8, <1>9, StepCases

\* n counted cycles of one issued slot take at least n times the shortest cycle,
\* for every policy and every number of ticks per second, whatever aborts and
\* expiries lie between them and whatever contracts are created directly beside
\* it (Cycle.daml 354-380, 444-554).
THEOREM RateBounded == Spec => []CycleRateBounded
<1>1. TypeOK /\ RateInv => CycleRateBounded
  <2> SUFFICES ASSUME TypeOK, RateInv, NEW c \in Cid, Active(c), ~contract[c].claim.direct
               PROVE  /\ IsEntitlement(c) =>
                           contract[c].nextEligibleAt
                             >= contract[c].cyclesCompleted * TicksPerCycle(contract[c].policy)
                      /\ IsStake(c) =>
                           contract[c].committedAt
                             >= contract[c].cyclesCompletedBefore
                                  * TicksPerCycle(contract[c].policy)
    BY DEF CycleRateBounded
  <2> DEFINE e == contract[c]
             n == IF IsEntitlement(c) THEN e.cyclesCompleted ELSE e.cyclesCompletedBefore
  <2>1. Paced(e, now) /\ e.claim = Issued
    BY DEF RateInv, Paced
  <2>2. e \in PlayerEntitlement \cup GameStake
    BY ContractTypes
  <2>3. n \in Int /\ TicksPerCycle(e.policy) \in Int
    BY <2>2, ContractTypes, PaceTypes DEF PlayerEntitlement, GameStake
  <2>4. e.claim.at = 0 /\ GainedBy(e) = n - 0
    BY <2>1 DEF Issued, GainedBy, IsEntitlement
  <2> HIDE DEF n
  <2>5. Earliest(e) = 0 + (n - 0 - 0) * TicksPerCycle(e.policy)
    BY <2>4 DEF Earliest
  <2>6. Earliest(e) = n * TicksPerCycle(e.policy)
    BY <2>3, <2>5
  <2>7. TimeOf(e) >= n * TicksPerCycle(e.policy)
    BY <2>1, <2>6 DEF Paced, Bound
  <2>8. QED BY <2>7, ContractTypes DEF TimeOf, n, IsEntitlement, IsStake
<1>2. QED BY RateInit, RateStep, TypeCorrect, <1>1, PTL DEF Spec

\* A contract created without a choice gains one counted cycle at most over the
\* clock, whatever its signatories wrote into it (Cycle.daml 339-347, 421-441).
THEOREM CreatedBounded == Spec => []CreatedRateBounded
<1>1. TypeOK /\ RateInv => CreatedRateBounded
  <2> SUFFICES ASSUME TypeOK, RateInv, NEW c \in Cid, Active(c), contract[c].claim.direct,
                      Gained(c) > 0
               PROVE  LET earliest == contract[c].claim.at
                                        + (Gained(c) - 1) * TicksPerCycle(contract[c].policy)
                      IN  /\ IsEntitlement(c) => contract[c].nextEligibleAt >= earliest
                          /\ IsStake(c) => contract[c].committedAt >= earliest
    BY DEF CreatedRateBounded
  <2> DEFINE e == contract[c]
  <2>1. Paced(e, now) /\ GainedBy(e) = Gained(c)
    BY DEF RateInv, GainedBy, Gained, IsEntitlement
  <2>2. TimeOf(e) >= e.claim.at + (Gained(c) - 1) * TicksPerCycle(e.policy)
    BY <2>1 DEF Paced, Bound, Earliest
  <2>3. QED BY <2>2, ContractTypes DEF TimeOf, IsEntitlement, IsStake
<1>2. QED BY RateInit, RateStep, TypeCorrect, <1>1, PTL DEF Spec

-----------------------------------------------------------------------------
(* The slots of the cycle contracts: where a contract of the store comes   *)
(* from, what follows for the slot it stands for, and what a counted cycle *)
(* has to do with the locked holding that proves it.  The theorems assume  *)
(* that nobody creates contracts without a choice (~DirectCreation) and,   *)
(* where the roster matters, that it knows of every slot issued            *)
(* (Legacy = {}): without either the limit or the way out fails.  The last *)
(* part maps the slots to the abstract one: the initial states to its      *)
(* initial state, and every transaction to one of its steps or to none.    *)

\* The contracts that one accepted batch creates.
NewSlot(c, batch) ==
  /\ Who(c) \in batch /\ SlotIndex(c) < venue.policy.concurrencyLimit
  /\ c[3] = FreeCopy(Who(c), SlotIndex(c))

\* A batch creates its new slots and leaves every other contract alone.
LEMMA IssueEffect ==
  ASSUME NEW batch \in SUBSET Player, IssueEntitlements(batch), NEW c \in Cid
  PROVE  contract'[c] = IF NewSlot(c, batch) THEN NewEntitlement ELSE contract[c]
BY DEF IssueEntitlements, NewSlot

\* A new slot takes a place where no contract is in force.
LEMMA NewSlotIsFree ==
  ASSUME NEW batch \in SUBSET Player, IssueEntitlements(batch), NEW c \in Cid,
         NewSlot(c, batch)
  PROVE  ~Active(c)
<1>1. PICK p \in Player, i \in Index, n \in 1 .. Copies : c = <<p, i, n>>
  BY DEF Cid
<1>2. Who(c) = p /\ SlotIndex(c) = i /\ c[3] = n
  BY <1>1 DEF Who, SlotIndex
<1>3. \E k \in 1 .. Copies : ~Active(<<p, i, k>>)
  BY <1>2 DEF IssueEntitlements, NewSlot
<1>4. n = FreeCopy(p, i)
  BY <1>2 DEF NewSlot
<1>5. ~Active(<<p, i, n>>)
  BY <1>3, <1>4 DEF FreeCopy
<1>6. QED BY <1>1, <1>5

\* A contract in force was in force before, for the same slot and with the
\* same policy, or it is a new slot of an accepted batch.
LEMMA ContractOrigin ==
  ASSUME TypeOK, [Next]_vars, ~DirectCreation, NEW c \in Cid, Active(c)'
  PROVE  \/ Active(c) /\ contract'[c].policy = contract[c].policy /\ ~IssueStep
         \/ \E batch \in SUBSET Player :
              /\ IssueEntitlements(batch)
              /\ IF NewSlot(c, batch) THEN contract'[c] = NewEntitlement
                 ELSE Active(c) /\ contract'[c] = contract[c]
<1>1. CASE IssueStep
  <2>1. PICK batch \in SUBSET Player : IssueEntitlements(batch)
    BY <1>1 DEF IssueStep
  <2>2. contract'[c] = IF NewSlot(c, batch) THEN NewEntitlement ELSE contract[c]
    BY <2>1, IssueEffect
  <2>3. QED BY <2>1, <2>2 DEF Active
<1>2. CASE ~IssueStep
  <2>1. SUFFICES Active(c) /\ contract'[c].policy = contract[c].policy
    BY <1>2
  <2>2. CASE IdleStep
    BY <2>2 DEF IdleStep, Active
  <2>3. CASE OpenStep
    <3>1. PICK d \in Cid, terms \in Terms : Commit(d, terms)
      BY <2>3 DEF OpenStep
    <3>2. Active(d) /\ StakeOf(contract[d], terms).policy = contract[d].policy
      BY <3>1 DEF Commit, IsEntitlement, Active, StakeOf
    <3>3. contract' = [contract EXCEPT ![d] = StakeOf(contract[d], terms)]
      BY <3>1 DEF Commit
    <3>4. QED BY <3>2, <3>3 DEF TypeOK, Active
  <2>4. CASE CloseStep
    <3>1. PICK d \in Cid, counted \in BOOLEAN, nextAt \in Int :
            IsStake(d) /\ Recycle(d, counted, nextAt)
      BY <2>4, CloseCases
    <3>2. /\ Active(d)
          /\ RecycledEntitlement(contract[d], counted, nextAt).policy = contract[d].policy
      BY <3>1 DEF IsStake, Active, RecycledEntitlement
    <3>3. contract' = [contract EXCEPT ![d] =
                         RecycledEntitlement(contract[d], counted, nextAt)]
      BY <3>1 DEF Recycle
    <3>4. QED BY <3>2, <3>3 DEF TypeOK, Active
  <2>5. CASE LeaveStep
    <3>1. PICK d \in Cid : contract' = [contract EXCEPT ![d] = NoContract]
      BY <2>5 DEF LeaveStep, Revoke, Retire
    <3>2. QED BY <3>1 DEF TypeOK, Active, NoContract
  <2>6. CASE DirectStep
    BY <2>6 DEF DirectStep, CreateEntitlement, CreateStake
  <2>7. QED BY <1>2, <2>2, <2>3, <2>4, <2>5, <2>6, StepCases
<1>3. QED BY <1>1, <1>2

-----------------------------------------------------------------------------
(* A stake can always be recycled. *)

\* Every contract in force passes the `ensure' of an entitlement, under a
\* policy that in a live venue asks for proofs.
Ensured ==
  \A c \in Cid : Active(c) =>
    /\ EnsureEntitlement(contract[c].policy, SlotIndex(c))
    /\ Mode = "Live" => contract[c].policy.requireCustodyProof

\* Indices of slots are natural numbers.
LEMMA SlotIndexType ==
  ASSUME NEW c \in Cid
  PROVE  SlotIndex(c) \in Nat /\ Who(c) \in Player
BY CycleAssumption DEF CycleAssumption, Cid, Index, SlotIndex, Who

\* The slots a 1.3.0 venue leaves behind were issued under its policy.
LEMMA EnsuredInit == Init => Ensured
<1> SUFFICES ASSUME Init, NEW c \in Cid, Active(c)
    PROVE  /\ EnsureEntitlement(contract[c].policy, SlotIndex(c))
           /\ Mode = "Live" => contract[c].policy.requireCustodyProof
  BY DEF Ensured
<1>1. contract[c] = NewEntitlement /\ SlotIndex(c) < venue.policy.concurrencyLimit
  BY DEF Init, Active, NoContract
<1>2. EnsureVenue(venue.policy)
  BY DEF Init
<1>3. QED
  BY <1>1, <1>2, SlotIndexType DEF NewEntitlement, EnsureVenue, EnsureEntitlement

\* A new slot passes its `ensure' because the venue's policy passed its own;
\* every other contract keeps the policy of the one it comes from.
LEMMA EnsuredStep == TypeOK /\ ~DirectCreation /\ Ensured /\ [Next]_vars => Ensured'
<1> SUFFICES ASSUME TypeOK, ~DirectCreation, Ensured, [Next]_vars,
                    NEW c \in Cid, Active(c)'
    PROVE  /\ EnsureEntitlement(contract'[c].policy, SlotIndex(c))
           /\ Mode = "Live" => contract'[c].policy.requireCustodyProof
  BY DEF Ensured, SlotIndex, EnsureEntitlement, ValidPolicy
<1>1. CASE Active(c) /\ contract'[c].policy = contract[c].policy
  BY <1>1 DEF Ensured
<1>2. ASSUME NEW batch \in SUBSET Player, NewSlot(c, batch), contract'[c] = NewEntitlement
      PROVE  /\ EnsureEntitlement(contract'[c].policy, SlotIndex(c))
             /\ Mode = "Live" => contract'[c].policy.requireCustodyProof
  BY <1>2, SlotIndexType
     DEF TypeOK, NewSlot, NewEntitlement, EnsureVenue, EnsureEntitlement
<1>3. QED BY <1>1, <1>2, ContractOrigin

\* Only the players of the roster hold contracts.
OnlyRegistered == \A c \in Cid : Active(c) => Who(c) \in registered

\* The roster of a new venue is empty, and so is its store.
LEMMA RegisteredInit == Legacy = {} /\ Init => OnlyRegistered
BY DEF Init, OnlyRegistered, Active, NoContract

\* Nobody leaves the roster.
LEMMA RosterGrows ==
  ASSUME TypeOK, [Next]_vars
  PROVE  registered \subseteq registered'
<1>1. IdleStep => registered' = registered
  BY DEF IdleStep
<1>2. IssueStep => registered \subseteq registered'
  BY DEF IssueStep, IssueEntitlements, Registry!Register
<1>3. OpenStep => registered' = registered
  BY DEF OpenStep, Commit
<1>4. CloseStep => registered' = registered
  BY CloseCases DEF Recycle
<1>5. LeaveStep => registered' = registered
  BY DEF LeaveStep, Revoke, Retire
<1>6. DirectStep => registered' = registered
  BY DEF DirectStep, CreateEntitlement, CreateStake
<1>7. QED BY <1>1, <1>2, <1>3, <1>4, <1>5, <1>6, StepCases

\* A batch registers the players it gives slots to.
LEMMA RegisteredStep ==
  TypeOK /\ ~DirectCreation /\ OnlyRegistered /\ [Next]_vars => OnlyRegistered'
<1> SUFFICES ASSUME TypeOK, ~DirectCreation, OnlyRegistered, [Next]_vars,
                    NEW c \in Cid, Active(c)'
    PROVE  Who(c) \in registered'
  BY DEF OnlyRegistered, Who
<1>1. CASE Active(c)
  BY <1>1, RosterGrows DEF OnlyRegistered
<1>2. ASSUME NEW batch \in SUBSET Player, IssueEntitlements(batch), NewSlot(c, batch)
      PROVE  Who(c) \in registered'
  BY <1>2 DEF IssueEntitlements, NewSlot, Registry!Register
<1>3. QED BY <1>1, <1>2, ContractOrigin

\* What a closing recreates always passes the `ensure' of PlayerEntitlement,
\* for every policy the operator changes to in the meantime: no stake is
\* stranded by its slot (Cycle.daml 344-347, 536-554).
THEOREM StakesRecycle ==
  ASSUME ~DirectCreation, Legacy = {}
  PROVE  Spec => []EveryStakeRecycles
<1>1. Init => Ensured /\ OnlyRegistered
  BY EnsuredInit, RegisteredInit
<1>2. TypeOK /\ Ensured /\ OnlyRegistered /\ [Next]_vars => (Ensured /\ OnlyRegistered)'
  BY EnsuredStep, RegisteredStep
<1>3. Ensured /\ OnlyRegistered => EveryStakeRecycles
  BY DEF Ensured, OnlyRegistered, EveryStakeRecycles, IsStake, Active
<1>4. QED BY <1>1, <1>2, <1>3, TypeCorrect, PTL DEF Spec

-----------------------------------------------------------------------------
(* A lock outlasts the shortest cycle. *)

\* What terms of accepted length give, for a policy that passed its `ensure':
\* a lock long enough for the minimum cycle.
LEMMA TermsOutlastCycle ==
  ASSUME NEW p \in Policies, NEW terms, ValidPolicy(p), TermsMeetPolicy(p, now, terms),
         SecondsBetween(now, terms.lockExpiresAt) \in Int
  PROVE  SecondsBetween(now, terms.lockExpiresAt) >= p.minCycleSeconds
BY PolicyTypes DEF ValidPolicy, TermsMeetPolicy

\* No stake exists before the first commitment.
LEMMA MinimumRunInit == Init => MinimumRunByExpiry
BY DEF Init, MinimumRunByExpiry, IsStake, NoContract, NewEntitlement

\* Only a commitment makes a stake, and it checks the length of the lock.
LEMMA MinimumRunStep ==
  TypeOK /\ ~DirectCreation /\ Ensured /\ MinimumRunByExpiry /\ [Next]_vars
    => MinimumRunByExpiry'
<1> SUFFICES ASSUME TypeOK, ~DirectCreation, Ensured, MinimumRunByExpiry, [Next]_vars
    PROVE MinimumRunByExpiry'
  OBVIOUS
<1> DEFINE Long(s) == s.kind = "stake" =>
             SecondsBetween(s.committedAt, s.lockExpiresAt) >= s.policy.minCycleSeconds
<1>1. SUFFICES \A c \in Cid : Long(contract'[c])
  BY DEF MinimumRunByExpiry, IsStake, SecondsBetween, EpochSeconds
<1>2. \A c \in Cid : Long(contract[c])
  BY DEF MinimumRunByExpiry, IsStake
<1>3. Long(NoContract) /\ Long(NewEntitlement)
  BY DEF NoContract, NewEntitlement
<1>4. CASE IdleStep
  BY <1>2, <1>4 DEF IdleStep
<1>5. CASE IssueStep
  BY <1>2, <1>3, <1>5 DEF IssueStep, IssueEntitlements
<1>6. CASE OpenStep
  <2>1. PICK c \in Cid, terms \in Terms : Commit(c, terms)
    BY <1>6 DEF OpenStep
  <2>2. contract[c].policy \in Policies /\ ValidPolicy(contract[c].policy)
    BY <2>1, ContractTypes
       DEF Commit, Ensured, Active, IsEntitlement, EnsureEntitlement, PlayerEntitlement
  <2>3. now \in Nat /\ terms.lockExpiresAt \in Nat
    BY TermsTypes, CycleAssumption DEF TypeOK, CycleAssumption
  <2>4. SecondsBetween(now, terms.lockExpiresAt) \in Int
    BY <2>3, EpochSecondsBounds DEF SecondsBetween
  <2>5. SecondsBetween(now, terms.lockExpiresAt) >= contract[c].policy.minCycleSeconds
    BY <2>1, <2>2, <2>4, TermsOutlastCycle DEF Commit
  <2>6. Long(StakeOf(contract[c], terms))
    BY <2>5 DEF StakeOf
  <2>7. contract' = [contract EXCEPT ![c] = StakeOf(contract[c], terms)]
    BY <2>1 DEF Commit
  <2> HIDE DEF Long
  <2>8. QED BY <1>2, <2>6, <2>7 DEF TypeOK
<1>7. CASE CloseStep
  <2>1. PICK c \in Cid, counted \in BOOLEAN, nextAt \in Int :
          IsStake(c) /\ Recycle(c, counted, nextAt)
    BY <1>7, CloseCases
  <2>2. Long(RecycledEntitlement(contract[c], counted, nextAt))
    BY DEF RecycledEntitlement
  <2>3. contract' = [contract EXCEPT ![c] = RecycledEntitlement(contract[c], counted, nextAt)]
    BY <2>1 DEF Recycle
  <2> HIDE DEF Long
  <2>4. QED BY <1>2, <2>2, <2>3 DEF TypeOK
<1>8. CASE LeaveStep
  <2> HIDE DEF Long
  <2>1. QED BY <1>2, <1>3, <1>8 DEF LeaveStep, Revoke, Retire, TypeOK
<1>9. CASE DirectStep
  BY <1>9 DEF DirectStep, CreateEntitlement, CreateStake
<1>10. QED BY <1>4, <1>5, <1>6, <1>7, <1>8, <1>9, StepCases

\* When the lock of a stake ends, its minimum cycle has run, whatever policies
\* the venue ever had: an honest settlement is possible before the player may
\* leave alone (Policy.daml 40-57, Cycle.daml 354-380).
THEOREM LockOutlastsCycle ==
  ASSUME ~DirectCreation
  PROVE  Spec => []MinimumRunByExpiry
<1>1. Init => Ensured /\ MinimumRunByExpiry
  BY EnsuredInit, MinimumRunInit
<1>2. TypeOK /\ Ensured /\ MinimumRunByExpiry /\ [Next]_vars
        => (Ensured /\ MinimumRunByExpiry)'
  BY EnsuredStep, MinimumRunStep
<1>3. QED BY <1>1, <1>2, TypeCorrect, PTL DEF Spec

-----------------------------------------------------------------------------
(* A slot exists once. *)

\* The name of a contract is its player, its index and its copy.
LEMMA CidEquality ==
  ASSUME NEW c \in Cid, NEW d \in Cid,
         Who(c) = Who(d), SlotIndex(c) = SlotIndex(d), c[3] = d[3]
  PROVE  c = d
BY DEF Cid, Who, SlotIndex

\* Without a legacy there is no slot at the start.
LEMMA UniqueInit == Legacy = {} /\ Init => SlotUniqueness
BY DEF Init, SlotUniqueness, Active, NoContract

\* A batch is refused for players that may hold slots already; nothing else
\* makes a contract where there was none.
LEMMA UniqueStep ==
  TypeOK /\ ~DirectCreation /\ OnlyRegistered /\ SlotUniqueness /\ [Next]_vars
    => SlotUniqueness'
<1> SUFFICES ASSUME TypeOK, ~DirectCreation, OnlyRegistered, SlotUniqueness, [Next]_vars,
                    NEW c \in Cid, NEW d \in Cid, Active(c)', Active(d)',
                    Who(c) = Who(d), SlotIndex(c) = SlotIndex(d)
    PROVE  c = d
  BY DEF SlotUniqueness, Who, SlotIndex
<1>1. CASE ~IssueStep
  <2>1. Active(c) /\ Active(d)
    BY <1>1, ContractOrigin DEF IssueStep
  <2>2. QED BY <2>1 DEF SlotUniqueness
<1>2. CASE IssueStep
  <2>1. PICK batch \in SUBSET Player : IssueEntitlements(batch)
    BY <1>2 DEF IssueStep
  <2>2. batch \cap registered = {}
    BY <2>1 DEF IssueEntitlements, Registry!Register
  <2>3. \A e \in Cid : Active(e)' => NewSlot(e, batch) \/ Active(e)
    BY <2>1, IssueEffect DEF Active
  <2>4. CASE Who(c) \in batch
    <3>1. NewSlot(c, batch) /\ NewSlot(d, batch)
      BY <2>2, <2>3, <2>4 DEF OnlyRegistered
    <3>2. QED BY <3>1, CidEquality DEF NewSlot
  <2>5. CASE Who(c) \notin batch
    <3>1. Active(c) /\ Active(d)
      BY <2>3, <2>5 DEF NewSlot
    <3>2. QED BY <3>1 DEF SlotUniqueness
  <2>6. QED BY <2>4, <2>5
<1>3. QED BY <1>1, <1>2

\* No slot ever exists twice, for any number of players, slots and copies and
\* under any sequence of policies (Cycle.daml 306-318, 562-613).
THEOREM SlotsUnique ==
  ASSUME ~DirectCreation, Legacy = {}
  PROVE  Spec => []SlotUniqueness
<1>1. Init => OnlyRegistered /\ SlotUniqueness
  BY RegisteredInit, UniqueInit
<1>2. TypeOK /\ OnlyRegistered /\ SlotUniqueness /\ [Next]_vars
        => (OnlyRegistered /\ SlotUniqueness)'
  BY RegisteredStep, UniqueStep
<1>3. QED BY <1>1, <1>2, TypeCorrect, PTL DEF Spec

-----------------------------------------------------------------------------
(* No more open cycles than the policy allows. *)

\* All slots of a player come from one batch and keep its policy.
OnePolicyPerPlayer ==
  \A c, d \in Cid :
    Active(c) /\ Active(d) /\ Who(c) = Who(d) => contract[c].policy = contract[d].policy

\* Without a legacy there is no slot at the start.
LEMMA OnePolicyInit == Legacy = {} /\ Init => OnePolicyPerPlayer
BY DEF Init, OnePolicyPerPlayer, Active, NoContract

\* A batch is refused for a player who may hold slots of an older policy.
LEMMA OnePolicyStep ==
  TypeOK /\ ~DirectCreation /\ OnlyRegistered /\ OnePolicyPerPlayer /\ [Next]_vars
    => OnePolicyPerPlayer'
<1> SUFFICES ASSUME TypeOK, ~DirectCreation, OnlyRegistered, OnePolicyPerPlayer,
                    [Next]_vars, NEW c \in Cid, NEW d \in Cid,
                    Active(c)', Active(d)', Who(c) = Who(d)
    PROVE  contract'[c].policy = contract'[d].policy
  BY DEF OnePolicyPerPlayer, Who
<1>1. CASE ~IssueStep
  <2>1. /\ Active(c) /\ contract'[c].policy = contract[c].policy
        /\ Active(d) /\ contract'[d].policy = contract[d].policy
    BY <1>1, ContractOrigin DEF IssueStep
  <2>2. QED BY <2>1 DEF OnePolicyPerPlayer
<1>2. CASE IssueStep
  <2>1. PICK batch \in SUBSET Player : IssueEntitlements(batch)
    BY <1>2 DEF IssueStep
  <2>2. batch \cap registered = {}
    BY <2>1 DEF IssueEntitlements, Registry!Register
  <2>3. \A e \in Cid : contract'[e] = IF NewSlot(e, batch) THEN NewEntitlement ELSE contract[e]
    BY <2>1, IssueEffect
  <2>4. CASE Who(c) \in batch
    <3>1. NewSlot(c, batch) /\ NewSlot(d, batch)
      BY <2>2, <2>3, <2>4 DEF OnlyRegistered, Active
    <3>2. QED BY <2>3, <3>1
  <2>5. CASE Who(c) \notin batch
    <3>1. /\ Active(c) /\ contract'[c] = contract[c]
          /\ Active(d) /\ contract'[d] = contract[d]
      BY <2>3, <2>5 DEF NewSlot, Active
    <3>2. QED BY <3>1 DEF OnePolicyPerPlayer
  <2>6. QED BY <2>4, <2>5
<1>3. QED BY <1>1, <1>2

\* The open cycles of a player have different indices, all below the limit.
LEMMA IndicesCountCycles ==
  ASSUME TypeOK, Ensured, SlotUniqueness, OnePolicyPerPlayer
  PROVE  ConcurrencyLimitHeld
<1> SUFFICES ASSUME NEW c \in Cid, IsStake(c)
    PROVE  Cardinality(OpenCycles(Who(c))) <= contract[c].policy.concurrencyLimit
  BY DEF ConcurrencyLimitHeld
<1> DEFINE limit == contract[c].policy.concurrencyLimit
           S == OpenCycles(Who(c))
           f == [d \in S |-> SlotIndex(d)]
<1>1. Active(c) /\ contract[c].policy \in Policies
  BY ContractTypes DEF GameStake
<1>2. limit \in Int /\ limit > 0
  BY <1>1, PolicyTypes DEF Ensured, EnsureEntitlement, ValidPolicy
<1>3. \A d \in S : d \in Cid /\ Active(d) /\ Who(d) = Who(c)
  BY ContractTypes DEF OpenCycles
<1>4. \A d \in S : SlotIndex(d) \in 0 .. limit - 1
  <2>1. \A d \in S : contract[d].policy = contract[c].policy
    BY <1>1, <1>3 DEF OnePolicyPerPlayer
  <2>2. \A d \in S : SlotIndex(d) \in Nat /\ SlotIndex(d) < limit
    BY <1>3, <2>1, SlotIndexType DEF Ensured, EnsureEntitlement
  <2> HIDE DEF limit, S
  <2>3. QED BY <1>2, <2>2
<1>5. \A d, e \in S : SlotIndex(d) = SlotIndex(e) => d = e
  BY <1>3 DEF SlotUniqueness
<1>6. f \in Injection(S, 0 .. limit - 1)
  <2> HIDE DEF S, limit
  <2>1. f \in [S -> 0 .. limit - 1]
    BY <1>4
  <2>2. \A d, e \in S : f[d] = f[e] => d = e
    BY <1>5
  <2> HIDE DEF f
  <2>3. QED BY <2>1, <2>2 DEF Injection, IsInjective
<1>7. IsFiniteSet(0 .. limit - 1) /\ Cardinality(0 .. limit - 1) = limit
  <2> HIDE DEF limit
  <2>1. limit - 1 \in Int /\ ~(0 > limit - 1) /\ (limit - 1) - 0 + 1 = limit
    BY <1>2
  <2>2. QED BY <2>1, FS_Interval
<1> HIDE DEF f, S
<1>8. Cardinality(S) <= Cardinality(0 .. limit - 1)
  BY <1>6, <1>7, FS_Injection
<1>9. QED BY <1>7, <1>8 DEF S

\* A player never has more cycles open than the policy of any of them allows,
\* for any limit, and whatever the operator changes the policy to between two
\* cycles (README.md 244-248, Cycle.daml 344-347).
THEOREM LimitHeld ==
  ASSUME ~DirectCreation, Legacy = {}
  PROVE  Spec => []ConcurrencyLimitHeld
<1> DEFINE Inv == Ensured /\ OnlyRegistered /\ SlotUniqueness /\ OnePolicyPerPlayer
<1>1. Init => Inv
  BY EnsuredInit, RegisteredInit, UniqueInit, OnePolicyInit
<1>2. TypeOK /\ Inv /\ [Next]_vars => Inv'
  BY EnsuredStep, RegisteredStep, UniqueStep, OnePolicyStep
<1>3. TypeOK /\ Inv => ConcurrencyLimitHeld
  BY IndicesCountCycles
<1>4. QED BY <1>1, <1>2, <1>3, TypeCorrect, PTL DEF Spec

-----------------------------------------------------------------------------
(* A live venue counts nothing unproved. *)

\* A slot that is recycled uncounted claims no more cycles than its stake did.
LEMMA UncountedGainsNothing ==
  ASSUME TypeOK, NEW c \in Cid, NEW d \in Cid, NEW nextAt, Recycle(d, FALSE, nextAt),
         IsStake(d)
  PROVE  ~Counts(c)
<1> SUFFICES ASSUME Counts(c) PROVE FALSE
  OBVIOUS
<1>1. contract' = [contract EXCEPT ![d] = RecycledEntitlement(contract[d], FALSE, nextAt)]
  BY DEF Recycle
<1>2. contract[d].cyclesCompletedBefore \in Int
  BY ContractTypes DEF GameStake
<1>3. c = d
  BY <1>1 DEF Counts, Closes, IsStake, TypeOK
<1>4. contract'[c].cyclesCompleted = contract[c].cyclesCompletedBefore
  BY <1>1, <1>2, <1>3 DEF RecycledEntitlement, TypeOK
<1>5. QED BY <1>2, <1>3, <1>4 DEF Counts

\* Of all transactions, only a settlement of its own stake counts a cycle.
LEMMA OnlySettleCounts ==
  ASSUME TypeOK, [Next]_vars, ~DirectCreation, NEW c \in Cid, Counts(c)
  PROVE  \E outcome \in Outcome :
           \/ \E l \in LockId : SettleAndUnlock(c, l, outcome) \/ SettleKeepingLock(c, l, outcome)
           \/ SettleUnproved(c, outcome)
<1>1. /\ IsStake(c) /\ contract'[c].kind = "entitlement"
      /\ contract'[c].cyclesCompleted > contract[c].cyclesCompletedBefore
  BY DEF Counts, Closes
<1>2. contract[c].cyclesCompletedBefore \in Int
  BY <1>1, ContractTypes DEF GameStake
<1>3. contract'[c] # contract[c]
  BY <1>1 DEF IsStake
<1>4. ~(Tick \/ LockStep \/ UNCHANGED vars)
  BY <1>3 DEF Tick, LockStep, LockSeparately, UnlockSeparately, RecoverLock, vars
<1>5. ~VenueStep
  <2>1. ASSUME NEW batch \in SUBSET Player, IssueEntitlements(batch)
        PROVE  contract'[c] = contract[c]
    BY <1>1, <2>1, IssueEffect, NewSlotIsFree DEF Active, IsStake
  <2>2. QED BY <1>3, <2>1 DEF VenueStep, InitRoster, UpdatePolicy, SetAuditor
<1>6. ~CommitStep
  <2>1. ASSUME NEW d \in Cid, NEW terms \in Terms,
               Commit(d, terms)
        PROVE  FALSE
    <3>1. contract'[c] = contract[c] \/ contract'[c] = StakeOf(contract[d], terms)
      BY <2>1 DEF Commit, TypeOK
    <3>2. QED BY <1>1, <1>3, <3>1 DEF StakeOf
  <2>2. QED BY <2>1 DEF CommitStep, CommitFunded, CommitUnfunded
<1>7. ~ExitStep
  <2>1. ASSUME NEW d \in Cid, NEW ref \in LockId \cup {NoRef}, Abort(d, ref)
        PROVE  FALSE
    BY <2>1, UncountedGainsNothing DEF Abort
  <2>2. ASSUME NEW d \in Cid, ExpireUnsettled(d)
        PROVE  FALSE
    BY <2>2, UncountedGainsNothing DEF ExpireUnsettled
  <2>3. ASSUME NEW d \in Cid, Revoke(d) \/ Retire(d)
        PROVE  FALSE
    <3>1. contract'[c] = contract[c] \/ contract'[c] = NoContract
      BY <2>3 DEF Revoke, Retire, TypeOK
    <3>2. QED BY <1>1, <1>3, <3>1 DEF NoContract
  <2>4. QED
    BY <2>1, <2>2, <2>3 DEF ExitStep, AbortCycle, ExpireCycle, ExpireAndRecover
<1>8. ~DirectStep
  BY DEF DirectStep, CreateEntitlement, CreateStake
<1>9. PICK d \in Cid, outcome \in Outcome :
        \/ \E l \in LockId : SettleAndUnlock(d, l, outcome) \/ SettleKeepingLock(d, l, outcome)
        \/ SettleUnproved(d, outcome)
  BY <1>4, <1>5, <1>6, <1>7, <1>8 DEF Next, SettleStep
<1>10. \E nextAt : contract' = [contract EXCEPT ![d] =
                                  RecycledEntitlement(contract[d], TRUE, nextAt)]
  BY <1>9 DEF SettleAndUnlock, SettleKeepingLock, SettleUnproved, Settle, Recycle
<1>11. c = d
  BY <1>3, <1>10 DEF TypeOK
<1>12. QED BY <1>9, <1>11

\* What one step does to a holding: it is created unproved, it is kept with
\* the proofs it has given, or it proves a settlement of the stake whose tag
\* it carries.
LEMMA LockOrigin ==
  ASSUME TypeOK, [Next]_vars, ~DirectCreation, NEW l \in LockId,
         lock'[l].state # "unborn"
  PROVE  \/ lock[l].state = "unborn" /\ lock'[l].proofs = 0
         \/ /\ lock[l].state # "unborn"
            /\ lock'[l].tag = lock[l].tag /\ lock'[l].proofs = lock[l].proofs
         \/ /\ lock[l].state = "held"
            /\ lock'[l].tag = lock[l].tag /\ lock'[l].proofs = lock[l].proofs + 1
            /\ \E c \in Cid, outcome \in Outcome : Settle(c, l, outcome)
<1>0. lock \in [LockId -> {Unborn} \cup LockedHolding]
  BY DEF TypeOK
<1>1. CASE UNCHANGED lock
  BY <1>1
<1>2. ASSUME NEW m \in LockId, NEW owner, NEW amount, NEW expiresAt, NEW tag, NEW h,
             CreateLock(m, owner, amount, expiresAt, tag, h)
      PROVE  \/ lock[l].state = "unborn" /\ lock'[l].proofs = 0
             \/ lock'[l] = lock[l]
  BY <1>0, <1>2 DEF CreateLock
<1>3. ASSUME NEW m \in LockId, Unlock(m) \/ OwnerExpireLock(m)
      PROVE  /\ lock[l].state # "unborn"
             /\ lock'[l].tag = lock[l].tag /\ lock'[l].proofs = lock[l].proofs
  <2>1. lock[m] \in LockedHolding
    BY <1>0, <1>3 DEF Unlock, OwnerExpireLock, Unborn
  <2>2. lock' = [lock EXCEPT ![m].state = "released"]
    BY <1>3 DEF Unlock, OwnerExpireLock
  <2>3. CASE l = m
    BY <1>0, <1>3, <2>1, <2>2, <2>3 DEF Unlock, OwnerExpireLock, LockedHolding
  <2>4. CASE l # m
    BY <1>0, <2>2, <2>4
  <2>5. QED BY <2>3, <2>4
<1>4. CASE CommitStep
  BY <1>1, <1>2, <1>4 DEF CommitStep, CommitFunded, CommitUnfunded
<1>5. CASE SettleStep
  <2>1. PICK c \in Cid, outcome \in Outcome :
          \/ \E m \in LockId : SettleAndUnlock(c, m, outcome) \/ SettleKeepingLock(c, m, outcome)
          \/ SettleUnproved(c, outcome)
    BY <1>5 DEF SettleStep
  <2>2. ASSUME NEW m \in LockId,
               SettleAndUnlock(c, m, outcome) \/ SettleKeepingLock(c, m, outcome)
        PROVE  \/ lock'[l] = lock[l]
               \/ /\ l = m /\ Settle(c, m, outcome) /\ lock[m].state = "held"
                  /\ lock'[m].tag = lock[m].tag /\ lock'[m].proofs = lock[m].proofs + 1
    <3>1. Settle(c, m, outcome) /\ lock[m].state = "held"
      BY <2>2 DEF SettleAndUnlock, SettleKeepingLock, Settle, VerifyCustody,
                  VerifyLockedHolding
    <3>2. lock[m] \in LockedHolding
      BY <1>0, <3>1 DEF Unborn
    <3>3. CASE l = m
      <4>1. CASE SettleAndUnlock(c, m, outcome)
        <5>1. lock'[m] = [lock[m] EXCEPT !.state = "released", !.proofs = @ + 1]
          BY <1>0, <4>1 DEF SettleAndUnlock
        <5>2. QED BY <3>1, <3>2, <3>3, <5>1 DEF LockedHolding
      <4>2. CASE SettleKeepingLock(c, m, outcome)
        <5>1. lock'[m] = [lock[m] EXCEPT !.proofs = @ + 1]
          BY <1>0, <4>2 DEF SettleKeepingLock
        <5>2. QED BY <3>1, <3>2, <3>3, <5>1 DEF LockedHolding
      <4>3. QED BY <2>2, <4>1, <4>2
    <3>4. CASE l # m
      BY <1>0, <2>2, <3>4 DEF SettleAndUnlock, SettleKeepingLock
    <3>5. QED BY <3>3, <3>4
  <2>3. QED BY <1>1, <2>1, <2>2 DEF SettleUnproved
<1>6. CASE ExitStep
  BY <1>1, <1>3, <1>6 DEF ExitStep, AbortCycle, ExpireCycle, ExpireAndRecover, Revoke, Retire
<1>7. CASE LockStep
  BY <1>1, <1>2, <1>3, <1>7 DEF LockStep, LockSeparately, UnlockSeparately, RecoverLock
<1>8. CASE Tick \/ VenueStep \/ DirectStep
  BY <1>1, <1>8 DEF Tick, VenueStep, InitRoster, IssueEntitlements, UpdatePolicy,
                    SetAuditor, DirectStep, CreateEntitlement, CreateStake
<1>9. QED
  BY <1>1, <1>4, <1>5, <1>6, <1>7, <1>8 DEF Next, vars

\* A settlement that shows a holding of the player's own tag adds one proof to
\* it, whether it is released by the same transaction or kept.
LEMMA SettleShowsLock ==
  ASSUME TypeOK, NEW c \in Cid, NEW l \in LockId, NEW outcome,
         SettleAndUnlock(c, l, outcome) \/ SettleKeepingLock(c, l, outcome)
  PROVE  /\ lock[l].state = "held"
         /\ lock[l].owner = Who(c) /\ lock[l].tag = contract[c].tag
         /\ lock'[l].proofs = lock[l].proofs + 1
<1>1. VerifyLockedHolding(contract[c], Who(c), l)
  BY DEF SettleAndUnlock, SettleKeepingLock, Settle, VerifyCustody
<1>2. lock[l] \in LockedHolding
  BY <1>1 DEF TypeOK, VerifyLockedHolding, Unborn
<1>3. lock'[l].proofs = lock[l].proofs + 1
  <2>1. CASE SettleAndUnlock(c, l, outcome)
    <3>1. lock'[l] = [lock[l] EXCEPT !.state = "released", !.proofs = @ + 1]
      BY <2>1 DEF SettleAndUnlock, TypeOK
    <3>2. QED BY <1>2, <3>1 DEF LockedHolding
  <2>2. CASE SettleKeepingLock(c, l, outcome)
    <3>1. lock'[l] = [lock[l] EXCEPT !.proofs = @ + 1]
      BY <2>2 DEF SettleKeepingLock, TypeOK
    <3>2. QED BY <1>2, <3>1 DEF LockedHolding
  <2>3. QED BY <2>1, <2>2
<1>4. QED BY <1>1, <1>3 DEF VerifyLockedHolding

\* In a live venue the policy of every stake asks for a proof, so a settlement
\* without one is refused; this is for every sequence of policy changes an
\* operator can get accepted (Cycle.daml 168-186, Custody.daml 141-167).
THEOREM LiveProved ==
  ASSUME ~DirectCreation
  PROVE  Spec => LiveCyclesAreProved
<1>1. ASSUME TypeOK, Ensured, [Next]_vars, NEW c \in Cid, Mode = "Live", Counts(c)
      PROVE  \E l \in LockId :
               /\ lock[l].state = "held"
               /\ lock[l].owner = Who(c) /\ lock[l].tag = contract[c].tag
               /\ lock'[l].proofs = lock[l].proofs + 1
  <2>1. PICK outcome \in Outcome :
           \/ \E l \in LockId : SettleAndUnlock(c, l, outcome) \/ SettleKeepingLock(c, l, outcome)
           \/ SettleUnproved(c, outcome)
    BY <1>1, OnlySettleCounts
  <2>2. contract[c].policy.requireCustodyProof
    BY <1>1 DEF Ensured, Counts, Closes, IsStake, Active
  <2>3. ~SettleUnproved(c, outcome)
    BY <2>2, CycleAssumption DEF SettleUnproved, Settle, VerifyCustody, CycleAssumption
  <2>4. QED BY <1>1, <2>1, <2>3, SettleShowsLock
<1>2. TypeOK /\ Ensured /\ [Next]_vars =>
        [\A c \in Cid : Mode = "Live" /\ Counts(c) =>
           \E l \in LockId :
             /\ lock[l].state = "held"
             /\ lock[l].owner = Who(c) /\ lock[l].tag = contract[c].tag
             /\ lock'[l].proofs = lock[l].proofs + 1]_vars
  BY <1>1
<1>3. QED
  BY <1>2, EnsuredInit, EnsuredStep, TypeCorrect, PTL DEF Spec, LiveCyclesAreProved

-----------------------------------------------------------------------------
(* A holding proves one cycle. *)

\* The tags of open stakes have been used, each by one stake.
TagsOfOneStake ==
  /\ \A c \in Cid : IsStake(c) => contract[c].tag \in used
  /\ \A c, d \in Cid : IsStake(c) /\ IsStake(d) /\ contract[c].tag = contract[d].tag => c = d

\* A holding that has given its proof carries a tag no open stake carries.
ProofsSpent ==
  \A l \in LockId : lock[l].state # "unborn" =>
    /\ lock[l].proofs <= 1
    /\ lock[l].proofs > 0 =>
         /\ lock[l].tag \in used
         /\ \A c \in Cid : IsStake(c) => contract[c].tag # lock[l].tag

\* Nothing has been committed or locked at the start.
LEMMA ProofsInit == Init => TagsOfOneStake /\ ProofsSpent
BY DEF Init, TagsOfOneStake, ProofsSpent, IsStake, NoContract, NewEntitlement, Unborn

\* Tags are never forgotten; an open stake was open before, under its tag, or
\* its tag is fresh, and one step opens at most one.
LEMMA StakeOrigin ==
  ASSUME TypeOK, [Next]_vars, ~DirectCreation, FreshCycleIds
  PROVE  /\ used \subseteq used'
         /\ \A c \in Cid : IsStake(c)' =>
              \/ IsStake(c) /\ contract'[c].tag = contract[c].tag
              \/ contract'[c].tag \in used' \ used
         /\ \A c, d \in Cid :
              /\ IsStake(c)' /\ contract'[c].tag \notin used
              /\ IsStake(d)' /\ contract'[d].tag \notin used
              /\ IsStake(c) => contract[c].tag \in used
              /\ IsStake(d) => contract[d].tag \in used
              => c = d
<1> DEFINE Kept(c) == IsStake(c)' => IsStake(c) /\ contract'[c].tag = contract[c].tag
<1>1. SUFFICES /\ used \subseteq used'
               /\ \/ \A c \in Cid : Kept(c)
                  \/ \E n \in Cid :
                       contract'[n].tag \in used' \ used /\ \A c \in Cid \ {n} : Kept(c)
  OBVIOUS
<1>2. CASE IdleStep
  BY <1>2 DEF IdleStep, IsStake
<1>3. CASE IssueStep
  BY <1>3 DEF IssueStep, IssueEntitlements, NewEntitlement, IsStake
<1>4. CASE OpenStep
  <2>1. PICK n \in Cid, terms \in Terms : Commit(n, terms)
    BY <1>4 DEF OpenStep
  <2>2. /\ contract'[n] = StakeOf(contract[n], terms)
        /\ \A c \in Cid \ {n} : contract'[c] = contract[c]
        /\ used' = used \cup {terms.tag} /\ terms.tag \notin used
    BY <2>1 DEF Commit, TypeOK
  <2>3. contract'[n].tag = terms.tag
    BY <2>2 DEF StakeOf
  <2>4. QED BY <2>2, <2>3 DEF IsStake
<1>5. CASE CloseStep
  <2>1. PICK n \in Cid, counted \in BOOLEAN, nextAt \in Int : Recycle(n, counted, nextAt)
    BY <1>5, CloseCases
  <2>2. /\ contract'[n] = RecycledEntitlement(contract[n], counted, nextAt)
        /\ \A c \in Cid \ {n} : contract'[c] = contract[c]
        /\ used' = used
    BY <2>1 DEF Recycle, TypeOK
  <2>3. QED BY <2>2 DEF IsStake, RecycledEntitlement
<1>6. CASE LeaveStep
  <2>1. PICK n \in Cid : contract' = [contract EXCEPT ![n] = NoContract] /\ used' = used
    BY <1>6 DEF LeaveStep, Revoke, Retire
  <2>2. QED BY <2>1 DEF IsStake, NoContract, TypeOK
<1>7. CASE DirectStep
  BY <1>7 DEF DirectStep, CreateEntitlement, CreateStake
<1>8. QED BY <1>2, <1>3, <1>4, <1>5, <1>6, <1>7, StepCases

\* A commitment brings a tag of its own; everything else only ends stakes.
LEMMA TagsStep ==
  TypeOK /\ ~DirectCreation /\ FreshCycleIds /\ TagsOfOneStake /\ [Next]_vars
    => TagsOfOneStake'
<1> SUFFICES ASSUME TypeOK, ~DirectCreation, FreshCycleIds, TagsOfOneStake, [Next]_vars
    PROVE TagsOfOneStake'
  OBVIOUS
<1>1. \A c \in Cid : IsStake(c)' => contract'[c].tag \in used'
  BY StakeOrigin DEF TagsOfOneStake
<1>2. ASSUME NEW c \in Cid, NEW d \in Cid, IsStake(c)', IsStake(d)',
             contract'[c].tag = contract'[d].tag
      PROVE  c = d
  <2>1. CASE contract'[c].tag \in used
    BY <1>2, <2>1, StakeOrigin DEF TagsOfOneStake
  <2>2. CASE contract'[c].tag \notin used
    BY <1>2, <2>2, StakeOrigin DEF TagsOfOneStake
  <2>3. QED BY <2>1, <2>2
<1>3. QED BY <1>1, <1>2 DEF TagsOfOneStake

\* A settlement ends the stake whose tag its proof carries, and that tag never
\* comes back.
LEMMA ProofsStep ==
  TypeOK /\ ~DirectCreation /\ FreshCycleIds /\ TagsOfOneStake /\ ProofsSpent /\ [Next]_vars
    => ProofsSpent'
<1> SUFFICES ASSUME TypeOK, ~DirectCreation, FreshCycleIds, TagsOfOneStake, ProofsSpent,
                    [Next]_vars, NEW l \in LockId, lock'[l].state # "unborn"
    PROVE  /\ lock'[l].proofs <= 1
           /\ lock'[l].proofs > 0 =>
                /\ lock'[l].tag \in used'
                /\ \A c \in Cid : IsStake(c)' => contract'[c].tag # lock'[l].tag
  BY DEF ProofsSpent
<1>1. CASE lock[l].state = "unborn" /\ lock'[l].proofs = 0
  BY <1>1
<1>2. CASE /\ lock[l].state # "unborn"
           /\ lock'[l].tag = lock[l].tag /\ lock'[l].proofs = lock[l].proofs
  BY <1>2, StakeOrigin DEF ProofsSpent
<1>3. CASE /\ lock[l].state = "held"
           /\ lock'[l].tag = lock[l].tag /\ lock'[l].proofs = lock[l].proofs + 1
           /\ \E c \in Cid, outcome \in Outcome : Settle(c, l, outcome)
  <2>1. PICK c \in Cid, outcome \in Outcome : Settle(c, l, outcome)
    BY <1>3
  <2>2. IsStake(c) /\ lock[l].tag = contract[c].tag
    BY <2>1 DEF Settle, VerifyCustody, VerifyLockedHolding
  <2>3. lock[l].proofs \in Nat
    BY <1>3 DEF TypeOK, LockedHolding, Unborn
  <2>4. lock'[l].proofs = 1
    <3>1. ~(lock[l].proofs > 0)
      BY <1>3, <2>2 DEF ProofsSpent
    <3>2. QED BY <1>3, <2>3, <3>1
  <2>5. lock'[l].tag \in used
    BY <1>3, <2>2 DEF TagsOfOneStake
  <2>6. ~IsStake(c)'
    <3>1. PICK nextAt : contract' = [contract EXCEPT ![c] =
                                       RecycledEntitlement(contract[c], TRUE, nextAt)]
      BY <2>1 DEF Settle, Recycle
    <3>2. QED BY <3>1 DEF IsStake, RecycledEntitlement, TypeOK
  <2>7. ASSUME NEW d \in Cid, IsStake(d)', contract'[d].tag = lock'[l].tag
        PROVE  FALSE
    <3>1. IsStake(d) /\ contract[d].tag = contract[c].tag
      BY <1>3, <2>2, <2>5, <2>7, StakeOrigin
    <3>2. QED BY <2>2, <2>6, <2>7, <3>1 DEF TagsOfOneStake
  <2>8. used \subseteq used'
    BY StakeOrigin
  <2>9. QED BY <2>4, <2>5, <2>7, <2>8
<1>4. QED BY <1>1, <1>2, <1>3, LockOrigin

\* As long as clients take their cycle ids from newCycleId, a holding proves at
\* most one counted cycle: it can be shown without being released, and the
\* ledger itself keeps no account of the tags already used (cycle.js 34-47,
\* Custody.daml 22-58).
THEOREM OneProofPerLock ==
  ASSUME ~DirectCreation, FreshCycleIds
  PROVE  Spec => []ProofUsedOnce
<1>1. TypeOK /\ TagsOfOneStake /\ ProofsSpent /\ [Next]_vars => (TagsOfOneStake /\ ProofsSpent)'
  BY TagsStep, ProofsStep
<1>2. TagsOfOneStake /\ ProofsSpent => ProofUsedOnce
  BY DEF ProofsSpent, ProofUsedOnce
<1>3. QED BY ProofsInit, <1>1, <1>2, TypeCorrect, PTL DEF Spec

-----------------------------------------------------------------------------
(* The cycle contracts implement the abstract slot. *)

\* The slot of a store con, and what its contract claims: SlotState and
\* SlotCounted with the store and the roster as parameters, so that a fact
\* serves before and after a step.
Name(s, k) == <<s[1], s[2], k>>

StateIn(con, reg, s) ==
  IF \E k \in 1 .. Copies : con[Name(s, k)].kind = "stake" THEN "open"
  ELSE IF \E k \in 1 .. Copies : con[Name(s, k)].kind = "entitlement" THEN "idle"
  ELSE IF s[1] \in reg THEN "gone" ELSE "unissued"

Claimed(r) ==
  IF r.kind = "entitlement" THEN r.cyclesCompleted
  ELSE IF r.kind = "stake" THEN r.cyclesCompletedBefore ELSE 0

CountedIn(con, s) ==
  LET live == {k \in 1 .. Copies : con[Name(s, k)].kind # "none"}
  IN  IF live = {} THEN 0 ELSE Claimed(con[Name(s, CHOOSE k \in live : TRUE)])

Kinds == {"none", "entitlement", "stake"}

\* The refinement mapping in those terms, before and after a step.
LEMMA Mapping ==
  /\ SlotState = [s \in Player \X Index |-> StateIn(contract, registered, s)]
  /\ SlotCounted = [s \in Player \X Index |-> CountedIn(contract, s)]
  /\ SlotState' = [s \in Player \X Index |-> StateIn(contract', registered', s)]
  /\ SlotCounted' = [s \in Player \X Index |-> CountedIn(contract', s)]
BY DEF SlotState, SlotCounted, StateIn, CountedIn, Claimed, ClaimedCycles, Name,
       IsStake, IsEntitlement, Active

\* A slot without contracts.
LEMMA EmptySlot ==
  ASSUME NEW con, NEW reg, NEW s,
         \A k \in 1 .. Copies : con[Name(s, k)].kind = "none"
  PROVE  /\ StateIn(con, reg, s) = IF s[1] \in reg THEN "gone" ELSE "unissued"
         /\ CountedIn(con, s) = 0
BY DEF StateIn, CountedIn

\* A slot with one contract is that contract.
LEMMA HeldSlot ==
  ASSUME NEW con, NEW reg, NEW s, NEW k \in 1 .. Copies,
         con[Name(s, k)].kind \in {"entitlement", "stake"},
         \A j \in 1 .. Copies : j # k => con[Name(s, j)].kind = "none"
  PROVE  /\ StateIn(con, reg, s) = IF con[Name(s, k)].kind = "stake" THEN "open" ELSE "idle"
         /\ CountedIn(con, s) = Claimed(con[Name(s, k)])
<1>1. StateIn(con, reg, s) = IF con[Name(s, k)].kind = "stake" THEN "open" ELSE "idle"
  BY DEF StateIn
<1> DEFINE live == {j \in 1 .. Copies : con[Name(s, j)].kind # "none"}
<1>2. live = {k}
  OBVIOUS
<1>3. (CHOOSE j \in live : TRUE) = k
  BY <1>2
<1>4. CountedIn(con, s) = Claimed(con[Name(s, k)])
  BY <1>2, <1>3 DEF CountedIn
<1>5. QED BY <1>1, <1>4

\* A slot whose contracts and whose player's place on the roster stay, stays.
LEMMA SameSlot ==
  ASSUME NEW con, NEW con2, NEW reg, NEW reg2, NEW s,
         \A k \in 1 .. Copies : con2[Name(s, k)] = con[Name(s, k)],
         s[1] \in reg2 <=> s[1] \in reg
  PROVE  /\ StateIn(con2, reg2, s) = StateIn(con, reg, s)
         /\ CountedIn(con2, s) = CountedIn(con, s)
<1>1. StateIn(con2, reg2, s) = StateIn(con, reg, s)
  BY DEF StateIn
<1>2. {k \in 1 .. Copies : con2[Name(s, k)].kind # "none"}
        = {k \in 1 .. Copies : con[Name(s, k)].kind # "none"}
  OBVIOUS
<1> DEFINE live == {k \in 1 .. Copies : con[Name(s, k)].kind # "none"}
<1>3. CASE live = {}
  BY <1>1, <1>2, <1>3 DEF CountedIn
<1>4. CASE live # {}
  <2>1. (CHOOSE k \in live : TRUE) \in 1 .. Copies
    BY <1>4
  <2>2. CountedIn(con2, s) = Claimed(con2[Name(s, CHOOSE k \in live : TRUE)])
    BY <1>2, <1>4 DEF CountedIn
  <2>3. CountedIn(con, s) = Claimed(con[Name(s, CHOOSE k \in live : TRUE)])
    BY <1>4 DEF CountedIn
  <2> HIDE DEF live
  <2>4. QED BY <1>1, <2>1, <2>2, <2>3
<1>5. QED BY <1>3, <1>4

\* The names of contracts and of slots.
LEMMA Names ==
  /\ \A s \in Player \X Index, k \in 1 .. Copies :
       /\ Name(s, k) \in Cid /\ Who(Name(s, k)) = s[1] /\ SlotIndex(Name(s, k)) = s[2]
       /\ Name(s, k)[3] = k
  /\ \A c \in Cid : /\ <<Who(c), SlotIndex(c)>> \in Player \X Index /\ c[3] \in 1 .. Copies
                    /\ Name(<<Who(c), SlotIndex(c)>>, c[3]) = c
BY DEF Name, Cid, Who, SlotIndex

-----------------------------------------------------------------------------
(* A step that replaces one contract changes one slot. *)

\* What is left of a slot whose contract d is replaced by v.
After(d, v) ==
  IF v.kind = "stake" THEN "open" ELSE IF v.kind = "entitlement" THEN "idle"
  ELSE IF Who(d) \in registered THEN "gone" ELSE "unissued"

\* The abstract slot s, when contract d of that slot is replaced by v.
SlotBecomes(s, d, v) ==
  /\ s \in Player \X Index
  /\ SlotState[s] = IF IsStake(d) THEN "open" ELSE "idle"
  /\ SlotCounted[s] = Claimed(contract[d])
  /\ SlotState' = [SlotState EXCEPT ![s] = After(d, v)]
  /\ SlotCounted' = [SlotCounted EXCEPT ![s] = Claimed(v)]

LEMMA OneSlot ==
  ASSUME TypeOK, SlotUniqueness, NEW d \in Cid, Active(d), NEW v, v.kind \in Kinds,
         contract' = [contract EXCEPT ![d] = v], registered' = registered,
         NEW s, s = <<Who(d), SlotIndex(d)>>
  PROVE  SlotBecomes(s, d, v)
<1>1. s \in Player \X Index /\ d[3] \in 1 .. Copies /\ Name(s, d[3]) = d
  BY Names
<1>2. contract[d].kind \in {"entitlement", "stake"}
  BY ContractTypes DEF IsEntitlement, IsStake
<1>3. \A j \in 1 .. Copies : j # d[3] => contract[Name(s, j)].kind = "none"
  <2> SUFFICES ASSUME NEW j \in 1 .. Copies, j # d[3], Active(Name(s, j)) PROVE FALSE
    BY DEF Active
  <2>1. /\ Name(s, j) \in Cid /\ Who(Name(s, j)) = Who(d)
        /\ SlotIndex(Name(s, j)) = SlotIndex(d) /\ Name(s, j)[3] = j
    BY <1>1, Names
  <2>2. Name(s, j) = d
    BY <2>1 DEF SlotUniqueness
  <2>3. QED BY <2>1, <2>2
<1>4. /\ StateIn(contract, registered, s) = IF IsStake(d) THEN "open" ELSE "idle"
      /\ CountedIn(contract, s) = Claimed(contract[d])
  BY <1>1, <1>2, <1>3, HeldSlot DEF IsStake
<1>5. contract'[d] = v
  BY DEF TypeOK
<1>6. \A j \in 1 .. Copies : j # d[3] => contract'[Name(s, j)].kind = "none"
  <2> SUFFICES ASSUME NEW j \in 1 .. Copies, j # d[3]
      PROVE contract'[Name(s, j)].kind = "none"
    OBVIOUS
  <2>1. Name(s, j) \in Cid /\ Name(s, j) # d
    BY <1>1, Names
  <2>2. QED BY <1>3, <2>1 DEF TypeOK
<1>7. /\ StateIn(contract', registered', s) = After(d, v)
      /\ CountedIn(contract', s) = Claimed(v)
  <2>1. CASE v.kind = "none"
    <3>1. \A j \in 1 .. Copies : contract'[Name(s, j)].kind = "none"
      BY <1>1, <1>5, <1>6, <2>1
    <3>2. /\ StateIn(contract', registered', s)
               = IF s[1] \in registered' THEN "gone" ELSE "unissued"
          /\ CountedIn(contract', s) = 0
      <4> DEFINE con == contract'  reg == registered'
      <4>1. \A k \in 1 .. Copies : con[Name(s, k)].kind = "none"
        BY <3>1
      <4> HIDE DEF con, reg
      <4>2. StateIn(con, reg, s) = (IF s[1] \in reg THEN "gone" ELSE "unissued")
          /\ CountedIn(con, s) = 0
        BY <4>1, EmptySlot
      <4>3. QED BY <4>2 DEF con, reg
    <3>3. s[1] = Who(d)
      OBVIOUS
    <3>4. QED BY <2>1, <3>2, <3>3 DEF After, Claimed
  <2>2. CASE v.kind \in {"entitlement", "stake"}
    <3>1. /\ StateIn(contract', registered', s) = IF v.kind = "stake" THEN "open" ELSE "idle"
          /\ CountedIn(contract', s) = Claimed(v)
      <4> DEFINE con == contract'  reg == registered'
      <4>1. /\ con[Name(s, d[3])] = v
            /\ \A j \in 1 .. Copies : j # d[3] => con[Name(s, j)].kind = "none"
        BY <1>1, <1>5, <1>6
      <4> HIDE DEF con, reg
      <4>2. /\ StateIn(con, reg, s) = (IF v.kind = "stake" THEN "open" ELSE "idle")
            /\ CountedIn(con, s) = Claimed(v)
        BY <1>1, <2>2, <4>1, HeldSlot
      <4>3. QED BY <4>2 DEF con, reg
    <3>2. QED BY <2>2, <3>1 DEF After
  <2>3. QED BY <2>1, <2>2 DEF Kinds
<1>8. ASSUME NEW t \in Player \X Index, t # s
      PROVE  /\ StateIn(contract', registered', t) = StateIn(contract, registered, t)
             /\ CountedIn(contract', t) = CountedIn(contract, t)
  <2>1. \A k \in 1 .. Copies : Name(t, k) \in Cid /\ Name(t, k) # d
    BY <1>8, Names
  <2>2. \A k \in 1 .. Copies : contract'[Name(t, k)] = contract[Name(t, k)]
    BY <2>1 DEF TypeOK
  <2> DEFINE con == contract'  reg == registered'
  <2>3. /\ \A k \in 1 .. Copies : con[Name(t, k)] = contract[Name(t, k)]
        /\ t[1] \in reg <=> t[1] \in registered
    BY <2>2
  <2> HIDE DEF con, reg
  <2>4. /\ StateIn(con, reg, t) = StateIn(contract, registered, t)
        /\ CountedIn(con, t) = CountedIn(contract, t)
    BY <2>3, SameSlot
  <2>5. QED BY <2>4 DEF con, reg
<1>9. QED BY <1>1, <1>4, <1>7, <1>8, Mapping DEF SlotBecomes

\* A commitment opens its slot.
LEMMA OpenImplements ==
  ASSUME TypeOK, SlotUniqueness, OpenStep
  PROVE  Slots!Next
<1>1. PICK d \in Cid, terms \in Terms : Commit(d, terms)
  BY DEF OpenStep
<1> DEFINE s == <<Who(d), SlotIndex(d)>>
           v == StakeOf(contract[d], terms)
<1>0. s = <<Who(d), SlotIndex(d)>>
  OBVIOUS
<1> HIDE DEF s
<1>2. /\ IsEntitlement(d) /\ contract' = [contract EXCEPT ![d] = v]
      /\ registered' = registered
  BY <1>1 DEF Commit
<1>3. Active(d) /\ ~IsStake(d)
  BY <1>2 DEF IsEntitlement, IsStake, Active
<1>4. v.kind = "stake" /\ v.cyclesCompletedBefore = contract[d].cyclesCompleted
  BY DEF StakeOf
<1>5. Claimed(v) = Claimed(contract[d]) /\ After(d, v) = "open" /\ v.kind \in Kinds
  BY <1>2, <1>4 DEF Claimed, After, Kinds, IsEntitlement
<1> HIDE DEF v
<1>6. /\ s \in Player \X Index /\ SlotState[s] = "idle"
      /\ SlotCounted[s] = Claimed(contract[d])
      /\ SlotState' = [SlotState EXCEPT ![s] = "open"]
      /\ SlotCounted' = [SlotCounted EXCEPT ![s] = Claimed(contract[d])]
  <2>1. SlotBecomes(s, d, v)
    BY <1>0, <1>2, <1>3, <1>5, OneSlot, Zenon
  <2>2. QED BY <1>3, <1>5, <2>1 DEF SlotBecomes
<1>7. SlotCounted' = SlotCounted
  BY <1>6 DEF SlotCounted
<1>8. Slots!Open(s) /\ s \in Slots!Slot
  BY <1>6, <1>7 DEF Slots!Open, Slots!Slot
<1>9. QED BY <1>8 DEF Slots!Next

\* A closing returns the slot, with one cycle more or with none.
LEMMA CloseImplements ==
  ASSUME TypeOK, SlotUniqueness, CloseStep
  PROVE  Slots!Next
<1>1. PICK d \in Cid, counted \in BOOLEAN, nextAt \in Int :
        IsStake(d) /\ Recycle(d, counted, nextAt)
  BY CloseCases
<1> DEFINE s == <<Who(d), SlotIndex(d)>>
           v == RecycledEntitlement(contract[d], counted, nextAt)
           gain == IF counted THEN 1 ELSE 0
<1>0. s = <<Who(d), SlotIndex(d)>>
  OBVIOUS
<1> HIDE DEF s
<1>2. contract' = [contract EXCEPT ![d] = v] /\ registered' = registered
  BY <1>1 DEF Recycle
<1>3. Active(d)
  BY <1>1 DEF IsStake, Active
<1>4. v.kind = "entitlement" /\ v.cyclesCompleted = contract[d].cyclesCompletedBefore + gain
  BY DEF RecycledEntitlement
<1>5. /\ Claimed(v) = Claimed(contract[d]) + gain /\ After(d, v) = "idle"
      /\ v.kind \in Kinds
  BY <1>1, <1>4 DEF Claimed, After, Kinds, IsStake
<1> HIDE DEF v
<1>6. /\ s \in Player \X Index /\ SlotState[s] = "open"
      /\ SlotCounted[s] = Claimed(contract[d])
      /\ SlotState' = [SlotState EXCEPT ![s] = "idle"]
      /\ SlotCounted' = [SlotCounted EXCEPT ![s] = Claimed(contract[d]) + gain]
  <2>1. SlotBecomes(s, d, v)
    BY <1>0, <1>1, <1>2, <1>3, <1>5, OneSlot, Zenon
  <2>2. QED BY <1>1, <1>5, <2>1 DEF SlotBecomes
<1>7. Slots!Close(s, gain) /\ s \in Slots!Slot
  BY <1>6 DEF Slots!Close, Slots!Slot
<1>8. gain \in {0, 1}
  OBVIOUS
<1> HIDE DEF gain
<1>9. QED BY <1>7, <1>8 DEF Slots!Next

\* A slot given up is gone: its player stays on the roster.
LEMMA LeaveImplements ==
  ASSUME TypeOK, SlotUniqueness, OnlyRegistered, LeaveStep
  PROVE  Slots!Next
<1>1. PICK d \in Cid : Revoke(d) \/ Retire(d)
  BY DEF LeaveStep
<1> DEFINE s == <<Who(d), SlotIndex(d)>>
<1>0. s = <<Who(d), SlotIndex(d)>>
  OBVIOUS
<1> HIDE DEF s
<1>2. /\ IsEntitlement(d) /\ contract' = [contract EXCEPT ![d] = NoContract]
      /\ registered' = registered
  BY <1>1 DEF Revoke, Retire
<1>3. Active(d) /\ ~IsStake(d)
  BY <1>2 DEF IsEntitlement, IsStake, Active
<1>4. Who(d) \in registered
  BY <1>3 DEF OnlyRegistered
<1>5. /\ Claimed(NoContract) = 0 /\ After(d, NoContract) = "gone"
      /\ NoContract.kind \in Kinds
  BY <1>4 DEF Claimed, After, Kinds, NoContract
<1>6. /\ s \in Player \X Index /\ SlotState[s] = "idle"
      /\ SlotState' = [SlotState EXCEPT ![s] = "gone"]
      /\ SlotCounted' = [SlotCounted EXCEPT ![s] = 0]
  <2>1. SlotBecomes(s, d, NoContract)
    BY <1>0, <1>2, <1>3, <1>5, OneSlot, Zenon
  <2>2. QED BY <1>3, <1>5, <2>1 DEF SlotBecomes
<1>7. Slots!Leave(s) /\ s \in Slots!Slot
  BY <1>6 DEF Slots!Leave, Slots!Slot
<1>8. QED BY <1>7 DEF Slots!Next

-----------------------------------------------------------------------------
(* A batch issues its slots. *)

\* The indices the venue's policy grants.
Granted == {i \in Index : i < venue.policy.concurrencyLimit}

\* A limit the bounds admit is one the abstract slot admits.
LEMMA GrantedType ==
  ASSUME TypeOK, venue.policy.concurrencyLimit <= MaxConcurrency
  PROVE  Granted \in Slots!Grants
<1>1. /\ venue.policy.concurrencyLimit \in Int /\ venue.policy.concurrencyLimit > 0
      /\ MaxConcurrency \in Nat
  BY PolicyTypes, CycleAssumption DEF TypeOK, EnsureVenue, ValidPolicy, CycleAssumption
<1>2. CASE venue.policy.concurrencyLimit = MaxConcurrency
  <2>1. Granted = Index
    BY <1>1, <1>2 DEF Granted, Index
  <2>2. QED BY <2>1 DEF Slots!Grants
<1>3. CASE venue.policy.concurrencyLimit # MaxConcurrency
  <2>1. venue.policy.concurrencyLimit \in Index
    BY <1>1, <1>3 DEF Index
  <2>2. QED BY <2>1 DEF Granted, Slots!Grants
<1>4. QED BY <1>2, <1>3

\* The slots of a player who is not in the batch stay as they are.
LEMMA OtherSlots ==
  ASSUME NEW batch \in SUBSET Player, IssueEntitlements(batch),
         NEW s \in Player \X Index, s[1] \notin batch
  PROVE  /\ StateIn(contract', registered', s) = StateIn(contract, registered, s)
         /\ CountedIn(contract', s) = CountedIn(contract, s)
<1>1. \A k \in 1 .. Copies : contract'[Name(s, k)] = contract[Name(s, k)]
  BY Names, IssueEffect DEF NewSlot
<1>2. s[1] \in registered' <=> s[1] \in registered
  BY DEF IssueEntitlements, Registry!Register
<1> DEFINE con == contract'  reg == registered'
<1>3. /\ \A k \in 1 .. Copies : con[Name(s, k)] = contract[Name(s, k)]
      /\ s[1] \in reg <=> s[1] \in registered
  BY <1>1, <1>2
<1> HIDE DEF con, reg
<1>4. /\ StateIn(con, reg, s) = StateIn(contract, registered, s)
      /\ CountedIn(con, s) = CountedIn(contract, s)
  BY <1>3, SameSlot
<1>5. QED BY <1>4 DEF con, reg

\* A player in the batch has no contracts yet.
LEMMA SlotsBefore ==
  ASSUME TypeOK, OnlyRegistered, NEW batch \in SUBSET Player, IssueEntitlements(batch),
         NEW s \in Player \X Index, s[1] \in batch
  PROVE  /\ \A k \in 1 .. Copies : contract[Name(s, k)].kind = "none"
         /\ StateIn(contract, registered, s) = "unissued"
         /\ CountedIn(contract, s) = 0
<1>1. s[1] \notin registered
  BY DEF IssueEntitlements, Registry!Register
<1>2. \A k \in 1 .. Copies : contract[Name(s, k)].kind = "none"
  BY <1>1, Names DEF OnlyRegistered, Active
<1>3. QED BY <1>1, <1>2, EmptySlot

\* After the batch it has one new entitlement for every index granted.
LEMMA SlotsAfter ==
  ASSUME TypeOK, OnlyRegistered, Copies > 0, NEW batch \in SUBSET Player, IssueEntitlements(batch),
         NEW s \in Player \X Index, s[1] \in batch
  PROVE  /\ StateIn(contract', registered', s) = IF s[2] \in Granted THEN "idle" ELSE "gone"
         /\ CountedIn(contract', s) = 0
<1>1. s[1] \in registered'
  BY DEF IssueEntitlements, Registry!Register
<1>2. \A k \in 1 .. Copies : contract[Name(s, k)].kind = "none"
  BY SlotsBefore
<1>3. \A k \in 1 .. Copies : contract'[Name(s, k)] =
        IF s[2] \in Granted /\ k = FreeCopy(s[1], s[2]) THEN NewEntitlement
        ELSE contract[Name(s, k)]
  BY Names, IssueEffect DEF NewSlot, Granted
<1>4. NewEntitlement.kind = "entitlement" /\ Claimed(NewEntitlement) = 0
  BY DEF NewEntitlement, Claimed
<1> DEFINE con == contract'  reg == registered'
<1>5. /\ s[1] \in reg
      /\ \A k \in 1 .. Copies : con[Name(s, k)] =
           IF s[2] \in Granted /\ k = FreeCopy(s[1], s[2]) THEN NewEntitlement
           ELSE contract[Name(s, k)]
  BY <1>1, <1>3
<1> HIDE DEF con, reg
<1>6. CASE s[2] \in Granted
  <2> DEFINE free == FreeCopy(s[1], s[2])
  <2>1. \E k \in 1 .. Copies : ~Active(<<s[1], s[2], k>>)
    <3>1. 1 \in 1 .. Copies
      BY CycleAssumption DEF CycleAssumption
    <3>2. PICK c \in Cid : Who(c) = s[1] /\ SlotIndex(c) = s[2]
      BY <3>1, Names
    <3>3. QED BY <1>6, <3>2 DEF IssueEntitlements, Granted
  <2>2. free \in 1 .. Copies
    BY <2>1 DEF FreeCopy
  <2> HIDE DEF free
  <2>3. /\ con[Name(s, free)] = NewEntitlement
        /\ \A j \in 1 .. Copies : j # free => con[Name(s, j)].kind = "none"
    BY <1>2, <1>5, <1>6, <2>2 DEF free
  <2>4. /\ StateIn(con, reg, s) = "idle" /\ CountedIn(con, s) = 0
    BY <1>4, <2>2, <2>3, HeldSlot
  <2>5. QED BY <1>6, <2>4 DEF con, reg
<1>7. CASE s[2] \notin Granted
  <2>1. \A k \in 1 .. Copies : con[Name(s, k)].kind = "none"
    BY <1>2, <1>5, <1>7
  <2>2. StateIn(con, reg, s) = "gone" /\ CountedIn(con, s) = 0
    BY <1>5, <2>1, EmptySlot
  <2>3. QED BY <1>7, <2>2 DEF con, reg
<1>8. QED BY <1>6, <1>7

\* An accepted batch issues the slots its policy grants.
LEMMA IssueImplements ==
  ASSUME TypeOK, OnlyRegistered, Copies > 0, IssueStep
  PROVE  Slots!Next
<1>1. PICK batch \in SUBSET Player : IssueEntitlements(batch)
  BY DEF IssueStep
<1>2. venue.policy.concurrencyLimit <= MaxConcurrency
  BY <1>1 DEF IssueEntitlements
<1>3. Granted \in Slots!Grants
  BY <1>2, GrantedType
<1>4. \A s \in Player \X Index : s[1] \in batch => SlotState[s] = "unissued"
  BY <1>1, SlotsBefore, Mapping
<1>5. SlotState' = [s \in Player \X Index |->
        IF s[1] \notin batch THEN SlotState[s]
        ELSE IF s[2] \in Granted THEN "idle" ELSE "gone"]
  <2>1. \A s \in Player \X Index : StateIn(contract', registered', s) =
          IF s[1] \notin batch THEN StateIn(contract, registered, s)
          ELSE IF s[2] \in Granted THEN "idle" ELSE "gone"
    BY <1>1, OtherSlots, SlotsAfter
  <2>2. QED BY <2>1, Mapping
<1>6. SlotCounted' = SlotCounted
  <2>1. \A s \in Player \X Index : CountedIn(contract', s) = CountedIn(contract, s)
    BY <1>1, OtherSlots, SlotsBefore, SlotsAfter
  <2>2. QED BY <2>1, Mapping
<1>7. Slots!Issue(batch, Granted)
  BY <1>4, <1>5, <1>6 DEF Slots!Issue, Slots!Slot
<1>8. QED BY <1>3, <1>7 DEF Slots!Next

-----------------------------------------------------------------------------
(* The refinement. *)

\* The slots of a new venue without a legacy are all unissued.
LEMMA RefinementInit == Legacy = {} /\ Init => Slots!Init
<1> SUFFICES ASSUME Legacy = {}, Init PROVE Slots!Init
  OBVIOUS
<1>1. /\ \A c \in Cid : contract[c].kind = "none"
      /\ registered = {}
  BY DEF Init, NoContract, Registry!Init
<1>2. \A s \in Player \X Index :
        StateIn(contract, registered, s) = "unissued" /\ CountedIn(contract, s) = 0
  BY <1>1, Names, EmptySlot
<1>3. QED BY <1>2, Mapping DEF Slots!Init, Slots!Slot

\* A step that changes neither contracts nor roster changes no slot.
LEMMA IdleImplements ==
  ASSUME IdleStep
  PROVE  UNCHANGED <<SlotState, SlotCounted>>
BY DEF IdleStep, SlotState, SlotCounted, ClaimedCycles, IsStake, IsEntitlement, Active

\* Every step is one of the abstract slots, or none.
LEMMA RefinementStep ==
  ASSUME TypeOK, SlotUniqueness, OnlyRegistered, ~DirectCreation, Copies > 0, [Next]_vars
  PROVE  [Slots!Next]_<<SlotState, SlotCounted>>
<1>1. CASE IdleStep
  BY <1>1, IdleImplements
<1>2. CASE IssueStep
  BY <1>2, IssueImplements
<1>3. CASE OpenStep
  BY <1>3, OpenImplements
<1>4. CASE CloseStep
  BY <1>4, CloseImplements
<1>5. CASE LeaveStep
  BY <1>5, LeaveImplements
<1>6. CASE DirectStep
  BY <1>6 DEF DirectStep, CreateEntitlement, CreateStake
<1>7. QED BY <1>1, <1>2, <1>3, <1>4, <1>5, <1>6, StepCases

\* The contracts keep what the roster and the slots promise: a slot is issued
\* once, carries one open cycle at a time, counts closings one by one and never
\* comes back (Cycle.daml 306-318, 562-613).  Copies only has to leave room for
\* one contract of each slot.
THEOREM SlotsImplement ==
  ASSUME ~DirectCreation, Legacy = {}, Copies > 0
  PROVE  Spec => ImplementsSlotLifecycle
<1>1. Init => OnlyRegistered /\ SlotUniqueness /\ Slots!Init
  BY RegisteredInit, UniqueInit, RefinementInit
<1>2. TypeOK /\ OnlyRegistered /\ SlotUniqueness /\ [Next]_vars
        => (OnlyRegistered /\ SlotUniqueness)'
  BY RegisteredStep, UniqueStep
<1>3. TypeOK /\ OnlyRegistered /\ SlotUniqueness /\ [Next]_vars
        => [Slots!Next]_<<SlotState, SlotCounted>>
  BY RefinementStep
<1>4. QED BY <1>1, <1>2, <1>3, TypeCorrect, PTL DEF Spec, ImplementsSlotLifecycle, Slots!Spec
=============================================================================
