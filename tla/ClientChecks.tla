---------------------------- MODULE ClientChecks ----------------------------
(***************************************************************************)
(* What the client computes before it submits: the policy check            *)
(* (policy.js), the settlement check (settlement.js) and the arithmetic of *)
(* ledger time (ledgerTime.js), in integers of the ledger's band           *)
(* (int64.js).  A value is a set of none or one: none is a thrown error.   *)
(* Text and Number inputs are reduced to the integer they stand for.       *)
(***************************************************************************)
EXTENDS Policy, Settlement, FiniteSets

CONSTANTS MaxInt, Absent      \* the band is -MaxInt-1..MaxInt

ASSUME MaxIntAssumption == MaxInt \in Nat /\ MaxInt > TicksPerSecond

\* ------------------------------------------------------------------ int64
\* Variant for mutation: a value beyond the band wraps around.
ToInt64Wrapped(v) == {((v + MaxInt + 1) % (2*MaxInt + 2)) - MaxInt - 1}

ToInt64(v) == {v} \cap (-MaxInt-1)..MaxInt

\* ------------------------------------------------------------- ledger time
\* Division that truncates toward zero.
Truncated(a, b) ==
  LET magnitude(n) == IF n < 0 THEN -n ELSE n
      q == magnitude(a) \div magnitude(b)
  IN  IF (a < 0) = (b < 0) THEN q ELSE -q

IntDivide(a, b) ==
  UNION {IF y = 0 THEN {} ELSE ToInt64(Truncated(x, y)) : x \in ToInt64(a), y \in ToInt64(b)}

ClientEpochSeconds(t) == UNION {IntDivide(m, TicksPerSecond) : m \in ToInt64(t)}

ClientSecondsBetween(a, b) ==
  UNION {ToInt64(y - x) : x \in ClientEpochSeconds(a), y \in ClientEpochSeconds(b)}

ClientAddSeconds(t, s) ==
  UNION {UNION {ToInt64(m + shift) : shift \in ToInt64(n * TicksPerSecond)} :
           m \in ToInt64(t), n \in ToInt64(s)}

\* ------------------------------------------------------------------ policy
\* A policy as an application writes it: under the name of the document, with
\* underscores, or in camel case.
Spelling == <<"kebab", "snake", "camel">>

\* The value of a field: the first spelling that has one.
Get(policy, field) ==
  LET found == {i \in DOMAIN Spelling : policy[Spelling[i]][field] # Absent}
  IN  {policy[Spelling[i]][field] : i \in {j \in found : \A k \in found : j <= k}}

IntFields ==
  { "minStakeAmount", "maxStakeAmount", "minPlatformFee", "maxPayoutAmount",
    "minLockSeconds", "maxLockSeconds", "minCycleSeconds", "maxCycleSeconds",
    "cooldownSeconds", "abortCooldownSeconds", "concurrencyLimit" }

\* The policy as numbers of the band, or none when a field is missing or
\* outside it.
PolicyNumbers(policy) ==
  LET value(f) == UNION {ToInt64(v) : v \in Get(policy, f)}
  IN  IF \A f \in IntFields : value(f) # {}
      THEN {[f \in IntFields |-> CHOOSE v \in value(f) : TRUE]} ELSE {}

\* Variant for mutation: the lock is not held against the cycle.
ClientValidPolicyUncoupled(policy) == {ValidPolicyUncoupled(p) : p \in PolicyNumbers(policy)}

ClientValidPolicy(policy) ==
  {/\ p.minStakeAmount > 0 /\ p.maxStakeAmount >= p.minStakeAmount
   /\ p.minPlatformFee >= 0 /\ p.maxPayoutAmount >= 0
   /\ p.minLockSeconds > 0 /\ p.maxLockSeconds >= p.minLockSeconds
   /\ p.minCycleSeconds > 0 /\ p.maxCycleSeconds >= p.minCycleSeconds
   /\ p.minLockSeconds >= p.minCycleSeconds
   /\ p.cooldownSeconds >= 0 /\ p.abortCooldownSeconds >= 0
   /\ p.concurrencyLimit > 0 : p \in PolicyNumbers(policy)}

\* -------------------------------------------------------------- settlement
Conserved(returned, forfeited, stake) == ToInt64(returned + forfeited) = {stake}

\* Variant for mutation: signs are not looked at.
SettlementSignless(s) ==
  /\ Conserved(s.returned, s.forfeited, s.stake)
  /\ s.disposition = "ReturnedInFull" => s.forfeited = 0
  /\ s.disposition = "ForfeitedInFull" => s.returned = 0
  /\ s.disposition = "ReturnedWithForfeit" => s.returned > 0 /\ s.forfeited > 0
  /\ s.disposition \in {"Aborted", "ExpiredUnsettled"} => s.returned = s.stake
  /\ s.payout <= s.maxPayout

\* assertSettlementValid, TRUE where it throws nothing.
SettlementIsValid(s) ==
  /\ s.disposition \in Disposition
  /\ \A f \in {"stake", "returned", "forfeited", "payout", "maxPayout"} : ToInt64(s[f]) # {}
  /\ s.returned >= 0 /\ s.forfeited >= 0 /\ s.payout >= 0
  /\ Conserved(s.returned, s.forfeited, s.stake)
  /\ s.disposition = "ReturnedInFull" => s.forfeited = 0
  /\ s.disposition = "ForfeitedInFull" => s.returned = 0
  /\ s.disposition = "ReturnedWithForfeit" => s.returned > 0 /\ s.forfeited > 0
  /\ s.disposition \in {"Aborted", "ExpiredUnsettled"} => s.returned = s.stake
  /\ s.payout <= s.maxPayout
=============================================================================
