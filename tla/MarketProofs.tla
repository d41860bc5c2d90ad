---------------------------- MODULE MarketProofs ----------------------------
(***************************************************************************)
(* The market, for any players, instruments, amounts, offers, allocations  *)
(* and trades: the rate of the free mints, what the holdings are worth,    *)
(* what a transaction does to it, and so that the registry implements the  *)
(* balances (Balances.tla).                                                *)
(***************************************************************************)
EXTENDS Trades, NumberProofs

-----------------------------------------------------------------------------
(* Mint rights: the quota of a right bounds its free mints by the ledger   *)
(* clock, for every set of rights, quotas and windows.                     *)

mintVars == <<now, account, right>>

\* Before any right is issued there is nothing to be wrong about.
LEMMA MintTypeInit == Init => TypeOK
  BY MintAssumption DEF Init, TypeOK, Unissued, TenantMintRight

\* What a step may do to the clock and to one right: nothing, issue it, mint
\* freely, mint with approval, change the quota or the suspension.
LEMMA RightCases ==
  ASSUME Next
  PROVE  \/ Tick
         \/ \E p \in Player : OpenAccount(p) \/ CloseAccount(p)
         \/ \E r \in Right, q \in Quota, w \in Window : IssueMintRight(r, q, w)
         \/ \E r \in Right, q \in Quota, w \in Window : SetQuota(r, q, w)
         \/ \E r \in Right, s \in BOOLEAN : SetSuspended(r, s)
         \/ \E r \in Right, p \in Player, i \in Instrument, a \in Amount : Mint(r, p, i, a)
         \/ \E r \in Right, p \in Player, i \in Instrument, a \in Amount : MintApproved(r, p, i, a)
  BY DEF Next, AccountStep, RightStep

\* The types of an issued right, spelled out.
LEMMA RightType ==
  ASSUME NEW r \in Right, TypeOK, Issued(r)
  PROVE  /\ right[r] \in TenantMintRight
         /\ right[r].mintQuota \in Int /\ right[r].mintQuota >= 0
         /\ right[r].quotaWindowSeconds \in Int /\ right[r].quotaWindowSeconds > 0
         /\ right[r].peakQuota \in Int /\ right[r].peakQuota >= 0
         /\ right[r].leastWindow \in Int /\ right[r].leastWindow > 0
         /\ right[r].windowStart \in Nat /\ right[r].issuedAt \in Nat
         /\ right[r].mintedInWindow \in Nat /\ right[r].freeMints \in Nat
         /\ right[r].totalMinted \in Nat
         /\ now \in Nat
  <1>1. right[r] \in TenantMintRight /\ now \in 0 .. MaxTime
    BY DEF TypeOK, Issued
  <1>2. now \in Nat
    BY <1>1, MintAssumption DEF MintAssumption
  <1>3. \A q \in Quota : q \in Int
    BY MintAssumption DEF MintAssumption
  <1>4. \A w \in Window : w \in Int
    BY MintAssumption DEF MintAssumption
  <1>5. /\ right[r].mintQuota \in Quota /\ right[r].mintQuota >= 0
        /\ right[r].peakQuota \in Quota /\ right[r].peakQuota >= 0
    BY <1>1 DEF TenantMintRight
  <1>6. /\ right[r].quotaWindowSeconds \in Window /\ right[r].quotaWindowSeconds > 0
        /\ right[r].leastWindow \in Window /\ right[r].leastWindow > 0
    BY <1>1 DEF TenantMintRight
  <1>7. /\ right[r].windowStart \in Nat /\ right[r].issuedAt \in Nat
        /\ right[r].mintedInWindow \in Nat /\ right[r].freeMints \in Nat
        /\ right[r].totalMinted \in Nat
    BY <1>1 DEF TenantMintRight
  <1> QED
    BY <1>1, <1>2, <1>3, <1>4, <1>5, <1>6, <1>7

\* No action leaves the types, one step per action.
LEMMA MintTypeStep == TypeOK /\ [Next]_mintVars => TypeOK'
  <1> SUFFICES ASSUME TypeOK, Next PROVE TypeOK'
    BY DEF TypeOK, mintVars
  <1> USE MintAssumption DEF TypeOK
  <1>1. CASE Tick
    BY <1>1 DEF Tick
  <1>2. CASE \E p \in Player : OpenAccount(p) \/ CloseAccount(p)
    BY <1>2 DEF OpenAccount, CloseAccount
  <1>3. ASSUME NEW r \in Right, NEW q \in Quota, NEW w \in Window, IssueMintRight(r, q, w)
        PROVE  TypeOK'
    BY <1>3 DEF IssueMintRight, EnsureMintRight, NewRight, TenantMintRight
  <1>4. ASSUME NEW r \in Right, NEW q \in Quota, NEW w \in Window, SetQuota(r, q, w)
        PROVE  TypeOK'
    <2>1. right[r] \in TenantMintRight
      BY <1>4, RightType DEF SetQuota
    <2> QED
      BY <1>4, <2>1 DEF SetQuota, EnsureMintRight, TenantMintRight
  <1>5. ASSUME NEW r \in Right, NEW s \in BOOLEAN, SetSuspended(r, s) PROVE TypeOK'
    <2>1. right[r] \in TenantMintRight
      BY <1>5, RightType DEF SetSuspended
    <2> QED
      BY <1>5, <2>1 DEF SetSuspended, TenantMintRight
  <1>6. ASSUME NEW r \in Right, NEW p \in Player, NEW i \in Instrument, NEW a \in Amount,
               Mint(r, p, i, a)
        PROVE  TypeOK'
    <2>1. right[r] \in TenantMintRight /\ now \in Nat
      BY <1>6, RightType DEF Mint, MayDeposit
    <2>2. UsedBefore(r) \in Nat
      BY <2>1 DEF UsedBefore, TenantMintRight
    <2> QED
      BY <1>6, <2>1, <2>2 DEF Mint, TenantMintRight
  <1>7. ASSUME NEW r \in Right, NEW p \in Player, NEW i \in Instrument, NEW a \in Amount,
               MintApproved(r, p, i, a)
        PROVE  TypeOK'
    <2>1. right[r] \in TenantMintRight
      BY <1>7, RightType DEF MintApproved, MayDeposit
    <2> QED
      BY <1>7, <2>1 DEF MintApproved, TenantMintRight
  <1> QED
    BY RightCases, <1>1, <1>2, <1>3, <1>4, <1>5, <1>6, <1>7

\* The accounts, the clock and the mint rights are always what they should
\* be; in particular no right ever has a negative quota or an empty window.
THEOREM MintTypeCorrect == Spec => []TypeOK
  BY MintTypeInit, MintTypeStep, PTL DEF Spec, mintVars

-----------------------------------------------------------------------------
(* The inductive invariant: the mints of the windows before the current    *)
(* one are paid for by the time between issue and the window's start, and  *)
(* those of the current one by the quota.                                  *)
PaidFor(r) ==
  (right[r].freeMints - right[r].mintedInWindow) * right[r].leastWindow
    <= right[r].peakQuota * SecondsBetween(right[r].issuedAt, right[r].windowStart)

RightInv(r) ==
  /\ right[r].issuedAt <= right[r].windowStart
  /\ right[r].windowStart <= now
  /\ right[r].mintQuota <= right[r].peakQuota
  /\ right[r].leastWindow <= right[r].quotaWindowSeconds
  /\ right[r].mintedInWindow <= right[r].peakQuota
  /\ right[r].mintedInWindow <= right[r].freeMints
  /\ PaidFor(r)

WindowInv == \A r \in Right : Issued(r) => RightInv(r)

\* Larger factors make a larger product.
LEMMA ProductMonotone ==
  ASSUME NEW a \in Nat, NEW b \in Nat, NEW c \in Nat, NEW d \in Nat, a <= b, c <= d
  PROVE  a * c <= b * d
  <1>1. a * c <= b * c
    BY SMT
  <1>2. b * c <= b * d
    BY SMT
  <1> QED
    BY <1>1, <1>2

\* A closed window: its mints, at most the quota, fit in the time it took.
LEMMA WindowClosed ==
  ASSUME NEW f \in Nat, NEW m \in Nat, NEW p \in Nat, NEW w \in Nat,
         NEW s \in Nat, NEW e \in Nat,
         m <= f, m <= p, w <= e, (f - m) * w <= p * s
  PROVE  f * w <= p * (s + e)
  <1>1. m * w <= p * e
    BY ProductMonotone
  <1>2. f * w = (f - m) * w + m * w
    BY SMT
  <1>3. p * (s + e) = p * s + p * e
    BY SMT
  <1>4. f * w \in Int /\ (f - m) * w \in Int /\ m * w \in Int /\ p * s \in Int /\ p * e \in Int
    BY SMT
  <1> QED
    BY <1>1, <1>2, <1>3, <1>4

\* At the start no right is issued.
LEMMA WindowInit == Init => WindowInv
  BY DEF Init, WindowInv, Issued

\* A step that leaves a right alone leaves its part of the invariant alone,
\* and later times only help.
LEMMA RightUnchanged ==
  ASSUME NEW x \in Right, TypeOK, TypeOK', RightInv(x), Issued(x),
         right'[x] = right[x], now <= now'
  PROVE  RightInv(x)'
  BY RightType DEF RightInv, PaidFor, TypeOK

LEMMA PastMints ==
  ASSUME NEW r \in Right, TypeOK, Issued(r), RightInv(r)
  PROVE  /\ right[r].freeMints - right[r].mintedInWindow \in Nat
         /\ SecondsBetween(right[r].issuedAt, right[r].windowStart) \in Nat
         /\ SecondsBetween(right[r].windowStart, now) \in Nat
         /\ SecondsBetween(right[r].issuedAt, now)
              = SecondsBetween(right[r].issuedAt, right[r].windowStart)
                  + SecondsBetween(right[r].windowStart, now)
  <1>1. /\ right[r].issuedAt <= right[r].windowStart /\ right[r].windowStart <= now
        /\ right[r].mintedInWindow <= right[r].freeMints
    BY DEF RightInv
  <1>2. /\ right[r].issuedAt \in Nat /\ right[r].windowStart \in Nat /\ now \in Nat
        /\ right[r].freeMints \in Nat /\ right[r].mintedInWindow \in Nat
    BY RightType
  <1>3. right[r].freeMints - right[r].mintedInWindow \in Nat
    BY <1>1, <1>2
  <1> DEFINE a == right[r].issuedAt
             b == right[r].windowStart
  <1>4. a \in Nat /\ b \in Nat /\ a <= b /\ b <= now
    BY <1>1, <1>2
  <1>5. /\ SecondsBetween(a, b) \in Nat /\ SecondsBetween(b, now) \in Nat
        /\ SecondsBetween(a, now) = SecondsBetween(a, b) + SecondsBetween(b, now)
    <2> HIDE DEF a, b
    <2> QED
      BY <1>2, <1>4, EpochSecondsBounds, EpochSecondsMonotone DEF SecondsBetween
  <1> QED
    BY <1>3, <1>5

\* Every action preserves the invariant, one step per action.
LEMMA WindowStep == TypeOK /\ WindowInv /\ [Next]_mintVars => WindowInv'
  <1> SUFFICES ASSUME TypeOK, WindowInv, [Next]_mintVars,
                      NEW x \in Right, Issued(x)'
               PROVE  RightInv(x)'
    BY DEF WindowInv
  <1>0. TypeOK'
    BY MintTypeStep
  <1>1. ASSUME Issued(x), right'[x] = right[x], now <= now' PROVE RightInv(x)'
    BY <1>0, <1>1, RightUnchanged DEF WindowInv
  <1>2. now \in Nat /\ now <= now
    BY MintAssumption DEF MintAssumption, TypeOK
  <1>3. CASE UNCHANGED mintVars
    BY <1>1, <1>2, <1>3 DEF mintVars, Issued
  <1>4. CASE Tick
    BY <1>1, <1>2, <1>4 DEF Tick, Issued
  <1>5. CASE \E p \in Player : OpenAccount(p) \/ CloseAccount(p)
    BY <1>1, <1>2, <1>5 DEF OpenAccount, CloseAccount, Issued
  <1>6. ASSUME NEW r \in Right, NEW q \in Quota, NEW w \in Window, IssueMintRight(r, q, w)
        PROVE  RightInv(x)'
    <2>1. CASE x = r
      <3>1. /\ now \in Nat /\ q \in Int /\ w \in Int /\ q >= 0
            /\ right[r]' = [ mintQuota |-> q, quotaWindowSeconds |-> w,
                 windowStart |-> now, mintedInWindow |-> 0, totalMinted |-> 0,
                 suspended |-> FALSE,
                 issuedAt |-> now, freeMints |-> 0, peakQuota |-> q, leastWindow |-> w ]
            /\ now' = now
        BY <1>6, MintAssumption DEF MintAssumption, IssueMintRight, EnsureMintRight, NewRight, TypeOK
      <3>2. SecondsBetween(now, now) = 0
        BY <3>1, EpochSecondsBounds DEF SecondsBetween
      <3> QED
        BY <2>1, <3>1, <3>2 DEF RightInv, PaidFor
    <2>2. CASE x # r
      BY <1>1, <1>2, <1>6, <2>2 DEF IssueMintRight, TypeOK, Issued
    <2> QED
      BY <2>1, <2>2
  <1>7. ASSUME NEW r \in Right, NEW q \in Quota, NEW w \in Window, SetQuota(r, q, w)
        PROVE  RightInv(x)'
    <2>1. CASE x = r
      <3> DEFINE old == right[r]
                 new == right'[r]
                 s == SecondsBetween(old.issuedAt, old.windowStart)
                 k == old.freeMints - old.mintedInWindow
      <3>1. /\ Issued(r) /\ RightInv(r) /\ now' = now
            /\ q \in Int /\ w \in Int /\ q >= 0 /\ w > 0
        BY <1>7, MintAssumption DEF MintAssumption, SetQuota, EnsureMintRight, WindowInv
      <3>2. /\ new.issuedAt = old.issuedAt /\ new.windowStart = old.windowStart
            /\ new.mintedInWindow = old.mintedInWindow /\ new.freeMints = old.freeMints
            /\ new.mintQuota = q /\ new.quotaWindowSeconds = w
            /\ new.peakQuota = IF q > old.peakQuota THEN q ELSE old.peakQuota
            /\ new.leastWindow = IF w < old.leastWindow THEN w ELSE old.leastWindow
        BY <1>7, <3>1, RightType DEF SetQuota, TypeOK, TenantMintRight
      <3>3. /\ old.peakQuota \in Nat /\ old.leastWindow \in Nat
            /\ new.peakQuota \in Nat /\ new.leastWindow \in Nat
            /\ old.peakQuota <= new.peakQuota /\ new.leastWindow <= old.leastWindow
            /\ q <= new.peakQuota /\ new.leastWindow <= w
        BY <3>1, <3>2, RightType
      <3>4. /\ k \in Nat /\ s \in Nat
            /\ k * old.leastWindow <= old.peakQuota * s
        BY <3>1, PastMints DEF RightInv, PaidFor
      <3>5. /\ k * new.leastWindow <= k * old.leastWindow
            /\ old.peakQuota * s <= new.peakQuota * s
        BY <3>3, <3>4, ProductMonotone
      <3>6. k * new.leastWindow <= new.peakQuota * s
        BY <3>3, <3>4, <3>5
      <3>7. PaidFor(r)'
        BY <3>2, <3>6 DEF PaidFor
      <3> QED
        BY <2>1, <3>1, <3>2, <3>3, <3>7, RightType DEF RightInv
    <2>2. CASE x # r
      BY <1>1, <1>2, <1>7, <2>2 DEF SetQuota, TypeOK, Issued
    <2> QED
      BY <2>1, <2>2
  <1>8. ASSUME NEW r \in Right, NEW b \in BOOLEAN, SetSuspended(r, b) PROVE RightInv(x)'
    BY <1>2, <1>8 DEF SetSuspended, TypeOK, TenantMintRight, WindowInv, RightInv, PaidFor, Issued
  <1>9. ASSUME NEW r \in Right, NEW p \in Player, NEW i \in Instrument, NEW a \in Amount,
               Mint(r, p, i, a)
        PROVE  RightInv(x)'
    <2>1. CASE x = r
      <3> DEFINE old == right[r]
                 new == right'[r]
                 s == SecondsBetween(old.issuedAt, old.windowStart)
                 e == SecondsBetween(old.windowStart, now)
      <3>1. /\ Issued(r) /\ RightInv(r) /\ now' = now
            /\ UsedBefore(r) < old.mintQuota
        BY <1>9 DEF Mint, MayDeposit, WindowInv
      <3>2. UsedBefore(r) \in Nat
        BY <3>1, RightType DEF UsedBefore
      <3>3. /\ new.issuedAt = old.issuedAt
            /\ new.windowStart = IF WindowExpired(r) THEN now ELSE old.windowStart
            /\ new.mintedInWindow = UsedBefore(r) + 1
            /\ new.freeMints = old.freeMints + 1
            /\ new.mintQuota = old.mintQuota
            /\ new.quotaWindowSeconds = old.quotaWindowSeconds
            /\ new.peakQuota = old.peakQuota /\ new.leastWindow = old.leastWindow
        BY <1>9, <3>1, RightType DEF Mint, TypeOK, TenantMintRight
      <3>4. /\ old.freeMints - old.mintedInWindow \in Nat
            /\ s \in Nat /\ e \in Nat /\ SecondsBetween(old.issuedAt, now) = s + e
            /\ (old.freeMints - old.mintedInWindow) * old.leastWindow <= old.peakQuota * s
        BY <3>1, PastMints DEF RightInv, PaidFor
      <3>5. PaidFor(r)'
        <4>1. CASE WindowExpired(r)
          <5>1. old.leastWindow <= e
            BY <3>1, <3>4, <4>1, RightType DEF WindowExpired, RightInv
          <5>2. /\ old.freeMints \in Nat /\ old.mintedInWindow \in Nat
                /\ old.peakQuota \in Nat /\ old.leastWindow \in Nat
                /\ old.mintedInWindow <= old.freeMints
                /\ old.mintedInWindow <= old.peakQuota
            BY <3>1, RightType DEF RightInv
          <5>3. old.freeMints * old.leastWindow <= old.peakQuota * (s + e)
            BY <3>4, <5>1, <5>2, WindowClosed
          <5>4. /\ new.freeMints - new.mintedInWindow = old.freeMints
                /\ new.windowStart = now
            BY <3>3, <4>1, <5>2 DEF UsedBefore
          <5>5. SecondsBetween(new.issuedAt, new.windowStart) = s + e
            BY <3>3, <3>4, <5>4
          <5> QED
            BY <3>3, <5>3, <5>4, <5>5 DEF PaidFor
        <4>2. CASE ~WindowExpired(r)
          <5>1. /\ new.freeMints - new.mintedInWindow = old.freeMints - old.mintedInWindow
                /\ new.windowStart = old.windowStart
            BY <3>1, <3>3, <4>2, RightType DEF UsedBefore
          <5> QED
            BY <3>3, <3>4, <5>1 DEF PaidFor
        <4> QED
          BY <4>1, <4>2
      <3>6. /\ new.issuedAt <= new.windowStart /\ new.windowStart <= now
            /\ new.mintedInWindow <= new.peakQuota /\ new.mintedInWindow <= new.freeMints
        BY <3>1, <3>2, <3>3, RightType DEF RightInv, UsedBefore
      <3> QED
        BY <2>1, <3>1, <3>3, <3>5, <3>6 DEF RightInv
    <2>2. CASE x # r
      BY <1>1, <1>2, <1>9, <2>2 DEF Mint, TypeOK, Issued
    <2> QED
      BY <2>1, <2>2
  <1>10. ASSUME NEW r \in Right, NEW p \in Player, NEW i \in Instrument, NEW a \in Amount,
                MintApproved(r, p, i, a)
         PROVE  RightInv(x)'
    BY <1>2, <1>10 DEF MintApproved, MayDeposit, TypeOK, TenantMintRight,
                       WindowInv, RightInv, PaidFor, Issued
  <1> QED
    BY RightCases, <1>3, <1>4, <1>5, <1>6, <1>7, <1>8, <1>9, <1>10

\* The invariant at any moment gives the bound.
LEMMA WindowBounds == TypeOK /\ WindowInv => MintRateBounded
  <1> SUFFICES ASSUME TypeOK, WindowInv, NEW r \in Right, Issued(r)
               PROVE  right[r].freeMints * right[r].leastWindow
                        <= right[r].peakQuota * (right[r].leastWindow
                             + SecondsBetween(right[r].issuedAt, now))
    BY DEF MintRateBounded
  <1> DEFINE f == right[r].freeMints
             m == right[r].mintedInWindow
             p == right[r].peakQuota
             w == right[r].leastWindow
             s == SecondsBetween(right[r].issuedAt, right[r].windowStart)
             t == SecondsBetween(right[r].issuedAt, now)
  <1>1. RightInv(r)
    BY DEF WindowInv
  <1>2. /\ s \in Nat /\ t \in Nat /\ s <= t /\ (f - m) * w <= p * s
    BY <1>1, PastMints DEF RightInv, PaidFor
  <1>3. /\ f \in Nat /\ m \in Nat /\ p \in Nat /\ w \in Nat /\ m <= f /\ m <= p
    BY <1>1, RightType DEF RightInv
  <1>4. f * w <= p * (s + w)
    <2> HIDE DEF f, m, p, w, s, t
    <2> QED
      BY <1>2, <1>3, WindowClosed
  <1>5. p * (s + w) <= p * (w + t)
    <2> HIDE DEF f, m, p, w, s, t
    <2>1. s + w \in Nat /\ w + t \in Nat /\ s + w <= w + t /\ p <= p
      BY <1>2, <1>3
    <2> QED
      BY <1>3, <2>1, ProductMonotone
  <1>6. f * w \in Int /\ p * (s + w) \in Int /\ p * (w + t) \in Int
    <2> HIDE DEF f, m, p, w, s, t
    <2> QED
      BY <1>2, <1>3, SMT
  <1> QED
    BY <1>4, <1>5, <1>6

\* For every set of rights, quotas, windows and changes of them, the free
\* mints of a right are bounded by the ledger clock.
THEOREM MintRate == Spec => []MintRateBounded
  <1>1. TypeOK /\ WindowInv /\ [Next]_mintVars => (TypeOK /\ WindowInv)'
    BY MintTypeStep, WindowStep
  <1> QED
    BY MintTypeInit, WindowInit, <1>1, WindowBounds, PTL DEF Spec, mintVars

-----------------------------------------------------------------------------
(* Piles: the finite bags of contracts that the ledger holds, and what a   *)
(* pile weighs when every copy of a contract h weighs w[h].                *)

Thing == Asset \cup AssetTransferOffer \cup AssetAllocation

Pile(b) == IsABag(b) /\ IsFiniteSet(DOMAIN b) /\ DOMAIN b \subseteq Thing

CopiesOf(b, h) == IF h \in DOMAIN b THEN b[h] ELSE 0

Weight == [Thing -> Nat]

Terms(w, b, S) == [h \in S |-> w[h] * CopiesOf(b, h)]

Measure(w, b) == SumOf(Terms(w, b, DOMAIN b), DOMAIN b)

LEMMA PileCopies ==
  ASSUME NEW b, Pile(b)
  PROVE  /\ \A h \in DOMAIN b : b[h] \in Nat /\ b[h] > 0
         /\ \A h : CopiesOf(b, h) \in Nat
BY DEF Pile, IsABag, CopiesOf

LEMMA TermTypes ==
  ASSUME NEW b, Pile(b), NEW w \in Weight, NEW S, S \subseteq Thing
  PROVE  \A h \in S : Terms(w, b, S)[h] \in Nat /\ Terms(w, b, S)[h] = w[h] * CopiesOf(b, h)
<1>1. \A h \in S : w[h] \in Nat /\ CopiesOf(b, h) \in Nat
  BY PileCopies DEF Weight
<1>2. \A m, n \in Nat : m * n \in Nat
  OBVIOUS
<1>3. QED BY <1>1, <1>2 DEF Terms

\* The weight may be summed over more than the contracts of the pile.
LEMMA MeasureOver ==
  ASSUME NEW b, Pile(b), NEW w \in Weight, NEW S, IsFiniteSet(S), S \subseteq Thing,
         DOMAIN b \subseteq S
  PROVE  Measure(w, b) = SumOf(Terms(w, b, S), S)
<1>1. \A h \in S : Terms(w, b, S)[h] \in Int
  BY TermTypes
<1>2. \A h \in S \ DOMAIN b : Terms(w, b, S)[h] = 0
  <2>1. \A h \in S \ DOMAIN b : w[h] \in Nat /\ CopiesOf(b, h) = 0
    BY DEF CopiesOf, Weight
  <2>2. \A n \in Nat : n * 0 = 0
    OBVIOUS
  <2>3. QED BY <2>1, <2>2 DEF Terms
<1>3. SumOf(Terms(w, b, S), S) = SumOf(Terms(w, b, S), DOMAIN b)
  BY <1>1, <1>2, SumWithin
<1>4. IsFiniteSet(DOMAIN b) /\ DOMAIN b \subseteq Thing
  BY DEF Pile
<1>5. \A h \in DOMAIN b : /\ Terms(w, b, DOMAIN b)[h] \in Int
                          /\ Terms(w, b, S)[h] = Terms(w, b, DOMAIN b)[h]
  BY <1>4, TermTypes DEF Terms
<1>6. SumOf(Terms(w, b, S), DOMAIN b) = SumOf(Terms(w, b, DOMAIN b), DOMAIN b)
  BY <1>4, <1>5, SumSame
<1>7. QED BY <1>3, <1>6 DEF Measure

LEMMA MeasureType ==
  ASSUME NEW b, Pile(b), NEW w \in Weight
  PROVE  Measure(w, b) \in Nat
BY TermTypes, SumNat DEF Measure, Pile

\* The copies of each contract decide the weight.
LEMMA MeasureBalance ==
  ASSUME NEW a, NEW b, NEW c, NEW d, Pile(a), Pile(b), Pile(c), Pile(d), NEW w \in Weight,
         \A h \in Thing : CopiesOf(a, h) + CopiesOf(b, h) = CopiesOf(c, h) + CopiesOf(d, h)
  PROVE  Measure(w, a) + Measure(w, b) = Measure(w, c) + Measure(w, d)
<1> DEFINE S == (DOMAIN a \cup DOMAIN b) \cup (DOMAIN c \cup DOMAIN d)
           t == [h \in S |-> Terms(w, a, S)[h] + Terms(w, b, S)[h]]
<1>1. IsFiniteSet(S) /\ S \subseteq Thing
  <2>1. IsFiniteSet(DOMAIN a \cup DOMAIN b) /\ IsFiniteSet(DOMAIN c \cup DOMAIN d)
    BY FS_Union DEF Pile
  <2>2. QED BY <2>1, FS_Union DEF Pile
<1>2. DOMAIN a \subseteq S /\ DOMAIN b \subseteq S /\ DOMAIN c \subseteq S /\ DOMAIN d \subseteq S
  OBVIOUS
<1> HIDE DEF S
<1>3. /\ Measure(w, a) = SumOf(Terms(w, a, S), S) /\ Measure(w, b) = SumOf(Terms(w, b, S), S)
      /\ Measure(w, c) = SumOf(Terms(w, c, S), S) /\ Measure(w, d) = SumOf(Terms(w, d, S), S)
  BY <1>1, <1>2, MeasureOver
<1>4. \A h \in S : /\ Terms(w, a, S)[h] \in Int /\ Terms(w, b, S)[h] \in Int
                   /\ Terms(w, c, S)[h] \in Int /\ Terms(w, d, S)[h] \in Int
  BY <1>1, TermTypes
<1>5. \A h \in S : t[h] = Terms(w, c, S)[h] + Terms(w, d, S)[h]
  <2> SUFFICES ASSUME NEW h \in S PROVE t[h] = Terms(w, c, S)[h] + Terms(w, d, S)[h]
    OBVIOUS
  <2>1. /\ w[h] \in Nat
        /\ CopiesOf(a, h) \in Nat /\ CopiesOf(b, h) \in Nat
        /\ CopiesOf(c, h) \in Nat /\ CopiesOf(d, h) \in Nat
        /\ CopiesOf(a, h) + CopiesOf(b, h) = CopiesOf(c, h) + CopiesOf(d, h)
    BY <1>1, PileCopies DEF Weight
  <2>2. \A m, i, j, k, l \in Nat : i + j = k + l => m * i + m * j = m * k + m * l
    BY SMT
  <2>3. w[h] * CopiesOf(a, h) + w[h] * CopiesOf(b, h)
          = w[h] * CopiesOf(c, h) + w[h] * CopiesOf(d, h)
    BY <2>1, <2>2
  <2>4. QED BY <2>3 DEF Terms
<1>6. SumOf(t, S) = SumOf(Terms(w, a, S), S) + SumOf(Terms(w, b, S), S)
  <2>1. \A h \in S : t[h] = Terms(w, a, S)[h] + Terms(w, b, S)[h]
    OBVIOUS
  <2> HIDE DEF t
  <2>2. QED BY <1>1, <1>4, <2>1, SumPlus
<1>7. SumOf(t, S) = SumOf(Terms(w, c, S), S) + SumOf(Terms(w, d, S), S)
  <2> HIDE DEF t
  <2>1. QED BY <1>1, <1>4, <1>5, SumPlus
<1>8. QED BY <1>3, <1>6, <1>7

LEMMA NothingIsPile == Pile(EmptyBag) /\ DOMAIN EmptyBag = {}
<1>1. DOMAIN EmptyBag = {}
  BY DEF EmptyBag, SetToBag
<1>2. QED BY <1>1, FS_EmptySet DEF Pile, IsABag, EmptyBag, SetToBag

LEMMA NothingWeighsNothing ==
  ASSUME NEW w \in Weight
  PROVE  Pile(EmptyBag) /\ Measure(w, EmptyBag) = 0 /\ \A h : CopiesOf(EmptyBag, h) = 0
BY NothingIsPile, SumEmpty DEF Measure, CopiesOf

LEMMA OneWeighs ==
  ASSUME NEW h \in Thing, NEW w \in Weight
  PROVE  /\ Pile(One(h)) /\ Measure(w, One(h)) = w[h]
         /\ \A e : CopiesOf(One(h), e) = IF e = h THEN 1 ELSE 0
<1>1. DOMAIN One(h) = {h} /\ One(h)[h] = 1
  BY DEF One, SetToBag
<1>2. Pile(One(h))
  BY <1>1, FS_Singleton DEF Pile, IsABag, One, SetToBag
<1>3. \A e : CopiesOf(One(h), e) = IF e = h THEN 1 ELSE 0
  BY <1>1 DEF CopiesOf
<1>4. Terms(w, One(h), {h})[h] = w[h] /\ w[h] \in Int
  BY <1>3 DEF Terms, Weight
<1>5. QED BY <1>1, <1>2, <1>3, <1>4, SumOne DEF Measure

LEMMA JoinWeighs ==
  ASSUME NEW a, NEW b, Pile(a), Pile(b)
  PROVE  /\ Pile(a (+) b)
         /\ \A h : CopiesOf(a (+) b, h) = CopiesOf(a, h) + CopiesOf(b, h)
         /\ \A w \in Weight : Measure(w, a (+) b) = Measure(w, a) + Measure(w, b)
<1> DEFINE c == a (+) b
<1>1. /\ DOMAIN c = DOMAIN a \cup DOMAIN b
      /\ \A h \in DOMAIN c : c[h] = CopiesOf(a, h) + CopiesOf(b, h)
  BY DEF (+), CopiesOf
<1>2. IsABag(c)
  <2>1. c = [h \in DOMAIN c |-> c[h]]
    BY DEF (+)
  <2> HIDE DEF c
  <2>2. \A h \in DOMAIN c : c[h] \in Nat /\ c[h] > 0
    BY <1>1, PileCopies DEF CopiesOf
  <2>3. QED BY <2>1, <2>2 DEF IsABag
<1> HIDE DEF c
<1>3. Pile(c)
  BY <1>1, <1>2, FS_Union DEF Pile
<1>4. \A h : CopiesOf(c, h) = CopiesOf(a, h) + CopiesOf(b, h)
  BY <1>1 DEF CopiesOf
<1>5. ASSUME NEW w \in Weight PROVE Measure(w, c) = Measure(w, a) + Measure(w, b)
  <2>1. Pile(EmptyBag) /\ Measure(w, EmptyBag) = 0 /\ \A h : CopiesOf(EmptyBag, h) = 0
    BY NothingWeighsNothing
  <2>2. \A h \in Thing : CopiesOf(c, h) + CopiesOf(EmptyBag, h) = CopiesOf(a, h) + CopiesOf(b, h)
    BY <1>4, <2>1, PileCopies
  <2>3. Measure(w, c) + Measure(w, EmptyBag) = Measure(w, a) + Measure(w, b)
    BY <1>3, <2>1, <2>2, MeasureBalance
  <2>4. Measure(w, c) \in Nat /\ Measure(w, a) \in Nat /\ Measure(w, b) \in Nat
    BY <1>3, MeasureType
  <2>5. QED BY <2>1, <2>3, <2>4
<1>6. QED BY <1>3, <1>4, <1>5 DEF c

LEMMA TakeAway ==
  ASSUME NEW a, NEW b, Pile(a), Pile(b), b \sqsubseteq a
  PROVE  /\ Pile(a (-) b)
         /\ \A h : CopiesOf(a (-) b, h) + CopiesOf(b, h) = CopiesOf(a, h)
<1> DEFINE left(h) == IF h \in DOMAIN b THEN a[h] - b[h] ELSE a[h]
           D == {h \in DOMAIN a : left(h) > 0}
           c == a (-) b
<1>1. c = [h \in D |-> left(h)]
  <2>1. DOMAIN c = D
    BY DEF (-)
  <2>2. \A h \in D : c[h] = left(h)
    BY DEF (-)
  <2>3. c = [h \in DOMAIN c |-> c[h]]
    BY DEF (-)
  <2> HIDE DEF c, D, left
  <2>4. QED BY <2>1, <2>2, <2>3
<1>2. \A h \in DOMAIN a : a[h] \in Nat /\ a[h] > 0
  BY PileCopies
<1>3. \A h \in DOMAIN b : h \in DOMAIN a /\ b[h] \in Nat /\ b[h] > 0 /\ b[h] <= a[h]
  BY PileCopies DEF \sqsubseteq
<1>4. \A h \in DOMAIN a : left(h) \in Nat
  BY <1>2, <1>3
<1>5. \A h \in D : left(h) \in Nat /\ left(h) > 0
  BY <1>4
<1> HIDE DEF c
<1>6. IsABag(c)
  <2> HIDE DEF left, D
  <2>1. QED BY <1>1, <1>5 DEF IsABag
<1>7. D \subseteq DOMAIN a /\ DOMAIN c = D
  BY <1>1
<1>8. Pile(c)
  <2> HIDE DEF D
  <2>1. QED BY <1>6, <1>7, FS_Subset DEF Pile
<1>9. ASSUME NEW h PROVE CopiesOf(c, h) + CopiesOf(b, h) = CopiesOf(a, h)
  <2>1. CASE h \notin DOMAIN a
    BY <2>1, <1>3, <1>7 DEF CopiesOf
  <2>2. CASE h \in D
    BY <2>2, <1>1, <1>2, <1>3 DEF CopiesOf
  <2>3. CASE h \in DOMAIN a /\ h \notin D
    <3>1. left(h) = 0 /\ h \in DOMAIN b
      BY <2>3, <1>2, <1>4
    <3>2. a[h] = b[h]
      BY <2>3, <3>1, <1>2, <1>3
    <3>3. CopiesOf(c, h) = 0
      BY <2>3, <1>7 DEF CopiesOf
    <3>4. QED BY <2>3, <3>1, <3>2, <3>3, <1>3 DEF CopiesOf
  <2>4. QED BY <2>1, <2>2, <2>3
<1>10. QED BY <1>8, <1>9 DEF c

\* A transaction that takes some contracts and makes others.
LEMMA ReplaceWeighs ==
  ASSUME NEW a, NEW old, NEW new, Pile(a), Pile(old), Pile(new), old \sqsubseteq a
  PROVE  LET b == (a (-) old) (+) new
         IN  /\ Pile(b)
             /\ \A h : CopiesOf(b, h) + CopiesOf(old, h) = CopiesOf(a, h) + CopiesOf(new, h)
             /\ \A w \in Weight :
                  /\ Measure(w, b) = Measure(w, a) - Measure(w, old) + Measure(w, new)
                  /\ Measure(w, old) <= Measure(w, a)
<1> DEFINE c == a (-) old
           b == c (+) new
<1>1. Pile(c) /\ \A h : CopiesOf(c, h) + CopiesOf(old, h) = CopiesOf(a, h)
  BY TakeAway
<1> HIDE DEF c
<1>2. /\ Pile(b) /\ \A h : CopiesOf(b, h) = CopiesOf(c, h) + CopiesOf(new, h)
      /\ \A w \in Weight : Measure(w, b) = Measure(w, c) + Measure(w, new)
  BY <1>1, JoinWeighs
<1> HIDE DEF b
<1>3. \A h : CopiesOf(b, h) + CopiesOf(old, h) = CopiesOf(a, h) + CopiesOf(new, h)
  <2> SUFFICES ASSUME NEW h
               PROVE  CopiesOf(b, h) + CopiesOf(old, h) = CopiesOf(a, h) + CopiesOf(new, h)
    OBVIOUS
  <2>1. /\ CopiesOf(c, h) \in Nat /\ CopiesOf(old, h) \in Nat /\ CopiesOf(new, h) \in Nat
    BY <1>1, PileCopies
  <2>2. /\ CopiesOf(b, h) = CopiesOf(c, h) + CopiesOf(new, h)
        /\ CopiesOf(c, h) + CopiesOf(old, h) = CopiesOf(a, h)
    BY <1>1, <1>2
  <2>3. QED BY <2>1, <2>2
<1>4. ASSUME NEW w \in Weight
      PROVE  /\ Measure(w, b) = Measure(w, a) - Measure(w, old) + Measure(w, new)
             /\ Measure(w, old) <= Measure(w, a)
  <2>1. /\ Measure(w, a) \in Nat /\ Measure(w, old) \in Nat /\ Measure(w, c) \in Nat
        /\ Measure(w, new) \in Nat
    BY <1>1, MeasureType
  <2>2. Pile(EmptyBag) /\ Measure(w, EmptyBag) = 0 /\ \A h : CopiesOf(EmptyBag, h) = 0
    BY NothingWeighsNothing
  <2>3. \A h \in Thing : CopiesOf(c, h) + CopiesOf(old, h) = CopiesOf(a, h) + CopiesOf(EmptyBag, h)
    BY <1>1, <2>2, PileCopies
  <2>4. Measure(w, c) + Measure(w, old) = Measure(w, a) + Measure(w, EmptyBag)
    BY <1>1, <2>2, <2>3, MeasureBalance
  <2>5. Measure(w, b) = Measure(w, c) + Measure(w, new)
    BY <1>2
  <2>6. QED BY <2>1, <2>2, <2>4, <2>5
<1>5. QED BY <1>2, <1>3, <1>4 DEF b, c

\* The contracts that a choice f names, as often as it names them, shown for
\* one part E of its keys after the other.
PartOf(f, E) == [k \in E |-> f[k]]

Times(f, E, h) == Cardinality({k \in E : f[k] = h})

WeighedBy(w, f) == [k \in DOMAIN f |-> w[f[k]]]

Weighs(f, E) ==
  /\ Pile(Picked(PartOf(f, E)))
  /\ \A w \in Weight : Measure(w, Picked(PartOf(f, E))) = SumOf(WeighedBy(w, f), E)

LEMMA PickedPart ==
  ASSUME NEW f, IsFiniteSet(DOMAIN f), NEW E \in SUBSET DOMAIN f
  PROVE  /\ Picked(PartOf(f, E)) = [h \in {f[k] : k \in E} |-> Times(f, E, h)]
         /\ \A h : /\ Times(f, E, h) \in Nat
                   /\ Times(f, E, h) = 0 <=> \A k \in E : f[k] # h
                   /\ CopiesOf(Picked(PartOf(f, E)), h) = Times(f, E, h)
<1>1. Picked(PartOf(f, E)) = [h \in {f[k] : k \in E} |-> Times(f, E, h)]
  <2>1. DOMAIN PartOf(f, E) = E /\ \A k \in E : PartOf(f, E)[k] = f[k]
    BY DEF PartOf
  <2>2. Range(PartOf(f, E)) = {f[k] : k \in E}
    BY <2>1 DEF Range
  <2>3. \A h : {k \in DOMAIN PartOf(f, E) : PartOf(f, E)[k] = h} = {k \in E : f[k] = h}
    BY <2>1
  <2>4. QED BY <2>2, <2>3 DEF Picked, Times
<1>2. ASSUME NEW h
      PROVE  Times(f, E, h) \in Nat /\ (Times(f, E, h) = 0 <=> \A k \in E : f[k] # h)
  <2>1. {k \in E : f[k] = h} \in SUBSET DOMAIN f
    OBVIOUS
  <2>2. IsFiniteSet({k \in E : f[k] = h})
    BY <2>1, FS_Subset
  <2>3. QED BY <2>2, FS_CardinalityType, FS_EmptySet DEF Times
<1>3. ASSUME NEW h PROVE CopiesOf(Picked(PartOf(f, E)), h) = Times(f, E, h)
  <2>1. Times(f, E, h) = 0 <=> \A k \in E : f[k] # h
    BY <1>2
  <2>2. QED BY <1>1, <2>1 DEF CopiesOf
<1>4. QED BY <1>1, <1>2, <1>3

LEMMA PickedOneMore ==
  ASSUME NEW f, IsFiniteSet(DOMAIN f), \A k \in DOMAIN f : f[k] \in Thing,
         NEW E \in SUBSET DOMAIN f, NEW e \in DOMAIN f \ E, Weighs(f, E)
  PROVE  Weighs(f, E \cup {e})
<1> DEFINE G == E \cup {e}
           old == Picked(PartOf(f, E))
           new == Picked(PartOf(f, G))
           one == One(f[e])
<1>1. G \in SUBSET DOMAIN f /\ f[e] \in Thing /\ IsFiniteSet(E) /\ e \notin E
  BY FS_Subset
<1>2. \A h : Times(f, G, h) = Times(f, E, h) + (IF h = f[e] THEN 1 ELSE 0)
  <2> SUFFICES ASSUME NEW h
               PROVE  Times(f, G, h) = Times(f, E, h) + (IF h = f[e] THEN 1 ELSE 0)
    OBVIOUS
  <2> DEFINE A == {k \in E : f[k] = h}
  <2>1. IsFiniteSet(A) /\ e \notin A
    BY <1>1, FS_Subset
  <2>2. {k \in G : f[k] = h} = IF h = f[e] THEN A \cup {e} ELSE A
    OBVIOUS
  <2>3. Cardinality(A \cup {e}) = Cardinality(A) + 1 /\ Cardinality(A) \in Nat
    <3> HIDE DEF A
    <3>1. QED BY <2>1, FS_AddElement, FS_CardinalityType
  <2>4. Times(f, G, h) = Cardinality({k \in G : f[k] = h}) /\ Times(f, E, h) = Cardinality(A)
    BY DEF Times
  <2> HIDE DEF A, G
  <2>5. CASE h = f[e]
    BY <2>2, <2>3, <2>4, <2>5
  <2>6. CASE h # f[e]
    <3>1. Times(f, G, h) = Times(f, E, h)
      BY <2>2, <2>4, <2>6
    <3>2. Times(f, E, h) \in Nat
      BY <2>3, <2>4
    <3>3. QED BY <2>6, <3>1, <3>2
  <2>7. QED BY <2>5, <2>6
<1>3. /\ new = [h \in {f[k] : k \in G} |-> Times(f, G, h)]
      /\ \A h : /\ CopiesOf(new, h) = Times(f, G, h)
                /\ CopiesOf(old, h) = Times(f, E, h)
                /\ Times(f, G, h) \in Nat /\ Times(f, E, h) \in Nat
                /\ Times(f, G, h) = 0 <=> \A k \in G : f[k] # h
  <2> HIDE DEF G
  <2>1. QED BY <1>1, PickedPart
<1>4. Pile(new)
  <2> DEFINE D == {f[k] : k \in G}
  <2>1. DOMAIN new = D
    <3> HIDE DEF new, D
    <3>1. QED BY <1>3 DEF D
  <2>2. IsFiniteSet(D)
    <3> DEFINE C == {f[k] : k \in E}
    <3>1. old = [h \in C |-> Times(f, E, h)]
      BY PickedPart
    <3>2. IsFiniteSet(DOMAIN old)
      BY DEF Weighs, Pile
    <3>3. \A h : h \in D <=> h \in C \cup {f[e]}
      OBVIOUS
    <3> HIDE DEF old, C, D
    <3>4. DOMAIN old = C /\ D = C \cup {f[e]}
      BY <3>1, <3>3
    <3>5. QED BY <3>2, <3>4, FS_AddElement
  <2>3. D \subseteq Thing
    BY <1>1
  <2>4. \A h \in D : Times(f, G, h) \in Nat /\ Times(f, G, h) > 0
    BY <1>3
  <2>5. new = [h \in D |-> Times(f, G, h)]
    BY <1>3
  <2> HIDE DEF new, D, G
  <2>6. QED BY <2>1, <2>2, <2>3, <2>4, <2>5 DEF Pile, IsABag
<1>5. ASSUME NEW w \in Weight
      PROVE  Measure(w, new) = SumOf(WeighedBy(w, f), G)
  <2> DEFINE t == WeighedBy(w, f)
  <2>1. Pile(old) /\ Measure(w, old) = SumOf(t, E)
    BY DEF Weighs
  <2>2. /\ Pile(EmptyBag) /\ Measure(w, EmptyBag) = 0 /\ \A h : CopiesOf(EmptyBag, h) = 0
    BY NothingWeighsNothing
  <2>3. /\ Pile(one) /\ Measure(w, one) = w[f[e]]
        /\ \A h : CopiesOf(one, h) = IF h = f[e] THEN 1 ELSE 0
    BY <1>1, OneWeighs
  <2> HIDE DEF new, old, one
  <2>4. \A h \in Thing : CopiesOf(new, h) + CopiesOf(EmptyBag, h)
                           = CopiesOf(old, h) + CopiesOf(one, h)
    <3> SUFFICES ASSUME NEW h \in Thing
                 PROVE  CopiesOf(new, h) + CopiesOf(EmptyBag, h)
                          = CopiesOf(old, h) + CopiesOf(one, h)
      OBVIOUS
    <3> HIDE DEF G
    <3>1. QED BY <1>2, <1>3, <2>2, <2>3
  <2>5. Measure(w, new) + Measure(w, EmptyBag) = Measure(w, old) + Measure(w, one)
    BY <1>4, <2>1, <2>2, <2>3, <2>4, MeasureBalance
  <2>6. Measure(w, new) \in Nat /\ w[f[e]] \in Nat
    BY <1>1, <1>4, MeasureType DEF Weight
  <2>7. t[e] = w[f[e]] /\ \A k \in DOMAIN f : t[k] \in Int
    BY DEF Weight, WeighedBy
  <2> HIDE DEF t
  <2>8. SumOf(t, E \cup {e}) = t[e] + SumOf(t, E)
    BY <1>1, <2>7, SumAdd
  <2>9. SumOf(t, E) \in Int
    BY <1>1, <2>7, SumType
  <2>10. Measure(w, new) = SumOf(t, E \cup {e})
    BY <2>1, <2>2, <2>3, <2>5, <2>6, <2>7, <2>8, <2>9
  <2>11. QED BY <2>10 DEF t
<1>6. QED BY <1>4, <1>5 DEF Weighs

LEMMA PickedWeighs ==
  ASSUME NEW f, f = [k \in DOMAIN f |-> f[k]], IsFiniteSet(DOMAIN f),
         \A k \in DOMAIN f : f[k] \in Thing
  PROVE  /\ Pile(Picked(f)) /\ DOMAIN Picked(f) = {f[k] : k \in DOMAIN f}
         /\ \A w \in Weight : Measure(w, Picked(f)) = SumOf(WeighedBy(w, f), DOMAIN f)
<1> DEFINE F == {E \in SUBSET DOMAIN f : Weighs(f, E)}
<1>1. {} \in F
  <2>1. {f[k] : k \in {}} = {}
    OBVIOUS
  <2>2. Picked(PartOf(f, {})) = [h \in {f[k] : k \in {}} |-> Times(f, {}, h)]
    BY PickedPart
  <2> DEFINE none == Picked(PartOf(f, {}))
  <2>6. none = [h \in {} |-> 1]
    <3>1. none = [h \in {} |-> Times(f, {}, h)]
      BY <2>1, <2>2
    <3> HIDE DEF none
    <3>2. QED BY <3>1
  <2>7. EmptyBag = [h \in {} |-> 1]
    BY DEF EmptyBag, SetToBag
  <2>3. none = EmptyBag
    BY <2>6, <2>7
  <2>4. Weighs(f, {})
    <3> HIDE DEF none
    <3>1. Pile(none) /\ \A w \in Weight : Measure(w, none) = SumOf(WeighedBy(w, f), {})
      BY <2>3, NothingIsPile, NothingWeighsNothing, SumEmpty
    <3>2. QED BY <3>1 DEF Weighs, none
  <2>5. QED BY <2>4
<1>2. ASSUME NEW E \in SUBSET DOMAIN f, NEW e \in DOMAIN f \ E, E \in F
      PROVE  E \cup {e} \in F
  BY <1>2, PickedOneMore
<1> HIDE DEF F
<1>3. DOMAIN f \in F
  BY <1>1, <1>2, FiniteInduction
<1>4. PartOf(f, DOMAIN f) = f
  BY DEF PartOf
<1>5. Picked(f) = [h \in {f[k] : k \in DOMAIN f} |-> Times(f, DOMAIN f, h)]
  <2>1. DOMAIN f \in SUBSET DOMAIN f
    OBVIOUS
  <2>2. QED BY <1>4, <2>1, PickedPart
<1>6. QED BY <1>3, <1>4, <1>5 DEF F, Weighs

-----------------------------------------------------------------------------
(* The value of contracts is a weight: what a purse has free and reserved, *)
(* and what the players P hold of instrument i in all.                     *)

Worth(b) == [h \in DOMAIN b |-> h.amount * b[h]]

\* The equation of Value, as Summed is the equation of a sum.
Valued(b, g, s) ==
  IF s = {} THEN 0
  ELSE (CHOOSE x \in s : TRUE).amount * b[CHOOSE x \in s : TRUE] + g[s \ {CHOOSE x \in s : TRUE}]

LEMMA ValueIsSum ==
  ASSUME NEW b, NEW S, IsFiniteSet(S), S \subseteq DOMAIN b
  PROVE  Value(S, b) = SumOf(Worth(b), S)
<1> DEFINE Solves(g) == g = [s \in SUBSET S |-> Valued(b, g, s)]
<1>1. Value(S, b) = (CHOOSE g : Solves(g))[S]
  BY DEF Value, MapThenSumSet, MapThenFoldSet, Valued
<1>2. ASSUME NEW g PROVE Solves(g) <=> IsSum(Worth(b), S, g)
  <2>1. ASSUME NEW s \in SUBSET S PROVE Valued(b, g, s) = Summed(Worth(b), g, s)
    <3>1. CASE s = {}
      BY <3>1 DEF Valued, Summed
    <3>2. CASE s # {}
      <4> DEFINE c == CHOOSE x \in s : TRUE
      <4>1. c \in s
        BY <3>2
      <4>2. Valued(b, g, s) = c.amount * b[c] + g[s \ {c}]
        BY <3>2 DEF Valued
      <4>3. Summed(Worth(b), g, s) = Worth(b)[c] + g[s \ {c}]
        BY <3>2 DEF Summed
      <4> HIDE DEF c
      <4>4. Worth(b)[c] = c.amount * b[c]
        BY <4>1 DEF Worth
      <4>5. QED BY <4>2, <4>3, <4>4
    <3>3. QED BY <3>1, <3>2
  <2>2. [s \in SUBSET S |-> Valued(b, g, s)] = [s \in SUBSET S |-> Summed(Worth(b), g, s)]
    BY <2>1
  <2>3. QED BY <2>2 DEF IsSum
<1> HIDE DEF Solves
<1>3. \E g : Solves(g)
  BY <1>2, SumExists
<1>4. PICK g : g = CHOOSE x : Solves(x)
  OBVIOUS
<1>5. Solves(g)
  BY <1>3, <1>4
<1>6. IsSum(Worth(b), S, g)
  BY <1>2, <1>5
<1>7. g[S] = SumOf(Worth(b), S)
  BY <1>6, SumIs
<1>8. QED BY <1>1, <1>4, <1>7

LEMMA ValueWeighs ==
  ASSUME NEW b, Pile(b), NEW S, S \subseteq DOMAIN b, NEW w \in Weight,
         \A h \in S : w[h] = h.amount, \A h \in DOMAIN b \ S : w[h] = 0
  PROVE  Value(S, b) = Measure(w, b)
<1> DEFINE t == Terms(w, b, DOMAIN b)
<1>1. IsFiniteSet(DOMAIN b) /\ DOMAIN b \subseteq Thing /\ IsFiniteSet(S)
  BY FS_Subset DEF Pile
<1>2. \A h \in DOMAIN b : t[h] \in Int /\ t[h] = w[h] * b[h]
  <2>1. \A h \in DOMAIN b : t[h] \in Nat /\ t[h] = w[h] * CopiesOf(b, h)
    BY <1>1, TermTypes
  <2>2. QED BY <2>1 DEF CopiesOf
<1>3. \A h \in S : t[h] \in Int /\ Worth(b)[h] = t[h]
  BY <1>2 DEF Worth
<1>4. \A h \in DOMAIN b \ S : t[h] = 0
  <2>1. \A h \in DOMAIN b \ S : w[h] = 0 /\ b[h] \in Nat
    BY PileCopies
  <2>2. \A n \in Nat : 0 * n = 0
    OBVIOUS
  <2>3. QED BY <1>2, <2>1, <2>2
<1> HIDE DEF t
<1>5. SumOf(t, DOMAIN b) = SumOf(t, S)
  BY <1>1, <1>2, <1>4, SumWithin
<1>6. SumOf(Worth(b), S) = SumOf(t, S)
  BY <1>1, <1>3, SumSame
<1>7. Value(S, b) = SumOf(Worth(b), S)
  BY <1>1, ValueIsSum
<1>8. QED BY <1>5, <1>6, <1>7 DEF t, Measure

LEMMA MeasureZero ==
  ASSUME NEW b, Pile(b), NEW w \in Weight, \A h \in DOMAIN b : w[h] = 0
  PROVE  Measure(w, b) = 0
<1> DEFINE t == Terms(w, b, DOMAIN b)
<1>1. IsFiniteSet(DOMAIN b) /\ DOMAIN b \subseteq Thing
  BY DEF Pile
<1>2. \A h \in DOMAIN b : t[h] = w[h] * CopiesOf(b, h) /\ CopiesOf(b, h) \in Nat
  BY <1>1, TermTypes, PileCopies
<1>3. \A n \in Nat : 0 * n = 0
  OBVIOUS
<1>4. \A h \in DOMAIN b : t[h] = 0
  BY <1>2, <1>3
<1> HIDE DEF t
<1>5. SumOf(t, DOMAIN b) = 0
  BY <1>1, <1>4, SumZero
<1>6. QED BY <1>5 DEF t, Measure

LEMMA MeasurePlus ==
  ASSUME NEW b, Pile(b), NEW u \in Weight, NEW v \in Weight, NEW w \in Weight,
         \A h \in DOMAIN b : w[h] = u[h] + v[h]
  PROVE  Measure(w, b) = Measure(u, b) + Measure(v, b)
<1> DEFINE S == DOMAIN b
           t == Terms(w, b, S)
           p == Terms(u, b, S)
           q == Terms(v, b, S)
<1>1. IsFiniteSet(S) /\ S \subseteq Thing
  BY DEF Pile
<1>2. \A h \in S : /\ t[h] = w[h] * CopiesOf(b, h) /\ p[h] = u[h] * CopiesOf(b, h)
                   /\ q[h] = v[h] * CopiesOf(b, h) /\ p[h] \in Int /\ q[h] \in Int
                   /\ CopiesOf(b, h) \in Nat /\ u[h] \in Nat /\ v[h] \in Nat
  BY <1>1, TermTypes, PileCopies DEF Weight
<1>3. \A k, l, n \in Nat : (k + l) * n = k * n + l * n
  BY SMT
<1> HIDE DEF t, p, q
<1>4. \A h \in S : p[h] \in Int /\ q[h] \in Int /\ t[h] = p[h] + q[h]
  BY <1>2, <1>3
<1>5. SumOf(t, S) = SumOf(p, S) + SumOf(q, S)
  <2> HIDE DEF S
  <2>1. QED BY <1>1, <1>4, SumPlus
<1>6. QED BY <1>5 DEF t, p, q, Measure

Holder(h) == IF h.kind = "asset" THEN h.owner ELSE h.sender

FreeW(k) ==
  [h \in Thing |->
     IF h.kind = "asset" /\ h.owner = k[1] /\ h.instrument = k[2] THEN h.amount ELSE 0]
ReservedW(k) ==
  [h \in Thing |->
     IF h.kind # "asset" /\ h.sender = k[1] /\ h.instrument = k[2] THEN h.amount ELSE 0]
HeldW(P, i) ==
  [h \in Thing |-> IF h.instrument = i /\ Holder(h) \in P THEN h.amount ELSE 0]

LEMMA ThingTypes ==
  ASSUME NEW h \in Thing
  PROVE  /\ h.kind \in {"asset", "offer", "allocation"}
         /\ h.kind = "asset" => h \in Asset /\ h.owner \in Player
         /\ h.kind = "offer" => h \in AssetTransferOffer
         /\ h.kind = "allocation" => h \in AssetAllocation
         /\ h.kind # "asset" => h.sender \in Player /\ h.receiver \in Player
         /\ Holder(h) \in Player
         /\ h.instrument \in Instrument /\ h.amount \in Nat /\ h.amount > 0
<1>1. CASE h \in Asset
  BY <1>1 DEF Asset, Holder
<1>2. CASE h \in AssetTransferOffer
  BY <1>2 DEF AssetTransferOffer, Holder
<1>3. CASE h \in AssetAllocation
  BY <1>3 DEF AssetAllocation, Holder
<1>4. QED BY <1>1, <1>2, <1>3 DEF Thing

LEMMA WeightTypes ==
  /\ \A k : FreeW(k) \in Weight /\ ReservedW(k) \in Weight
  /\ \A P, i : HeldW(P, i) \in Weight
BY ThingTypes DEF FreeW, ReservedW, HeldW, Weight

LEMMA PurseWeighs ==
  ASSUME Pile(holdings), NEW k
  PROVE  FreeOf(k) = Measure(FreeW(k), holdings) /\ ReservedOf(k) = Measure(ReservedW(k), holdings)
<1>1. DOMAIN holdings \subseteq Thing
  BY DEF Pile
<1>2. FreeOf(k) = Measure(FreeW(k), holdings)
  <2> DEFINE S == {h \in Contracts("asset") : h.owner = k[1] /\ h.instrument = k[2]}
  <2>1. S \subseteq DOMAIN holdings
    BY DEF Contracts
  <2>2. /\ \A h \in S : FreeW(k)[h] = h.amount
        /\ \A h \in DOMAIN holdings \ S : FreeW(k)[h] = 0
    BY <1>1 DEF FreeW, Contracts
  <2>3. FreeOf(k) = Value(S, holdings)
    BY DEF FreeOf
  <2> HIDE DEF S
  <2>4. QED BY <2>1, <2>2, <2>3, ValueWeighs, WeightTypes
<1>3. ReservedOf(k) = Measure(ReservedW(k), holdings)
  <2> DEFINE S == {h \in Contracts("offer") \cup Contracts("allocation") :
                     h.sender = k[1] /\ h.instrument = k[2]}
  <2>1. S \subseteq DOMAIN holdings
    BY DEF Contracts
  <2>2. /\ \A h \in S : ReservedW(k)[h] = h.amount
        /\ \A h \in DOMAIN holdings \ S : ReservedW(k)[h] = 0
    BY <1>1, ThingTypes DEF ReservedW, Contracts
  <2>3. ReservedOf(k) = Value(S, holdings)
    BY DEF ReservedOf
  <2> HIDE DEF S
  <2>4. QED BY <2>1, <2>2, <2>3, ValueWeighs, WeightTypes
<1>4. QED BY <1>2, <1>3

HoldingsPile == Pile(holdings)

PursesWeigh ==
  \A k : FreeOf(k) = Measure(FreeW(k), holdings) /\ ReservedOf(k) = Measure(ReservedW(k), holdings)

LEMMA PursesWeighNow == HoldingsPile => PursesWeigh
BY PurseWeighs DEF HoldingsPile, PursesWeigh

LEMMA PursesWeighNext == HoldingsPile' => PursesWeigh'
BY PursesWeighNow, PTL

\* All purses of an instrument together: what the players hold of it.
LEMMA PlayersWeigh ==
  ASSUME NEW b, Pile(b), NEW i \in Instrument
  PROVE  SumOf([p \in Player |-> Measure(FreeW(<<p, i>>), b) + Measure(ReservedW(<<p, i>>), b)],
               Player) = Measure(HeldW(Player, i), b)
<1> DEFINE f == [p \in Player |-> Measure(FreeW(<<p, i>>), b) + Measure(ReservedW(<<p, i>>), b)]
           F == {P \in SUBSET Player : SumOf(f, P) = Measure(HeldW(P, i), b)}
<1>0. IsFiniteSet(Player) /\ DOMAIN b \subseteq Thing
  BY MarketAssumption DEF MarketAssumption, Pile
<1>1. {} \in F
  <2>1. \A h \in DOMAIN b : HeldW({}, i)[h] = 0
    BY <1>0 DEF HeldW
  <2>2. Measure(HeldW({}, i), b) = 0
    BY <2>1, MeasureZero, WeightTypes
  <2>3. QED BY <2>2, SumEmpty
<1>2. \A p \in Player : f[p] \in Int
  BY MeasureType, WeightTypes
<1>3. ASSUME NEW P \in SUBSET Player, NEW e \in Player \ P, P \in F
      PROVE  P \cup {e} \in F
  <2> DEFINE u == FreeW(<<e, i>>)
             v == ReservedW(<<e, i>>)
             uv == [h \in Thing |-> u[h] + v[h]]
             w == HeldW(P, i)
             x == HeldW(P \cup {e}, i)
  <2>1. u \in Weight /\ v \in Weight /\ w \in Weight /\ x \in Weight
    BY WeightTypes
  <2>2. uv \in Weight
    <3>1. \A h \in Thing : u[h] \in Nat /\ v[h] \in Nat
      BY <2>1 DEF Weight
    <3> HIDE DEF u, v
    <3>2. QED BY <3>1 DEF Weight
  <2>3. \A h \in DOMAIN b : x[h] = w[h] + uv[h]
    <3> SUFFICES ASSUME NEW h \in DOMAIN b PROVE x[h] = w[h] + uv[h]
      OBVIOUS
    <3>1. h \in Thing
      BY <1>0
    <3>2. CASE h.kind = "asset"
      BY <3>1, <3>2, ThingTypes DEF FreeW, ReservedW, HeldW, Holder
    <3>3. CASE h.kind # "asset"
      BY <3>1, <3>3, ThingTypes DEF FreeW, ReservedW, HeldW, Holder
    <3>4. QED BY <3>2, <3>3
  <2>4. Measure(uv, b) = Measure(u, b) + Measure(v, b)
    <3>1. \A h \in DOMAIN b : uv[h] = u[h] + v[h]
      BY <1>0
    <3> HIDE DEF u, v, uv
    <3>2. QED BY <2>1, <2>2, <3>1, MeasurePlus
  <2>5. f[e] = Measure(u, b) + Measure(v, b)
    OBVIOUS
  <2> HIDE DEF u, v, uv, w, f
  <2>6. Measure(x, b) = Measure(w, b) + Measure(uv, b)
    <3> HIDE DEF x
    <3>1. QED BY <2>1, <2>2, <2>3, MeasurePlus
  <2>7. SumOf(f, P \cup {e}) = f[e] + SumOf(f, P)
    <3>1. IsFiniteSet(P) /\ e \notin P /\ \A p \in P \cup {e} : f[p] \in Int
      BY <1>0, <1>2, FS_Subset
    <3>2. QED BY <3>1, SumAdd
  <2>8. SumOf(f, P) = Measure(w, b)
    BY <1>3 DEF w
  <2>9. Measure(w, b) \in Nat /\ Measure(u, b) \in Nat /\ Measure(v, b) \in Nat
    BY <2>1, MeasureType
  <2>10. SumOf(f, P \cup {e}) = Measure(x, b)
    BY <2>4, <2>5, <2>6, <2>7, <2>8, <2>9
  <2>11. QED BY <2>10 DEF x
<1> HIDE DEF F
<1>4. Player \in F
  BY <1>0, <1>1, <1>3, FiniteInduction
<1>5. QED BY <1>4 DEF F

\* The equation of the abstract supply.
Supplied(d, i, g, s) ==
  IF s = {} THEN 0
  ELSE d[<<CHOOSE x \in s : TRUE, i>>] + g[s \ {CHOOSE x \in s : TRUE}]

LEMMA SupplyIsSum ==
  ASSUME NEW d, NEW i
  PROVE  Abstract!Supply(d, i) = SumOf([p \in Player |-> d[<<p, i>>]], Player)
<1> DEFINE f == [p \in Player |-> d[<<p, i>>]]
           Solves(g) == g = [s \in SUBSET Player |-> Supplied(d, i, g, s)]
<1>1. Abstract!Supply(d, i) = (CHOOSE g : Solves(g))[Player]
  BY DEF Abstract!Supply, Abstract!MapThenSumSet, Abstract!MapThenFoldSet, Supplied
<1>2. ASSUME NEW g PROVE Solves(g) <=> IsSum(f, Player, g)
  <2>1. ASSUME NEW s \in SUBSET Player PROVE Supplied(d, i, g, s) = Summed(f, g, s)
    <3>1. CASE s = {}
      BY <3>1 DEF Supplied, Summed
    <3>2. CASE s # {}
      <4> DEFINE c == CHOOSE x \in s : TRUE
      <4>1. c \in s
        BY <3>2
      <4>2. Supplied(d, i, g, s) = d[<<c, i>>] + g[s \ {c}]
        BY <3>2 DEF Supplied
      <4>3. Summed(f, g, s) = f[c] + g[s \ {c}]
        BY <3>2 DEF Summed
      <4> HIDE DEF c
      <4>4. f[c] = d[<<c, i>>]
        BY <4>1
      <4>5. QED BY <4>2, <4>3, <4>4
    <3>3. QED BY <3>1, <3>2
  <2>2. [s \in SUBSET Player |-> Supplied(d, i, g, s)] = [s \in SUBSET Player |-> Summed(f, g, s)]
    BY <2>1
  <2>3. QED BY <2>2 DEF IsSum
<1>3. IsFiniteSet(Player)
  BY MarketAssumption DEF MarketAssumption
<1> HIDE DEF Solves, f
<1>4. \E g : Solves(g)
  BY <1>2, <1>3, SumExists
<1>5. PICK g : g = CHOOSE x : Solves(x)
  OBVIOUS
<1>6. IsSum(f, Player, g)
  BY <1>2, <1>4, <1>5
<1>7. g[Player] = SumOf(f, Player)
  BY <1>3, <1>6, SumIs
<1>8. QED BY <1>1, <1>5, <1>7 DEF f

LEMMA SupplyWeighs ==
  ASSUME NEW b, Pile(b), NEW i \in Instrument, NEW c, NEW d,
         \A k \in Purse : c[k] = Measure(FreeW(k), b) /\ d[k] = Measure(ReservedW(k), b)
  PROVE  Abstract!Supply(c, i) + Abstract!Supply(d, i) = Measure(HeldW(Player, i), b)
<1> DEFINE f == [p \in Player |-> c[<<p, i>>]]
           g == [p \in Player |-> d[<<p, i>>]]
           h == [p \in Player |-> Measure(FreeW(<<p, i>>), b) + Measure(ReservedW(<<p, i>>), b)]
<1>1. IsFiniteSet(Player)
  BY MarketAssumption DEF MarketAssumption
<1>2. ASSUME NEW p \in Player PROVE f[p] \in Int /\ g[p] \in Int /\ h[p] = f[p] + g[p]
  <2> DEFINE k == <<p, i>>
  <2>1. k \in Purse
    BY DEF Purse
  <2>2. f[p] = c[k] /\ g[p] = d[k] /\ h[p] = Measure(FreeW(k), b) + Measure(ReservedW(k), b)
    OBVIOUS
  <2> HIDE DEF k, f, g, h
  <2>3. QED BY <2>1, <2>2, MeasureType, WeightTypes
<1> HIDE DEF f, g, h
<1>3. SumOf(h, Player) = SumOf(f, Player) + SumOf(g, Player)
  BY <1>1, <1>2, SumPlus
<1>4. Abstract!Supply(c, i) = SumOf(f, Player) /\ Abstract!Supply(d, i) = SumOf(g, Player)
  BY SupplyIsSum DEF f, g
<1>5. SumOf(h, Player) = Measure(HeldW(Player, i), b)
  BY PlayersWeigh DEF h
<1>6. QED BY <1>3, <1>4, <1>5

-----------------------------------------------------------------------------
(* What a transaction does to the purses. *)

LEMMA Replaced ==
  ASSUME HoldingsPile, NEW old, NEW new, Pile(old), Pile(new), old \sqsubseteq holdings,
         Replace(old, new)
  PROVE  /\ HoldingsPile'
         /\ \A h : CopiesOf(holdings', h) + CopiesOf(old, h)
                     = CopiesOf(holdings, h) + CopiesOf(new, h)
         /\ \A w \in Weight :
              /\ Measure(w, holdings) \in Nat /\ Measure(w, holdings') \in Nat
              /\ Measure(w, old) \in Nat /\ Measure(w, new) \in Nat
              /\ Measure(w, old) <= Measure(w, holdings)
              /\ Measure(w, holdings')
                   = Measure(w, holdings) - Measure(w, old) + Measure(w, new)
<1> DEFINE a == holdings
           b == holdings'
<1>1. b = (a (-) old) (+) new /\ Pile(a)
  BY DEF Replace, HoldingsPile
<1>2. /\ Pile(b)
      /\ \A h : CopiesOf(b, h) + CopiesOf(old, h) = CopiesOf(a, h) + CopiesOf(new, h)
      /\ \A w \in Weight : /\ Measure(w, b) = Measure(w, a) - Measure(w, old) + Measure(w, new)
                           /\ Measure(w, old) <= Measure(w, a)
  <2>1. old \sqsubseteq a
    OBVIOUS
  <2> HIDE DEF a, b
  <2>2. QED BY <1>1, <2>1, ReplaceWeighs
<1>3. HoldingsPile'
  BY <1>2 DEF HoldingsPile, Pile, IsABag
<1>4. \A w \in Weight : /\ Measure(w, a) \in Nat /\ Measure(w, b) \in Nat
                        /\ Measure(w, old) \in Nat /\ Measure(w, new) \in Nat
  <2> HIDE DEF a, b
  <2>1. QED BY <1>1, <1>2, MeasureType
<1>5. QED BY <1>2, <1>3, <1>4

LEMMA PursesShift ==
  ASSUME HoldingsPile, NEW old, NEW new, Pile(old), Pile(new), old \sqsubseteq holdings,
         Replace(old, new)
  PROVE  \A k :
           /\ FreeOf(k) \in Nat /\ FreeOf(k)' \in Nat
           /\ ReservedOf(k) \in Nat /\ ReservedOf(k)' \in Nat
           /\ Measure(FreeW(k), old) \in Nat /\ Measure(FreeW(k), new) \in Nat
           /\ Measure(ReservedW(k), old) \in Nat /\ Measure(ReservedW(k), new) \in Nat
           /\ FreeOf(k)' = FreeOf(k) - Measure(FreeW(k), old) + Measure(FreeW(k), new)
           /\ ReservedOf(k)' = ReservedOf(k) - Measure(ReservedW(k), old)
                                 + Measure(ReservedW(k), new)
           /\ Measure(FreeW(k), old) <= FreeOf(k)
           /\ Measure(ReservedW(k), old) <= ReservedOf(k)
<1> SUFFICES ASSUME NEW k
             PROVE  /\ FreeOf(k) \in Nat /\ FreeOf(k)' \in Nat
                    /\ ReservedOf(k) \in Nat /\ ReservedOf(k)' \in Nat
                    /\ Measure(FreeW(k), old) \in Nat /\ Measure(FreeW(k), new) \in Nat
                    /\ Measure(ReservedW(k), old) \in Nat /\ Measure(ReservedW(k), new) \in Nat
                    /\ FreeOf(k)' = FreeOf(k) - Measure(FreeW(k), old) + Measure(FreeW(k), new)
                    /\ ReservedOf(k)' = ReservedOf(k) - Measure(ReservedW(k), old)
                                          + Measure(ReservedW(k), new)
                    /\ Measure(FreeW(k), old) <= FreeOf(k)
                    /\ Measure(ReservedW(k), old) <= ReservedOf(k)
  OBVIOUS
<1>1. HoldingsPile'
  BY Replaced
<1>2. PursesWeigh /\ PursesWeigh'
  BY <1>1, PursesWeighNow, PursesWeighNext
<1>3. /\ FreeOf(k) = Measure(FreeW(k), holdings)
      /\ ReservedOf(k) = Measure(ReservedW(k), holdings)
  BY <1>2 DEF PursesWeigh
<1>4. /\ FreeOf(k)' = Measure(FreeW(k), holdings)'
      /\ ReservedOf(k)' = Measure(ReservedW(k), holdings)'
  BY <1>2 DEF PursesWeigh
<1>5. /\ Measure(FreeW(k), holdings)' = Measure(FreeW(k), holdings')
      /\ Measure(ReservedW(k), holdings)' = Measure(ReservedW(k), holdings')
  BY DEF Measure, Terms, SumOf, CopiesOf, FreeW, ReservedW, MapThenSumSet, MapThenFoldSet
<1>6. \A w \in Weight :
        /\ Measure(w, holdings) \in Nat /\ Measure(w, holdings') \in Nat
        /\ Measure(w, old) \in Nat /\ Measure(w, new) \in Nat
        /\ Measure(w, old) <= Measure(w, holdings)
        /\ Measure(w, holdings') = Measure(w, holdings) - Measure(w, old) + Measure(w, new)
  BY Replaced
<1>7. FreeW(k) \in Weight /\ ReservedW(k) \in Weight
  BY WeightTypes
<1>8. QED BY <1>3, <1>4, <1>5, <1>6, <1>7

LEMMA OneHeld ==
  ASSUME HoldingsPile, NEW h \in DOMAIN holdings
  PROVE  One(h) \sqsubseteq holdings /\ h \in Thing
<1>1. DOMAIN One(h) = {h} /\ One(h)[h] = 1
  BY DEF One, SetToBag
<1>2. holdings[h] \in Nat /\ holdings[h] > 0 /\ h \in Thing
  BY DEF HoldingsPile, Pile, IsABag
<1>3. QED BY <1>1, <1>2 DEF \sqsubseteq

LEMMA NothingHeld == EmptyBag \sqsubseteq holdings
BY NothingIsPile DEF \sqsubseteq

LEMMA InputsArePiles ==
  ASSUME HoldingsPile, NEW inputs \in Inputs
  PROVE  Pile(inputs) /\ \A h \in DOMAIN inputs : h \in DOMAIN holdings /\ h.kind = "asset"
<1>1. PICK D \in SUBSET Contracts("asset") : inputs \in [D -> 1 .. MostCopies]
  BY DEF Inputs
<1>2. /\ DOMAIN inputs = D /\ D \subseteq DOMAIN holdings
      /\ \A h \in D : h.kind = "asset"
  BY <1>1 DEF Contracts
<1>3. \A h \in D : inputs[h] \in 1 .. MostCopies
  BY <1>1
<1>4. \A n \in 1 .. MostCopies : n \in Nat /\ n > 0
  OBVIOUS
<1>5. IsABag(inputs)
  BY <1>1, <1>3, <1>4 DEF IsABag
<1>6. Pile(inputs)
  BY <1>2, <1>5, FS_Subset DEF HoldingsPile, Pile
<1>7. QED BY <1>2, <1>6

LEMMA MadeAsset ==
  ASSUME NEW p \in Player, NEW i \in Instrument, NEW a \in Nat, a > 0
  PROVE  /\ NewAsset(p, i, a) \in Thing /\ Holder(NewAsset(p, i, a)) = p
         /\ NewAsset(p, i, a).kind = "asset" /\ NewAsset(p, i, a).instrument = i
         /\ NewAsset(p, i, a).amount = a
BY DEF NewAsset, Asset, Thing, Holder

\* A contract is free or reserved in one purse.
LEMMA OneWeight ==
  ASSUME NEW h \in Thing, NEW k \in Purse
  PROVE  /\ k = <<Holder(h), h.instrument>> =>
              /\ FreeW(k)[h] = (IF h.kind = "asset" THEN h.amount ELSE 0)
              /\ ReservedW(k)[h] = (IF h.kind = "asset" THEN 0 ELSE h.amount)
         /\ k # <<Holder(h), h.instrument>> => FreeW(k)[h] = 0 /\ ReservedW(k)[h] = 0
<1>1. k = <<k[1], k[2]>>
  BY DEF Purse
<1>2. CASE h.kind = "asset"
  BY <1>1, <1>2 DEF FreeW, ReservedW, Holder
<1>3. CASE h.kind # "asset"
  BY <1>1, <1>3 DEF FreeW, ReservedW, Holder
<1>4. QED BY <1>2, <1>3

\* The inputs of a transfer or of an allocation weigh in one purse only.
LEMMA InputsWeigh ==
  ASSUME NEW p \in Player, NEW i \in Instrument, NEW inputs, Pile(inputs),
         \A h \in DOMAIN inputs : h.kind = "asset" /\ h.owner = p /\ h.instrument = i
  PROVE  /\ Total(inputs) \in Nat
         /\ \A k \in Purse :
              /\ Measure(FreeW(k), inputs) = IF k = <<p, i>> THEN Total(inputs) ELSE 0
              /\ Measure(ReservedW(k), inputs) = 0
<1>1. DOMAIN inputs \subseteq Thing
  BY DEF Pile
<1>2. \A h \in DOMAIN inputs : Holder(h) = p
  BY DEF Holder
<1>3. /\ FreeW(<<p, i>>) \in Weight
      /\ \A h \in DOMAIN inputs : FreeW(<<p, i>>)[h] = h.amount
  BY <1>1, WeightTypes DEF FreeW
<1>4. Total(inputs) = Measure(FreeW(<<p, i>>), inputs)
  BY <1>3, ValueWeighs DEF Total
<1>5. Total(inputs) \in Nat
  BY <1>3, <1>4, MeasureType
<1>6. ASSUME NEW k \in Purse, k # <<p, i>>
      PROVE  Measure(FreeW(k), inputs) = 0
  <2>1. \A h \in DOMAIN inputs : FreeW(k)[h] = 0
    BY <1>1, <1>2, <1>6, OneWeight
  <2>2. QED BY <2>1, MeasureZero, WeightTypes
<1>7. ASSUME NEW k \in Purse
      PROVE  Measure(ReservedW(k), inputs) = 0
  <2>1. \A h \in DOMAIN inputs : ReservedW(k)[h] = 0
    BY <1>1 DEF ReservedW
  <2>2. QED BY <2>1, MeasureZero, WeightTypes
<1>8. QED BY <1>4, <1>5, <1>6, <1>7

OthersKept(k) ==
  \A l \in Purse : l # k => FreeOf(l)' = FreeOf(l) /\ ReservedOf(l)' = ReservedOf(l)

PursesKept ==
  \A k \in Purse : FreeOf(k)' = FreeOf(k) /\ ReservedOf(k)' = ReservedOf(k)

\* A transfer, an allocation: the inputs become the change and one contract
\* of the same holder.
LEMMA ConsumeMoves ==
  ASSUME HoldingsPile, NEW p \in Player, NEW i \in Instrument, NEW a \in Nat, a > 0,
         NEW inputs \in Inputs, MayConsume(p, i, a, inputs),
         NEW made \in Thing, Holder(made) = p, made.instrument = i, made.amount = a,
         Replace(inputs, Change(p, i, a, inputs) (+) One(made))
  PROVE  /\ HoldingsPile'
         /\ OthersKept(<<p, i>>)
         /\ FreeOf(<<p, i>>) \in Nat /\ FreeOf(<<p, i>>)' \in Nat
         /\ ReservedOf(<<p, i>>) \in Nat
         /\ IF made.kind = "asset"
              THEN /\ FreeOf(<<p, i>>)' = FreeOf(<<p, i>>)
                   /\ ReservedOf(<<p, i>>)' = ReservedOf(<<p, i>>)
              ELSE /\ FreeOf(<<p, i>>)' = FreeOf(<<p, i>>) - a
                   /\ ReservedOf(<<p, i>>)' = ReservedOf(<<p, i>>) + a
<1> DEFINE change == Change(p, i, a, inputs)
           new == change (+) One(made)
           total == Total(inputs)
           key == <<p, i>>
<1>1. Pile(inputs) /\ \A h \in DOMAIN inputs : h.kind = "asset"
  BY InputsArePiles
<1>2. /\ inputs \sqsubseteq holdings /\ total >= a
      /\ \A h \in DOMAIN inputs : h.owner = p /\ h.instrument = i
  BY DEF MayConsume
<1>3. /\ total \in Nat
      /\ \A k \in Purse : /\ Measure(FreeW(k), inputs) = IF k = key THEN total ELSE 0
                          /\ Measure(ReservedW(k), inputs) = 0
  BY <1>1, <1>2, InputsWeigh
<1>4. /\ Pile(change)
      /\ \A k \in Purse : /\ Measure(FreeW(k), change) = IF k = key THEN total - a ELSE 0
                          /\ Measure(ReservedW(k), change) = 0
  <2>1. CASE total > a
    <3> DEFINE rest == total - a
               back == NewAsset(p, i, rest)
    <3>1. rest \in Nat /\ rest > 0
      BY <2>1, <1>3
    <3>2. change = One(back)
      BY <2>1 DEF Change
    <3> HIDE DEF rest
    <3>3. /\ back \in Thing /\ Holder(back) = p /\ back.kind = "asset"
          /\ back.instrument = i /\ back.amount = rest
      BY <3>1, MadeAsset
    <3> HIDE DEF back
    <3>4. \A k \in Purse : /\ FreeW(k)[back] = IF k = key THEN rest ELSE 0
                           /\ ReservedW(k)[back] = 0
      BY <3>3, OneWeight
    <3>5. /\ Pile(One(back))
          /\ \A k \in Purse : /\ Measure(FreeW(k), One(back)) = FreeW(k)[back]
                              /\ Measure(ReservedW(k), One(back)) = ReservedW(k)[back]
      <4>1. PICK w \in Weight : TRUE
        BY WeightTypes
      <4>2. QED BY <3>3, <4>1, OneWeighs, WeightTypes
    <3> HIDE DEF change
    <3>6. QED BY <3>2, <3>4, <3>5 DEF rest
  <2>2. CASE ~(total > a)
    <3>1. change = EmptyBag /\ total - a = 0
      BY <2>2, <1>2, <1>3 DEF Change
    <3> HIDE DEF change
    <3>2. QED BY <3>1, NothingIsPile, NothingWeighsNothing, WeightTypes
  <2>3. QED BY <2>1, <2>2
<1> HIDE DEF change
<1>5. /\ Pile(One(made))
      /\ \A w \in Weight : Measure(w, One(made)) = w[made]
  <2>1. PICK w \in Weight : TRUE
    BY WeightTypes
  <2>2. QED BY <2>1, OneWeighs
<1>6. /\ Pile(new)
      /\ \A w \in Weight : Measure(w, new) = Measure(w, change) + w[made]
  BY <1>4, <1>5, JoinWeighs
<1> HIDE DEF new, total
<1>7. Replace(inputs, new)
  BY DEF new, change
<1>8. \A k \in Purse :
        /\ Measure(FreeW(k), new) = Measure(FreeW(k), change) + FreeW(k)[made]
        /\ Measure(ReservedW(k), new) = Measure(ReservedW(k), change) + ReservedW(k)[made]
  BY <1>6, WeightTypes
<1>9. HoldingsPile'
  BY <1>1, <1>2, <1>6, <1>7, Replaced
<1>10. \A k :
         /\ FreeOf(k) \in Nat /\ FreeOf(k)' \in Nat
         /\ ReservedOf(k) \in Nat /\ ReservedOf(k)' \in Nat
         /\ FreeOf(k)' = FreeOf(k) - Measure(FreeW(k), inputs) + Measure(FreeW(k), new)
         /\ ReservedOf(k)' = ReservedOf(k) - Measure(ReservedW(k), inputs)
                               + Measure(ReservedW(k), new)
  BY <1>1, <1>2, <1>6, <1>7, PursesShift
<1>11. OthersKept(key)
  <2> SUFFICES ASSUME NEW k \in Purse, k # key
               PROVE  FreeOf(k)' = FreeOf(k) /\ ReservedOf(k)' = ReservedOf(k)
    BY DEF OthersKept
  <2>1. FreeW(k)[made] = 0 /\ ReservedW(k)[made] = 0
    BY OneWeight
  <2>2. /\ Measure(FreeW(k), inputs) = 0 /\ Measure(ReservedW(k), inputs) = 0
        /\ Measure(FreeW(k), new) = 0 /\ Measure(ReservedW(k), new) = 0
    BY <1>3, <1>4, <1>8, <2>1
  <2>3. QED BY <1>10, <2>2
<1>12. /\ Measure(FreeW(key), inputs) = total /\ Measure(ReservedW(key), inputs) = 0
       /\ Measure(FreeW(key), new) = total - a + FreeW(key)[made]
       /\ Measure(ReservedW(key), new) = ReservedW(key)[made]
       /\ FreeW(key)[made] = (IF made.kind = "asset" THEN a ELSE 0)
       /\ ReservedW(key)[made] = (IF made.kind = "asset" THEN 0 ELSE a)
  <2>1. key \in Purse
    BY DEF Purse
  <2>2. /\ FreeW(key)[made] = (IF made.kind = "asset" THEN a ELSE 0)
        /\ ReservedW(key)[made] = (IF made.kind = "asset" THEN 0 ELSE a)
    BY <2>1, OneWeight
  <2>3. /\ Measure(ReservedW(key), change) = 0 /\ Measure(FreeW(key), change) = total - a
        /\ Measure(FreeW(key), inputs) = total /\ Measure(ReservedW(key), inputs) = 0
    BY <1>3, <1>4, <2>1
  <2>4. ReservedW(key)[made] \in Nat
    BY <2>2
  <2>5. QED BY <1>8, <2>1, <2>2, <2>3, <2>4
<1> HIDE DEF key
<1>13. /\ FreeOf(key) \in Nat /\ FreeOf(key)' \in Nat /\ ReservedOf(key) \in Nat
       /\ FreeOf(key)' = FreeOf(key) - total + (total - a + FreeW(key)[made])
       /\ ReservedOf(key)' = ReservedOf(key) - 0 + ReservedW(key)[made]
  BY <1>10, <1>12
<1>14. IF made.kind = "asset"
         THEN FreeOf(key)' = FreeOf(key) /\ ReservedOf(key)' = ReservedOf(key)
         ELSE FreeOf(key)' = FreeOf(key) - a /\ ReservedOf(key)' = ReservedOf(key) + a
  <2>1. CASE made.kind = "asset"
    BY <2>1, <1>3, <1>12, <1>13
  <2>2. CASE made.kind # "asset"
    BY <2>2, <1>3, <1>12, <1>13
  <2>3. QED BY <2>1, <2>2
<1>15. QED BY <1>9, <1>11, <1>13, <1>14 DEF key

LEMMA OneContract ==
  ASSUME NEW h \in Thing
  PROVE  /\ Pile(One(h)) /\ DOMAIN One(h) = {h}
         /\ \A w \in Weight : Measure(w, One(h)) = w[h]
         /\ \A e : CopiesOf(One(h), e) = IF e = h THEN 1 ELSE 0
<1>1. PICK w \in Weight : TRUE
  BY WeightTypes
<1>2. DOMAIN One(h) = {h}
  BY DEF One, SetToBag
<1>3. QED BY <1>1, <1>2, OneWeighs

LEMMA NoContract ==
  /\ Pile(EmptyBag) /\ DOMAIN EmptyBag = {}
  /\ \A w \in Weight : Measure(w, EmptyBag) = 0
  /\ \A e : CopiesOf(EmptyBag, e) = 0
BY NothingIsPile, NothingWeighsNothing DEF CopiesOf

\* A contract of another kind than those that are made has one copy less.
LEMMA TakenEnds ==
  ASSUME HoldingsPile, NEW old, NEW new, Pile(old), Pile(new), old \sqsubseteq holdings,
         Replace(old, new), NEW h \in DOMAIN old, h \notin DOMAIN new
  PROVE  h \in DOMAIN holdings /\ Ended(h)
<1>1. h \in DOMAIN holdings /\ old[h] \in Nat /\ old[h] > 0
  BY PileCopies DEF \sqsubseteq
<1>2. HoldingsPile'
  BY Replaced
<1> DEFINE a == holdings
           b == holdings'
<1>3. Pile(a) /\ Pile(b)
  BY <1>2 DEF HoldingsPile, Pile, IsABag
<1>4. CopiesOf(b, h) + CopiesOf(old, h) = CopiesOf(a, h) + CopiesOf(new, h)
  BY Replaced
<1>5. Ended(h) <=> (h \in DOMAIN b => b[h] < a[h])
  BY DEF Ended
<1>6. h \in DOMAIN a
  BY <1>1
<1> HIDE DEF a, b
<1>7. CopiesOf(new, h) = 0 /\ CopiesOf(old, h) = old[h] /\ CopiesOf(a, h) = a[h]
  BY <1>6 DEF CopiesOf
<1>8. a[h] \in Nat /\ CopiesOf(b, h) \in Nat
  BY <1>3, <1>6, PileCopies
<1>9. h \in DOMAIN b => b[h] < a[h]
  <2>1. h \in DOMAIN b => CopiesOf(b, h) = b[h]
    BY DEF CopiesOf
  <2>2. QED BY <1>1, <1>4, <1>7, <1>8, <2>1
<1>10. QED BY <1>1, <1>5, <1>9

\* Offers and allocations become assets, and the players together hold what
\* they held.
LEMMA ReleaseMoves ==
  ASSUME HoldingsPile, NEW old, NEW new, Pile(old), Pile(new), old \sqsubseteq holdings,
         Replace(old, new),
         \A h \in DOMAIN old : h.kind # "asset", \A h \in DOMAIN new : h.kind = "asset",
         \A i \in Instrument : Measure(HeldW(Player, i), new) = Measure(HeldW(Player, i), old)
  PROVE  /\ HoldingsPile'
         /\ \A k : /\ FreeOf(k) \in Nat /\ FreeOf(k)' \in Nat
                   /\ ReservedOf(k) \in Nat /\ ReservedOf(k)' \in Nat
                   /\ FreeOf(k)' >= FreeOf(k) /\ ReservedOf(k)' <= ReservedOf(k)
         /\ \A k : (\A h \in DOMAIN old : h.sender = k[1] => h.instrument # k[2]) =>
                     ReservedOf(k)' = ReservedOf(k)
         /\ \A k : (\A h \in DOMAIN new : h.owner # k[1]) => FreeOf(k)' = FreeOf(k)
         /\ \A h \in DOMAIN old : h \in DOMAIN holdings /\ Ended(h)
         /\ Abstract!PayOut
<1>1. HoldingsPile'
  BY Replaced
<1>2. \A k :
        /\ FreeOf(k) \in Nat /\ FreeOf(k)' \in Nat
        /\ ReservedOf(k) \in Nat /\ ReservedOf(k)' \in Nat
        /\ Measure(FreeW(k), new) \in Nat /\ Measure(ReservedW(k), old) \in Nat
        /\ FreeOf(k)' = FreeOf(k) - Measure(FreeW(k), old) + Measure(FreeW(k), new)
        /\ ReservedOf(k)' = ReservedOf(k) - Measure(ReservedW(k), old)
                              + Measure(ReservedW(k), new)
  BY PursesShift
<1>3. DOMAIN old \subseteq Thing /\ DOMAIN new \subseteq Thing
  BY DEF Pile
<1>4. \A k : Measure(FreeW(k), old) = 0 /\ Measure(ReservedW(k), new) = 0
  <2> SUFFICES ASSUME NEW k
               PROVE  Measure(FreeW(k), old) = 0 /\ Measure(ReservedW(k), new) = 0
    OBVIOUS
  <2>1. /\ \A h \in DOMAIN old : FreeW(k)[h] = 0
        /\ \A h \in DOMAIN new : ReservedW(k)[h] = 0
    BY <1>3 DEF FreeW, ReservedW
  <2>2. QED BY <2>1, MeasureZero, WeightTypes
<1>5. \A k : /\ FreeOf(k)' = FreeOf(k) + Measure(FreeW(k), new)
             /\ ReservedOf(k)' = ReservedOf(k) - Measure(ReservedW(k), old)
             /\ FreeOf(k)' >= FreeOf(k) /\ ReservedOf(k)' <= ReservedOf(k)
  BY <1>2, <1>4
<1>6. ASSUME NEW k, \A h \in DOMAIN old : h.sender = k[1] => h.instrument # k[2]
      PROVE  ReservedOf(k)' = ReservedOf(k)
  <2>1. \A h \in DOMAIN old : ReservedW(k)[h] = 0
    BY <1>3, <1>6 DEF ReservedW
  <2>2. Measure(ReservedW(k), old) = 0
    BY <2>1, MeasureZero, WeightTypes
  <2>3. QED BY <1>2, <1>5, <2>2
<1>7. ASSUME NEW k, \A h \in DOMAIN new : h.owner # k[1]
      PROVE  FreeOf(k)' = FreeOf(k)
  <2>1. \A h \in DOMAIN new : FreeW(k)[h] = 0
    BY <1>3, <1>7 DEF FreeW
  <2>2. Measure(FreeW(k), new) = 0
    BY <2>1, MeasureZero, WeightTypes
  <2>3. QED BY <1>2, <1>5, <2>2
<1>8. ASSUME NEW h \in DOMAIN old PROVE h \in DOMAIN holdings /\ Ended(h)
  BY TakenEnds
<1>9. ASSUME NEW i \in Instrument
      PROVE  Abstract!Supply(Free', i) + Abstract!Supply(Reserved', i)
               = Abstract!Supply(Free, i) + Abstract!Supply(Reserved, i)
  <2> DEFINE w == HeldW(Player, i)
             a == holdings
             b == holdings'
             free1 == Free
             reserved1 == Reserved
             free2 == Free'
             reserved2 == Reserved'
  <2>1. Pile(a) /\ Pile(b)
    BY <1>1 DEF HoldingsPile, Pile, IsABag
  <2>2. PursesWeigh /\ PursesWeigh'
    BY <1>1, PursesWeighNow, PursesWeighNext
  <2>3. \A k \in Purse : free1[k] = Measure(FreeW(k), a) /\ reserved1[k] = Measure(ReservedW(k), a)
    BY <2>2 DEF PursesWeigh, Free, Reserved
  <2>4. \A k \in Purse : free2[k] = Measure(FreeW(k), b) /\ reserved2[k] = Measure(ReservedW(k), b)
    <3> SUFFICES ASSUME NEW k \in Purse
                 PROVE  free2[k] = Measure(FreeW(k), b) /\ reserved2[k] = Measure(ReservedW(k), b)
      OBVIOUS
    <3>1. free2[k] = FreeOf(k)' /\ reserved2[k] = ReservedOf(k)'
      BY DEF Free, Reserved
    <3>2. FreeOf(k)' = Measure(FreeW(k), holdings)' /\ ReservedOf(k)' = Measure(ReservedW(k), holdings)'
      BY <2>2 DEF PursesWeigh
    <3>3. /\ Measure(FreeW(k), holdings)' = Measure(FreeW(k), holdings')
          /\ Measure(ReservedW(k), holdings)' = Measure(ReservedW(k), holdings')
      BY DEF Measure, Terms, SumOf, CopiesOf, FreeW, ReservedW, MapThenSumSet, MapThenFoldSet
    <3>4. QED BY <3>1, <3>2, <3>3
  <2>5. /\ Measure(w, b) = Measure(w, a) - Measure(w, old) + Measure(w, new)
        /\ Measure(w, a) \in Nat /\ Measure(w, old) \in Nat /\ Measure(w, new) = Measure(w, old)
    BY Replaced, WeightTypes
  <2> HIDE DEF a, b, free1, reserved1, free2, reserved2
  <2>6. /\ Abstract!Supply(free1, i) + Abstract!Supply(reserved1, i) = Measure(w, a)
        /\ Abstract!Supply(free2, i) + Abstract!Supply(reserved2, i) = Measure(w, b)
    BY <2>1, <2>3, <2>4, SupplyWeighs
  <2> HIDE DEF w
  <2>7. Measure(w, b) = Measure(w, a)
    BY <2>5
  <2>8. QED BY <2>6, <2>7 DEF free1, free2, reserved1, reserved2
<1>10. Abstract!PayOut
  <2>1. \A k \in Purse : /\ Free[k] = FreeOf(k) /\ Free'[k] = FreeOf(k)'
                         /\ Reserved[k] = ReservedOf(k) /\ Reserved'[k] = ReservedOf(k)'
    BY DEF Free, Reserved
  <2>2. \A k \in Purse : Free'[k] >= Free[k] /\ Reserved'[k] <= Reserved[k] /\ Reserved'[k] >= 0
    BY <1>2, <1>5, <2>1
  <2>3. QED BY <1>9, <2>2 DEF Abstract!PayOut, Abstract!Purse, Purse
<1>11. QED BY <1>1, <1>2, <1>5, <1>6, <1>7, <1>8, <1>10

LEMMA HeldByAPlayer ==
  ASSUME NEW h \in Thing, NEW i
  PROVE  HeldW(Player, i)[h] = IF h.instrument = i THEN h.amount ELSE 0
BY ThingTypes DEF HeldW

\* An offer is accepted, an allocation executed or returned.
LEMMA ReleaseOne ==
  ASSUME HoldingsPile, NEW h \in DOMAIN holdings, h.kind # "asset", NEW p \in Player,
         Replace(One(h), One(NewAsset(p, h.instrument, h.amount)))
  PROVE  /\ HoldingsPile' /\ Abstract!PayOut
         /\ \A k : /\ FreeOf(k) \in Nat /\ FreeOf(k)' \in Nat
                   /\ ReservedOf(k) \in Nat /\ ReservedOf(k)' \in Nat
                   /\ FreeOf(k)' >= FreeOf(k)
         /\ \A k : ~(h.sender = k[1] /\ h.instrument = k[2]) => ReservedOf(k)' = ReservedOf(k)
         /\ Ended(h)
<1> DEFINE g == NewAsset(p, h.instrument, h.amount)
           old == One(h)
           new == One(g)
<1>1. h \in Thing /\ old \sqsubseteq holdings
  BY OneHeld
<1>2. g \in Thing /\ g.kind = "asset" /\ g.instrument = h.instrument /\ g.amount = h.amount
  BY <1>1, ThingTypes, MadeAsset
<1> HIDE DEF g
<1>3. /\ Pile(old) /\ DOMAIN old = {h} /\ Pile(new) /\ DOMAIN new = {g}
      /\ \A w \in Weight : Measure(w, old) = w[h] /\ Measure(w, new) = w[g]
  BY <1>1, <1>2, OneContract
<1>4. Replace(old, new)
  BY DEF g
<1> HIDE DEF old, new
<1>5. \A i \in Instrument : Measure(HeldW(Player, i), new) = Measure(HeldW(Player, i), old)
  BY <1>1, <1>2, <1>3, WeightTypes, HeldByAPlayer
<1>6. (\A x \in DOMAIN old : x.kind # "asset") /\ (\A x \in DOMAIN new : x.kind = "asset")
  BY <1>2, <1>3
<1>7. QED BY <1>1, <1>3, <1>4, <1>5, <1>6, ReleaseMoves

\* A contract ends and nothing is made of it: a failed transfer, a burn.
LEMMA WasteMoves ==
  ASSUME HoldingsPile, NEW h \in DOMAIN holdings, Replace(One(h), EmptyBag)
  PROVE  /\ HoldingsPile' /\ Ended(h) /\ OthersKept(<<Holder(h), h.instrument>>)
         /\ <<Holder(h), h.instrument>> \in Purse
         /\ LET k == <<Holder(h), h.instrument>>
            IN  /\ FreeOf(k) \in Nat /\ FreeOf(k)' \in Nat
                /\ ReservedOf(k) \in Nat /\ ReservedOf(k)' \in Nat
                /\ IF h.kind = "asset"
                     THEN FreeOf(k)' < FreeOf(k) /\ ReservedOf(k)' = ReservedOf(k)
                     ELSE ReservedOf(k)' < ReservedOf(k) /\ FreeOf(k)' = FreeOf(k)
<1> DEFINE old == One(h)
           key == <<Holder(h), h.instrument>>
<1>1. h \in Thing /\ old \sqsubseteq holdings
  BY OneHeld
<1>2. key \in Purse /\ h.amount \in Nat /\ h.amount > 0
  BY <1>1, ThingTypes DEF Purse
<1>3. Pile(old) /\ DOMAIN old = {h} /\ \A w \in Weight : Measure(w, old) = w[h]
  BY <1>1, OneContract
<1>4. /\ Pile(EmptyBag) /\ DOMAIN EmptyBag = {} /\ \A w \in Weight : Measure(w, EmptyBag) = 0
  BY NoContract
<1>5. Replace(old, EmptyBag)
  OBVIOUS
<1> HIDE DEF old
<1>6. HoldingsPile'
  BY <1>1, <1>3, <1>4, <1>5, Replaced
<1>7. Ended(h)
  <2>1. h \in DOMAIN old /\ h \notin DOMAIN EmptyBag
    BY <1>3, <1>4
  <2>2. QED BY <1>1, <1>3, <1>4, <1>5, <2>1, TakenEnds
<1>8. \A k : /\ FreeOf(k) \in Nat /\ FreeOf(k)' \in Nat
             /\ ReservedOf(k) \in Nat /\ ReservedOf(k)' \in Nat
             /\ FreeOf(k)' = FreeOf(k) - FreeW(k)[h] + 0
             /\ ReservedOf(k)' = ReservedOf(k) - ReservedW(k)[h] + 0
  <2>1. \A k : /\ FreeOf(k) \in Nat /\ FreeOf(k)' \in Nat
               /\ ReservedOf(k) \in Nat /\ ReservedOf(k)' \in Nat
               /\ FreeOf(k)' = FreeOf(k) - Measure(FreeW(k), old) + Measure(FreeW(k), EmptyBag)
               /\ ReservedOf(k)' = ReservedOf(k) - Measure(ReservedW(k), old)
                                     + Measure(ReservedW(k), EmptyBag)
    BY <1>1, <1>3, <1>4, <1>5, PursesShift
  <2>2. \A k : /\ Measure(FreeW(k), old) = FreeW(k)[h] /\ Measure(ReservedW(k), old) = ReservedW(k)[h]
               /\ Measure(FreeW(k), EmptyBag) = 0 /\ Measure(ReservedW(k), EmptyBag) = 0
    BY <1>3, <1>4, WeightTypes
  <2>3. QED BY <2>1, <2>2
<1>9. OthersKept(key)
  <2> SUFFICES ASSUME NEW k \in Purse, k # key
               PROVE  FreeOf(k)' = FreeOf(k) /\ ReservedOf(k)' = ReservedOf(k)
    BY DEF OthersKept
  <2>1. FreeW(k)[h] = 0 /\ ReservedW(k)[h] = 0
    BY <1>1, OneWeight
  <2>2. QED BY <1>8, <2>1
<1>10. /\ FreeW(key)[h] = (IF h.kind = "asset" THEN h.amount ELSE 0)
       /\ ReservedW(key)[h] = (IF h.kind = "asset" THEN 0 ELSE h.amount)
  BY <1>1, <1>2, OneWeight
<1> HIDE DEF key
<1>11. /\ FreeOf(key) \in Nat /\ FreeOf(key)' \in Nat
       /\ ReservedOf(key) \in Nat /\ ReservedOf(key)' \in Nat
       /\ IF h.kind = "asset"
            THEN FreeOf(key)' < FreeOf(key) /\ ReservedOf(key)' = ReservedOf(key)
            ELSE ReservedOf(key)' < ReservedOf(key) /\ FreeOf(key)' = FreeOf(key)
  <2>1. CASE h.kind = "asset"
    BY <2>1, <1>2, <1>8, <1>10
  <2>2. CASE h.kind # "asset"
    BY <2>2, <1>2, <1>8, <1>10
  <2>3. QED BY <1>8, <2>1, <2>2
<1>12. QED BY <1>2, <1>6, <1>7, <1>9, <1>11 DEF key

\* A burn request comes or goes.
LEMMA RequestMoves ==
  ASSUME HoldingsPile, NEW h \in Contracts("asset"), NEW s \in BOOLEAN,
         Replace(One(h), One([h EXCEPT !.burnAsked = s]))
  PROVE  HoldingsPile' /\ PursesKept
<1> DEFINE g == [h EXCEPT !.burnAsked = s]
           old == One(h)
           new == One(g)
<1>1. h \in Thing /\ old \sqsubseteq holdings /\ h.kind = "asset"
  BY OneHeld DEF Contracts
<1>2. /\ g \in Thing /\ g.kind = "asset" /\ Holder(g) = Holder(h)
      /\ g.instrument = h.instrument /\ g.amount = h.amount
  <2>1. h \in Asset
    BY <1>1, ThingTypes
  <2>2. QED BY <2>1 DEF Asset, Holder, Thing
<1> HIDE DEF g
<1>3. /\ Pile(old) /\ DOMAIN old = {h} /\ Pile(new) /\ DOMAIN new = {g}
      /\ \A w \in Weight : Measure(w, old) = w[h] /\ Measure(w, new) = w[g]
  BY <1>1, <1>2, OneContract
<1>4. Replace(old, new)
  BY DEF g
<1> HIDE DEF old, new
<1>5. HoldingsPile'
  BY <1>1, <1>3, <1>4, Replaced
<1>6. \A k : /\ FreeOf(k) \in Nat /\ FreeOf(k)' \in Nat
             /\ ReservedOf(k) \in Nat /\ ReservedOf(k)' \in Nat
             /\ Measure(FreeW(k), new) \in Nat /\ Measure(ReservedW(k), new) \in Nat
             /\ FreeOf(k)' = FreeOf(k) - Measure(FreeW(k), old) + Measure(FreeW(k), new)
             /\ ReservedOf(k)' = ReservedOf(k) - Measure(ReservedW(k), old)
                                   + Measure(ReservedW(k), new)
  BY <1>1, <1>3, <1>4, PursesShift
<1>7. PursesKept
  <2> SUFFICES ASSUME NEW k \in Purse
               PROVE  FreeOf(k)' = FreeOf(k) /\ ReservedOf(k)' = ReservedOf(k)
    BY DEF PursesKept
  <2>1. FreeW(k)[g] = FreeW(k)[h] /\ ReservedW(k)[g] = ReservedW(k)[h]
    BY <1>1, <1>2, OneWeight
  <2>2. /\ Measure(FreeW(k), old) = Measure(FreeW(k), new)
        /\ Measure(ReservedW(k), old) = Measure(ReservedW(k), new)
    BY <1>3, <2>1, WeightTypes
  <2>3. QED BY <1>6, <2>2
<1>8. QED BY <1>5, <1>7

LEMMA MintMoves ==
  ASSUME HoldingsPile, NEW p \in Player, NEW i \in Instrument, NEW a \in Nat, a > 0,
         Replace(EmptyBag, One(NewAsset(p, i, a)))
  PROVE  /\ HoldingsPile' /\ OthersKept(<<p, i>>)
         /\ FreeOf(<<p, i>>) \in Nat /\ FreeOf(<<p, i>>)' \in Nat
         /\ ReservedOf(<<p, i>>) \in Nat
         /\ FreeOf(<<p, i>>)' > FreeOf(<<p, i>>)
         /\ ReservedOf(<<p, i>>)' = ReservedOf(<<p, i>>)
<1> DEFINE g == NewAsset(p, i, a)
           new == One(g)
           key == <<p, i>>
<1>1. /\ g \in Thing /\ Holder(g) = p /\ g.kind = "asset" /\ g.instrument = i /\ g.amount = a
  BY MadeAsset
<1> HIDE DEF g
<1>2. /\ Pile(new) /\ DOMAIN new = {g} /\ \A w \in Weight : Measure(w, new) = w[g]
  BY <1>1, OneContract
<1>3. /\ Pile(EmptyBag) /\ \A w \in Weight : Measure(w, EmptyBag) = 0
      /\ EmptyBag \sqsubseteq holdings
  BY NoContract, NothingHeld
<1>4. Replace(EmptyBag, new)
  BY DEF g
<1> HIDE DEF new
<1>5. HoldingsPile'
  BY <1>2, <1>3, <1>4, Replaced
<1>6. \A k : /\ FreeOf(k) \in Nat /\ FreeOf(k)' \in Nat
             /\ ReservedOf(k) \in Nat /\ ReservedOf(k)' \in Nat
             /\ FreeOf(k)' = FreeOf(k) - 0 + FreeW(k)[g]
             /\ ReservedOf(k)' = ReservedOf(k) - 0 + ReservedW(k)[g]
  <2>1. \A k : /\ FreeOf(k) \in Nat /\ FreeOf(k)' \in Nat
               /\ ReservedOf(k) \in Nat /\ ReservedOf(k)' \in Nat
               /\ FreeOf(k)' = FreeOf(k) - Measure(FreeW(k), EmptyBag) + Measure(FreeW(k), new)
               /\ ReservedOf(k)' = ReservedOf(k) - Measure(ReservedW(k), EmptyBag)
                                     + Measure(ReservedW(k), new)
    BY <1>2, <1>3, <1>4, PursesShift
  <2>2. \A k : /\ Measure(FreeW(k), new) = FreeW(k)[g] /\ Measure(ReservedW(k), new) = ReservedW(k)[g]
               /\ Measure(FreeW(k), EmptyBag) = 0 /\ Measure(ReservedW(k), EmptyBag) = 0
    BY <1>2, <1>3, WeightTypes
  <2>3. QED BY <2>1, <2>2
<1>7. OthersKept(key)
  <2> SUFFICES ASSUME NEW k \in Purse, k # key
               PROVE  FreeOf(k)' = FreeOf(k) /\ ReservedOf(k)' = ReservedOf(k)
    BY DEF OthersKept
  <2>1. FreeW(k)[g] = 0 /\ ReservedW(k)[g] = 0
    BY <1>1, OneWeight
  <2>2. QED BY <1>6, <2>1
<1>8. FreeW(key)[g] = a /\ ReservedW(key)[g] = 0
  <2>1. key \in Purse
    BY DEF Purse
  <2>2. QED BY <1>1, <2>1, OneWeight
<1> HIDE DEF key
<1>9. QED BY <1>5, <1>6, <1>7, <1>8 DEF key

\* Allocations of a trade, each as often as it is named, become assets of the
\* players `to' names.
LEMMA PickedMoves ==
  ASSUME HoldingsPile, NEW D, IsFiniteSet(D), NEW chosen \in [D -> Contracts("allocation")],
         NEW to, \A k \in D : to[k] \in Player, Picked(chosen) \sqsubseteq holdings,
         Replace(Picked(chosen),
                 Picked([k \in D |-> NewAsset(to[k], chosen[k].instrument, chosen[k].amount)]))
  PROVE  /\ HoldingsPile' /\ Abstract!PayOut
         /\ \A k : /\ FreeOf(k) \in Nat /\ FreeOf(k)' \in Nat
                   /\ ReservedOf(k) \in Nat /\ ReservedOf(k)' \in Nat
                   /\ FreeOf(k)' >= FreeOf(k)
         /\ \A k : (\A x \in D : chosen[x].sender = k[1] => chosen[x].instrument # k[2]) =>
                     ReservedOf(k)' = ReservedOf(k)
         /\ \A k : (\A x \in D : to[x] # k[1]) => FreeOf(k)' = FreeOf(k)
         /\ \A x \in D : chosen[x] \in DOMAIN holdings /\ Ended(chosen[x])
<1> DEFINE made == [k \in D |-> NewAsset(to[k], chosen[k].instrument, chosen[k].amount)]
           old == Picked(chosen)
           new == Picked(made)
<1>1. /\ DOMAIN chosen = D /\ chosen = [k \in DOMAIN chosen |-> chosen[k]]
      /\ \A k \in D : /\ chosen[k] \in DOMAIN holdings /\ chosen[k].kind = "allocation"
                      /\ chosen[k] \in Thing
  BY DEF Contracts, HoldingsPile, Pile
<1>2. \A k \in D : /\ made[k] \in Thing /\ made[k].kind = "asset" /\ made[k].owner = to[k]
                   /\ made[k].instrument = chosen[k].instrument
                   /\ made[k].amount = chosen[k].amount
  <2> SUFFICES ASSUME NEW k \in D
               PROVE  /\ made[k] \in Thing /\ made[k].kind = "asset" /\ made[k].owner = to[k]
                      /\ made[k].instrument = chosen[k].instrument
                      /\ made[k].amount = chosen[k].amount
    OBVIOUS
  <2>1. /\ chosen[k].instrument \in Instrument /\ chosen[k].amount \in Nat
        /\ chosen[k].amount > 0 /\ to[k] \in Player
    BY <1>1, ThingTypes
  <2>2. made[k] = NewAsset(to[k], chosen[k].instrument, chosen[k].amount)
    OBVIOUS
  <2> HIDE DEF made
  <2>3. QED BY <2>1, <2>2, MadeAsset DEF NewAsset
<1>3. DOMAIN made = D /\ made = [k \in DOMAIN made |-> made[k]]
  OBVIOUS
<1>4. Replace(old, new)
  OBVIOUS
<1>5. old \sqsubseteq holdings
  OBVIOUS
<1> HIDE DEF made
<1>6. /\ Pile(old) /\ DOMAIN old = {chosen[k] : k \in D}
      /\ \A w \in Weight : Measure(w, old) = SumOf(WeighedBy(w, chosen), D)
  BY <1>1, PickedWeighs
<1>7. /\ Pile(new) /\ DOMAIN new = {made[k] : k \in D}
      /\ \A w \in Weight : Measure(w, new) = SumOf(WeighedBy(w, made), D)
  BY <1>2, <1>3, PickedWeighs
<1> HIDE DEF old, new
<1>8. ASSUME NEW i \in Instrument
      PROVE  Measure(HeldW(Player, i), new) = Measure(HeldW(Player, i), old)
  <2> DEFINE w == HeldW(Player, i)
             f == WeighedBy(w, chosen)
             g == WeighedBy(w, made)
  <2>1. w \in Weight /\ \A k \in D : w[made[k]] = w[chosen[k]] /\ w[chosen[k]] \in Nat
    <3>1. \A k \in D : w[made[k]] = w[chosen[k]]
      BY <1>1, <1>2, HeldByAPlayer
    <3>2. w \in Weight
      BY WeightTypes
    <3> HIDE DEF w
    <3>3. QED BY <1>1, <3>1, <3>2 DEF Weight
  <2> HIDE DEF w
  <2>2. \A k \in D : f[k] \in Int /\ g[k] = f[k]
    BY <1>1, <1>3, <2>1 DEF WeighedBy
  <2>3. Measure(w, old) = SumOf(f, D) /\ Measure(w, new) = SumOf(g, D)
    BY <1>6, <1>7, <2>1
  <2> HIDE DEF f, g
  <2>4. SumOf(g, D) = SumOf(f, D)
    BY <2>2, SumSame
  <2>5. QED BY <2>3, <2>4 DEF w
<1>9. (\A h \in DOMAIN old : h.kind # "asset") /\ (\A h \in DOMAIN new : h.kind = "asset")
  BY <1>1, <1>2, <1>6, <1>7
<1>10. /\ HoldingsPile'
       /\ \A k : /\ FreeOf(k) \in Nat /\ FreeOf(k)' \in Nat
                 /\ ReservedOf(k) \in Nat /\ ReservedOf(k)' \in Nat
                 /\ FreeOf(k)' >= FreeOf(k) /\ ReservedOf(k)' <= ReservedOf(k)
       /\ \A k : (\A h \in DOMAIN old : h.sender = k[1] => h.instrument # k[2]) =>
                   ReservedOf(k)' = ReservedOf(k)
       /\ \A k : (\A h \in DOMAIN new : h.owner # k[1]) => FreeOf(k)' = FreeOf(k)
       /\ \A h \in DOMAIN old : h \in DOMAIN holdings /\ Ended(h)
       /\ Abstract!PayOut
  BY <1>4, <1>5, <1>6, <1>7, <1>8, <1>9, ReleaseMoves
<1>11. \A x \in D : chosen[x] \in DOMAIN old
  BY <1>6
<1>12. ASSUME NEW k, \A x \in D : chosen[x].sender = k[1] => chosen[x].instrument # k[2]
       PROVE  ReservedOf(k)' = ReservedOf(k)
  <2>1. \A h \in DOMAIN old : h.sender = k[1] => h.instrument # k[2]
    BY <1>6, <1>12
  <2>2. QED BY <1>10, <2>1
<1>13. ASSUME NEW k, \A x \in D : to[x] # k[1]
       PROVE  FreeOf(k)' = FreeOf(k)
  <2>1. \A h \in DOMAIN new : h.owner # k[1]
    BY <1>2, <1>7, <1>13
  <2>2. QED BY <1>10, <2>1
<1>14. QED BY <1>10, <1>11, <1>12, <1>13

-----------------------------------------------------------------------------
(* The inductive invariant of the market, and the steps. *)

DealOK(d) ==
  /\ d \in [ maker : Player, taker : Player \cup {AnyTaker}, legs : {d.legs},
             expiresAt : Int, settleBefore : Int ]
  /\ IsFiniteSet(DOMAIN d.legs)
  /\ EnsureProposal(d)

TradeOK(x) ==
  \/ x \in {Archived("none"), Archived("settled"), Archived("ended")}
  \/ /\ x = Contract(x.state, x.deal)
     /\ x.state \in {"proposed", "agreed"}
     /\ DealOK(x.deal)
     /\ x.state = "agreed" => x.deal.taker \in Player

TradesOK ==
  /\ trade = [t \in TradeId |-> trade[t]]
  /\ \A t \in TradeId : TradeOK(trade[t])

MarketInv == TypeOK /\ HoldingsPile /\ TradesOK

\* What every step promises about the purses.
AbstractStep == [Abstract!Next]_<<Free, Reserved>>

LossesAsked ==
  \A k \in Purse : Claim(k)' < Claim(k) =>
    \E h \in DOMAIN holdings :
      /\ Ended(h) /\ h.instrument = k[2]
      /\ IF h.kind = "asset" THEN h.owner = k[1] /\ h.burnAsked ELSE h.sender = k[1]

Lawful == HoldingsPile' /\ AbstractStep /\ LossesAsked

LEMMA PurseViews ==
  /\ Free = [k \in Purse |-> FreeOf(k)] /\ Free' = [k \in Purse |-> FreeOf(k)']
  /\ Reserved = [k \in Purse |-> ReservedOf(k)] /\ Reserved' = [k \in Purse |-> ReservedOf(k)']
  /\ Abstract!Purse = Purse
BY DEF Free, Reserved, Abstract!Purse, Purse

LEMMA KeptIsLawful ==
  ASSUME HoldingsPile, HoldingsPile', PursesKept
  PROVE  Lawful
<1>1. AbstractStep
  BY PurseViews DEF AbstractStep, PursesKept
<1>2. \A k \in Purse : FreeOf(k) \in Nat /\ ReservedOf(k) \in Nat
  BY PursesWeighNow, MeasureType, WeightTypes DEF PursesWeigh, HoldingsPile
<1>3. LossesAsked
  BY <1>2 DEF LossesAsked, Claim, PursesKept
<1>4. QED BY <1>1, <1>3 DEF Lawful

\* One purse changes, and by one of the abstract steps.
LEMMA OneChangeIsAbstract ==
  ASSUME NEW k \in Purse, OthersKept(k),
         FreeOf(k) \in Nat, FreeOf(k)' \in Nat, ReservedOf(k) \in Nat, ReservedOf(k)' \in Nat,
         \/ FreeOf(k)' > FreeOf(k) /\ ReservedOf(k)' = ReservedOf(k)
         \/ FreeOf(k)' < FreeOf(k) /\ ReservedOf(k)' = ReservedOf(k)
         \/ /\ FreeOf(k)' < FreeOf(k)
            /\ FreeOf(k)' + ReservedOf(k)' = FreeOf(k) + ReservedOf(k)
         \/ ReservedOf(k)' < ReservedOf(k) /\ FreeOf(k)' = FreeOf(k)
  PROVE  AbstractStep
<1>1. \A l \in Purse : /\ Free[l] = FreeOf(l) /\ Free'[l] = FreeOf(l)'
                       /\ Reserved[l] = ReservedOf(l) /\ Reserved'[l] = ReservedOf(l)'
  BY PurseViews
<1>2. Abstract!OthersSame(k)
  BY <1>1, PurseViews DEF Abstract!OthersSame, OthersKept
<1>3. Abstract!Mint(k) \/ Abstract!Burn(k) \/ Abstract!Reserve(k) \/ Abstract!Forfeit(k)
  BY <1>1 DEF Abstract!Mint, Abstract!Burn, Abstract!Reserve, Abstract!Forfeit
<1>4. k \in Abstract!Purse
  BY PurseViews
<1>5. QED BY <1>2, <1>3, <1>4 DEF AbstractStep, Abstract!Next

\* A step that changes one purse alone can only have lowered that one's claim.
LEMMA OneLoss ==
  ASSUME NEW k \in Purse, OthersKept(k), HoldingsPile,
         \/ Claim(k) \in Nat /\ Claim(k)' \in Nat /\ Claim(k)' >= Claim(k)
         \/ \E h \in DOMAIN holdings :
              /\ Ended(h) /\ h.instrument = k[2]
              /\ IF h.kind = "asset" THEN h.owner = k[1] /\ h.burnAsked ELSE h.sender = k[1]
  PROVE  LossesAsked
<1>1. \A l : FreeOf(l) \in Nat /\ ReservedOf(l) \in Nat
  BY PursesWeighNow, MeasureType, WeightTypes DEF PursesWeigh, HoldingsPile
<1>3. ASSUME NEW l \in Purse, l # k PROVE Claim(l)' = Claim(l) /\ Claim(l) \in Nat
  <2>1. FreeOf(l)' = FreeOf(l) /\ ReservedOf(l)' = ReservedOf(l)
    BY <1>3 DEF OthersKept
  <2>2. QED BY <1>1, <2>1 DEF Claim
<1>4. SUFFICES ASSUME NEW l \in Purse, Claim(l)' < Claim(l)
               PROVE  \E h \in DOMAIN holdings :
                        /\ Ended(h) /\ h.instrument = l[2]
                        /\ IF h.kind = "asset" THEN h.owner = l[1] /\ h.burnAsked
                           ELSE h.sender = l[1]
  BY DEF LossesAsked
<1>5. CASE l # k
  BY <1>3, <1>4, <1>5
<1>6. CASE l = k /\ Claim(k) \in Nat /\ Claim(k)' \in Nat /\ Claim(k)' >= Claim(k)
  BY <1>4, <1>6
<1>7. CASE l = k /\ \E h \in DOMAIN holdings :
              /\ Ended(h) /\ h.instrument = k[2]
              /\ IF h.kind = "asset" THEN h.owner = k[1] /\ h.burnAsked ELSE h.sender = k[1]
  BY <1>7
<1>8. QED BY <1>5, <1>6, <1>7

LEMMA ReleaseIsLawful ==
  ASSUME HoldingsPile, HoldingsPile', Abstract!PayOut,
         \A k \in Purse :
           /\ FreeOf(k) \in Nat /\ FreeOf(k)' \in Nat
           /\ ReservedOf(k) \in Nat /\ ReservedOf(k)' \in Nat
           /\ FreeOf(k)' >= FreeOf(k)
           /\ ReservedOf(k)' # ReservedOf(k) =>
                \E h \in DOMAIN holdings :
                  Ended(h) /\ h.instrument = k[2] /\ h.kind # "asset" /\ h.sender = k[1]
  PROVE  Lawful
<1>1. AbstractStep
  BY DEF AbstractStep, Abstract!Next
<1>2. LossesAsked
  <2> SUFFICES ASSUME NEW k \in Purse, Claim(k)' < Claim(k)
               PROVE  \E h \in DOMAIN holdings :
                        /\ Ended(h) /\ h.instrument = k[2]
                        /\ IF h.kind = "asset" THEN h.owner = k[1] /\ h.burnAsked
                           ELSE h.sender = k[1]
    BY DEF LossesAsked
  <2>1. ReservedOf(k)' # ReservedOf(k)
    BY DEF Claim
  <2>2. QED BY <2>1
<1>3. QED BY <1>1, <1>2 DEF Lawful

LEMMA ConsumeIsLawful ==
  ASSUME HoldingsPile, NEW p \in Player, NEW i \in Instrument, NEW a \in Nat, a > 0,
         NEW inputs \in Inputs, MayConsume(p, i, a, inputs),
         NEW made \in Thing, Holder(made) = p, made.instrument = i, made.amount = a,
         Replace(inputs, Change(p, i, a, inputs) (+) One(made))
  PROVE  Lawful
<1> DEFINE k == <<p, i>>
<1>1. k \in Purse
  BY DEF Purse
<1>2. /\ HoldingsPile' /\ OthersKept(k)
      /\ FreeOf(k) \in Nat /\ FreeOf(k)' \in Nat /\ ReservedOf(k) \in Nat
      /\ IF made.kind = "asset"
           THEN FreeOf(k)' = FreeOf(k) /\ ReservedOf(k)' = ReservedOf(k)
           ELSE FreeOf(k)' = FreeOf(k) - a /\ ReservedOf(k)' = ReservedOf(k) + a
  BY ConsumeMoves
<1> HIDE DEF k
<1>3. CASE made.kind = "asset"
  <2>1. PursesKept
    BY <1>1, <1>2, <1>3 DEF PursesKept, OthersKept
  <2>2. QED BY <1>2, <2>1, KeptIsLawful
<1>4. CASE made.kind # "asset"
  <2>1. /\ ReservedOf(k)' \in Nat /\ FreeOf(k)' < FreeOf(k)
        /\ FreeOf(k)' + ReservedOf(k)' = FreeOf(k) + ReservedOf(k)
    BY <1>2, <1>4
  <2>2. AbstractStep
    BY <1>1, <1>2, <2>1, OneChangeIsAbstract
  <2>3. Claim(k) \in Nat /\ Claim(k)' \in Nat /\ Claim(k)' >= Claim(k)
    BY <1>2, <2>1 DEF Claim
  <2>4. LossesAsked
    BY <1>1, <1>2, <2>3, OneLoss
  <2>5. QED BY <1>2, <2>2, <2>4 DEF Lawful
<1>5. QED BY <1>3, <1>4

LEMMA AmountTypes == \A a \in Amount : a > 0 => a \in Nat
BY MintAssumption DEF MintAssumption

LEMMA TransferIsLawful ==
  ASSUME HoldingsPile, NEW p \in Player, NEW q \in Player, NEW i \in Instrument,
         NEW a \in Amount, NEW inputs \in Inputs, Transfer(p, q, i, a, inputs)
  PROVE  Lawful
<1> DEFINE offer == [ kind |-> "offer", sender |-> p, receiver |-> q, instrument |-> i,
                      amount |-> a ]
           made == IF q = p THEN NewAsset(p, i, a) ELSE offer
<1>1. a \in Nat /\ a > 0
  BY AmountTypes DEF Transfer
<1>2. MayConsume(p, i, a, inputs) /\ Replace(inputs, Change(p, i, a, inputs) (+) One(made))
  BY DEF Transfer
<1>3. made \in Thing /\ Holder(made) = p /\ made.instrument = i /\ made.amount = a
  <2>1. CASE q = p
    BY <2>1, <1>1, MadeAsset
  <2>2. CASE q # p
    <3>1. offer \in AssetTransferOffer
      BY <1>1 DEF AssetTransferOffer
    <3>2. QED BY <2>2, <3>1 DEF Thing, Holder
  <2>3. QED BY <2>1, <2>2
<1> HIDE DEF made
<1>4. QED BY <1>1, <1>2, <1>3, ConsumeIsLawful

LEMMA AllocateIsLawful ==
  ASSUME TypeOK, HoldingsPile, NEW p \in Player, NEW q \in Player, NEW i \in Instrument,
         NEW a \in Amount, NEW inputs \in Inputs, NEW t \in now .. MaxTime,
         Allocate(p, q, i, a, inputs, t)
  PROVE  Lawful
<1> DEFINE made == [ kind |-> "allocation", sender |-> p, receiver |-> q, instrument |-> i,
                     amount |-> a, settleBefore |-> t ]
<1>1. a \in Nat /\ a > 0
  BY AmountTypes DEF Allocate
<1>2. MayConsume(p, i, a, inputs) /\ Replace(inputs, Change(p, i, a, inputs) (+) One(made))
  BY DEF Allocate
<1>3. t \in Nat
  BY MintAssumption DEF MintAssumption, TypeOK
<1>4. made \in Thing /\ Holder(made) = p /\ made.instrument = i /\ made.amount = a
  <2>1. made \in AssetAllocation
    BY <1>1, <1>3 DEF AssetAllocation
  <2>2. QED BY <2>1 DEF Thing, Holder
<1> HIDE DEF made
<1>5. QED BY <1>1, <1>2, <1>4, ConsumeIsLawful

\* Any ending of one offer or allocation that makes an asset of it.
LEMMA OneReleaseIsLawful ==
  ASSUME HoldingsPile, NEW h \in DOMAIN holdings, h.kind # "asset", NEW p \in Player,
         Replace(One(h), One(NewAsset(p, h.instrument, h.amount)))
  PROVE  Lawful
<1>1. /\ HoldingsPile' /\ Abstract!PayOut
      /\ \A k : /\ FreeOf(k) \in Nat /\ FreeOf(k)' \in Nat
                /\ ReservedOf(k) \in Nat /\ ReservedOf(k)' \in Nat
                /\ FreeOf(k)' >= FreeOf(k)
      /\ \A k : ~(h.sender = k[1] /\ h.instrument = k[2]) => ReservedOf(k)' = ReservedOf(k)
      /\ Ended(h)
  BY ReleaseOne
<1>2. QED BY <1>1, ReleaseIsLawful

LEMMA WasteIsLawful ==
  ASSUME HoldingsPile, NEW h \in DOMAIN holdings, Replace(One(h), EmptyBag),
         h.kind = "asset" => h.burnAsked
  PROVE  Lawful
<1> DEFINE k == <<Holder(h), h.instrument>>
<1>1. /\ HoldingsPile' /\ Ended(h) /\ OthersKept(k) /\ k \in Purse
      /\ FreeOf(k) \in Nat /\ FreeOf(k)' \in Nat
      /\ ReservedOf(k) \in Nat /\ ReservedOf(k)' \in Nat
      /\ IF h.kind = "asset"
           THEN FreeOf(k)' < FreeOf(k) /\ ReservedOf(k)' = ReservedOf(k)
           ELSE ReservedOf(k)' < ReservedOf(k) /\ FreeOf(k)' = FreeOf(k)
  BY WasteMoves
<1>2. /\ Ended(h) /\ h.instrument = k[2]
      /\ IF h.kind = "asset" THEN h.owner = k[1] /\ h.burnAsked ELSE h.sender = k[1]
  BY <1>1 DEF Holder
<1> HIDE DEF k
<1>3. AbstractStep
  BY <1>1, OneChangeIsAbstract
<1>4. LossesAsked
  BY <1>1, <1>2, OneLoss
<1>5. QED BY <1>1, <1>3, <1>4 DEF Lawful

LEMMA MintIsLawful ==
  ASSUME HoldingsPile, NEW p \in Player, NEW i \in Instrument, NEW a \in Nat, a > 0,
         Replace(EmptyBag, One(NewAsset(p, i, a)))
  PROVE  Lawful
<1> DEFINE k == <<p, i>>
<1>1. /\ HoldingsPile' /\ OthersKept(k)
      /\ FreeOf(k) \in Nat /\ FreeOf(k)' \in Nat /\ ReservedOf(k) \in Nat
      /\ FreeOf(k)' > FreeOf(k) /\ ReservedOf(k)' = ReservedOf(k)
  BY MintMoves
<1>2. k \in Purse
  BY DEF Purse
<1> HIDE DEF k
<1>3. AbstractStep
  BY <1>1, <1>2, OneChangeIsAbstract
<1>4. Claim(k) \in Nat /\ Claim(k)' \in Nat /\ Claim(k)' >= Claim(k)
  BY <1>1 DEF Claim
<1>5. LossesAsked
  BY <1>1, <1>2, <1>4, OneLoss
<1>6. QED BY <1>1, <1>3, <1>5 DEF Lawful

LEMMA AssetStepIsLawful ==
  ASSUME TypeOK, HoldingsPile, AssetStep
  PROVE  Lawful
<1>1. CASE \E r \in Right, p \in Player, i \in Instrument, a \in Amount : MintAsset(r, p, i, a)
  <2>1. PICK r \in Right, p \in Player, i \in Instrument, a \in Amount : MintAsset(r, p, i, a)
    BY <1>1
  <2>2. a > 0 /\ Replace(EmptyBag, One(NewAsset(p, i, a)))
    BY <2>1 DEF MintAsset, Mint, MintApproved, MayDeposit
  <2>3. QED BY <2>2, AmountTypes, MintIsLawful
<1>2. CASE \E p, q \in Player, i \in Instrument, a \in Amount, inputs \in Inputs :
             \/ Transfer(p, q, i, a, inputs)
             \/ \E t \in now .. MaxTime : Allocate(p, q, i, a, inputs, t)
  BY <1>2, TransferIsLawful, AllocateIsLawful
<1>3. CASE \E o \in Contracts("offer") : AcceptTransfer(o) \/ FailTransfer(o)
  <2>1. PICK o \in Contracts("offer") : AcceptTransfer(o) \/ FailTransfer(o)
    BY <1>3
  <2>2. o \in DOMAIN holdings /\ o.kind # "asset" /\ o.receiver \in Player
    BY ThingTypes, OneHeld DEF Contracts
  <2>3. CASE AcceptTransfer(o)
    BY <2>2, <2>3, OneReleaseIsLawful DEF AcceptTransfer
  <2>4. CASE FailTransfer(o)
    BY <2>2, <2>4, WasteIsLawful DEF FailTransfer
  <2>5. QED BY <2>1, <2>3, <2>4
<1>4. CASE \E a \in Contracts("allocation") : ReturnAllocation(a) \/ ExecuteAllocation(a)
  <2>1. PICK a \in Contracts("allocation") : ReturnAllocation(a) \/ ExecuteAllocation(a)
    BY <1>4
  <2>2. a \in DOMAIN holdings /\ a.kind # "asset" /\ a.receiver \in Player /\ a.sender \in Player
    BY ThingTypes, OneHeld DEF Contracts
  <2>3. CASE ReturnAllocation(a)
    BY <2>2, <2>3, OneReleaseIsLawful DEF ReturnAllocation, Returned
  <2>4. CASE ExecuteAllocation(a)
    BY <2>2, <2>4, OneReleaseIsLawful DEF ExecuteAllocation, Delivered
  <2>5. QED BY <2>1, <2>3, <2>4
<1>5. CASE \E h \in Contracts("asset") : RequestBurn(h) \/ WithdrawBurn(h) \/ Burn(h)
  <2>1. PICK h \in Contracts("asset") : RequestBurn(h) \/ WithdrawBurn(h) \/ Burn(h)
    BY <1>5
  <2>2. CASE RequestBurn(h)
    BY <2>2, RequestMoves, KeptIsLawful DEF RequestBurn
  <2>3. CASE WithdrawBurn(h)
    BY <2>3, RequestMoves, KeptIsLawful DEF WithdrawBurn
  <2>4. CASE Burn(h)
    BY <2>4, WasteIsLawful DEF Burn, Contracts
  <2>5. QED BY <2>1, <2>2, <2>3, <2>4
<1>6. QED BY <1>1, <1>2, <1>3, <1>4, <1>5 DEF AssetStep

\* The parties' allocations go to the parties.
LEMMA PickedIsLawful ==
  ASSUME HoldingsPile, NEW D, IsFiniteSet(D), NEW chosen \in [D -> Contracts("allocation")],
         NEW to, \A x \in D : to[x] \in Player, Picked(chosen) \sqsubseteq holdings,
         Replace(Picked(chosen),
                 Picked([x \in D |-> NewAsset(to[x], chosen[x].instrument, chosen[x].amount)])),
         NEW parties, \A x \in D : chosen[x].sender \in parties /\ to[x] \in parties
  PROVE  /\ Lawful
         /\ \A k \in Purse : k[1] \notin parties =>
              FreeOf(k)' = FreeOf(k) /\ ReservedOf(k)' = ReservedOf(k)
<1>1. /\ HoldingsPile' /\ Abstract!PayOut
      /\ \A k : /\ FreeOf(k) \in Nat /\ FreeOf(k)' \in Nat
                /\ ReservedOf(k) \in Nat /\ ReservedOf(k)' \in Nat
                /\ FreeOf(k)' >= FreeOf(k)
      /\ \A k : (\A x \in D : chosen[x].sender = k[1] => chosen[x].instrument # k[2]) =>
                  ReservedOf(k)' = ReservedOf(k)
      /\ \A k : (\A x \in D : to[x] # k[1]) => FreeOf(k)' = FreeOf(k)
      /\ \A x \in D : chosen[x] \in DOMAIN holdings /\ Ended(chosen[x])
  BY PickedMoves
<1>2. \A x \in D : chosen[x].kind # "asset"
  BY DEF Contracts
<1>3. ASSUME NEW k \in Purse, ReservedOf(k)' # ReservedOf(k)
      PROVE  \E h \in DOMAIN holdings :
               Ended(h) /\ h.instrument = k[2] /\ h.kind # "asset" /\ h.sender = k[1]
  <2>1. PICK x \in D : chosen[x].sender = k[1] /\ chosen[x].instrument = k[2]
    BY <1>1, <1>3
  <2>2. QED BY <1>1, <1>2, <2>1
<1>4. Lawful
  BY <1>1, <1>3, ReleaseIsLawful
<1>5. QED BY <1>1, <1>4

LEMMA AgreedDeal ==
  ASSUME TradesOK, NEW t \in TradeId, trade[t].state \in {"proposed", "agreed"}
  PROVE  /\ trade[t] = Contract(trade[t].state, trade[t].deal) /\ DealOK(trade[t].deal)
         /\ trade[t].state = "agreed" => trade[t].deal.taker \in Player
BY DEF TradesOK, TradeOK, Archived

KeepsToItsParties(t) ==
  \A k \in Purse : k[1] \notin {trade[t].deal.maker, trade[t].deal.taker} =>
    FreeOf(k)' = FreeOf(k) /\ ReservedOf(k)' = ReservedOf(k)

LEMMA SettleIsLawful ==
  ASSUME HoldingsPile, TradesOK, NEW t \in TradeId, trade[t].state = "agreed",
         NEW chosen \in [DOMAIN trade[t].deal.legs -> Contracts("allocation")],
         Settle(t, chosen)
  PROVE  Lawful /\ KeepsToItsParties(t)
<1>0. PICK deal : deal = trade[t].deal
  OBVIOUS
<1>1. PICK D : D = DOMAIN deal.legs
  OBVIOUS
<1> DEFINE to == [x \in D |-> chosen[x].receiver]
           parties == {deal.maker, deal.taker}
<1>2. IsFiniteSet(D)
  BY <1>0, <1>1, AgreedDeal DEF DealOK
<1>3. chosen \in [D -> Contracts("allocation")] /\ DOMAIN chosen = D
  BY <1>0, <1>1
<1>4. \A x \in D : chosen[x] \in DOMAIN holdings /\ chosen[x] \in Thing /\ chosen[x].kind # "asset"
  BY <1>3 DEF Contracts, HoldingsPile, Pile
<1>5. \A x \in D : to[x] \in Player
  BY <1>4, ThingTypes
<1>6. \A x \in D : chosen[x].sender \in parties /\ to[x] \in parties
  <2>1. \A a \in Range(chosen) : Authorised(deal, a)
    BY <1>0 DEF Settle
  <2>2. \A x \in D : chosen[x] \in Range(chosen)
    BY <1>3 DEF Range
  <2>3. QED BY <2>1, <2>2 DEF Authorised
<1>7. [x \in D |-> NewAsset(to[x], chosen[x].instrument, chosen[x].amount)]
        = [x \in DOMAIN chosen |-> Delivered(chosen[x])]
  BY <1>3 DEF Delivered
<1>8. /\ Picked(chosen) \sqsubseteq holdings
      /\ Replace(Picked(chosen),
                 Picked([x \in D |-> NewAsset(to[x], chosen[x].instrument, chosen[x].amount)]))
  BY <1>7 DEF Settle, AllDelivered
<1> HIDE DEF to, parties
<1>9. /\ Lawful
      /\ \A k \in Purse : k[1] \notin parties =>
           FreeOf(k)' = FreeOf(k) /\ ReservedOf(k)' = ReservedOf(k)
  BY <1>2, <1>3, <1>5, <1>6, <1>8, PickedIsLawful
<1>10. QED BY <1>0, <1>9 DEF KeepsToItsParties, parties

LEMMA CancelIsLawful ==
  ASSUME HoldingsPile, NEW t \in TradeId, NEW n \in Nat,
         NEW chosen \in [1 .. n -> Contracts("allocation")], CancelTrade(t, chosen)
  PROVE  Lawful /\ KeepsToItsParties(t)
<1>0. PICK deal : deal = trade[t].deal
  OBVIOUS
<1>1. PICK D : D = 1 .. n
  OBVIOUS
<1> DEFINE to == [x \in D |-> chosen[x].sender]
           parties == {deal.maker, deal.taker}
<1>2. IsFiniteSet(D)
  BY <1>1, FS_Interval
<1>3. chosen \in [D -> Contracts("allocation")] /\ DOMAIN chosen = D
  BY <1>1
<1>4. \A x \in D : chosen[x] \in DOMAIN holdings /\ chosen[x] \in Thing /\ chosen[x].kind # "asset"
  BY <1>3 DEF Contracts, HoldingsPile, Pile
<1>5. \A x \in D : to[x] \in Player
  BY <1>4, ThingTypes
<1>6. \A x \in D : chosen[x].sender \in parties /\ to[x] \in parties
  <2>1. \A a \in Range(chosen) : Authorised(deal, a)
    BY <1>0 DEF CancelTrade
  <2>2. \A x \in D : chosen[x] \in Range(chosen)
    BY <1>3 DEF Range
  <2>3. QED BY <2>1, <2>2 DEF Authorised
<1>7. [x \in D |-> NewAsset(to[x], chosen[x].instrument, chosen[x].amount)]
        = [x \in DOMAIN chosen |-> Returned(chosen[x])]
  BY <1>3 DEF Returned
<1>8. /\ Picked(chosen) \sqsubseteq holdings
      /\ Replace(Picked(chosen),
                 Picked([x \in D |-> NewAsset(to[x], chosen[x].instrument, chosen[x].amount)]))
  BY <1>7 DEF CancelTrade, AllReturned
<1> HIDE DEF to, parties
<1>9. /\ Lawful
      /\ \A k \in Purse : k[1] \notin parties =>
           FreeOf(k)' = FreeOf(k) /\ ReservedOf(k)' = ReservedOf(k)
  BY <1>2, <1>3, <1>5, <1>6, <1>8, PickedIsLawful
<1>10. QED BY <1>0, <1>9 DEF KeepsToItsParties, parties

LEMMA IdleIsLawful ==
  ASSUME HoldingsPile, UNCHANGED holdings
  PROVE  Lawful
<1>1. HoldingsPile'
  BY DEF HoldingsPile, Pile, IsABag
<1>2. \A k : FreeOf(k)' = FreeOf(k) /\ ReservedOf(k)' = ReservedOf(k)
  BY DEF FreeOf, ReservedOf, Value, Contracts, MapThenSumSet, MapThenFoldSet
<1>3. QED BY <1>1, <1>2, KeptIsLawful DEF PursesKept

-----------------------------------------------------------------------------
(* The trades themselves. *)

LEMMA TradeChanges ==
  ASSUME TradesOK, NEW t \in TradeId, NEW x, TradeOK(x), Becomes(t, x)
  PROVE  TradesOK' /\ \A s \in TradeId : s # t => trade'[s] = trade[s]
<1>1. /\ trade' = [s \in TradeId |-> trade'[s]]
      /\ \A s \in TradeId : trade'[s] = IF s = t THEN x ELSE trade[s]
  BY DEF TradesOK, Becomes
<1>2. ASSUME NEW s \in TradeId PROVE TradeOK(trade[s])'
  BY <1>1 DEF TradesOK, TradeOK, DealOK, EnsureProposal
<1>3. QED BY <1>1, <1>2 DEF TradesOK

\* A step of the proposals touches no agreed trade.
LEMMA ProposalKeeps ==
  ASSUME TradesOK, ProposalStep
  PROVE  /\ TradesOK' /\ UNCHANGED <<now, account, right, holdings>>
         /\ \A t \in TradeId : trade[t].state = "agreed" => trade'[t] = trade[t]
<1>1. PICK t \in TradeId :
        \/ \E d \in Deals : Propose(t, d)
        \/ \E p \in Player : Accept(t, p)
        \/ CancelProposal(t)
        \/ ExpireProposal(t)
  BY DEF ProposalStep
<1>2. ASSUME NEW d \in Deals, Propose(t, d)
      PROVE  \E x : TradeOK(x) /\ Becomes(t, x) /\ trade[t].state # "agreed"
  <2>1. DealOK(d)
    BY <1>2, MarketAssumption DEF MarketAssumption, DealOK, Propose
  <2>2. TradeOK(Contract("proposed", d))
    BY <2>1 DEF TradeOK, Contract
  <2>3. trade[t].state = "none"
    BY <1>2 DEF Propose, NoTrade, Archived
  <2>4. QED BY <1>2, <2>2, <2>3 DEF Propose
<1>3. ASSUME NEW p \in Player, Accept(t, p)
      PROVE  \E x : TradeOK(x) /\ Becomes(t, x) /\ trade[t].state # "agreed"
  <2>1. PICK d : d = trade[t].deal
    OBVIOUS
  <2>2. trade[t].state = "proposed" /\ Becomes(t, Contract("agreed", [d EXCEPT !.taker = p]))
    BY <1>3, <2>1 DEF Accept
  <2>3. DealOK(d)
    BY <2>1, <2>2, AgreedDeal
  <2>4. DealOK([d EXCEPT !.taker = p]) /\ [d EXCEPT !.taker = p].taker = p
    BY <2>3 DEF DealOK, EnsureProposal
  <2>5. TradeOK(Contract("agreed", [d EXCEPT !.taker = p]))
    BY <2>4 DEF TradeOK, Contract
  <2>6. QED BY <2>2, <2>5
<1>4. ASSUME CancelProposal(t) \/ ExpireProposal(t)
      PROVE  \E x : TradeOK(x) /\ Becomes(t, x) /\ trade[t].state # "agreed"
  <2>1. TradeOK(Archived("ended"))
    BY DEF TradeOK
  <2>2. QED BY <1>4, <2>1 DEF CancelProposal, ExpireProposal
<1>5. PICK x : TradeOK(x) /\ Becomes(t, x) /\ trade[t].state # "agreed"
  BY <1>1, <1>2, <1>3, <1>4
<1>6. UNCHANGED <<now, account, right, holdings>>
  BY <1>1 DEF Propose, Accept, CancelProposal, ExpireProposal
<1>7. QED BY <1>5, <1>6, TradeChanges

LEMMA TradeStepMoves ==
  ASSUME MarketInv, TradeStep
  PROVE  /\ TradesOK' /\ UNCHANGED <<now, account, right>> /\ Lawful
         /\ \A t \in TradeId : Concludes(t) => KeepsToItsParties(t)
<1>1. PICK t \in TradeId :
        /\ trade[t].state = "agreed"
        /\ \/ \E chosen \in [DOMAIN trade[t].deal.legs -> Contracts("allocation")] :
                Settle(t, chosen)
           \/ \E n \in 0 .. Reservations : \E chosen \in [1 .. n -> Contracts("allocation")] :
                CancelTrade(t, chosen)
  BY DEF TradeStep
<1>2. HoldingsPile /\ TradesOK
  BY DEF MarketInv
<1>3. \A e \in {"settled", "ended"} : TradeOK(Archived(e))
  BY DEF TradeOK
<1>4. CASE \E chosen \in [DOMAIN trade[t].deal.legs -> Contracts("allocation")] :
             Settle(t, chosen)
  <2>1. PICK chosen \in [DOMAIN trade[t].deal.legs -> Contracts("allocation")] :
          Settle(t, chosen)
    BY <1>4
  <2>2. Lawful /\ KeepsToItsParties(t)
    BY <1>1, <1>2, <2>1, SettleIsLawful
  <2>3. Becomes(t, Archived("settled")) /\ UNCHANGED <<now, account, right>>
    BY <2>1 DEF Settle
  <2>4. TradesOK' /\ \A s \in TradeId : s # t => trade'[s] = trade[s]
    BY <1>2, <1>3, <2>3, TradeChanges
  <2>5. QED BY <2>2, <2>3, <2>4 DEF Concludes
<1>5. CASE \E n \in 0 .. Reservations : \E chosen \in [1 .. n -> Contracts("allocation")] :
             CancelTrade(t, chosen)
  <2>1. PICK n \in 0 .. Reservations :
          \E chosen \in [1 .. n -> Contracts("allocation")] : CancelTrade(t, chosen)
    BY <1>5
  <2>2. PICK chosen \in [1 .. n -> Contracts("allocation")] : CancelTrade(t, chosen)
    BY <2>1
  <2>3. n \in Nat
    OBVIOUS
  <2>4. Lawful /\ KeepsToItsParties(t)
    BY <1>2, <2>2, <2>3, CancelIsLawful
  <2>5. Becomes(t, Archived("ended")) /\ UNCHANGED <<now, account, right>>
    BY <2>2 DEF CancelTrade
  <2>6. TradesOK' /\ \A s \in TradeId : s # t => trade'[s] = trade[s]
    BY <1>2, <1>3, <2>5, TradeChanges
  <2>7. QED BY <2>4, <2>5, <2>6 DEF Concludes
<1>6. QED BY <1>1, <1>4, <1>5

LEMMA AssetStepMints == AssetStep => [Next]_mintVars
<1> SUFFICES ASSUME AssetStep PROVE [Next]_mintVars
  OBVIOUS
<1>1. CASE \E r \in Right, p \in Player, i \in Instrument, a \in Amount : MintAsset(r, p, i, a)
  BY <1>1 DEF MintAsset, Next
<1>2. CASE UNCHANGED <<now, account, right>>
  BY <1>2 DEF mintVars
<1>3. CASE \E p, q \in Player, i \in Instrument, a \in Amount, inputs \in Inputs :
             \/ Transfer(p, q, i, a, inputs)
             \/ \E t \in now .. MaxTime : Allocate(p, q, i, a, inputs, t)
  <2>1. PICK p \in Player, q \in Player, i \in Instrument, a \in Amount, inputs \in Inputs :
          Transfer(p, q, i, a, inputs) \/ \E t \in now .. MaxTime : Allocate(p, q, i, a, inputs, t)
    BY <1>3
  <2>2. CASE Transfer(p, q, i, a, inputs)
    BY <1>2, <2>2 DEF Transfer
  <2>3. CASE \E t \in now .. MaxTime : Allocate(p, q, i, a, inputs, t)
    BY <1>2, <2>3 DEF Allocate
  <2>4. QED BY <2>1, <2>2, <2>3
<1>4. CASE \/ \E o \in Contracts("offer") : AcceptTransfer(o) \/ FailTransfer(o)
           \/ \E a \in Contracts("allocation") : ReturnAllocation(a) \/ ExecuteAllocation(a)
           \/ \E h \in Contracts("asset") : RequestBurn(h) \/ WithdrawBurn(h) \/ Burn(h)
  <2>1. UNCHANGED <<now, account, right>>
    BY <1>4
    DEF AcceptTransfer, FailTransfer, ReturnAllocation, ExecuteAllocation,
        RequestBurn, WithdrawBurn, Burn
  <2>2. QED BY <1>2, <2>1
<1>5. QED BY <1>1, <1>3, <1>4 DEF AssetStep

LEMMA MarketInit == Open => MarketInv
<1> SUFFICES ASSUME Open PROVE MarketInv
  OBVIOUS
<1>1. TypeOK
  BY MintAssumption DEF Open, TypeOK, MintAssumption, EnsureMintRight, NewRight, TenantMintRight
<1>2. HoldingsPile
  BY MarketAssumption DEF Open, HoldingsPile, Pile, Thing, MarketAssumption
<1>3. TradesOK
  BY DEF Open, TradesOK, TradeOK, NoTrade
<1>4. QED BY <1>1, <1>2, <1>3 DEF MarketInv

LEMMA MarketStep ==
  ASSUME MarketInv, [MarketNext]_vars
  PROVE  /\ MarketInv' /\ Lawful
         /\ \A t \in TradeId : Concludes(t) => KeepsToItsParties(t)
<1>1. TypeOK /\ HoldingsPile /\ TradesOK
  BY DEF MarketInv
<1>2. UNCHANGED trade => TradesOK' /\ \A t \in TradeId : ~Concludes(t)
  BY <1>1 DEF TradesOK, TradeOK, DealOK, EnsureProposal, Concludes
<1>3. [Next]_mintVars => TypeOK'
  BY <1>1, MintTypeStep
<1>4. UNCHANGED <<now, account, right>> => TypeOK'
  BY <1>3 DEF mintVars
<1>5. CASE UNCHANGED vars
  BY <1>1, <1>2, <1>4, <1>5, IdleIsLawful DEF vars, MarketInv, Lawful
<1>6. CASE Tick /\ UNCHANGED <<holdings, trade>>
  <2>1. TypeOK'
    BY <1>3, <1>6 DEF Next
  <2>2. QED BY <1>1, <1>2, <1>6, <2>1, IdleIsLawful DEF MarketInv, Lawful
<1>7. CASE AssetStep /\ UNCHANGED trade
  <2>1. Lawful
    BY <1>1, <1>7, AssetStepIsLawful
  <2>2. TypeOK'
    BY <1>3, <1>7, AssetStepMints
  <2>3. QED BY <1>2, <1>7, <2>1, <2>2 DEF MarketInv, Lawful
<1>8. CASE ProposalStep
  <2>1. /\ TradesOK' /\ UNCHANGED <<now, account, right, holdings>>
        /\ \A t \in TradeId : ~Concludes(t)
    BY <1>1, <1>8, ProposalKeeps DEF Concludes
  <2>2. Lawful
    BY <1>1, <2>1, IdleIsLawful
  <2>3. QED BY <1>4, <2>1, <2>2 DEF MarketInv, Lawful
<1>9. CASE TradeStep
  <2>1. /\ TradesOK' /\ UNCHANGED <<now, account, right>> /\ Lawful
        /\ \A t \in TradeId : Concludes(t) => KeepsToItsParties(t)
    BY <1>9, TradeStepMoves
  <2>2. QED BY <1>4, <2>1 DEF MarketInv, Lawful
<1>10. QED BY <1>5, <1>6, <1>7, <1>8, <1>9 DEF MarketNext

LEMMA MarketInvariant == MarketSpec => []MarketInv
<1>1. MarketInv /\ [MarketNext]_vars => MarketInv'
  BY MarketStep
<1>2. QED BY MarketInit, <1>1, PTL DEF MarketSpec

-----------------------------------------------------------------------------
\* Every holding, offer and allocation is well formed and of a positive
\* amount, every open trade satisfies the `ensure' of its proposal, and an
\* agreed one has a player for its taker (Trade.daml 82-87, 89-103).
THEOREM MarketTypeCorrect == MarketSpec => []MarketTypeOK
<1>1. MarketInv => MarketTypeOK
  <2> SUFFICES ASSUME MarketInv PROVE MarketTypeOK
    OBVIOUS
  <2>1. TypeOK /\ HoldingsOK
    BY DEF MarketInv, HoldingsPile, Pile, Thing, HoldingsOK
  <2>2. ASSUME NEW t \in TradeId
        PROVE  \/ trade[t] \in {Archived("none"), Archived("settled"), Archived("ended")}
               \/ /\ trade[t].state \in {"proposed", "agreed"}
                  /\ EnsureProposal(trade[t].deal)
                  /\ trade[t].state = "agreed" => trade[t].deal.taker \in Player
    BY DEF MarketInv, TradesOK, TradeOK, DealOK
  <2>3. QED BY <2>1, <2>2 DEF MarketTypeOK
<1>2. QED BY <1>1, MarketInvariant, PTL

\* Nobody loses what they have not offered, allocated or asked to burn, whoever
\* acts and in whatever order (Registry.daml 345-363, 383-411).
THEOREM NobodyLosesWithoutAsking == MarketSpec => NobodyLosesUnasked
<1>1. MarketInv /\ [MarketNext]_vars => [LossesAsked]_vars
  BY MarketStep DEF Lawful
<1>2. QED BY <1>1, MarketInvariant, PTL DEF MarketSpec, NobodyLosesUnasked, LossesAsked

\* A trade, settled or cancelled, leaves the purses of all others alone
\* (Trade.daml 135-165).
THEOREM TradesKeepToTheirParties == MarketSpec => TradesStayBetweenParties
<1>1. MarketInv /\ [MarketNext]_vars =>
        [\A t \in TradeId : Concludes(t) => KeepsToItsParties(t)]_vars
  BY MarketStep
<1>2. QED BY <1>1, MarketInvariant, PTL
  DEF MarketSpec, TradesStayBetweenParties, KeepsToItsParties

\* Holdings, offers and allocations implement the balances of every player.
THEOREM MarketImplementsBalances == MarketSpec => ImplementsBalances
<1>1. Open /\ MarketInv => Abstract!Init
  <2> SUFFICES ASSUME Open, MarketInv PROVE Abstract!Init
    OBVIOUS
  <2>1. PursesWeigh /\ HoldingsPile
    BY PursesWeighNow DEF MarketInv
  <2>2. \A k : FreeOf(k) \in Nat
    BY <2>1, MeasureType, WeightTypes DEF PursesWeigh, HoldingsPile
  <2>3. \A h \in DOMAIN holdings : h \in Asset
    BY MarketAssumption DEF Open, MarketAssumption
  <2>4. ASSUME NEW k PROVE ReservedOf(k) = 0
    <3>1. \A h \in DOMAIN holdings : h \in Thing /\ h.kind = "asset"
      BY <2>3 DEF Thing, Asset
    <3>2. \A h \in DOMAIN holdings : ReservedW(k)[h] = 0
      BY <3>1 DEF ReservedW
    <3>3. Measure(ReservedW(k), holdings) = 0
      BY <2>1, <3>2, MeasureZero, WeightTypes DEF HoldingsPile
    <3>4. QED BY <2>1, <3>3 DEF PursesWeigh
  <2>5. QED BY <2>2, <2>4, PurseViews DEF Abstract!Init
<1>2. MarketInv /\ [MarketNext]_vars => [Abstract!Next]_<<Free, Reserved>>
  BY MarketStep DEF Lawful, AbstractStep
<1>3. QED BY <1>1, <1>2, MarketInvariant, PTL DEF MarketSpec, ImplementsBalances, Abstract!Spec
=============================================================================
