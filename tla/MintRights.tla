----------------------------- MODULE MintRights -----------------------------
(***************************************************************************)
(* The tenants' mint rights and the players' accounts (Registry.daml): a   *)
(* tenant mints freely up to a quota per window, counted in the right      *)
(* itself, and with the registry's approval beyond it; an asset can only   *)
(* be deposited in an open account.  Assets.tla adds what a mint creates.  *)
(* A step is one ledger transaction.                                       *)
(***************************************************************************)
EXTENDS WholeSeconds

CONSTANTS
  Player, Right, Tenant, Instrument,
  TenantOf,           \* the tenantId of each right
  NamespaceOf,        \* the tenant whose prefix an instrument's id carries
  NoTenant,           \* of an instrument without a prefix
  Quota, Window,      \* the quotas and windows an admin may ask for
  Amount,             \* the amounts a client may ask for
  MaxTime,            \* bound of the ledger clock
  MaxMints            \* bound: mints of one right

ASSUME MintAssumption ==
  /\ TenantOf \in [Right -> Tenant]
  /\ NamespaceOf \in [Instrument -> Tenant \cup {NoTenant}]
  /\ Quota \subseteq Int /\ Window \subseteq Int /\ Amount \subseteq Int
  /\ MaxTime \in Nat /\ MaxMints \in Nat

VARIABLES
  now,        \* ledger effective time
  account,    \* the players with a PlayerAccount
  right       \* the TenantMintRights

\* Variant for mutation: a window of no length.
EnsureMintRightLoose(quota, window) == quota >= 0 /\ window >= 0

\* The `ensure' of TenantMintRight, which its choices check as well.
EnsureMintRight(quota, window) == quota >= 0 /\ window > 0

(* issuedAt, freeMints, peakQuota and leastWindow are history: what the    *)
(* quota has allowed since the right was issued.                           *)
TenantMintRight ==
  LET quotas == {q \in Quota : q >= 0}
      windows == {w \in Window : w > 0}
  IN  [ mintQuota : quotas, quotaWindowSeconds : windows, windowStart : Nat,
        mintedInWindow : Nat, totalMinted : Nat, suspended : BOOLEAN,
        issuedAt : Nat, freeMints : Nat, peakQuota : quotas, leastWindow : windows ]
Unissued == [ issued |-> FALSE ]

Issued(r) == right[r] # Unissued

TypeOK ==
  /\ now \in 0 .. MaxTime
  /\ account \subseteq Player
  /\ right \in [Right -> {Unissued} \cup TenantMintRight]

-----------------------------------------------------------------------------
Init ==
  /\ now = 0
  /\ account = {}
  /\ right = [r \in Right |-> Unissued]

Tick ==
  /\ now < MaxTime
  /\ now' = now + 1
  /\ UNCHANGED <<account, right>>

\* PlayerAccount, created by player and admin.
OpenAccount(p) ==
  /\ account' = account \cup {p}
  /\ UNCHANGED <<now, right>>

\* Account_Close, by the player.
CloseAccount(p) ==
  /\ p \in account
  /\ account' = account \ {p}
  /\ UNCHANGED <<now, right>>

NewRight(quota, window) ==
  [ mintQuota |-> quota, quotaWindowSeconds |-> window,
    windowStart |-> now, mintedInWindow |-> 0, totalMinted |-> 0,
    suspended |-> FALSE,
    issuedAt |-> now, freeMints |-> 0, peakQuota |-> quota, leastWindow |-> window ]

\* AssetRegistry_IssueMintRight, by the admin.
IssueMintRight(r, quota, window) ==
  /\ ~Issued(r)
  /\ EnsureMintRight(quota, window)
  /\ right' = [right EXCEPT ![r] = NewRight(quota, window)]
  /\ UNCHANGED <<now, account>>

\* Account_Deposit and the checks both mints share: the asset itself is
\* created by the composing module.
MayDeposit(r, p, i, amount) ==
  /\ Issued(r) /\ ~right[r].suspended
  /\ NamespaceOf[i] = TenantOf[r]
  /\ amount > 0
  /\ p \in account
  /\ right[r].totalMinted < MaxMints

\* The window is a fixed one: it restarts with the first mint after its end.
WindowExpired(r) ==
  SecondsBetween(right[r].windowStart, now) >= right[r].quotaWindowSeconds

UsedBefore(r) == IF WindowExpired(r) THEN 0 ELSE right[r].mintedInWindow

\* Variant for mutation: the counter restarts and the window does not.
MintInOldWindow(r, p, i, amount) ==
  /\ MayDeposit(r, p, i, amount)
  /\ UsedBefore(r) < right[r].mintQuota
  /\ right' = [right EXCEPT ![r].mintedInWindow = UsedBefore(r) + 1,
                            ![r].totalMinted = @ + 1, ![r].freeMints = @ + 1]
  /\ UNCHANGED <<now, account>>

\* MintRight_Mint, by admin and tenant: within the quota.
Mint(r, p, i, amount) ==
  /\ MayDeposit(r, p, i, amount)
  /\ UsedBefore(r) < right[r].mintQuota
  /\ right' = [right EXCEPT
       ![r].windowStart = IF WindowExpired(r) THEN now ELSE @,
       ![r].mintedInWindow = UsedBefore(r) + 1,
       ![r].totalMinted = @ + 1, ![r].freeMints = @ + 1]
  /\ UNCHANGED <<now, account>>

\* MintRight_MintApproved, by the admin: the window's counter stays.
MintApproved(r, p, i, amount) ==
  /\ MayDeposit(r, p, i, amount)
  /\ right' = [right EXCEPT ![r].totalMinted = @ + 1]
  /\ UNCHANGED <<now, account>>

\* MintRight_SetQuota, by the admin: the running window keeps its count.
SetQuota(r, quota, window) ==
  /\ Issued(r)
  /\ EnsureMintRight(quota, window)
  /\ right' = [right EXCEPT
       ![r].mintQuota = quota, ![r].quotaWindowSeconds = window,
       ![r].peakQuota = IF quota > @ THEN quota ELSE @,
       ![r].leastWindow = IF window < @ THEN window ELSE @]
  /\ UNCHANGED <<now, account>>

\* MintRight_SetSuspended, by the admin.
SetSuspended(r, suspended) ==
  /\ Issued(r)
  /\ right' = [right EXCEPT ![r].suspended = suspended]
  /\ UNCHANGED <<now, account>>

AccountStep == \E p \in Player : OpenAccount(p) \/ CloseAccount(p)

RightStep ==
  \E r \in Right :
    \/ \E q \in Quota, w \in Window : IssueMintRight(r, q, w) \/ SetQuota(r, q, w)
    \/ \E s \in BOOLEAN : SetSuspended(r, s)

Next ==
  \/ Tick
  \/ AccountStep
  \/ RightStep
  \/ \E r \in Right, p \in Player, i \in Instrument, a \in Amount :
       Mint(r, p, i, a) \/ MintApproved(r, p, i, a)

Spec == Init /\ [][Next]_<<now, account, right>>

-----------------------------------------------------------------------------
\* The quota bounds the free mints of a right by the ledger clock: over the
\* whole life of the right they are at most the largest quota it ever had for
\* each of the shortest windows it ever had, one window more than have passed,
\* whatever the admin changes, suspends and approves in between
\* (Registry.daml 286-302, 327-335).
MintRateBounded ==
  \A r \in Right : Issued(r) =>
    right[r].freeMints * right[r].leastWindow
      <= right[r].peakQuota
           * (right[r].leastWindow + SecondsBetween(right[r].issuedAt, now))
=============================================================================
