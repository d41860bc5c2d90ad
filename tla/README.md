# Verification of the arCCade game SDK

This directory holds TLA+ specifications of the SDK's contracts and of the
clients that drive them, TLC configurations that check them on small instances,
and theorems that the TLA+ proof system checks for every instance. Sources are
cited as `file:line` below `src/`; the Daml contracts are in
`src/daml/ArCCade/GameSdk/`.

## 1. The system

The SDK puts two kinds of value events on a Canton ledger: *game cycles* (a stake
is locked, then settled) and *changes of ownership* (assets, transfers, trades).
Everything else a game knows stays off the ledger behind digests. Daml contracts
are immutable: a choice archives contracts and creates others, one transaction at
a time, and a transaction happens entirely or not at all. So concurrency is not
within a transaction but between them: several parties submit in any order, read
contract ids that may be archived by the time they use them, and see one clock,
ledger time, that never runs backwards.

### Inventory

| Component | Source | State | Operations | Interacts through |
|---|---|---|---|---|
| Ledger time | `Time.daml`, `js/src/ledgerTime.js` | none | truncated seconds, durations, added durations | every deadline |
| Policy and terms | `Policy.daml`, `Types.daml`, `js/src/policy.js` | none | `validPolicy`, `assertTermsMeetPolicy`, policy digest | `ensure` clauses, commit |
| Venue | `Cycle.daml` `GameVenue` | policy, auditor, head of the roster | InitRoster, IssueEntitlements, UpdatePolicy, SetAuditor, AnchorPeriod | creates entitlements, shards, anchors |
| Roster | `Cycle.daml` `PlayerRoster` | chain of immutable shards | contains, add player, grow | issuance |
| Slot | `Cycle.daml` `PlayerEntitlement` | policy snapshot, cooldown, counters | Commit, Revoke, Retire | becomes a stake and comes back |
| Stake | `Cycle.daml` `GameStake` | terms, time of commitment, policy snapshot | Settle, Abort, ExpireUnsettled | recreates the slot |
| Custody | `Custody.daml` | none of its own | verifies the token registry's locked holding | settlement, abort |
| Token registry (external) | used by `js/src/cycle.js` | locked holdings | lock, joint unlock, owner's recovery after expiry | commands beside the cycle's own |
| Mint rights, accounts | `Registry.daml` | quota window, counters, suspension; open accounts | Mint, MintApproved, SetQuota, SetSuspended, Open, Close | creates assets |
| Asset registry | `Registry.daml` | holdings, offers, allocations, burn requests | transfer, accept, reject, withdraw, allocate, execute, cancel, burn | holdings consumed and created |
| Trades | `Trade.daml`, `js/src/trade.js` | proposals, trades | Propose, Accept, Cancel, Expire, Settle, Cancel | executes and returns allocations |
| Reader of cycles | `js/src/cycleAudit.js` | none | rows from transactions, open and orphaned halves, warnings | reads the cycle's transactions |
| Period anchors | `Audit.daml`, `js/src/periodAnchor.js`, `examples/verify-anchor.mjs` | anchors, published archive | totals, anchor, verify | from the reader's rows |
| Digests and Merkle trees | `Digest.daml`, `js/src/digest.js` | none | canonical documents, root, proof, verification | terms, outcomes, rows, anchors |
| Tenancy | `js/src/tenant.js`, `js/src/assets.js` | buckets in memory | consume, ids, key checks | in front of every write |
| Client's checks and builders | `js/src/policy.js`, `settlement.js`, `int64.js`, `cycle.js`, `trade.js`, `transfer.js` | none | validators, command builders | what is submitted |
| Conformance suite | `conformance/generate.mjs`, `conformance/runners/run.mjs` | manifest, exit code | write, check, run | what every client is held to |
| Scripts | `examples/first-cycle.mjs`, `examples/recovery.mjs` | what a run has seen | a cycle; its other endings and the refusals | the cycle's choices |
| Other clients | `python/`, `java/` | none | as the JavaScript client | not modelled |

### What is hard here, and what must hold

* A **slot** is a token passed between contracts. Six paths create or consume it;
  one that creates without consuming gives a player two cycles at once. The slot
  must be unique, the limit must hold, and a closed cycle must always be able to
  recreate its slot under a policy that has changed in the meantime.
* **Throughput** is limited by cooldowns that three exits write differently and by
  durations truncated to seconds on both ends. Counted cycles must be bounded by
  the clock whatever aborts, expiries and re-commitments lie between.
* **Custody** is two contracts of two packages joined only by a tag in a text
  field. The lock must outlast the minimum cycle, a live cycle must not count
  without one, and one lock must not prove two cycles.
* **Exit** is a race between operator, both parties together, and the player
  alone. If the venue stops answering, the player's stake must close, whatever was
  submitted before.
* The **roster** grows by archiving and recreating shards others point at, several
  times within one transaction.
* **Holdings** are split, merged, reserved and delivered by several parties; value
  must not appear, be spent twice, or leave its owner unasked. A trade must not be
  a way to move the allocations of others.
* **Mint quotas** are windows that restart lazily while an admin changes both their
  length and their size.
* The **period audit** must not lose a cycle whose halves arrive apart, twice or
  out of order; what was anchored must be neither left out nor rewritten afterwards.
  What *is* anchored the operator declares.
* **Documents** hash whatever text a game supplies, the encoding's own characters
  included: two values must not share one document beyond what the builders leave to
  their callers, nor two periods one root.
* **Clients** repeat the contracts' checks in another language, build submissions of
  two packages that only the ledger joins, and repeat calls whose answer was lost.
* The **conformance suite** writes its expectations by running a client: it must not
  vouch for that client with the client's own answers, nor be green without having
  run. The **scripts** meet two clocks, truncated seconds and lost answers.

## 2. Modules

Every module is a translation of code; `PROJECT.json` maps each definition to its
lines. A step of the contracts' specifications is one ledger transaction.

| Module | Models | Notes |
|---|---|---|
| `WholeSeconds` | `epochSeconds`, `secondsBetween`, `addSeconds` | ticks finer than a second (`TicksPerSecond`), so that truncation is visible |
| `Policy`, `Settlement` | `validPolicy`, `assertTermsMeetPolicy`; what a settlement may declare | predicates, no state |
| `SlotRegistry` | what a roster promises | abstract: the set of players |
| `SlotLifecycle` | what a slot promises | abstract: unissued, idle, open, gone, and a counter |
| `Cycle` | venue, slots, stakes and locked holdings, with the transactions the client builds of them | the core |
| `CycleProperties` | the properties of `Cycle` and the refinement to `SlotLifecycle` | |
| `Roster` | the chain of shards, a batch of grants as one transaction | implements `SlotRegistry` |
| `MintRights` | accounts and mint rights | |
| `Assets` | holdings, offers, allocations, burns | extends `MintRights` |
| `Balances` | what the asset registry promises | abstract: free and reserved balances |
| `Trades` | proposals and trades over the registry | implements `Balances` |
| `Canon`, `Documents` | the canonical encoding, and each document that is hashed | a text is the sequence of its characters |
| `DocumentValues` | the values there are documents for, by kind, and the words documents are spelled with | what `JobsAssumption` asks of the values |
| `Merkle` | root, proof, verification | a digest is a term; the levels and the way up are functions of the round, since one round for each leaf is enough |
| `AuditReader` | transactions of a venue, and the rows read from them | transactions delivered in any order, any number of times |
| `PeriodAudit` | totals, anchors, the archive and its verifier | extends `AuditReader`, `Merkle` |
| `AuditProperties` | the properties of both | |
| `ClientChecks` | the client's policy and settlement checks and its time arithmetic | compared with `Policy`, `Settlement`, `WholeSeconds` |
| `CommandBuilders` | the command builders | a submission is parties, a command id and one or two commands |
| `Tenancy`, `TenantQuota` | ids, instruments and keys; the quota | the quota has processes that restart |
| `Conformance`, `Generator` | the runner; the generator over a maintainer's sources | `Generator` makes the manifest that `Conformance` runs |
| `ClientProperties` | the properties of the client's parts above | |
| `Recovery`, `RecoveryProperties` | the two scripts against a dry-run venue | delays, a skewed clock, lost messages |
| `MCCycle`, `MCRoster`, `MCMint`, `MCMarket`, `MCAudit`, `MCClient`, `MCRecovery` | instances for TLC | |
| `NumberProofs` | lemmas about numbers, finite sets, sums, lists and ledger time | cited by the others |
| `CycleProofs`, `RosterProofs`, `MarketProofs`, `DigestProofs`, `AuditProofs`, `ClientProofs`, `RecoveryProofs` | theorems | section 5 |

Composition: `Cycle` issues slots through `SlotRegistry!Register`, which `Roster`
implements, so the shards need not be part of every cycle's state. `Trades`
extends `Assets`, which extends `MintRights`: a settlement is the sum of what
executing its allocations does, in one step. `PeriodAudit` anchors what
`AuditReader` reads, under the trees of `Merkle`. `ClientChecks` is compared with
the contracts' own `Policy` and `Settlement`. `Generator` runs a client through
`Conformance` and hands its manifest to the runner.

### How the state corresponds to the code

* `Cycle!contract` maps a name — player, slot index and a copy number — to the
  active contract under it. The copy number is what lets a duplicate slot *exist*
  in the model; the uniqueness of slots is a property and not the shape of a
  function. A name becomes free again when its contract is archived.
* `Cycle!lock` are holdings of the external token registry. `CreateLock`, `Unlock`
  and `OwnerExpireLock` follow the controllers the SDK relies on: joint unlock at
  any time, the owner alone once the lock has expired. A lock can also be created
  outside any commitment, by anybody, with any tag.
* The commands of a client become actions that conjoin the choices they carry:
  `CommitFunded` is a lock and a commitment, `SettleAndUnlock` a settlement that
  reads the lock before it is released. Each choice may also be submitted alone,
  which the ledger permits: `CommitUnfunded`, `SettleKeepingLock`,
  `UnlockSeparately`, `RecoverLock`.
* A recycling that fails the recreated contract's `ensure` refuses the whole
  transaction: that `ensure` is a guard of `Recycle`.
* `DirectCreation` lets signatories create contracts without a choice, which Daml
  permits: the operator an entitlement, operator and player a stake. They write what
  they like into every field that the `ensure` leaves free, counters, times and auditor
  included (`Cycle.daml:340-347`, `426-441`); `Claims` bounds the counters TLC tries.
  `Legacy` are
  players whose slots a 1.3.0 venue issued before there was a roster. Properties
  that need either off say so in their theorems.
* `Assets!holdings` is a bag of contracts, because two contracts with equal data
  are interchangeable. An offer and an allocation *are* the locked holding of what
  they move, as in the code. `Inputs` are the sub-bags of unlocked assets, so a
  contract named twice in one transaction is refused as the ledger refuses it.
* `Trades!Authorised` is Daml's authorisation: within `Trade_Settle` and
  `Trade_Cancel` the venue has the authority of maker and taker, and executing or
  cancelling an allocation needs its executor, sender and receiver.
* `AuditReader!ledger` is the sequence of a venue's transactions, each with the
  halves of cycles it holds; `read` the indices the reader was handed, in the order
  of their arrival. The reader is a function of what it was handed, as in the code.
* `PeriodAudit!anchors` are the anchor contracts in the order they are listed, `site`
  the archive that is served and the anchors the verifier was given. The job that
  anchors is not in the repository, and the ledger takes its rows, report digest and
  link as arguments (`Cycle.daml:269-287`, `Audit.daml:24-33`). So `AnchorPeriod` takes
  any period at any time, any rows it is `Offered` (those of a complete read, one
  misstated, one left out, all twice, or `Invented` ones), the digest of a report of
  any of these, and a link to any anchor or none; and the ledger goes on between two
  anchors. What the job must do for a promise to hold stands in the property.
* `CommandBuilders` keeps of the arguments of a command which are given (`given`), and
  of the choice which it requires.
* `ClientProperties!job` is one input of a pure part, or the quota, whose buckets
  are the only state that the client library keeps. `Jobs` come from `MCClient`.
* `Recovery` keeps the line a script is at and its answers, the contracts of its
  venue, the clocks, and how long each submission took.
* History variables: `used` (tags committed), `proofs` of a lock, `claim` of a contract
  (whether it goes back to a direct creation, when, and with what count); `issuedAt`,
  `freeMints`, `peakQuota`, `leastWindow` of a mint right; `granted`, `total` and
  `restarts` of the quota. Nothing reads them but properties; `used` also stands
  for the random ids of `newCycleId` when `FreshCycleIds` is set.

Abstractions: in the contracts texts, digests, metadata and documents are model
values; amounts are small naturals instead of decimals; a tag stands for the pair of
cycle id and entry digest; parties other than players (operator, venue, admin) act
through their actions and are not named. Where texts are the subject (`Canon`,
`Documents`, `Tenancy`, `CommandBuilders`) a text is the sequence of its characters, each a
string of length one, and a word that stands in the code is `Spell` of that string;
SHA-256 is the text or term it is of, that is, taken to be injective. The sort of
fields by name is stated by rank: a field's place is how many come before it, which is
what a stable sort gives. The attributes of an asset are a function from names to an
integer or a text; a value that may be null is a set of none or one.

## 3. Checks

All runs take under two minutes with two workers. The runs disable the deadlock
check: the clock is bounded, contracts that everybody has finished with leave
nothing to do, a script ends, and a pure part has no steps.

| Run | Instance | Shows |
|---|---|---|
| `cycle_timing` | one player, one slot, two tags, one lock, half-second ticks up to 9; five policies, three of them refused; fairness of the player | types; the lock outlasts the minimum cycle; counted cycles are bounded by the clock; a live cycle counts only with its lock; every open cycle closes |
| `cycle_slots` | one player, up to two slots and two copies, policies with one slot, two slots and none | slots are unique; the limit holds; every stake recycles; a lock proves one cycle; `SlotLifecycle` is implemented |
| `cycle_direct` | a dry-run venue with direct creation under three policies, counters 0 or 2, any times, and a changing auditor | a contract created without a choice gains at most one cycle over the clock, whatever it claims |
| `roster` | six players, shards of one or two, batches of up to three grants | a well-formed chain without pointers to archived shards; `SlotRegistry` is implemented |
| `mint` | one right, quotas -1 to 2, windows 0 to 2, three instruments, six half-second ticks, six mints | free mints are bounded by the clock |
| `market` | three players, two instruments, one unit endowed and one minted, one trade under a bound or an open proposal | `Balances` is implemented; nobody loses unasked; trades stay between their parties |
| `audit` | two cycles, perhaps of one id and one time, one half to a transaction, four deliveries; three periods, three anchors with any rows, digest and link, archives honest and wrong | no delivered half is lost; rows are the ledger's; delivery does not matter; an accepted report shows what was anchored, and the ledger if that was; an honest archive passes; gaps and rewritten bytes show |
| `client` | small sets of documents, trees of up to six rows, ids, policies, settlements, times, pairs of calls, runs of the suite; the quota of two processes with one restart each | see section 4 |
| `recovery` | both scripts, with one or two parties; submissions of half a second to two minutes, a ledger clock 4 seconds behind to 25 ahead, at most two unusual submissions and one lost message | a green run is complete; a prompt run is green |
| `transfer_return` | violation | a failed transfer returns nothing |
| `trade_legs` | violation | a settlement may move something other than its legs |
| `audit_omission` | violation | the reader drops the second half of a transaction without a word |

### Why the bounds suffice

*Time.* Nine half-second ticks hold two counted cycles of the shortest policy with its
cooldown, an expiry, and an endpoint that truncation moves; `mint` holds three windows
of a second. Two ticks per second is the least at which a truncated duration differs
from the exact one. *Slots and copies.* Duplication needs two contracts of one slot, so
two copies; a limit that changes needs two indices. Players share nothing but the
roster, so the cycles of one suffice where the roster has six. *Locks.* The hazard is
one lock for two cycles, so one lock and two tags. *Policies.* One per way in which a
policy can matter: a changed cooldown, a changed limit, no required proof (which a live
venue must refuse), and two that `validPolicy` must refuse. *Market.* Two units are
enough for a split (two inputs, one spent), for two allocations between the same
parties, and for an exchange; the third player is the bystander whom the properties
protect. A unit of either instrument can be minted, so both the exchange the legs
describe and a settlement that ignores them are reachable. Time is a single deadline
there, since expiry is one comparison in each contract. *Audit.* A row joins one commit
with one closing, so two cycles can be confused in every way that matters; four
deliveries hold both halves of both, or one of them twice; two transaction times make
ties and distinct times, and a third stake repeats the first one's cycle id; the first
cycle is closed in every way, the other by a settlement, in the runs that read. Three
anchors hold a repeated one, and a chain with its middle missing or linked past. TLC
explores the anchors that deviate from the honest job in one thing (order, rows, digest
or link), besides repetitions (`Explored`); the theorems have no such bound. `MaxInt` is the largest single payout, so the
totals of two cycles may leave the band. *Client.* Texts are chosen to contain sizes,
separators and field names that an encoding could mistake for its own; six rows make
every level shape up to the second odd one; the integer band is -8 to 7 with inputs on
both sides of both ends. *Recovery.* A submission of half a second is faster than the
second that a settlement must come after its commitment, and one of 125 seconds slower
than every deadline of the scripts; one lost message is
one fault more than a script recovers from.

### Fairness

Only `FairSpec` has any: weak fairness of the clock and of the player's
`ExpireUnsettled` on every stake, which has the player and nobody else for its
controller. Nothing is assumed of venue and operator, so the run
`cycle_timing` states the SDK's claim that the venue cannot strand a player's cycle. That
the locked funds return too rests on the external registry alone (`RecoverLock`: the
owner of an expired lock needs nobody), and nothing is claimed about it. The
clock stops at `MaxTime`, so terms with a later lock are not offered.

### What the violations show

1. **A failed transfer destroys the amount.** `AssetTransferOffer` is itself the
   holding of the amount; rejecting or withdrawing it archives it, and
   `returnToSender` (`Registry.daml:463`) creates nothing, although its comment says
   that the amount is returned to the sender. TLC's trace is three steps long.
   `Balances!Forfeit` keeps this loss visible in the abstract specification.
2. **Settlement compares keys, not legs.** `Trade_Settle` (`Trade.daml:143-148`)
   accepts any allocations of the two parties under the keys `offer` and `ask`.
   `TradesStayBetweenParties` shows what authorisation still guarantees.
3. **The reader takes one half of a kind from a transaction.** A transaction with two
   commits or two closings, which a batching operator may submit, loses all but the
   first: they are in no row, no `openStakes` and no `orphanClosings`
   (`cycleAudit.js:91-138`, `208-211`), although the comment at `199-203` says that
   unmatched halves are returned "rather than dropped".

### Noticed while reading

Disagreements and surprises met while translating, without a run of their own.

*Contracts.*
* The dry-run `ensure` makes `minPlatformFee` zero (`Cycle.daml:183-186`), a floor
  and not a ceiling, so terms of a dry run may carry a fee; the builder sends zero
  (`cycle.js:268-270`).
* `GameStake` does not check `validPolicy` (`Cycle.daml:430`), the entitlement it
  recycles to does (`344-347`): a stake that operator and player create directly
  under an incoherent policy refuses every exit (`docs/INTEGRATION.md:273`).
* Neither checks the counters and times of a contract created directly. The comment at
  `Cycle.daml:421-425` names that path as the reason to bind the invariants to the
  contract, and the bound of cycles by the clock is not among those it binds: such a
  contract can claim any count (`CreatedRateBounded` says what holds from there on).
* `InitRoster` starts with an empty chain (`Cycle.daml:192-204`), so slots issued by a
  1.3.0 venue are not known to it and their players can be issued slots again: the
  limit that `README.md:240-244` calls a ledger rule fails for them, four transactions
  after the upgrade in `cycle_slots` with `Legacy = {p1}`. `README.md:249-250` says of such
  a venue that issuance fails closed instead of falling back to unenforced behaviour.
* An auditor set after issuance is said to be included from the next cycle on, but a
  slot already issued keeps the auditor it was issued with through all its cycles
  (`Cycle.daml:244-245` against `379` and `553`).
* The stake is said to be encumbered for `minLockSeconds` (`docs/DESIGN.md:559`), but
  a settlement is due after `minCycleSeconds`, which may be shorter
  (`Cycle.daml:460-464`). An abort is said to cost more than a cycle
  (`docs/DESIGN.md:567`), which `validPolicy` does not require.
* An unfunded commit is said not to settle (`docs/INTEGRATION.md:175-176`), but a lock
  created later with the same tag satisfies `verifyLockedHolding`.
* The mint quota is called a sliding window (`Registry.daml:286`,
  `docs/index.html:623`) and is a fixed one, for which `MintRateBounded` allows one
  window more than have passed. Accepting an offer does not check `executeBefore`
  (`Registry.daml:443-455`).
* Nothing on the ledger refuses a second anchor of a period, nor checks its link
  (`Cycle.daml:268-287`); what the verifier does then depends on which it meets first.
* A row left out, changed or invented *before* its period is anchored passes the
  verifier, since the ledger computes the root from the operator's rows; so does a
  period that the next anchor is linked past. `verify-anchor.mjs:3-6` says that a third
  party can prove a cycle omitted and `391-395` that an omitted cycle cannot survive the
  check: that holds for what is left out of a report after the anchor, and otherwise
  takes the ledger's own transactions and `rowsFromTransactions`.

*Client.*
* The abort builder is said to emit the unlock (`examples/recovery.mjs:24-26`), which
  it does not (`cycle.js:386-414`). `buildTradeCancelCommands` sends no
  `allocationsToCancel` (`trade.js:205-213`), which `Trade_Cancel` requires
  (`Trade.daml:156-160`): the ledger refuses what it builds. It is the one exception
  that `SubmissionsFitLedger` names (`Omitted`).
* Command ids hold only the first 16 characters of a contract id.
* The joined documents of trades and transfers write metadata as `meta.k=v`: a key
  with `=` in it reads as another pair, and no taker reads as an empty one; an instance
  joins tenant and local id with a slash that the tenant may hold. The code looks for
  none of these, though `trade.js:83-90` and `transfer.js:36-43` call a pair of inputs
  with one document a forgery. `DocumentsDistinct` says that they are the only ones
  (`AsJoined`).
* Rows that agree in commit time and cycle id keep the order in which their commits
  arrived (`cycleAudit.js:255-260`), so two readers may list them differently; within
  one period an anchor refuses such rows, as it refuses every repeated cycle.
* `namespacedInstrumentId` accepts a local id with `#`, the mark of an instance.
* The settlement check accepts dispositions and forfeits that the ledger refuses for
  a time-locked stake (stated in `ChecksAgreeWithLedger`); `toMicros` cuts fractions
  after the sixth digit.
* The service quota is called a sliding window (`tenant.js:157`) and is a fixed one,
  so twice the limit may pass around the end of a window; in the default
  store its buckets are lost with the process and not shared between processes.
* An anchor verifier is told of missing periods by the chain, but not of a missing
  first or last one (`docs/INTEGRATION.md:436-441`); `verify-anchor.mjs:112` says that
  no JavaScript client exports the anchor document, which `periodAnchor.js` does.

*Suite and scripts.*
* The comment at `run.mjs:1178-1181` has a count that does not add up exit with 2;
  with `--quiet` it is not looked at. Filters that select no case exit with 0.
* A recorded divergence that is a refusal no rule knows, or of a case that is not
  run, makes the runner exit with 2 on the manifest the generator has just written.
* `generate.mjs --check` exits with 1 for a difference as well as for its own failure.
  A golden whose case has a Daml literal but no written value makes it throw
  (`generate.mjs:4846`).
* `recovery.mjs` and `first-cycle.mjs`: a settlement in the truncated second of its
  commitment throws or ends as "unexpected reason"; a crash hides the failures noted
  so far and leaves the venue's contracts behind.

### Mutants

Each property of each passing run is paired with a definition and a plausible wrong
version of it (the operators marked "Variant for mutation"), under which TLC finds
the property violated: a commitment that keeps its slot, an abort that counts, a
window whose start is not moved, a Merkle level that duplicates its last node, a
verifier that does not follow links, a runner that lets an error pass, and so on.

## 4. Properties by hazard

`PROJECT.json` lists the hazards with their lines. In short:

* The slot as a token: `SlotUniqueness`, `ConcurrencyLimitHeld`,
  `ImplementsSlotLifecycle`. Policy changes: `EveryStakeRecycles`,
  `LiveCyclesAreProved`. Truncation and cooldowns: `MinimumRunByExpiry`,
  `CycleRateBounded`. The tag join: `ProofUsedOnce`. The exit races:
  `StakesAlwaysClose`. Contracts created directly: `CreatedRateBounded`.
* The shards: `ChainWellFormed`, `ImplementsRegistry`. The mint window:
  `MintRateBounded`. Holdings and trades: `ImplementsBalances`,
  `NobodyLosesUnasked`, `TradesStayBetweenParties`.
* The reader: `EveryHalfAccountedFor`, `RowsTellTheLedger`, `DeliveryDoesNotMatter`.
  Anchors and archive: `AcceptedReportMisstatesNothing` (an accepted report shows the
  rows that were anchored), `AcceptedReportIsTheLedger` (and the ledger's, if those were
  anchored), `HonestArchiveAccepted`, `MissingPeriodBreaksChain` (unless an anchor was
  linked past a period), `RewrittenReportIsAFinding`.
* Encodings: `DocumentsDistinct`, `PeriodProofsExact`, `TenantsSeparated`. Client:
  `ChecksAgreeWithLedger`, `SubmissionsFitLedger` (authorised, in order, with the
  arguments a choice requires but for the one named, and with a lock that will prove the
  cycle), `RetriesKeepTheirId`. Quota:
  `QuotaBurstBounded`, `QuotaRateBounded`.
* Suite: `GreenRunIsEvidence`, `SuiteVouchesForClient`. Scripts:
  `GreenRunIsComplete`, `PromptRunsAreGreen`.

Two hazards have no property: the slots of a 1.3.0 venue (`Cycle.daml:198`), for which
the limit does not hold (the theorems name the assumption `Legacy = {}` instead), and a
lock left behind by an exit (`cycle.js:386`), which the external registry returns.

## 5. Proofs

| Theorem | Module | Assumptions | Statement |
|---|---|---|---|
| `TypeCorrect` | `CycleProofs` | none | `Spec => []TypeOK` |
| `RateBounded` | `CycleProofs` | none (of slots the venue issued) | `Spec => []CycleRateBounded` |
| `CreatedBounded` | `CycleProofs` | none (of contracts created directly) | `Spec => []CreatedRateBounded` |
| `StakesRecycle` | `CycleProofs` | no direct creation, no legacy slots | `Spec => []EveryStakeRecycles` |
| `LockOutlastsCycle` | `CycleProofs` | no direct creation | `Spec => []MinimumRunByExpiry` |
| `SlotsUnique` | `CycleProofs` | no direct creation, no legacy slots | `Spec => []SlotUniqueness` |
| `LimitHeld` | `CycleProofs` | no direct creation, no legacy slots | `Spec => []ConcurrencyLimitHeld` |
| `LiveProved` | `CycleProofs` | no direct creation | `Spec => LiveCyclesAreProved` |
| `OneProofPerLock` | `CycleProofs` | no direct creation, fresh cycle ids | `Spec => []ProofUsedOnce` |
| `SlotsImplement` | `CycleProofs` | no direct creation, no legacy slots, `Copies > 0` | `Spec => ImplementsSlotLifecycle` |
| `RosterTypeCorrect` | `RosterProofs` | none | `Spec => []TypeOK` |
| `ChainStaysWellFormed` | `RosterProofs` | none | `Spec => []ChainWellFormed` |
| `RosterImplements` | `RosterProofs` | none | `Spec => ImplementsRegistry` |
| `MintTypeCorrect` | `MarketProofs` | none | `Spec => []TypeOK` |
| `MintRate` | `MarketProofs` | none | `Spec => []MintRateBounded` |
| `MarketTypeCorrect` | `MarketProofs` | none | `MarketSpec => []MarketTypeOK` |
| `NobodyLosesWithoutAsking` | `MarketProofs` | none | `MarketSpec => NobodyLosesUnasked` |
| `TradesKeepToTheirParties` | `MarketProofs` | none | `MarketSpec => TradesStayBetweenParties` |
| `MarketImplementsBalances` | `MarketProofs` | none | `MarketSpec => ImplementsBalances` |
| `QuotaTypeCorrect` | `ClientProofs` | none | `QuotaSpec => []QuotaTypeOK` |
| `QuotaRate` | `ClientProofs` | none | `QuotaSpec => []QuotaRateBounded` |
| `QuotaBurst` | `ClientProofs` | none | `ClientSpec => []QuotaBurstBounded` |
| `GreenRunEvident` | `ClientProofs` | none | `ClientSpec => []GreenRunIsEvidence` |
| `ChecksAgree` | `ClientProofs` | none | `ClientSpec => []ChecksAgreeWithLedger` |
| `SubmissionsFit` | `ClientProofs` | none | `ClientSpec => []SubmissionsFitLedger` |
| `SuiteVouches` | `ClientProofs` | none | `ClientSpec => []SuiteVouchesForClient` |
| `ProofsExact` | `ClientProofs` | none | `ClientSpec => []PeriodProofsExact` |
| `TenantsApart` | `ClientProofs` | none | `ClientSpec => []TenantsSeparated` |
| `RetriesKeepId` | `ClientProofs` | none | `ClientSpec => []RetriesKeepTheirId` |
| `DocumentsTold` | `ClientProofs` | none | `ClientSpec => []DocumentsDistinct` |
| `HalvesAccountedFor` | `AuditProofs` | one half to a transaction | `AuditSpec => []EveryHalfAccountedFor` |
| `RowsTell` | `AuditProofs` | none | `AuditSpec => []RowsTellTheLedger` |
| `OrderDoesNotMatter` | `AuditProofs` | none | `AuditSpec => []DeliveryDoesNotMatter` |
| `AcceptedReportTrue` | `AuditProofs` | one half to a transaction | `AuditSpec => []AcceptedReportIsTheLedger` |
| `AcceptedRowsTrue` | `AuditProofs` | none | `AuditSpec => []AcceptedReportMisstatesNothing` |
| `HonestArchivePasses` | `AuditProofs` | none | `AuditSpec => []HonestArchiveAccepted` |
| `RewritingFound` | `AuditProofs` | none | `AuditSpec => []RewrittenReportIsAFinding` |
| `MissingPeriodFound` | `AuditProofs` | none | `AuditSpec => []MissingPeriodBreaksChain` |
| `GreenComplete` | `RecoveryProofs` | none | `Spec => []GreenRunIsComplete` |
| `PromptGreen` | `RecoveryProofs` | none | `Spec => []PromptRunsAreGreen` |

They hold for every set of players, policies, tags, locks, shards, rights, quotas,
instruments, trades, processes, windows, delays and skews, every set of stakes with
every delivery of their transactions, every division of time into periods, all texts,
every number of ticks per second, and every bound, under the named assumptions of the
modules (`CycleAssumption`, `RosterAssumption`, `MintAssumption`, `MarketAssumption`,
`QuotaAssumption`, `JobsAssumption`, `MaxIntAssumption`, `ReaderAssumption`,
`PeriodAssumption`, `RecoveryAssumption`, `PromptAssumption`, `MarksAssumption`,
`WordsAssumption`, `PrefixesAssumption`, `TicksPerSecondAssumption`), which TLC
evaluates on the instances. They say what the constants are: `MarketAssumption` that the
endowment is a finite bag of assets and a trade has finitely many legs; `JobsAssumption`
what the inputs of a pure part are (a manifest has finitely many cases, the rows of a
tree are a list, a settlement on the ledger is of 64-bit integers, who pays a transfer
is its player, a contract whose id starts with the same 16 characters as another's is
that contract, since command ids hold no more of it, and a value to be digested is one
of `DocumentValues`: a party is `hint::fingerprint`, as Canton spells it, where the code
relies on its callers); `ReaderAssumption` that amounts are
integers, what is committed is not negative, a cycle id is a text that can be a field's
name, which the commit requires, and a transaction holds so many halves;
`PeriodAssumption` that a period is bounded by times and the invented rows are lists of
rows; `PromptAssumption` what the scripts tolerate: one to ten seconds for a submission,
two clocks at most two seconds apart. The one second is a real limit of the scripts: the
settlement follows the commitment without a wait, and where a participant, a local one
say, answers sooner, it is refused. `MarksAssumption`, `WordsAssumption` and `PrefixesAssumption` say how the
strings in the code are spelled, which TLC computes and the provers, to which a string
has no characters, cannot: that a separator is a string, that a field's name is a valid
one, and that of the words which start a document, name a schema or start a command id
none is the start of another. The extra assumptions are not decoration: with
`Legacy = {p1}` the instance of `cycle_slots` violates `ConcurrencyLimitHeld` (a second
batch issues the same slots again), and with direct creation a stake under an incoherent
policy cannot close. With two halves to a transaction `audit_omission` violates
`EveryHalfAccountedFor`, and only the two theorems that promise completeness assume
`MaxHalves = 1`, which is what the SDK's own builders submit, one commit or one closing
at a time. `Copies > 0` only says that the model has a name for each slot's contract.

How they go:

* **Rate.** `CycleRateBounded` alone is not inductive: a stake committed in the
  future could count too early. `RateInv` adds that no stake of an issued slot is, and
  treats a contract created directly alike with its claim as the start: one whose
  signatories chose the commitment time may settle its first cycle at once, which is the
  one cycle over the clock in `CreatedRateBounded`. The step of a
  counted settlement is the lemma `CountedCycleTakesTime`: a truncated duration of
  n seconds is more than n - 1 seconds and at least the shortest cycle in ticks,
  whatever ticks the endpoints lose (`NumberProofs`, which also has induction over
  numbers and finite sets and the lemmas about sums over finite sets).
* **Slots.** `ContractOrigin` says where an active contract comes from: the same
  slot with the same policy, or a new slot of an accepted batch. From it
  `OnlyRegistered` and `Ensured` are inductive, and with them the uniqueness of
  slots: a batch creates slots only of players who had none. The limit needs in
  addition that all contracts of a player carry one policy
  (`OnePolicyPerPlayer`); then the open cycles of a player are indexed by distinct
  slot indices below that policy's limit, and a counting argument over finite sets
  closes it.
* **Refinement.** The state of an abstract slot is read off its one contract, which
  is one because of `SlotUniqueness`. `OneSlot` says that a step which replaces one
  contract changes one abstract slot and how; commitment, closing and leaving are
  instances of it. A batch takes its players' slots from unissued to idle or gone:
  before it they hold nothing, by `OnlyRegistered`.
* **Custody.** `OnlySettleCounts` reduces a counted close to the three settlement
  transactions; a live venue's policies all require the proof, carried by
  `Ensured` into each stake. That a lock proves one cycle needs
  `TagsOfOneStake` (each used tag belongs to at most one open stake) and
  `ProofsSpent` (the tag of a lock that has given its proof is on no open stake).
* **Mint rate.** The bound is inductive once the mints are split into those of the
  running window, at most the largest quota, and those of the windows before it,
  which the time up to its start has paid for (`WindowInv`); `WindowClosed` moves
  one window from the first part into the second.
* **Roster.** The invariant `Sound` is one of the chain between two grants of a batch
  as well as between two transactions: the head is the youngest active shard, each
  shard links to an older one, and no player is on two. The walk of `contains` is a
  function, which exists because links go back and is unique by induction on the age
  of shards; so it finds the players of the active shards (`WalkFinds`). A grant
  either refuses or adds its player to them (`GrantGrows`), a batch adds all or none
  (`BatchGrows`), and that is the step of `SlotRegistry`.
* **Market.** Holdings are a *pile*, a finite bag of contracts. A pile is weighed by
  a weight for each contract (`Measure`): the balance of a player in an instrument is
  the measure under one weight, the supply under another. `ReplaceWeighs` says what
  archiving one pile and creating another does to every measure at once; the lemmas
  `ConsumeMoves`, `ReleaseMoves`, `PickedMoves` say it for the registry's choices and
  for any set of allocations that a trade settles or cancels. Each action of the
  market is then shown to be `Lawful`: it moves balances as `Balances` allows, takes
  from nobody who has not asked, and stays between a trade's parties. The keys and
  inputs of a settlement stay arbitrary.
* **Service quota.** The same split as for mints (`QuotaInv`): what a process allowed
  before the window it counts in is paid for by the time up to the window's start, and
  a lost bucket by the restart that lost it. For a burst, `BurstInv` bounds what was
  allowed since any time by a share of each process: a bucket per restart, and what
  it has counted in buckets that the span can hold, the rest of one that was open
  before and one of its own, since a bucket that starts in the span outlasts it.
* **Client's parts.** Each input of a pure part is arbitrary. `ChecksAgree` unfolds
  both sides of each check over the integer band; truncation toward zero is floor from
  the epoch on and its mirror image before it. `SubmissionsFit` goes through the builders:
  the commands each makes, who controls them, which arguments they give, and that of the outputs of a commitment
  the one with a lock is the stake's, by its place. `GreenRunEvident` follows a
  green exit back through the counts to the status of each case.
* **Suite.** `SuiteVouches` follows the generator from the sources to the manifest: an
  expectation of a case is what the writing client gave, and the generator throws where
  that is not the ledger's literal or the value written by hand. So a second client for
  which the suite is green has given the same, and run on the writing client the suite
  can only find what its own list of divergences records.
* **Documents.** Everything rests on one notion: a set of texts is a *code* if no member
  followed by anything is another member followed by anything else (`IsCode`). A
  numeral ends where its colon stands, so a value that is tagged and sized is a code
  whatever it holds (`CanonTextsCode`); a list is told item by item because its items are
  a code and its length is written down (`ListsTell`). Fields are compared as sorted:
  names are totally ordered, so each rank is held by one field (`SortedIs`), and with
  names of its own a value's fields are told by their text (`FieldsTell`), including
  those of an asset, whose id keeps the first place of its name whatever the attributes
  are called (`AssetFieldsTell`). A document with a schema is told from what follows it
  (`HeadedTells`), which separates an asset from an instance, whose salt follows. The
  joined documents of trades and transfers have no sizes: their parts are a code because
  `NoSeparator` refuses the bar in them (`PlainCode`), and each part gives back its
  fields up to what `AsJoined` joins, a leg because the colons of a party stand together and the ones around an
  amount do not (`LegTells`). Last, what a document starts with tells which of the four
  forms it has (`StartsTell`), and `DocumentsTell` is the case split over the kinds.
* **Ids.** The same cuts at a character that the part before it does not hold give
  `TenantsApart`: a tenant has no slash and no underscore, a local id no hash. In
  `RetriesKeepId` the prefixes of the builders are told apart as words, and what follows
  is the command's subject, or as much of a contract id as tells contracts apart.
* **Tree.** The levels of a tree are functions of the round, and a round halves a level
  (`DigestProofs`). A node of a round stands for a span of leaves, as a node it tells
  them, since hashing is injective, and a leaf is told apart from a node by its tag. One
  root therefore has one list of leaves below it, and a proof that leads from a row to
  the root leads there from that row's place alone.
* **Reader.** `ReaderInv` says what a ledger is: the reader takes each transaction for
  the commit or the closing of one stake, whose half comes first; each stake has at most
  one of either half on the ledger, and a closing has its commit; while a transaction
  holds one half, the reader takes all there are. The folds over what was delivered are
  maps that hold each fact taken once (`MapHolds`), whatever the order; the rows are then
  one for each stake of which both halves are taken, built of facts of the ledger
  (`RowsTellTheLedger`). With one half to a transaction, what is taken is what was
  delivered (`EveryHalfAccountedFor`). A report lists its rows in the order of their
  commits, and ties in that of arrival, a total order (`StableTotal`); rows that do not
  tie have one such list (`SameOrder`), so the set of delivered transactions determines
  the rows, and without ties the report (`DeliveryDoesNotMatter`).
* **Anchors.** `ArchiveInv` says of each anchor that root and totals are of the rows it
  was given, in which no cycle is there twice, and of each published entry that it is one
  that `Publish` writes; of the declared parts it says only that they are declarations.
  A report is accepted only if it has the anchored root, and one root is one list of rows
  (the tree): `AcceptedRowsTrue`. If those rows were a complete read, they are what
  closed (the reader): `AcceptedReportTrue`. The digest of an anchor tells its period, so
  an anchor linked to the period before never has the link that the verifier expects over
  a gap: `MissingPeriodFound`. In the other direction an entry with the anchored rows
  passes every check, its proofs because `ProofsExact`'s lemmas hold for any rows, its
  link because there is no gap and the anchors are linked: `HonestArchivePasses`, and
  `RewritingFound` when only the bytes differ.
* **Scripts.** `Tidy` says which contracts are there at a step of a run without failed
  checks, each once and counted as it should be, and which refusals have been given:
  `GreenComplete` is `Tidy` at the last step. For `PromptGreen`, `Timely` adds the times
  that a prompt run has met: a lock with fifteen seconds left before the refused expiry,
  the margin after the wait, a commitment one to ten seconds old before the settlement.
  Then every submission has the answer the script wants (`SubmissionPrompt`), with
  `SecondsWithin` for the truncated durations.

**Only model-checked:**

* liveness (`StakesAlwaysClose`), which the provers do not treat;
* the assumptions about spelling, which are the same in every instance;
* the violations, which are counterexamples and not theorems.

## 6. Not modelled, and why

* The Python and Java clients: translations of the JavaScript client in other
  languages, held to it by the conformance suite, which is modelled; the Python
  runner likewise.
* `verifyCommittedAllocation` is reached by no choice.
* SHA-256, hexadecimal, code points and number formats: fixed by test vectors.
* The Daml side of the game documents writes the same text as the JavaScript adapter
  and is not translated twice.
* Direct creation of registry contracts, and the retirement of registries and venues.
* The lists of cases, drivers and prose of `generate.mjs` and `run.mjs` are data; what
  the generator and the runner do with them is modelled. `check_package_id.py` and the
  build files hold no state of the system.

## 7. Plan

Done: the contracts (ledger time, policy, cycle, roster, slot, mint rights, registry,
trades), the period audit, the client's pure parts and quota, the suite, the scripts,
and the theorems above: every safety property that a passing run checks is one. What
would add most from here:

1. **Composition**: the reader of `AuditReader` over the transactions of `Cycle`
   itself, instead of the halves it promises.
2. **Other clients**: the Python and Java readers and quotas beside the JavaScript
   ones, to compare what they do outside the suite's cases.
