-------------------------- MODULE ClientProperties --------------------------
(***************************************************************************)
(* What the client library promises of its pure parts, one job at a time:  *)
(* a document, a period's tree, an asset, a policy, a settlement, a time,  *)
(* a pair of calls, a run of the conformance suite, or its generation and  *)
(* a run.  The job of the quota is the only one with steps of its own.     *)
(***************************************************************************)
EXTENDS CommandBuilders, DocumentValues, Merkle, ClientChecks, TenantQuota, Generator, FiniteSetsExt

CONSTANTS Jobs       \* the jobs, records with a field "part"

Builders ==
  { "commit", "dryrun-commit", "settle", "abort", "expire",
    "propose", "trade-settle", "trade-cancel", "transfer" }

\* Those on a contract that is there already.
OnContract == {"settle", "abort", "expire", "trade-settle", "trade-cancel"}

\* The operation a call is of, and what it is on.
Subject(call) ==
  CASE call.builder \in {"commit", "dryrun-commit"}      -> call.cycleId
    [] call.builder \in {"settle", "abort", "expire"}     -> call.stakeCid
    [] call.builder = "propose"                           -> call.tradeId
    [] call.builder \in {"trade-settle", "trade-cancel"}  -> call.tradeCid
    [] call.builder = "transfer"                          -> call.transferId
Operation(call) == <<call.builder, Subject(call)>>

\* The words the client's submissions are named with.
CommandPrefixes ==
  { "commit-", "dryrun-commit-", "settle-", "abort-", "expire-",
    "trade-propose-", "trade-settle-", "trade-cancel-", "transfer-" }

ASSUME PrefixesAssumption ==
  /\ \A w \in CommandPrefixes \cup {"Amulet"} : Spell(w) \in Texts
  /\ Apart(CommandPrefixes) /\ ~Includes(Spell("Amulet"), "/")

\* What the jobs of a part are: the values of the documents are finitely many and
\* well formed, and so are the texts of an asset and of a call; a period is a list
\* of rows; a manifest is a file, and so are the generator's sources, so their
\* cases are finitely many; the mark of a refusal that no rule knows is no value;
\* a settlement that reaches the ledger is of its integers; times are integers; a
\* stake is an amount; the player of a transfer is who pays it; contracts that
\* differ do so in the first characters of their ids.
ASSUME JobsAssumption ==
  \A j \in Jobs :
    /\ j.part = "documents" => IsFiniteSet(j.values) /\ \A v \in j.values : IsDocumentValue(v)
    /\ j.part = "asset" =>
         {j.tenant, j.local, j.instance, j.random} \cup j.tenants \cup j.randoms \subseteq Texts
    /\ j.part = "tree" =>
         \A rows \in {j.rows} \cup j.others :
           Len(rows) \in Nat /\ rows = [i \in 1..Len(rows) |-> rows[i]]
    /\ j.part = "runner" => IsFiniteSet(Cases(j.manifest))
    /\ j.part = "suite" =>
         /\ IsFiniteSet(Cases(j.source))
         /\ \A c \in Cases(j.source) : c.written # Unclassified
         /\ \A v \in j.source.vectors : v.literal # Unclassified
    /\ j.part = "settlement" =>
         \A f \in {"stake", "returned", "forfeited", "payout", "maxPayout"} :
           j.settlement[f] \in (-MaxInt-1)..MaxInt
    /\ j.part = "clock" => j.from \in Int /\ j.to \in Int
    /\ j.part = "calls" =>
         /\ \A c \in {j.call, j.again} : c.builder \in Builders /\ Subject(c) \in Texts
         /\ {j.call.builder, j.again.builder} \subseteq OnContract =>
              (Start(Subject(j.call)) = Start(Subject(j.again)) => Subject(j.call) = Subject(j.again))
    /\ j.part = "calls" /\ j.call.builder = "commit" => j.call.stakeAmount \in Nat
    /\ j.part = "calls" /\ j.call.builder = "transfer" => j.call.sender = j.parties.player

VARIABLE job

clientVars == <<job, quotaVars>>

ClientInit == QuotaInit /\ job \in Jobs
ClientNext == job.part = "quota" /\ QuotaNext /\ UNCHANGED job
ClientSpec == ClientInit /\ [][ClientNext]_clientVars

Doing(part) == job.part = part

-----------------------------------------------------------------------------
Document(v) ==
  CASE v.kind = "trade-wars-entry"   -> TradeWarsEntryDocument(v)
    [] v.kind = "trade-wars-outcome" -> TradeWarsOutcomeDocument(v)
    [] v.kind = "pixel-race-entry"   -> PixelRaceEntryDocument(v)
    [] v.kind = "pixel-race-outcome" -> PixelRaceOutcomeDocument(v)
    [] v.kind = "policy"             -> PolicyDocument(v)
    [] v.kind = "attributes"         -> AssetAttributeDocument(v.id, v.attributes)
    [] v.kind = "instance"           -> DeriveInstanceId(v.tenantId, v.localId, v.attributes, v.salt)
    [] v.kind = "row"                -> PeriodLeafDocument(v)
    [] v.kind = "anchor"             -> AnchorDocument(v)
    [] v.kind = "trade"              -> TradeDocument(v)
    [] v.kind = "transfer"           -> TransferDocument(v)
    [] v.kind = "optional"           -> CanonOptional({CanonText(s) : s \in v.text})

DocumentAccepted(v) ==
  CASE v.kind = "trade"      -> NoSeparator(TradeParts(v))
    [] v.kind = "transfer"   -> NoSeparator(TransferParts(v))
    [] v.kind \in {"attributes", "instance"} ->
           \A name \in DOMAIN v.attributes : ValidFieldName(name)
    [] OTHER                 -> TRUE

\* A value up to what its document does not tell: where the name of a meta entry
\* ends and its text starts, when one holds an equals sign; an empty taker from
\* none; where a tenant's id ends and its local id starts, when one holds a slash.
\* None of the builders refuses those (trade.js:91-115, transfer.js:44-71,
\* assets.js:168-177), though trade.js:83-90 calls such a pair a forgery.
AsJoined(v) ==
  CASE v.kind = "trade"    -> [v EXCEPT !.taker = OrEmpty(@), !.meta = Each(MetaPart, @)]
    [] v.kind = "transfer" -> [v EXCEPT !.meta = Each(MetaPart, @)]
    [] v.kind = "instance" ->
           [v EXCEPT !.tenantId = @ \o <<"/">> \o v.localId, !.localId = <<>>]
    [] OTHER               -> v

\* Two values that a builder accepts share a document exactly when they are the
\* same as joined, whatever their texts hold of the encoding's own characters:
\* the size before each value and the refusal of the separator in joined parts
\* keep all others apart (digest.js, trade.js:91, transfer.js:44).  There are as
\* many documents, and as many joined values, as pairs of one and the other.
DocumentsDistinct ==
  Doing("documents") =>
    LET told == {<<Document(v), AsJoined(v)>> : v \in {w \in job.values : DocumentAccepted(w)}}
    IN  /\ Cardinality({t[1] : t \in told}) = Cardinality(told)
        /\ Cardinality({t[2] : t \in told}) = Cardinality(told)

-----------------------------------------------------------------------------
\* Every row of a period is proved by its own proof under the period's root and
\* no other row is; and two periods with the same root have the same rows, also
\* where a level has an odd node that is promoted (digest.js:222, Digest.daml:168).
PeriodProofsExact ==
  Doing("tree") =>
    LET leaves(rows) == [i \in DOMAIN rows |-> PeriodLeaf(rows[i])]
        root == MerkleRoot(leaves(job.rows))
    IN  /\ \A i \in DOMAIN job.rows : \A row \in job.candidates :
             PeriodRowVerify(row, MerkleProof(i - 1, leaves(job.rows)), root) <=> row = job.rows[i]
        /\ \A rows \in job.others : MerkleRoot(leaves(rows)) = root => rows = job.rows

-----------------------------------------------------------------------------
\* An asset's id tells its tenant, its local id and its instance, so no tenant
\* can own or mint under another's, no asset with instances is taken for one
\* without, and a key gives the tenant it was made for (assets.js:47-126,
\* tenant.js:32-145).
Coin == Spell("Amulet")
TenantsSeparated ==
  Doing("asset") =>
    LET t == job.tenant  l == job.local  i == job.instance IN
    /\ \A id \in FungibleId(t, l) :
         /\ ParseAsset(id) = [tenantId |-> {t}, localId |-> l, instanceId |-> {}]
         /\ NamespacedId(t, l) = {id}
         /\ AmountValidForAsset(id, 2)
    /\ \A id \in UniqueId(t, l, i) :
         /\ ParseAsset(id) = [tenantId |-> {t}, localId |-> l, instanceId |-> {i}]
         /\ ~AmountValidForAsset(id, 2) /\ AmountValidForAsset(id, 1)
    /\ \A id \in FungibleId(t, l) \cup UniqueId(t, l, i) \cup NamespacedId(t, l) :
         \A other \in job.tenants :
           TenantLegs(other, {id, Coin}) <=> other = t
    /\ \A key \in TenantKey(t, job.random) : 
         /\ TenantIdFromKey(key) = {t}
         /\ \A other \in job.tenants \ {t} : \A random \in job.randoms :
              \A k \in TenantKey(other, random) : ~VerifyTenantKey(k, key)

-----------------------------------------------------------------------------
\* The client's checks give the verdicts of the ledger they spare a refusal of:
\* a policy passes one exactly when it passes the other, under any spelling of
\* its fields; an outcome of a time-locked stake likewise, the two exits that
\* are no settlement aside; and durations agree from the epoch on, are the same
\* before it by symmetry, and are refused where they leave the band (policy.js,
\* settlement.js, ledgerTime.js).
InBand(n) == ToInt64(n) # {}

ChecksAgreeWithLedger ==
  /\ Doing("policy") =>
       LET written(f) == Get(job.policy, f)
           complete == \A f \in IntFields : \E v \in written(f) : v # Absent /\ InBand(v)
       IN  /\ PolicyNumbers(job.policy) # {} <=> complete
           /\ \A p \in PolicyNumbers(job.policy) : ClientValidPolicy(job.policy) = {ValidPolicy(p)}
  /\ Doing("settlement") =>
       LET s == job.settlement IN
       OutcomeAccepted("TimeLockedHolding", s.stake, s.maxPayout, s)
         <=> /\ SettlementIsValid(s) /\ s.forfeited = 0
             /\ s.disposition \notin {"Aborted", "ExpiredUnsettled"}
  /\ Doing("clock") =>
       LET a == job.from  b == job.to  negated(S) == {-n : n \in S} IN
       /\ a >= 0 /\ b >= 0 /\ InBand(a) /\ InBand(b) =>
            ClientSecondsBetween(a, b) = {SecondsBetween(a, b)}
       /\ InBand(a) /\ InBand(-a) => ClientEpochSeconds(-a) = negated(ClientEpochSeconds(a))
       /\ ~InBand(a) => ClientEpochSeconds(a) = {} /\ ClientAddSeconds(a, b) = {}
       /\ ClientAddSeconds(a, b) \subseteq {AddSeconds(a, b)}
       /\ InBand(a) /\ InBand(b * TicksPerSecond) /\ InBand(AddSeconds(a, b)) =>
            ClientAddSeconds(a, b) # {}

-----------------------------------------------------------------------------
\* The submission of a call, none where its builder throws.
Built(p, call) ==
  CASE call.builder = "commit"        -> CommitCommands(p, call)
    [] call.builder = "dryrun-commit" -> DryRunCommitCommands(p, call)
    [] call.builder = "settle"        -> SettleCommands(p, call)
    [] call.builder = "abort"         -> AbortCommands(p, call)
    [] call.builder = "expire"        -> ExpireCommands(p, call)
    [] call.builder = "propose"       ->
         IF Leg(call.ask) # {} /\ Leg(call.offer) # {} THEN TradeProposalCommands(p.venue, call) ELSE {}
    [] call.builder = "trade-settle"  ->
         TradeSettleCommands(p.venue, call.maker, call.taker, call.tradeCid, call.allocations)
    [] call.builder = "trade-cancel"  -> TradeCancelCommands(p.venue, call.tradeCid)
    [] call.builder = "transfer"      -> TransferCommands(p.venue, call)

\* What the ledger asks of a choice and its builder does not send: a trade is
\* cancelled without its allocations, which Trade_Cancel has as an argument that
\* is not optional, so the ledger refuses it (trade.js:203-213, Trade.daml:156-160).
Omitted(choice) == IF choice = "Trade_Cancel" THEN {"allocationsToCancel"} ELSE {}

\* What the client builds fits the ledger's contracts: every command is authorised
\* by its controllers and, the cancellation of a trade alone excepted, gives every
\* argument that its choice asks for; a lock that is read is seen by a party that
\* reads and is not yet archived by a command before; a stake's terms name its
\* cycle, and in a live commit exactly one output of the transfer proves its
\* custody, so the settlement that is to come has a proof (cycle.js:82-457,
\* trade.js:130-221, Custody.daml:26-58).
SubmissionsFitLedger ==
  Doing("calls") =>
    \A s \in Built(job.parties, job.call) :
      LET p == job.parties  n == Len(s.commands)  stakes(c) == {x \in c.creates : "terms" \in DOMAIN x}
      IN  /\ \A i \in 1..n : /\ Controllers(p, s.commands[i]) \subseteq s.actAs
                             /\ Missing(s.commands[i]) = Omitted(s.commands[i].choice)
          /\ \A i \in 1..n : s.commands[i].reads # {} =>
               /\ (s.actAs \cup s.readAs) \cap {p.player, p.venue} # {}
               /\ \A j \in 1..(i-1) : s.commands[j].contract \notin s.commands[i].reads
          /\ job.call.builder \in {"commit", "dryrun-commit"} =>
               \A stake \in stakes(s.commands[n]) :
                 /\ TermsNameCycle(p, stake)
                 /\ n = 2 => Cardinality({x \in s.commands[1].creates : LockProves(p, x, stake)}) = 1

\* A call that is repeated after a lost answer has the command id it had, and no
\* call of another operation has it: the ledger's deduplication takes a retry for
\* what it is and nothing else for a retry (cycle.js:202-451, trade.js:161-218).
RetriesKeepTheirId ==
  Doing("calls") =>
    \A s \in Built(job.parties, job.call), r \in Built(job.parties, job.again) :
      s.commandId = r.commandId <=> Operation(job.call) = Operation(job.again)

-----------------------------------------------------------------------------
\* Within any span shorter than a window a tenant is allowed at most two buckets
\* of each process and one for each restart: the window is fixed, so a burst may
\* straddle its end, and each process counts alone (tenant.js:160-185).
QuotaBurstBounded ==
  Doing("quota") =>
    \A t \in 0..MaxNow :
      MapThenSumSet(LAMBDA u : granted[u], t..(t + windowMs - 1) \cap 0..MaxNow)
        <= maxWrites * (2 * Cardinality(Process) + MapThenSumSet(LAMBDA p : restarts[p], Process))

-----------------------------------------------------------------------------
\* A green exit of the runner is evidence: every case of a profile it was asked
\* for, and of none of the flags the others, is one whose value came out right,
\* whose refusal has the class it names, or that needs what the client has not;
\* and every case is in a profile a run can ask for (run.mjs:596-1182).
Evident(c, client) ==
  \/ ~c.needs \subseteq client.traits
  \/ /\ Dispatchable(client, c.capability)
     /\ c.expect = {client.does[c.id]}
     /\ client.does[c.id] \in RejectClass => client.does[c.id] \in {r.class : r \in client.rejectMap}

GreenRunIsEvidence ==
  Doing("runner") /\ RunnerExit(job.manifest, job.client, job.flags) = 0 =>
    /\ \A g \in job.manifest.groups : g.profile \in job.manifest.profiles
    /\ \A g \in job.manifest.groups : \A c \in g.cases :
         /\ g.profile \in ProfilesNamed(job.manifest, job.flags)
         /\ job.flags.cases # {} => c.id \in job.flags.cases
         /\ job.flags.groups # {} => g.name \in job.flags.groups
         => Evident(c, job.client)

-----------------------------------------------------------------------------
\* What vouches for a client is never the client itself.  Of a manifest that the
\* generator writes with one client, (1) the runner, with that client, finds no
\* failure but the recorded divergences, and refuses the manifest only where its
\* own table of calls differs, where a divergence is a refusal no rule knows or
\* of a case that is not run, or where a case without an implementation does not
\* apply; (2) a whole run of any other client is green only if that client gives
\* every Daml literal and every value written by hand; (3) a clean --check means
\* that the client does in every case what the first one did (generate.mjs:1343,
\* 4718, 5374, run.mjs:1153).
SuiteVouchesForClient ==
  Doing("suite") /\ GeneratorExit(job.source, job.made) = 0 =>
    LET m == Manifest(job.source, job.made)
        all == [profiles |-> {}, cases |-> {}, groups |-> {}, quiet |-> FALSE]
        status(id, client) == Status(CHOOSE c \in Cases(m) : c.id = id, client)
        diverging == {d.id : d \in m.divergences}
        unrun(c) == ~CapabilityOf(job.source, c).run
    IN
    /\ RunnerExit(m, job.made, all) # 2 =>
         \A c \in Cases(m) : Status(c, job.made) \in {"fail", "error"} <=> c.id \in diverging
    /\ RunnerExit(m, job.made, all) = 2 <=>
         \/ ~ImplSound(m, job.made)
         \/ \E id \in diverging : status(id, job.made) # "fail"
         \/ \E c \in Cases(job.source) : unrun(c) /\ status(c.id, job.made) = "not-applicable"
    /\ RunnerExit(m, job.client, all) = 0 =>
         \A c \in Cases(job.source) : c.needs \subseteq job.client.traits =>
           /\ Anchor(job.source, c) # {} => {job.client.does[c.id]} = Anchor(job.source, c)
           /\ c.written # NoneWritten => job.client.does[c.id] = c.written
    /\ CheckExit(job.source, job.client, m) = 0 =>
         \A c \in Cases(job.source) : unrun(c) \/ Driven(job.source, job.client, c) = Driven(job.source, job.made, c)
=============================================================================
