------------------------------ MODULE MCClient ------------------------------
(* The jobs: small sets of values in which the interesting cases meet.       *)
EXTENDS ClientProperties

\* ---------------------------------------------------------------- documents
Spelled(words) == {Spell(w) : w \in words}
SomeTexts == Spelled({"a", "", "a;", "t:1:a", "1:a=t:1:b", "a|b", "null|"})
Some == Spelled({"c", "c|", "t:1:c"})
Allocs == {<<>>} \cup {<<a>> : a \in {"B", "E"}} \cup {<<"B", "E">>, <<"E", "B">>}
AllocOf(s) == [allocationPercent |-> 50, symbol |-> <<s>>]
PriceOf(s, n) == [asOf |-> n, price |-> 1, source |-> Spell(s), symbol |-> <<"B">>]
PlayOf(n) == [coinsCollected |-> n, gameNumber |-> 1, maxLevel |-> 1, score |-> n, survivalSeconds |-> 2]

GameValues ==
  {[kind |-> "trade-wars-entry", allocations |-> Each(AllocOf, s), cycleId |-> c, tier |-> t,
    entryPrices |-> <<PriceOf("s", 1)>>, virtualBalance |-> b] :
     s \in Allocs, c \in Some, t \in Some, b \in {1, 11}}
  \cup
  {[kind |-> "trade-wars-outcome", cycleId |-> c, exitPrices |-> ps, forfeitedAmount |-> 0,
    returnedAmount |-> r, virtualPnl |-> 1 - r, virtualPnlPercent |-> 1, xpAwarded |-> 0] :
     c \in Some, r \in {1, 11}, ps \in {<<>>, <<PriceOf("a", 1)>>, <<PriceOf("a", 1), PriceOf("a", 1)>>,
                                        <<PriceOf("a;", 11)>>}}
  \cup
  {[kind |-> "pixel-race-entry", cycleId |-> c, maxGamesPerSession |-> m, rngSeedCommit |-> x, tier |-> t] :
     c \in Some, m \in {1, 11}, x \in Spelled({"", "1", "1;k:tier=t:a", "1;k:4:tier=t:1:a"}),
     t \in Spelled({"c", "a;k:tier=t:c", "a;k:4:tier=t:1:c"})}
  \cup
  {[kind |-> "pixel-race-outcome", cycleId |-> c, forfeitedAmount |-> 0, plays |-> ps,
    returnedAmount |-> 1, rngSeed |-> x, totalScore |-> n, xpAwarded |-> 1] :
     c \in Some, x \in Some, n \in {1, 11}, ps \in {<<>>, <<PlayOf(1)>>, <<PlayOf(1), PlayOf(11)>>}}

BasePolicy ==
  [ minStakeAmount |-> 1, maxStakeAmount |-> 2, minPlatformFee |-> 0, maxPayoutAmount |-> 0,
    minLockSeconds |-> 2, maxLockSeconds |-> 3, minCycleSeconds |-> 1, maxCycleSeconds |-> 3,
    cooldownSeconds |-> 0, abortCooldownSeconds |-> 0, concurrencyLimit |-> 1 ]

PolicyValues ==
  {[f \in IntFields \cup {"kind", "requireCustodyProof"} |->
      IF f = "kind" THEN "policy" ELSE IF f = "requireCustodyProof" THEN proof
      ELSE IF f = g THEN 11 ELSE BasePolicy[f]] : g \in IntFields, proof \in BOOLEAN}

Whole1(n) == [whole |-> n]
Text1(s) == [text |-> Spell(s)]
Attributes ==
  {<<>>} \cup {Spell("power") :> Whole1(n) : n \in {1, -1, 11}}
         \cup {Spell("name") :> [text |-> s] : s \in SomeTexts}
         \cup {Spell("na;me") :> Text1("a"), Spell("instrument") :> Text1("abc/sw"),
               (<<"a">> :> Whole1(1)) @@ (<<"b">> :> Text1("1"))}
AssetValues ==
  {[kind |-> "attributes", id |-> i, attributes |-> a] :
     i \in Spelled({"abc/sw", "abc/sw#i"}), a \in Attributes}
  \cup {[kind |-> "instance", tenantId |-> Spell("abc"), localId |-> l, attributes |-> a, salt |-> s] :
          l \in Spelled({"sw", "sw2"}), a \in Attributes, s \in Spelled({"", "|", "1"})}
  \cup {[kind |-> "instance", tenantId |-> t, localId |-> l, attributes |-> <<>>, salt |-> <<>>] :
          t \in Spelled({"abc", "abc/sw"}), l \in Spelled({"sw", "sw/sw"})}

RowOf1(c, n, d) ==
  [ cycleId |-> c, player |-> Spell("p::1"), gameCode |-> <<"g">>, concurrencyIndex |-> 0, entryDigest |-> d,
    outcomeDigest |-> <<"e">>, committedUnits |-> n, feeUnits |-> 1, returnedUnits |-> n, forfeitedUnits |-> 0,
    payoutUnits |-> 0, disposition |-> Spell("ReturnedInFull"), committedAtMicros |-> 1,
    settledAtMicros |-> 11, custodyTag |-> c, kind |-> "row" ]
AnchorOf(v, n, prev) ==
  [ venueId |-> v, periodId |-> <<"1">>, periodStartMicros |-> 0, periodEndMicros |-> n, cycleCount |-> 1,
    committedUnits |-> n, feeUnits |-> 0, returnedUnits |-> n, forfeitedUnits |-> 0, payoutUnits |-> 0,
    qualifyingTxCount |-> 1, nonQualifyingTxCount |-> 11, merkleRootHex |-> <<"r">>, reportDigest |-> <<"d">>,
    prevAnchorDigest |-> prev, kind |-> "anchor" ]
PeriodValues ==
  {RowOf1(c, n, d) : c \in SomeTexts, n \in {1, 11}, d \in Spelled({"", "d"})}
  \cup {AnchorOf(v, n, prev) : v \in SomeTexts, n \in {1, 11}, prev \in Spelled({"", "d"})}

Entry(k, v) == <<Spell(k), Spell(v)>>
Meta == {<<>>, <<Entry("k", "v")>>, <<Entry("j", "w"), Entry("k", "v")>>, <<Entry("j", "w|meta.k=v")>>}
\* Two that differ, and the same once joined.
Unequal == {<<Entry("j=k", "v")>>, <<Entry("j", "k=v")>>}
LegOf(from, to, n) ==
  [sender |-> Spell(from), receiver |-> Spell(to), amount |-> n, admin |-> Spell("x::1"), id |-> Spell("abc/sw")]
TradeOf(id, taker, n, meta) ==
  [ kind |-> "trade", tradeId |-> Spell(id), maker |-> Spell("m::1"), taker |-> taker,
    expiresAt |-> Spell("1970"), ask |-> LegOf("t::1", "m::1", n), offer |-> LegOf("m::1", "t::1", 1),
    meta |-> meta ]
TransferOf(id, from, reason, to, meta) ==
  [ kind |-> "transfer", transferId |-> Spell(id), sender |-> Spell(from), reason |-> Spell(reason),
    meta |-> meta,
    recipients |-> [i \in DOMAIN to |-> [receiver |-> Spell(to[i]), amount |-> i, admin |-> Spell("x::1"),
                                         id |-> Spell("Amulet")]] ]
Takers == {{}, {Spell("t::1")}}
JoinedValues ==
  {TradeOf(i, t, n, meta) : i \in {"t1", "t11"}, t \in Takers \cup {{<<>>}}, n \in {1, 11},
                             meta \in Meta \cup Unequal}
  \cup {TransferOf(i, "m::1", r, to, meta) :
          i \in {"1", "11"}, r \in {"reward", "reward|to=b::1:1:x::1/Amulet"},
          to \in {<<"b::1">>, <<"b::1", "b::11">>}, meta \in Meta \cup Unequal}

Optionals == {[kind |-> "optional", text |-> s] : s \in {{}} \cup {{t} : t \in SomeTexts}}

DocumentJobs ==
  {[part |-> "documents",
    values |-> GameValues \cup PolicyValues \cup AssetValues \cup PeriodValues
                 \cup JoinedValues \cup Optionals]}

\* -------------------------------------------------------------------- trees
Rows == {"x", "y"}
Periods == UNION {[1..n -> Rows] : n \in 0..6}
TreeJobs == {[part |-> "tree", rows |-> p, candidates |-> Rows, others |-> Periods] : p \in Periods}

\* ------------------------------------------------------------------- assets
Tenants == Spelled({"abc", "abc-d", "abcd", "a-1", "ab", "abc--d", "-abc", "ab_c", "abc/x"})
Locals == Spelled({"sw", "s.w-1", "sw#inst", "x/sw", "sw:1", "a", "Sw", "-sw"})
Instances == Spelled({"inst", "1-2-3", "abc", "in#st"})
Randoms == Spelled({"", "k", "k_k"})
AssetJobs ==
  [part : {"asset"}, tenant : Tenants, local : Locals, instance : Instances, random : Randoms,
   tenants : {Tenants}, randoms : {Randoms}]

\* ------------------------------------------------ policy, settlement, clock
Blank == [f \in IntFields |-> Absent]
Written(kebab, snake, camel) == [kebab |-> kebab, snake |-> snake, camel |-> camel]
With(p, f, v) == [p EXCEPT ![f] = v]
PolicyJobs ==
  {[part |-> "policy", policy |-> w] : w \in
     {Written(With(With(BasePolicy, f, v), g, u), Blank, Blank) :
        f \in IntFields, g \in IntFields, v \in {-1, 0, 1, 2, 3, MaxInt + 1}, u \in {-1, 0, 2, Absent}}
     \cup {Written(With(BasePolicy, f, Absent), With(Blank, f, v), With(BasePolicy, f, u)) :
        f \in IntFields, v \in {Absent, 0, 2}, u \in {0, 3}}}

Amounts == {-1, 0, 1, 2, 7}
SettlementJobs ==
  {[part |-> "settlement", settlement |->
      [disposition |-> d, stake |-> s, returned |-> r, forfeited |-> f, payout |-> p, maxPayout |-> m]] :
     d \in Disposition, s \in {1, 2, 7}, r \in Amounts, f \in Amounts, p \in {-1, 0, 1, 2}, m \in {0, 1}}

Times == (-MaxInt - 3)..(MaxInt + 2)
ClockJobs == [part : {"clock"}, from : Times, to : Times]

\* ----------------------------------------------------------------- commands
HexA == [i \in 1..64 |-> "a"]
Cids == Spelled({"00aaaaaaaaaaaaaa11111", "00bbbbbbbbbbbbbb11111", "00cc"})
Parties ==
  [operator : {Spell("op::1")}, venue : Spelled({"ven::1", "op::1"}), player : {Spell("alice::1")}]

CommitCalls ==
  [builder : {"commit", "dryrun-commit"}, cycleId : Spelled({"c-1", "c-2", "c:1", ""}), entryDigest : {HexA, <<"a">>},
   entitlementCid : {Spell("00aaaaaaaaaaaaaa22222")}, stakeAmount : {3}, feeAmount : {{}, {0}, {1}},
   lockExpiresAt : {9}, inputs : {{}, {Spell("i1")}}]
CloseCalls ==
  [builder : {"settle", "abort", "expire"}, stakeCid : Cids, lockedAmuletCid : {{}, {Spell("00l")}},
   disposition : {"ReturnedInFull"}, returnedAmount : {3}, forfeitedAmount : {0, 1},
   outcomeDigest : {{}, {HexA}, {<<"a">>}}, outcomeDocument : {{}, {<<"d">>}}]
TradeCalls ==
  {TradeOf(i, {Spell("t::1")}, n, m) @@ [builder |-> "propose"] :
     i \in {"c-1", "c-2", "c:1"}, n \in {0, 1}, m \in Meta}
  \cup [builder : {"trade-settle", "trade-cancel"}, tradeCid : Cids, maker : {Spell("m::1")},
        taker : Takers, allocations : {{}, {Spell("00al")}}]
TransferCalls ==
  {TransferOf(i, from, r, to, <<>>) @@ [builder |-> "transfer", inputs |-> {Spell("i1")}] :
     i \in {"c-1", "c-2"}, from \in {"alice::1"}, r \in {"reward", "gift"},
     to \in {<<>>, <<"b::1">>, <<"b::1", "b::1">>, <<"alice::1">>}}
Calls == CommitCalls \cup CloseCalls \cup TradeCalls \cup TransferCalls
\* Each call against the plainest one of every operation.
Again ==
  {c \in CommitCalls : c.entryDigest = HexA /\ c.inputs # {} /\ c.feeAmount = {0}}
  \cup {c \in CloseCalls : c.lockedAmuletCid = {} /\ c.forfeitedAmount = 0 /\ c.outcomeDigest = {HexA}}
  \cup {c \in TradeCalls : IF c.builder = "propose" THEN c.meta = <<>> ELSE c.allocations # {} /\ c.taker # {}}
  \cup {c \in TransferCalls : c.reason = Spell("reward") /\ Len(c.recipients) = 1}
CallJobs == [part : {"calls"}, parties : Parties, call : Calls, again : Again]

\* -------------------------------------------------------------------- runner
Case(id, cap, expect, needs) ==
  [id |-> id, capability |-> cap, expect |-> {expect}, needs |-> needs, pinned |-> TRUE]
Case1 == Case("v1", "canon", "right", {})
Case2 == Case("r1", "canon", "bad-type", {})
Case3 == Case("v2", "audit", "right", {"big"})
Group(name, profile, cases) == [name |-> name, profile |-> profile, cases |-> cases, stated |-> Cardinality(cases)]
Capability(id, profile, impl) == [id |-> id, profile |-> profile, implJs |-> impl]
Classes == {[class |-> c] : c \in RejectClass}

Sound ==
  [ groups |-> {Group("g1", "core", {Case1, Case2}), Group("g2", "ledger", {Case3})},
    profiles |-> {"core", "ledger"}, byProfile |-> [core |-> 2, ledger |-> 1],
    capabilities |-> {Capability("canon", "core", TRUE), Capability("audit", "core", TRUE)},
    retiredIds |-> {"old"}, totalCases |-> 3, rejectMap |-> Classes,
    divergentCases |-> 0, casesWithNoJavaScriptImpl |-> 0 ]
Manifests ==
  { Sound,
    [Sound EXCEPT !.groups = {Group("g1", "core", {Case1, Case2}), Group("g2", "other", {Case3})}],
    [Sound EXCEPT !.profiles = {"core"}, !.byProfile = [core |-> 2]],
    [Sound EXCEPT !.byProfile = [core |-> 1, ledger |-> 2]],
    [Sound EXCEPT !.totalCases = 2], [Sound EXCEPT !.retiredIds = {"v1"}],
    [Sound EXCEPT !.capabilities = {Capability("canon", "core", TRUE), Capability("audit", "core", FALSE)},
                  !.casesWithNoJavaScriptImpl = 1],
    [Sound EXCEPT !.divergentCases = 1], [Sound EXCEPT !.rejectMap = {}] }
Does == [ v1 : {"right", "wrong", Unclassified},
          r1 : {"right", "bad-type", "bad-format", Unclassified},
          v2 : {"right", "wrong", Unreadable} ]
AllDriven == {"canon", "audit"}
Clients ==
  [ entry : {EntryFacts}, dispatched : {AllDriven}, notExported : {{}}, rejectMap : {Classes}, traits : {{}, {"big"}}, does : Does ]
  \cup [ entry : {EntryFacts, EntryFacts \ {"shipped"}}, dispatched : {AllDriven, {"canon"}}, notExported : {{}, {"audit"}}, rejectMap : {Classes, {}},
         traits : {{}, {"big"}}, does : {[v1 |-> "right", r1 |-> "bad-type", v2 |-> "right"]} ]
Flags ==
  [ profiles : {{}, {"all"}, {"core"}, {"ledger"}, {"all", "core"}, {"none"}},
    cases : {{}, {"v1"}, {"v2", "old"}}, groups : {{}, {"g1"}}, quiet : BOOLEAN ]
NoFlags == [profiles |-> {}, cases |-> {}, groups |-> {}, quiet |-> FALSE]
RunnerJobs ==
  [part : {"runner"}, manifest : {Sound}, client : Clients, flags : Flags]
  \cup [part : {"runner"}, manifest : Manifests, client : Clients,
        flags : {NoFlags, [NoFlags EXCEPT !.profiles = {"core"}], [NoFlags EXCEPT !.quiet = TRUE]}]

\* --------------------------------------------------------------------- suite
\* Five cases: one the Daml tests anchor, one a decision pins, a golden, one of a
\* capability with a reference, and a refusal.
Spec1(id, cap, written, golden, decision) ==
  [ id |-> id, capability |-> cap, needs |-> {}, written |-> written, golden |-> golden,
    decision |-> decision, mayAgree |-> FALSE, pinned |-> TRUE, packages |-> {} ]
Anchored == Spec1("a", "canon", NoneWritten, NoneWritten, NoneWritten)
Decided == Spec1("d", "canon", "v", NoneWritten, "D1")
Golden == Spec1("g", "canon", "v", "file", NoneWritten)
Referred == Spec1("r", "audit", NoneWritten, NoneWritten, NoneWritten)
Refusal == Spec1("n", "canon", NoneWritten, NoneWritten, NoneWritten)
SpecGroup(name, profile, cases) == [name |-> name, profile |-> profile, cases |-> cases]
SpecCapability(id, run, reference) ==
  [ id |-> id, profile |-> "core", implJs |-> run, run |-> run, reference |-> reference,
    returns |-> "text", symbols |-> {id} ]
Vector(key, literal) == [key |-> key, literal |-> literal, kind |-> "text", mentions |-> {"canon"}]

Written1 ==
  [ capabilities |-> {SpecCapability("canon", TRUE, FALSE), SpecCapability("audit", TRUE, TRUE)},
    groups |-> {SpecGroup("g1", "core", {Anchored, Decided, Golden}), SpecGroup("g2", "ledger", {Referred, Refusal})},
    profiles |-> {"core", "ledger"}, rules |-> {[class |-> "bad-type"]},
    vectors |-> {Vector("a", "v")}, references |-> [r |-> "v"],
    decisions |-> {[id |-> "D1", goesRed |-> TRUE, governs |-> {}]},
    published |-> {"v"}, minors |-> {"1.5"}, packages |-> {"sdk"}, participant |-> {} ]

Replace(source, old, new) ==
  [source EXCEPT !.groups = {[g EXCEPT !.cases = IF old \in @ THEN (@ \ {old}) \cup {new} ELSE @] : g \in source.groups}]
Settled(source, governs) == [source EXCEPT !.decisions = {[id |-> "D1", goesRed |-> FALSE, governs |-> governs]}]

SuiteSources ==
  { Written1, Settled(Written1, {}), Settled(Written1, {"g"}), Settled(Written1, {"d"}),
    Settled(Replace(Written1, Decided, [Decided EXCEPT !.mayAgree = TRUE]), {}),
    Settled(Replace([Written1 EXCEPT !.capabilities = {SpecCapability("canon", TRUE, FALSE), SpecCapability("audit", FALSE, TRUE)}],
                    Decided, [Decided EXCEPT !.mayAgree = TRUE]), {}),
    Settled(Replace(Written1, Decided, [Decided EXCEPT !.decision = NoneWritten]), {"a"}),
    Settled(Replace(Written1, Decided, [Decided EXCEPT !.decision = NoneWritten, !.written = NoneWritten]), {"a"}),
    Replace(Written1, Decided, [Decided EXCEPT !.needs = {"big"}]),
    Replace(Written1, Anchored, [Anchored EXCEPT !.written = "w"]),
    Replace(Written1, Anchored, [Anchored EXCEPT !.written = "v", !.golden = "vector"]),
    Replace(Written1, Golden, [Golden EXCEPT !.golden = "vector"]),
    Replace(Written1, Referred, [Referred EXCEPT !.written = "w", !.decision = "D1"]),
    Replace(Written1, Refusal, [Refusal EXCEPT !.written = "bad-type", !.decision = "D1", !.mayAgree = TRUE]),
    Replace(Written1, Refusal, [Refusal EXCEPT !.packages = {"sdk", "amulet"}]),
    Replace([Written1 EXCEPT !.participant = {{"amulet"}}], Refusal, [Refusal EXCEPT !.packages = {"sdk"}]),
    [Written1 EXCEPT !.capabilities = {SpecCapability("canon", TRUE, FALSE), SpecCapability("audit", FALSE, TRUE)}],
    Replace([Written1 EXCEPT !.capabilities = {SpecCapability("canon", TRUE, FALSE), SpecCapability("audit", FALSE, TRUE)}],
            Referred, [Referred EXCEPT !.needs = {"big"}]),
    Replace([Written1 EXCEPT !.capabilities = {SpecCapability("canon", TRUE, FALSE), SpecCapability("audit", FALSE, TRUE)}],
            Referred, [Referred EXCEPT !.written = "w", !.decision = "D1"]),
    [Written1 EXCEPT !.references = [r |-> "w"]], [Written1 EXCEPT !.references = [r |-> "bad-type"]],
    [Written1 EXCEPT !.vectors = {Vector("a", "v"), Vector("d", "v")}],
    [Written1 EXCEPT !.vectors = {Vector("a", "v"), Vector("n", "v")}],
    [Written1 EXCEPT !.vectors = {Vector("a", "v"), Vector("z", "v")}],
    [Written1 EXCEPT !.vectors = {[Vector("a", "v") EXCEPT !.mentions = {"canonText"}]}],
    [Written1 EXCEPT !.rules = {[class |-> "bad-type"], [class |-> "bad-format"]}],
    [Written1 EXCEPT !.published = {"w"}], [Written1 EXCEPT !.minors = {"1.4", "1.5"}], [Written1 EXCEPT !.profiles = {"core"}],
    [Written1 EXCEPT !.profiles = {"core", "ledger", "games"}] }

SuiteDoes ==
  [ a : {"v", "w"}, d : {"v", "w", "bad-type", "bad-format"}, g : {"v", "w"},
    r : {"v", "w"}, n : {"bad-type", "v", "bad-format"} ]
SuiteClient(does, dispatched, notExported) ==
  [ entry |-> EntryFacts, dispatched |-> dispatched, notExported |-> notExported,
    rejectMap |-> {[class |-> "bad-type"]}, traits |-> {}, does |-> does ]
SuiteClients ==
  {SuiteClient(does, AllDriven, {}) : does \in SuiteDoes}
  \cup {SuiteClient(does, driven, missing) :
          does \in [a : {"v"}, d : {"v", "w"}, g : {"v"}, r : {"v", Unreadable}, n : {"bad-type"}],
          driven \in {AllDriven, {"canon"}}, missing \in {{}, {"audit"}}}
  \cup {[SuiteClient(does, AllDriven, {}) EXCEPT !.traits = {"big"}] :
          does \in [a : {"v"}, d : {"v", "w"}, g : {"v"}, r : {"v"}, n : {"bad-type"}]}
\* Every client against itself, and the clients a manifest can be made with
\* against all.
Makers == {SuiteClient(does, AllDriven, {}) :
             does \in [a : {"v", "w"}, d : {"v", "w", "bad-type"}, g : {"v"}, r : {"v"}, n : {"bad-type"}]}
SuiteJobs ==
  {[part |-> "suite", source |-> s, made |-> c, client |-> c] : s \in SuiteSources, c \in SuiteClients}
  \cup [part : {"suite"}, source : SuiteSources, made : Makers, client : SuiteClients]

ClientJobs ==
  DocumentJobs \cup TreeJobs \cup AssetJobs \cup PolicyJobs \cup SettlementJobs
    \cup ClockJobs \cup CallJobs \cup RunnerJobs \cup SuiteJobs
    \cup {[part |-> "quota"]}

Processes == Permutations(Process)
=============================================================================
