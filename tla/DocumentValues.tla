--------------------------- MODULE DocumentValues ---------------------------
(***************************************************************************)
(* The values the SDK has documents for, by kind, and the words that their *)
(* documents are spelled with.                                             *)
(***************************************************************************)
EXTENDS Documents

\* A text that may be null: none or one, also the empty one.
IsOptional(texts) == texts \subseteq Texts /\ \A s, t \in texts : s = t

\* A party is hint::fingerprint, where neither half holds a colon; the ledger
\* allows it no other character that a leg or a recipient is put together with.
IsParty(p) ==
  /\ p \in Texts /\ ~Includes(p, ">") /\ ~Includes(p, "/")
  /\ \E i \in 1..(Len(p) - 1) : \A k \in 1..Len(p) : p[k] = ":" <=> k \in {i, i + 1}

\* An object: finitely many names, each with an integer or a text.
IsAttributes(a) ==
  /\ a = [n \in DOMAIN a |-> a[n]]
  /\ IsFiniteSet(DOMAIN a) /\ DOMAIN a \subseteq Texts
  /\ \A n \in DOMAIN a : a[n] \in [whole : Int] \cup [text : Texts]

\* ---------------------------------------------------------------- games
Allocations == [allocationPercent : Int, symbol : Texts]
PricePoints == [asOf : Int, price : Int, source : Texts, symbol : Texts]
GamePlays ==
  [coinsCollected : Int, gameNumber : Int, maxLevel : Int, score : Int, survivalSeconds : Int]

TradeWarsEntries ==
  [ kind : {"trade-wars-entry"}, allocations : Seq(Allocations), cycleId : Texts,
    entryPrices : Seq(PricePoints), tier : Texts, virtualBalance : Int ]
TradeWarsOutcomes ==
  [ kind : {"trade-wars-outcome"}, cycleId : Texts, exitPrices : Seq(PricePoints),
    forfeitedAmount : Int, returnedAmount : Int, virtualPnl : Int, virtualPnlPercent : Int,
    xpAwarded : Int ]
PixelRaceEntries ==
  [ kind : {"pixel-race-entry"}, cycleId : Texts, maxGamesPerSession : Int,
    rngSeedCommit : Texts, tier : Texts ]
PixelRaceOutcomes ==
  [ kind : {"pixel-race-outcome"}, cycleId : Texts, forfeitedAmount : Int,
    plays : Seq(GamePlays), returnedAmount : Int, rngSeed : Texts, totalScore : Int,
    xpAwarded : Int ]

\* --------------------------------------------------------- policy, assets
Policies ==
  [ kind : {"policy"}, minStakeAmount : Int, maxStakeAmount : Int, minPlatformFee : Int,
    maxPayoutAmount : Int, minLockSeconds : Int, maxLockSeconds : Int, minCycleSeconds : Int,
    maxCycleSeconds : Int, cooldownSeconds : Int, abortCooldownSeconds : Int,
    concurrencyLimit : Int, requireCustodyProof : BOOLEAN ]

IsAsset(v) ==
  /\ v.kind = "attributes"
  /\ v = [kind |-> "attributes", id |-> v.id, attributes |-> v.attributes]
  /\ v.id \in Texts /\ IsAttributes(v.attributes)
IsInstance(v) ==
  /\ v.kind = "instance"
  /\ v = [ kind |-> "instance", tenantId |-> v.tenantId, localId |-> v.localId,
           attributes |-> v.attributes, salt |-> v.salt ]
  /\ {v.tenantId, v.localId, v.salt} \subseteq Texts
  /\ IsAttributes(v.attributes)

\* -------------------------------------------------------- period reports
AuditRows ==
  [ kind : {"row"}, cycleId : Texts, player : Texts, gameCode : Texts, concurrencyIndex : Int,
    entryDigest : Texts, outcomeDigest : Texts, committedUnits : Int, feeUnits : Int,
    returnedUnits : Int, forfeitedUnits : Int, payoutUnits : Int, disposition : Texts,
    committedAtMicros : Int, settledAtMicros : Int, custodyTag : Texts ]
PeriodAnchors ==
  [ kind : {"anchor"}, venueId : Texts, periodId : Texts, periodStartMicros : Int,
    periodEndMicros : Int, cycleCount : Int, committedUnits : Int, feeUnits : Int,
    returnedUnits : Int, forfeitedUnits : Int, payoutUnits : Int, qualifyingTxCount : Int,
    nonQualifyingTxCount : Int, merkleRootHex : Texts, reportDigest : Texts,
    prevAnchorDigest : Texts ]

\* ------------------------------------------------------- joined documents
\* The names of a meta entry are any texts, those that hold an equals sign too.
IsMeta(meta) == meta \in Seq(Texts \X Texts)
IsLeg(l) ==
  /\ l \in [sender : Texts, receiver : Texts, amount : Int, admin : Texts, id : Texts]
  /\ IsParty(l.sender) /\ IsParty(l.receiver) /\ IsParty(l.admin)
IsRecipient(r) ==
  /\ r \in [receiver : Texts, amount : Int, admin : Texts, id : Texts]
  /\ IsParty(r.receiver) /\ IsParty(r.admin)

IsTrade(v) ==
  /\ v.kind = "trade"
  /\ v = [ kind |-> "trade", tradeId |-> v.tradeId, maker |-> v.maker, taker |-> v.taker,
           expiresAt |-> v.expiresAt, ask |-> v.ask, offer |-> v.offer, meta |-> v.meta ]
  /\ {v.tradeId, v.maker, v.expiresAt} \subseteq Texts /\ IsOptional(v.taker)
  /\ IsLeg(v.ask) /\ IsLeg(v.offer) /\ IsMeta(v.meta)
IsTransfer(v) ==
  /\ v.kind = "transfer"
  /\ v = [ kind |-> "transfer", transferId |-> v.transferId, sender |-> v.sender,
           reason |-> v.reason, meta |-> v.meta, recipients |-> v.recipients ]
  /\ {v.transferId, v.sender, v.reason} \subseteq Texts
  /\ v.recipients = [i \in 1..Len(v.recipients) |-> v.recipients[i]]
  /\ Len(v.recipients) \in Nat
  /\ \A i \in 1..Len(v.recipients) : IsRecipient(v.recipients[i])
  /\ IsMeta(v.meta)

IsOptionalText(v) ==
  /\ v.kind = "optional" /\ v = [kind |-> "optional", text |-> v.text]
  /\ IsOptional(v.text)

IsDocumentValue(v) ==
  \/ v \in TradeWarsEntries \cup TradeWarsOutcomes \cup PixelRaceEntries \cup PixelRaceOutcomes
  \/ v \in Policies \cup AuditRows \cup PeriodAnchors
  \/ IsAsset(v) \/ IsInstance(v) \/ IsTrade(v) \/ IsTransfer(v) \/ IsOptionalText(v)

-----------------------------------------------------------------------------
\* What a document starts with, its schema, what a part of a transfer starts
\* with, and the two truth values: of each kind none is the start of another.
Starts ==
  {"arccade-sdk-digest-v1", "arccade-game-sdk:trade:1:", "arccade-game-sdk:transfer:1:", "o:"}
Schemas ==
  { "arccade-trade-wars-entry", "arccade-trade-wars-outcome", "arccade-pixel-race-entry",
    "arccade-pixel-race-outcome", "arccade-venue-policy", "arccade-asset-attributes",
    "arccade.cycle-audit-row", "arccade.period-anchor" }
PartStarts == {"to=", "meta."}
Truths == {"true", "false"}

FieldNames ==
  { "as-of", "price", "source", "symbol", "allocation-percent", "allocations", "cycle-id",
    "entry-prices", "game-code", "tier", "virtual-balance", "exit-prices", "forfeited-amount",
    "returned-amount", "virtual-pnl", "virtual-pnl-percent", "xp-awarded", "coins-collected",
    "game-number", "max-level", "score", "survival-seconds", "max-games-per-session",
    "rng-seed-commit", "plays", "rng-seed", "total-score", "min-stake-amount",
    "max-stake-amount", "min-platform-fee", "max-payout-amount", "min-lock-seconds",
    "max-lock-seconds", "min-cycle-seconds", "max-cycle-seconds", "cooldown-seconds",
    "abort-cooldown-seconds", "concurrency-limit", "require-custody-proof", "instrument",
    "cycleId", "player", "gameCode", "concurrencyIndex", "entryDigest", "outcomeDigest",
    "committedUnits", "feeUnits", "returnedUnits", "forfeitedUnits", "payoutUnits",
    "disposition", "committedAtMicros", "settledAtMicros", "custodyTag", "venueId", "periodId",
    "periodStartMicros", "periodEndMicros", "cycleCount", "qualifyingTxCount",
    "nonQualifyingTxCount", "merkleRootHex", "reportDigest", "prevAnchorDigest" }
Labels ==
  { "trade-wars-v4", "pixel-race-v1", "tradeId=", "maker=", "taker=", "expiresAt=", "leg.ask=",
    "leg.offer=", "transferId=", "sender=", "reason=" }

ASSUME WordsAssumption ==
  /\ \A w \in Starts \cup Schemas \cup PartStarts \cup Truths \cup FieldNames \cup Labels :
       Spell(w) \in Texts
  /\ NameCharacters \in Texts /\ Spell("o:") = <<"o", ":">>
  /\ \A name \in FieldNames : ValidFieldName(Spell(name))
  /\ Apart(Starts) /\ Apart(Schemas) /\ Apart(PartStarts) /\ Apart(Truths)
=============================================================================
