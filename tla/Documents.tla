----------------------------- MODULE Documents -----------------------------
(***************************************************************************)
(* The documents whose digests the SDK commits: game entries and outcomes  *)
(* (arccade-games.js), a venue's policy (policy.js), an asset's attributes *)
(* and the identity derived from them (assets.js), a row and an anchor of  *)
(* a period (digest.js, periodAnchor.js), and the two that join their      *)
(* parts with a separator instead of sizing them (trade.js, transfer.js).  *)
(***************************************************************************)
EXTENDS Canon, SequencesExt

Named(name, encoded) == <<Spell(name), encoded>>
Text(name, v) == Named(name, CanonText(v))
Whole(name, v) == Named(name, CanonInt(v))
Decimal(name, v) == Named(name, CanonDecimal(v))
Each(f(_), xs) == [i \in DOMAIN xs |-> f(xs[i])]

\* ---------------------------------------------------------------- games
TwPricePoint(p) ==
  CanonFields(<< Named("as-of", CanonTimeMicros(p.asOf)), Decimal("price", p.price),
                 Text("source", p.source), Text("symbol", p.symbol) >>)
TwAllocation(a) ==
  CanonFields(<<Decimal("allocation-percent", a.allocationPercent), Text("symbol", a.symbol)>>)

TradeWarsEntryDocument(e) ==
  CanonDocument(Spell("arccade-trade-wars-entry"), 1,
    << Named("allocations", CanonList(Each(TwAllocation, e.allocations))),
       Text("cycle-id", e.cycleId),
       Named("entry-prices", CanonList(Each(TwPricePoint, e.entryPrices))),
       Text("game-code", Spell("trade-wars-v4")), Text("tier", e.tier),
       Decimal("virtual-balance", e.virtualBalance) >>)

TradeWarsOutcomeDocument(o) ==
  CanonDocument(Spell("arccade-trade-wars-outcome"), 1,
    << Text("cycle-id", o.cycleId),
       Named("exit-prices", CanonList(Each(TwPricePoint, o.exitPrices))),
       Decimal("forfeited-amount", o.forfeitedAmount), Text("game-code", Spell("trade-wars-v4")),
       Decimal("returned-amount", o.returnedAmount), Decimal("virtual-pnl", o.virtualPnl),
       Decimal("virtual-pnl-percent", o.virtualPnlPercent), Decimal("xp-awarded", o.xpAwarded) >>)

PrGamePlay(g) ==
  CanonFields(<< Whole("coins-collected", g.coinsCollected), Whole("game-number", g.gameNumber),
                 Whole("max-level", g.maxLevel), Whole("score", g.score),
                 Whole("survival-seconds", g.survivalSeconds) >>)

PixelRaceEntryDocument(e) ==
  CanonDocument(Spell("arccade-pixel-race-entry"), 1,
    << Text("cycle-id", e.cycleId), Text("game-code", Spell("pixel-race-v1")),
       Whole("max-games-per-session", e.maxGamesPerSession),
       Text("rng-seed-commit", e.rngSeedCommit), Text("tier", e.tier) >>)

PixelRaceOutcomeDocument(o) ==
  CanonDocument(Spell("arccade-pixel-race-outcome"), 1,
    << Text("cycle-id", o.cycleId), Decimal("forfeited-amount", o.forfeitedAmount),
       Text("game-code", Spell("pixel-race-v1")), Named("plays", CanonList(Each(PrGamePlay, o.plays))),
       Decimal("returned-amount", o.returnedAmount), Text("rng-seed", o.rngSeed),
       Whole("total-score", o.totalScore), Decimal("xp-awarded", o.xpAwarded) >>)

\* --------------------------------------------------------- policy, assets
PolicyDocument(p) ==
  CanonDocument(Spell("arccade-venue-policy"), 1,
    << Decimal("min-stake-amount", p.minStakeAmount), Decimal("max-stake-amount", p.maxStakeAmount),
       Decimal("min-platform-fee", p.minPlatformFee), Decimal("max-payout-amount", p.maxPayoutAmount),
       Whole("min-lock-seconds", p.minLockSeconds), Whole("max-lock-seconds", p.maxLockSeconds),
       Whole("min-cycle-seconds", p.minCycleSeconds), Whole("max-cycle-seconds", p.maxCycleSeconds),
       Whole("cooldown-seconds", p.cooldownSeconds),
       Whole("abort-cooldown-seconds", p.abortCooldownSeconds),
       Whole("concurrency-limit", p.concurrencyLimit),
       Named("require-custody-proof", CanonBool(p.requireCustodyProof)) >>)

\* attributes gives a name an integer, [whole |-> n], or a text, [text |-> s].
AttributeValue(v) == IF "whole" \in DOMAIN v THEN CanonInt(v.whole) ELSE CanonText(v.text)
AttributeFields(attributes) == {<<n, AttributeValue(attributes[n])>> : n \in DOMAIN attributes}

AssetAttributeDocument(id, attributes) ==
  CanonDocument(Spell("arccade-asset-attributes"), 1,
    <<Text("instrument", id)>> \o SetToSeq(AttributeFields(attributes)))

DeriveInstanceId(tenantId, localId, attributes, salt) ==
  AssetAttributeDocument(tenantId \o <<"/">> \o localId, attributes) \o <<"|">> \o salt

\* -------------------------------------------------------- period reports
PeriodLeafDocument(row) ==
  CanonDocument(Spell("arccade.cycle-audit-row"), 1,
    << Text("cycleId", row.cycleId), Named("player", CanonParty(row.player)),
       Text("gameCode", row.gameCode), Whole("concurrencyIndex", row.concurrencyIndex),
       Text("entryDigest", row.entryDigest), Text("outcomeDigest", row.outcomeDigest),
       Whole("committedUnits", row.committedUnits), Whole("feeUnits", row.feeUnits),
       Whole("returnedUnits", row.returnedUnits), Whole("forfeitedUnits", row.forfeitedUnits),
       Whole("payoutUnits", row.payoutUnits), Text("disposition", row.disposition),
       Whole("committedAtMicros", row.committedAtMicros),
       Whole("settledAtMicros", row.settledAtMicros), Text("custodyTag", row.custodyTag) >>)

AnchorDocument(a) ==
  CanonDocument(Spell("arccade.period-anchor"), 1,
    << Text("venueId", a.venueId), Text("periodId", a.periodId),
       Whole("periodStartMicros", a.periodStartMicros), Whole("periodEndMicros", a.periodEndMicros),
       Whole("cycleCount", a.cycleCount), Whole("committedUnits", a.committedUnits),
       Whole("feeUnits", a.feeUnits), Whole("returnedUnits", a.returnedUnits),
       Whole("forfeitedUnits", a.forfeitedUnits), Whole("payoutUnits", a.payoutUnits),
       Whole("qualifyingTxCount", a.qualifyingTxCount),
       Whole("nonQualifyingTxCount", a.nonQualifyingTxCount),
       Text("merkleRootHex", a.merkleRootHex), Text("reportDigest", a.reportDigest),
       Text("prevAnchorDigest", a.prevAnchorDigest) >>)

\* ------------------------------------------------------- joined documents
\* Variant for mutation: parts that hold the separator are joined all the same.
PartsUnchecked(parts) == TRUE

NoSeparator(parts) == \A i \in DOMAIN parts : ~Includes(parts[i], "|")

Amount(n, admin, id) == <<":">> \o Numeral(n) \o <<":">> \o admin \o <<"/">> \o id
LegText(l) == l.sender \o <<">">> \o l.receiver \o Amount(l.amount, l.admin, l.id)

\* meta: the entries in the order of their names, <<name, value>>.
MetaPart(e) == Spell("meta.") \o e[1] \o <<"=">> \o e[2]

TradeParts(t) ==
  << Spell("tradeId=") \o t.tradeId, Spell("maker=") \o t.maker,
     Spell("taker=") \o OrEmpty(t.taker), Spell("expiresAt=") \o t.expiresAt,
     Spell("leg.ask=") \o LegText(t.ask), Spell("leg.offer=") \o LegText(t.offer) >>
    \o Each(MetaPart, t.meta)
TRADE_TAG_PREFIX == Spell("arccade-game-sdk:trade:1:")
TradeDocument(t) == TRADE_TAG_PREFIX \o Joined(TradeParts(t), <<"|">>)

RecipientPart(r) == Spell("to=") \o r.receiver \o Amount(r.amount, r.admin, r.id)
TransferParts(t) ==
  << Spell("transferId=") \o t.transferId, Spell("sender=") \o t.sender,
     Spell("reason=") \o t.reason >>
    \o Each(RecipientPart, t.recipients) \o Each(MetaPart, t.meta)
TRANSFER_TAG_PREFIX == Spell("arccade-game-sdk:transfer:1:")
TransferDocument(t) == TRANSFER_TAG_PREFIX \o Joined(TransferParts(t), <<"|">>)
=============================================================================
