-------------------------- MODULE CommandBuilders --------------------------
(***************************************************************************)
(* The submissions the client builds (cycle.js, trade.js, transfer.js): a  *)
(* command id, the parties that act and read, and one or two commands.  A  *)
(* builder gives a set of one submission, or none where it throws.  A      *)
(* caller's own command id is left out; of the fields that are passed on   *)
(* unread there are the names.  p names the parties: operator, venue, player.  What may be null   *)
(* is a set of one or none.                                                *)
(***************************************************************************)
EXTENDS Documents, Tenancy, FiniteSets

CUSTODY_TAG_PREFIX == Spell("arccade-game-sdk:1:")

ValidCycleId(id) == Len(id) \in 1..64 /\ ~Includes(id, ":") /\ ~Includes(id, "|")
ValidTradeId(id) == Len(id) \in 1..64 /\ ~Includes(id, ":") /\ ~Includes(id, "|")
HexDigits == {"0", "1", "2", "3", "4", "5", "6", "7", "8", "9", "a", "b", "c", "d", "e", "f"}
ValidHex64(h) == Len(h) = 64 /\ Over(h, HexDigits)

CustodyTagFor(cycleId, entryDigest) ==
  IF ValidCycleId(cycleId) /\ ValidHex64(entryDigest)
  THEN {CUSTODY_TAG_PREFIX \o cycleId \o <<":">> \o entryDigest} ELSE {}

\* The start of a contract id, which names the operation on that contract.
Start(cid) == SubSeq(cid, 1, IF Len(cid) < 16 THEN Len(cid) ELSE 16)

\* A command: the arguments it gives, the contract it is exercised on, the lock
\* it reads, a set of none or one, and what it creates.
Exercise(choice, contract, given) ==
  [choice |-> choice, contract |-> contract, given |-> given, reads |-> {}, creates |-> {}]
Pay(outputs) ==
  [Exercise("AmuletRules_Transfer", Spell("rules"), {"transfer", "context", "expectedDso"})
     EXCEPT !.creates = outputs]
Submission(prefix, subject, actAs, readAs, commands) ==
  [commandId |-> Spell(prefix) \o subject, actAs |-> actAs, readAs |-> readAs, commands |-> commands]

\* ------------------------------------------------------------------- cycles
\* The outputs of the transfer: the fee, when there is one, and the stake.
\* feeAmount is none or one: none is refused, zero is not paid.
Outputs(p, o, tag) ==
  {[receiver |-> p.venue, amount |-> a, lock |-> {}] : a \in o.feeAmount \ {0}}
    \cup {[ receiver |-> p.player, amount |-> o.stakeAmount,
            lock |-> {[holders |-> {p.venue}, expiresAt |-> o.lockExpiresAt, context |-> tag]} ]}

StakeTerms(p, o, fee, tag) ==
  [ stakeAmount |-> o.stakeAmount, feeAmount |-> fee, feeReceiver |-> p.venue,
    lockHolders |-> {p.venue}, lockExpiresAt |-> o.lockExpiresAt, custodyTag |-> tag ]

CommitOn(p, o, fee, tag) ==
  [Exercise("Entitlement_Commit", o.entitlementCid,
            {"gameCode", "cycleId", "terms", "entryDigest", "stakeMeta"}) EXCEPT
     !.creates = {[cycleId |-> o.cycleId, entryDigest |-> o.entryDigest,
                   terms |-> StakeTerms(p, o, fee, tag)]}]

\* Variant for mutation: the lock carries a text of its own.
CommitCommandsUntagged(p, o) ==
  {Submission("commit-", o.cycleId, {p.player, p.venue, p.operator}, {p.player, p.venue},
     << Pay(Outputs(p, o, Spell("game stake"))),
        CommitOn(p, o, fee, tag) >>) :
   fee \in o.feeAmount, tag \in {t \in CustodyTagFor(o.cycleId, o.entryDigest) : o.inputs # {}}}

CommitCommands(p, o) ==
  {Submission("commit-", o.cycleId, {p.player, p.venue, p.operator}, {p.player, p.venue},
     << Pay(Outputs(p, o, tag)),
        CommitOn(p, o, fee, tag) >>) :
   fee \in o.feeAmount, tag \in {t \in CustodyTagFor(o.cycleId, o.entryDigest) : o.inputs # {}}}

DryRunCommitCommands(p, o) ==
  {Submission("dryrun-commit-", o.cycleId, {p.player, p.venue, p.operator}, {p.player, p.venue},
     << CommitOn(p, o, 0, tag) >>) : tag \in CustodyTagFor(o.cycleId, o.entryDigest)}

SettleOn(o) ==
  [Exercise("GameStake_Settle", o.stakeCid,
            { "disposition", "returnedAmount", "forfeitedAmount", "payoutAmount", "outcomeDigest",
              "revealedOutcome", "revealedEntry", "custodyRef", "settlementMeta" })
     EXCEPT !.reads = o.lockedAmuletCid]

\* The settlement reads the lock, so it comes before the unlock.
SettleCommands(p, o) ==
  LET parties == {p.operator, p.venue, p.player}
      settle == SettleOn(o)
      unlock == IF o.lockedAmuletCid = {} THEN <<>>
                ELSE <<Exercise("LockedAmulet_UnlockV2", OrEmpty(o.lockedAmuletCid), {})>>
  IN  IF /\ o.outcomeDigest \cup o.outcomeDocument # {}
         /\ \A digest \in o.outcomeDigest : ValidHex64(digest)
         /\ (o.disposition = "ReturnedInFull" => o.forfeitedAmount = 0)
         /\ (o.disposition = "ForfeitedInFull" => o.returnedAmount = 0)
      THEN {Submission("settle-", Start(o.stakeCid), parties, parties, <<settle>> \o unlock)} ELSE {}

AbortOn(o) ==
  [Exercise("GameStake_Abort", o.stakeCid, {"reason", "custodyRef"}) EXCEPT !.reads = o.lockedAmuletCid]

\* Variant for mutation: the id of an abort is that of a settlement.
AbortCommandsSharingId(p, o) ==
  {Submission("settle-", Start(o.stakeCid), {p.operator, p.player}, {p.operator, p.venue, p.player},
     << AbortOn(o) >>)}

AbortCommands(p, o) ==
  {Submission("abort-", Start(o.stakeCid), {p.operator, p.player}, {p.operator, p.venue, p.player},
     << AbortOn(o) >>)}

ExpireCommands(p, o) ==
  {Submission("expire-", Start(o.stakeCid), {p.player}, {p.player},
     << Exercise("GameStake_ExpireUnsettled", o.stakeCid, {}) >> \o
     (IF o.lockedAmuletCid = {} THEN <<>>
      ELSE <<Exercise("LockedAmulet_OwnerExpireLockV2", OrEmpty(o.lockedAmuletCid), {})>>))}

\* ------------------------------------------------------------------- trades
\* A field that is missing is refused like an empty one.
Leg(l) ==
  IF /\ <<>> \notin {l.sender, l.receiver, l.admin, l.id}
     /\ l.sender # l.receiver /\ l.amount > 0
  THEN {l} ELSE {}

\* The digest of a trade is the document it is of.
ProposalOf(t) ==
  [Exercise("Create TradeProposal", t.maker,
            { "venue", "tradeId", "maker", "taker", "legs", "expiresAt", "settleBefore",
              "tradeDigest", "meta" })
     EXCEPT !.creates = {TradeDocument(t)}]

TradeProposalCommands(venue, t) ==
  IF ValidTradeId(t.tradeId) /\ NoSeparator(TradeParts(t))
  THEN {Submission("trade-propose-", t.tradeId, {t.maker}, {t.maker, venue},
          << ProposalOf(t) >>)}
  ELSE {}

TradeSettleCommands(venue, maker, taker, tradeCid, allocations) ==
  IF allocations # {}
  THEN {Submission("trade-settle-", Start(tradeCid), {venue}, {venue, maker} \cup taker,
          << [Exercise("Trade_Settle", tradeCid, {"allocations"}) EXCEPT !.reads = allocations] >>)}
  ELSE {}

TradeCancelCommands(venue, tradeCid) ==
  {Submission("trade-cancel-", Start(tradeCid), {venue}, {},
     << Exercise("Trade_Cancel", tradeCid, {"reason"}) >>)}

\* ---------------------------------------------------------------- transfers
REASONS == {Spell("reward"), Spell("payout"), Spell("refund"), Spell("p2p")}

\* Nobody pays himself, nobody is paid twice in one transfer.
TransferAccepted(t) ==
  /\ t.recipients # <<>> /\ t.reason \in REASONS /\ t.inputs # {}
  /\ \A i \in DOMAIN t.recipients :
       /\ t.recipients[i].receiver \notin {<<>>, t.sender}
       /\ t.recipients[i].amount > 0
       /\ \A j \in DOMAIN t.recipients :
            t.recipients[i].receiver = t.recipients[j].receiver => i = j
  /\ NoSeparator(TransferParts(t))

TransferCommands(provider, t) ==
  IF TransferAccepted(t)
  THEN {Submission("transfer-", t.transferId, {t.sender, provider}, {t.sender, provider},
          << Pay({[receiver |-> t.recipients[i].receiver, amount |-> t.recipients[i].amount,
                   lock |-> {}] : i \in DOMAIN t.recipients}) >>)}
  ELSE {}

\* --------------------------------------------- what the ledger asks of them
\* Who must have authorised a choice.
Controllers(p, command) ==
  CASE command.choice = "AmuletRules_Transfer"           -> {p.player, p.venue}
    [] command.choice = "Entitlement_Commit"             -> {p.operator, p.player}
    [] command.choice = "GameStake_Settle"               -> {p.operator}
    [] command.choice = "GameStake_Abort"                -> {p.operator, p.player}
    [] command.choice = "GameStake_ExpireUnsettled"      -> {p.player}
    [] command.choice = "LockedAmulet_UnlockV2"          -> {p.player, p.venue}
    [] command.choice = "LockedAmulet_OwnerExpireLockV2" -> {p.player}
    [] command.choice = "Create TradeProposal"           -> {command.contract}
    [] command.choice \in {"Trade_Settle", "Trade_Cancel"} -> {p.venue}

\* The arguments that a choice, or the contract that is created, declares and
\* that are not optional.
Required(choice) ==
  CASE choice = "AmuletRules_Transfer" -> {"transfer", "context"}
    [] choice = "Entitlement_Commit"   ->
         {"gameCode", "cycleId", "terms", "entryDigest", "stakeMeta"}
    [] choice = "GameStake_Settle"     ->
         { "disposition", "returnedAmount", "forfeitedAmount", "payoutAmount", "outcomeDigest",
           "settlementMeta" }
    [] choice = "GameStake_Abort"      -> {"reason"}
    [] choice = "Create TradeProposal" ->
         { "venue", "tradeId", "maker", "legs", "expiresAt", "settleBefore", "tradeDigest", "meta" }
    [] choice = "Trade_Settle"         -> {"allocations"}
    [] choice = "Trade_Cancel"         -> {"reason", "allocationsToCancel"}
    [] choice \in { "GameStake_ExpireUnsettled", "LockedAmulet_UnlockV2",
                    "LockedAmulet_OwnerExpireLockV2" } -> {}
Missing(command) == Required(command.choice) \ command.given

\* The terms name the cycle they are of (assertTermsMeetPolicy's other half).
TermsNameCycle(p, stake) ==
  /\ stake.terms.feeReceiver = p.venue
  /\ p.venue \in stake.terms.lockHolders
  /\ stake.terms.custodyTag = CUSTODY_TAG_PREFIX \o stake.cycleId \o <<":">> \o stake.entryDigest

\* The output that stays locked proves the custody of the stake.
LockProves(p, output, stake) ==
  /\ output.receiver = p.player /\ output.amount >= stake.terms.stakeAmount
  /\ \E lock \in output.lock :
       /\ p.venue \in lock.holders
       /\ lock.expiresAt = stake.terms.lockExpiresAt
       /\ lock.context = stake.terms.custodyTag
=============================================================================
