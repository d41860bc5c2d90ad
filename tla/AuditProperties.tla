-------------------------- MODULE AuditProperties --------------------------
(***************************************************************************)
(* What the reader of a venue's transactions owes an auditor.              *)
(***************************************************************************)
EXTENDS PeriodAudit

Result == RowsFromTransactions(Txs(read))

\* The stakes of which the reader was handed a half.
Delivered(nodes) ==
  {s \in Stake : \E i \in DOMAIN read : \E j \in DOMAIN ledger[read[i]].events :
      LET e == ledger[read[i]].events[j] IN e.node \in nodes /\ e.stake = s}

\* The row that the ledger itself justifies for a closed stake: its commit, its
\* closing and where its value went.
LedgerRow(s) ==
  LET at(nodes) == CHOOSE i \in DOMAIN ledger :
                     \E j \in DOMAIN ledger[i].events :
                        ledger[i].events[j].node \in nodes /\ ledger[i].events[j].stake = s
      closing == CHOOSE e \in Range(ledger[at(ClosingChoice)].events) :
                     e.node \in ClosingChoice /\ e.stake = s
  IN  [cycleId |-> CycleIdOf[s], committed |-> UnitsOf[s],
       committedAt |-> ledger[at({"GameStake"})].at, settledAt |-> ledger[at(ClosingChoice)].at,
       exit |-> IF closing.node = "GameStake_Settle" THEN closing.outcome
                ELSE [disposition |-> IF closing.node = "GameStake_Abort" THEN "aborted"
                                      ELSE "expired-unsettled",
                      returned |-> UnitsOf[s], forfeited |-> 0, payout |-> 0]]

\* Every half that was delivered is in a row or surfaced (cycleAudit.js
\* 196-203): a cycle with both halves has its row, and the reader says so of
\* every commit without a closing and of every closing without a commit,
\* whatever was delivered twice or before its time.
EveryHalfAccountedFor ==
  LET result == Result
      commits == Delivered({"GameStake"})
      closings == Delivered(ClosingChoice)
  IN  /\ {result.rows[i].cycleId : i \in DOMAIN result.rows} = {CycleIdOf[s] : s \in commits \cap closings}
      /\ Len(result.rows) = Cardinality(commits \cap closings)
      /\ result.openStakes = commits \ closings
      /\ result.orphanClosings = closings \ commits

\* A row says of a cycle what the ledger did with it, an abort's and an
\* expiry's derived amounts included, and no unlock is ever reported to
\* disagree with an honest settlement (cycleAudit.js 140-166 and 216-227).
RowsTellTheLedger ==
  LET result == Result IN
  /\ \A i \in DOMAIN result.rows :
       \E s \in Stake : Closed(s) /\ result.rows[i] = LedgerRow(s)
  /\ result.warnings = {}

\* The same rows, perhaps in another order.
SameRows(a, b) ==
  \E f \in [DOMAIN a -> DOMAIN b] :
     /\ \A i \in DOMAIN a : b[f[i]] = a[i]
     /\ \A j \in DOMAIN b : \E i \in DOMAIN a : f[i] = j
     /\ Len(a) = Len(b)

\* Two readers handed the same transactions, in whatever order and however
\* often, report the same rows, and in the same order, and so compute the same
\* root, unless one cycle id was committed twice at one time: then nothing but
\* the order of arrival tells the two rows apart (cycleAudit.js 255-260).
DeliveryDoesNotMatter ==
  LET once == InOrder(Range(read), {x \in Range(read) \X Range(read) : x[1] < x[2]})
      result == Result
      other == RowsFromTransactions(Txs(once))
      tie(i, j) == /\ result.rows[i].committedAt = result.rows[j].committedAt
                   /\ result.rows[i].cycleId = result.rows[j].cycleId
  IN  /\ \A f \in DOMAIN result \ {"rows"} : result[f] = other[f]
      /\ SameRows(result.rows, other.rows)
      /\ (\A i, j \in DOMAIN result.rows : tie(i, j) => i = j) => result.rows = other.rows

\* ------------------------------------------------------ the published archive
Published == {site.reports[k].periodId : k \in DOMAIN site.reports}
ClosedIn(p) == {s \in Stake : Closed(s) /\ LedgerRow(s).settledAt \in (Bounds[p]+1)..Bounds[p+1]}

\* No cycle is misstated behind the ledger's back (verify-anchor.mjs 377-382):
\* when the verifier accepts an archive against the ledger's anchors, each
\* report shows the rows that were first anchored for its period, as they were
\* anchored, and no cycle twice.
AcceptedReportMisstatesNothing ==
  site.seen = anchors /\ ExitCode # 1 =>
    \A k \in DOMAIN site.reports :
      LET rows == site.reports[k].bytes.rows
      IN  rows = FirstAnchor(anchors, site.reports[k].periodId).rows /\ NoCycleTwice(rows)

\* So an omitted cycle does not survive the verifier, if it was not omitted
\* when its period was first anchored (the root and the totals are proved, the
\* rows are declared: Audit.daml 18-33): an accepted report then shows every
\* cycle the ledger closed in its period, once, as the ledger closed it.
AcceptedReportIsTheLedger ==
  /\ site.seen = anchors /\ ExitCode # 1
  /\ \A p \in Published : FirstAnchor(anchors, p).rows = PeriodRows(p)
  => \A k \in DOMAIN site.reports :
      LET rows == site.reports[k].bytes.rows
          p == site.reports[k].periodId
      IN  /\ Range(rows) = {LedgerRow(s) : s \in ClosedIn(p)}
          /\ Len(rows) = Cardinality(ClosedIn(p))

\* No retried submission left two different anchors of one period, no anchor
\* says more of its report than its rows, and none links past a period.
OneAnchorPerPeriod ==
  \A i, j \in DOMAIN anchors :
     anchors[i].anchor.periodId = anchors[j].anchor.periodId => anchors[i] = anchors[j]
DigestsOfTheirRows ==
  \A i \in DOMAIN anchors :
     anchors[i].anchor.reportDigest = ReportBytes(anchors[i].anchor.periodId, anchors[i].rows, "anchored")
LinkedToThePeriodBefore ==
  \A i \in DOMAIN anchors : anchors[i].anchor.periodId > 1 =>
     \E j \in DOMAIN anchors : /\ anchors[j].anchor.periodId = anchors[i].anchor.periodId - 1
                               /\ anchors[i].anchor.prevAnchorDigest = anchors[j].anchorDigest
NoGap == Published = 1..Len(site.reports)

\* An archive written as it was anchored passes, if the job did its part
\* (verify-anchor.mjs 226-340).
HonestArchiveAccepted ==
  /\ site.reports # <<>> /\ site.seen = anchors /\ NoGap
  /\ OneAnchorPerPeriod /\ DigestsOfTheirRows /\ LinkedToThePeriodBefore
  /\ \A k \in DOMAIN site.reports :
        LET a == FirstAnchor(anchors, site.reports[k].periodId).anchor
        IN  site.reports[k] = Meta(a.periodId, a.reportDigest, a)
  => ExitCode = 0

\* A period left out between two published ones is a broken link, not an
\* absence to be noticed (verify-anchor.mjs 326-336), whatever the anchors say
\* otherwise, unless one was linked past a period.
MissingPeriodBreaksChain ==
  /\ site.seen = anchors /\ LinkedToThePeriodBefore
  /\ \E p \in Period \ Published :
        (\E q \in Published : q < p) /\ (\E q \in Published : q > p)
  => ExitCode = 1

\* A report rewritten in another format after it was anchored, its rows
\* intact, never passes, and is told apart from a wrong one (verify-anchor.mjs
\* 341-356).
RewrittenReportIsAFinding ==
  /\ site.seen = anchors
  /\ \A k \in DOMAIN site.reports :
        /\ site.reports[k].bytes = site.reports[k].servedDigest
        /\ [site.reports[k].bytes EXCEPT !.format = "anchored"] = site.reports[k].anchoredDigest
  /\ \E k \in DOMAIN site.reports : site.reports[k].bytes.format = "pretty"
  => /\ ExitCode # 0
     /\ OneAnchorPerPeriod /\ DigestsOfTheirRows /\ LinkedToThePeriodBefore /\ NoGap => ExitCode = 2
=============================================================================
