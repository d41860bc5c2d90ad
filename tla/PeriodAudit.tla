---------------------------- MODULE PeriodAudit ----------------------------
(***************************************************************************)
(* Periods anchored from the reader's rows, and the verifier that walks a  *)
(* published archive back to the anchors (periodAnchor.js, the ledger's    *)
(* GameVenue_AnchorPeriod, examples/verify-anchor.mjs).                    *)
(*                                                                         *)
(* The job that anchors is not in the repository.  The ledger lets it      *)
(* declare what it likes: the periods in any order and any number of       *)
(* times, rows that are not those of the ledger, the digest of another     *)
(* report and a link to any anchor or none, while cycles go on being       *)
(* committed and closed.  A digest is the term it is of, <<>> the empty    *)
(* one.                                                                    *)
(***************************************************************************)
EXTENDS AuditReader, Merkle

CONSTANTS
  Bounds,         \* period p covers the times after Bounds[p] up to Bounds[p+1]
  Invented,       \* lists of rows that the job may declare without a read
  MaxInt,         \* the largest amount of the 64-bit band
  Explored(_, _)  \* bound: ledgers and the anchors written over them

VARIABLES
  anchors,        \* the VenuePeriodAnchor contracts, in the order of the ACS
  site            \* the published archive, and the anchors given to the verifier

auditVars == <<ledger, read, anchors, site>>

ASSUME PeriodAssumption ==
  /\ Bounds \in Seq(Int)
  /\ \A rows \in Invented : rows \in Seq([cycleId : Texts, committed : Int, committedAt : Int, settledAt : Int,
       exit : [disposition : STRING, returned : Int, forfeited : Int, payout : Int]])

Period == 1..(Len(Bounds) - 1)

\* ------------------------------------------------------------- anchoring
\* The sums of the rows, in integers that never overflow.
TotalsOf(rows) ==
  LET sum(f(_)) == FoldLeft(LAMBDA n, r : n + f(r), 0, rows)
  IN  [cycleCount |-> Len(rows),
       committed |-> sum(LAMBDA r : r.committed), returned |-> sum(LAMBDA r : r.exit.returned),
       forfeited |-> sum(LAMBDA r : r.exit.forfeited), payout |-> sum(LAMBDA r : r.exit.payout)]

NoCycleTwice(rows) == \A i, j \in DOMAIN rows : rows[i].cycleId = rows[j].cycleId => i = j

\* Every running total is in the band.
InBand(rows) ==
  \A n \in DOMAIN rows : LET totals == TotalsOf(SubSeq(rows, 1, n)) IN
    \A f \in DOMAIN totals : totals[f] \in (-MaxInt - 1)..MaxInt

\* Variants for mutation: a total wraps at the end of the band, and a repeated
\* cycle is counted like any other.
AnchorTotalsWrapped(rows) ==
  IF NoCycleTwice(rows) THEN {[f \in DOMAIN TotalsOf(rows) |-> TotalsOf(rows)[f] % (MaxInt + 1)]} ELSE {}
AnchorTotalsRepeated(rows) == IF InBand(rows) THEN {TotalsOf(rows)} ELSE {}

\* The totals of a period, or none: rows are refused when a cycle is there
\* twice and when a running total leaves the band.
AnchorTotals(rows) ==
  IF NoCycleTwice(rows) /\ InBand(rows) THEN {TotalsOf(rows)} ELSE {}

Leaves(rows) == [i \in DOMAIN rows |-> PeriodLeaf(rows[i])]

\* The file that is published for a period, as bytes: its rows, leaves and root
\* in a format of the job's choosing.
ReportBytes(p, rows, format) ==
  [periodId |-> p, rows |-> rows, leaves |-> Leaves(rows),
   merkleRoot |-> MerkleRoot(Leaves(rows)), format |-> format]

AnchorDigest(a) ==
  <<"period-anchor", a.periodId, a.totals, a.merkleRoot, a.reportDigest, a.prevAnchorDigest>>

\* The contract: totals and root are computed from the rows, the rest is
\* declared.  The rows are an argument that no contract keeps; they are kept
\* here to speak of them.
VenuePeriodAnchor(p, rows, totals, digest, prev) ==
  LET a == [periodId |-> p, totals |-> totals, merkleRoot |-> MerkleRoot(Leaves(rows)),
            reportDigest |-> digest, prevAnchorDigest |-> prev]
  IN  [anchor |-> a, anchorDigest |-> AnchorDigest(a), rows |-> rows]

\* The rows the reader finds in a complete read, closed in the period.
PeriodRows(p) ==
  LET rows == RowsFromTransactions(ledger).rows
      closed == {i \in DOMAIN rows : rows[i].settledAt > Bounds[p] /\ rows[i].settledAt <= Bounds[p+1]}
      order == InOrder(closed, {x \in closed \X closed : x[1] < x[2]})
  IN  [i \in 1..Cardinality(closed) |-> rows[order[i]]]

\* Rows as they are, one fewer, or the first misstated.
Altered(rows) ==
  {rows} \cup (IF rows = <<>> THEN {}
              ELSE {Front(rows), <<[rows[1] EXCEPT !.settledAt = @ + 1]>> \o Tail(rows)})

\* What the job declares for a period of which it knows these rows: them,
\* altered or twice, or something else.
Offered(rows) == Altered(rows) \cup {rows \o rows} \cup Invented

\* Any period, any rows offered for it, the digest of a report of any of them,
\* and a link to any anchor or to none.
AnchorPeriod ==
  /\ read = <<>> /\ site.reports = <<>>
  /\ \E p \in Period : LET known == PeriodRows(p) IN
       \E rows \in Offered(known) : \E totals \in AnchorTotals(rows) : \E declared \in Offered(known) :
         \E prev \in {<<>>} \cup {anchors[i].anchorDigest : i \in DOMAIN anchors} :
           anchors' = Append(anchors, VenuePeriodAnchor(p, rows, totals, ReportBytes(p, declared, "anchored"), prev))
  /\ Explored(ledger, anchors')
  /\ UNCHANGED <<ledger, read, site>>

\* ------------------------------------------------------------ publishing
\* The place of the first anchor of a period among those seen: one, or none.
FirstOf(seen, p) ==
  {i \in DOMAIN seen : /\ seen[i].anchor.periodId = p
                       /\ \A j \in 1..(i-1) : seen[j].anchor.periodId # p}
FirstAnchor(seen, p) == seen[CHOOSE i \in FirstOf(seen, p) : TRUE]

Meta(p, report, anchored) ==
  [periodId |-> p, bytes |-> report, servedDigest |-> report,
   anchoredRoot |-> anchored.merkleRoot, anchoredDigest |-> anchored.reportDigest,
   cycleCount |-> Len(report.rows)]

\* The rows a report may show: those anchored or altered, or those of the
\* anchored digest.
Shown(p) ==
  LET a == FirstAnchor(anchors, p) IN Altered(a.rows) \cup {a.anchor.reportDigest.rows}

\* The archive entries that show these rows: published as they are, in either
\* format, with the root recomputed, or put in place of the anchored bytes
\* after the index recorded their digest, or before.
Written(p, rs) ==
  LET anchored == FirstAnchor(anchors, p).anchor
      honest == Meta(p, anchored.reportDigest, anchored)
      published(format) == Meta(p, ReportBytes(p, rs, format), anchored)
  IN  {published("anchored"), published("pretty"),
       [published("anchored") EXCEPT !.anchoredRoot = MerkleRoot(Leaves(rs))],
       [honest EXCEPT !.bytes = ReportBytes(p, rs, "pretty")],
       [honest EXCEPT !.bytes.rows = rs, !.servedDigest.rows = rs]}

Entries(p) == UNION {Written(p, rs) : rs \in Shown(p)}

\* A run of the archive over some of the anchored periods in their order, one
\* entry perhaps altered, and the anchors the verifier is given: none, those of
\* the ledger, or a file in which the first is misstated.
Publish ==
  /\ anchors # <<>> /\ site.reports = <<>>
  /\ \E n \in DOMAIN anchors : \E order \in [1..n -> {anchors[i].anchor.periodId : i \in DOMAIN anchors}] :
       /\ \A i, j \in 1..n : i < j => order[i] < order[j]
       /\ LET honest(p) == LET a == FirstAnchor(anchors, p).anchor IN Meta(p, a.reportDigest, a)
          IN \E k \in 1..n : \E entry \in Entries(order[k]) :
             \E seen \in {<<>>, anchors, [anchors EXCEPT ![1].anchor.totals.payout = @ + 1]} :
               site' = [reports |-> [i \in 1..n |-> IF i = k THEN entry ELSE honest(order[i])],
                        seen |-> seen]
  /\ UNCHANGED <<ledger, read, anchors>>

\* ------------------------------------------------------------- verifying
AnchorFor(p) == FirstOf(site.seen, p)

\* The anchor digest of the last period before report k that had an anchor.
PreviousDigest(k) ==
  LET before == {j \in 1..(k-1) : AnchorFor(site.reports[j].periodId) # {}}
  IN  IF before = {} THEN {} ELSE
      {site.seen[i].anchorDigest : i \in AnchorFor(site.reports[CHOOSE j \in before : \A l \in before : l <= j].periodId)}

ReportReproduces(meta) ==
  LET leaves == Leaves(meta.bytes.rows)
      root == MerkleRoot(leaves)
      rows == meta.bytes.rows
  IN  /\ meta.bytes = meta.servedDigest
      /\ leaves = meta.bytes.leaves
      /\ root = meta.bytes.merkleRoot /\ root = meta.anchoredRoot
      /\ \A i \in DOMAIN rows : PeriodRowVerify(rows[i], MerkleProof(i - 1, leaves), root)
      /\ rows # <<>> =>
           ~PeriodRowVerify([rows[1] EXCEPT !.exit.returned = @ - 1], MerkleProof(0, leaves), root)

\* Variant for mutation: the totals stand for the root.
AnchorReproducesByTotals(meta, a) ==
  TotalsOf(meta.bytes.rows) = a.anchor.totals /\ AnchorDigest(a.anchor) = a.anchorDigest

AnchorReproduces(meta, a) ==
  /\ TotalsOf(meta.bytes.rows) = a.anchor.totals
  /\ AnchorDigest(a.anchor) = a.anchorDigest
  /\ a.anchor.merkleRoot = MerkleRoot(Leaves(meta.bytes.rows))

\* Variant for mutation: the links between the anchors are not followed.
ChainUnlinked(k, a) == TRUE

\* Only a link to an earlier published period is followed.
ChainHolds(k, a) == \A d \in PreviousDigest(k) : a.anchor.prevAnchorDigest = d

Fails(k) ==
  LET meta == site.reports[k] IN
  \/ ~ReportReproduces(meta)
  \/ \E i \in AnchorFor(meta.periodId) :
        ~AnchorReproduces(meta, site.seen[i]) \/ ~ChainHolds(k, site.seen[i])
  \/ AnchorFor(meta.periodId) = {} /\ Len(meta.bytes.rows) # meta.cycleCount

\* Variant for mutation: the index's own digest stands for the anchored one.
ByteFindingServed(k) == site.reports[k].bytes # site.reports[k].servedDigest

\* The bytes served are not the bytes anchored.
ByteFinding(k) ==
  LET meta == site.reports[k]
      a == AnchorFor(meta.periodId)
  IN  meta.bytes # IF a = {} THEN meta.anchoredDigest
                   ELSE site.seen[CHOOSE i \in a : TRUE].anchor.reportDigest

ExitCode == IF \E k \in DOMAIN site.reports : Fails(k) THEN 1
            ELSE IF \E k \in DOMAIN site.reports : ByteFinding(k) THEN 2 ELSE 0

\* ---------------------------------------------------------- specification
AuditInit == ReaderInit /\ anchors = <<>> /\ site = [reports |-> <<>>, seen |-> <<>>]

\* The ledger goes on between the anchors; it is read before them, which has
\* nothing to do with them.
ReaderStep ==
  /\ site.reports = <<>>
  /\ \/ Deliver /\ anchors = <<>>
     \/ (Commit \/ Close) /\ Explored(ledger', anchors)
  /\ UNCHANGED <<anchors, site>>

AuditNext == ReaderStep \/ AnchorPeriod \/ Publish
AuditSpec == AuditInit /\ [][AuditNext]_auditVars
=============================================================================
