------------------------------ MODULE MCAudit ------------------------------
EXTENDS AuditProperties
CONSTANTS s1, s2, s3
MCCycleIdOf == [s \in Stake |-> Spell(IF s = s2 THEN "c2" ELSE "c1")]
MCUnitsOf == [s \in Stake |-> IF s = s2 THEN 2 ELSE 1]
MCOutcome == {[disposition |-> "returned-in-full", returned |-> 0, forfeited |-> 0, payout |-> 3]}
MCBounds == <<0, 1, 2, 3>>

\* A row of no cycle, with an amount that nobody holds.
MCInvented ==
  {<<[cycleId |-> Spell("c3"), committed |-> 1, committedAt |-> 1, settledAt |-> 9,
      exit |-> [disposition |-> "lost", returned |-> -5, forfeited |-> 0, payout |-> 0]]>>}

\* Two cycles, the second of another id or of the same, at one time or at two,
\* closed later, the first in any way and the second by a settlement that unlocks.
MCRead(txs) ==
  \A i \in DOMAIN txs : \A j \in DOMAIN txs[i].events :
    LET e == txs[i].events[j]
        first(k) == \E l \in 1..(k-1) : \E m \in DOMAIN txs[l].events : txs[l].events[m].stake = s1
    IN  /\ e.node \in ClosingChoice => txs[i].at = 2 /\ (e.stake # s1 => e.node = "GameStake_Settle" /\ Len(txs[i].events) = 2)
        /\ e.stake = s3 => first(i) /\ \A l \in DOMAIN txs : \A m \in DOMAIN txs[l].events : txs[l].events[m].stake # s2

\* The first cycle is committed first and the second next, if at all; both are
\* settled, or the second aborted.
MCAnchored(txs) ==
  /\ \A i \in 2..Len(txs) : txs[i-1].at <= txs[i].at
  /\ \A i \in DOMAIN txs : \A j \in DOMAIN txs[i].events : LET e == txs[i].events[j] IN
    /\ e.stake # s3 /\ e.node # "Amulet" /\ e.node # "GameStake_ExpireUnsettled"
    /\ e.stake = s1 => e.node # "GameStake_Abort"
    /\ e.node = "GameStake" /\ e.stake = s1 => i = 1 /\ e.at = 1
    /\ i = 1 => e.stake = s1
    /\ e.node = "GameStake" => i <= 2

\* Up to three anchors, of which one says one thing that it would not if the
\* periods were anchored in their order, each as it is closed and perhaps twice.
MCExplored(txs, written) ==
  LET closings(p) == {i \in DOMAIN txs : txs[i].events[1].node \in ClosingChoice
                                       /\ txs[i].at > MCBounds[p] /\ txs[i].at <= MCBounds[p+1]}
      before(i) == IF i = 1 THEN [anchor |-> [periodId |-> 0], anchorDigest |-> <<>>] ELSE written[i-1]
      misread(rows, p) == Len(rows) # Cardinality(closings(p)) \/ \E r \in Range(rows) : r.settledAt > p
      deviates(i) == LET a == written[i].anchor IN
        <<a.periodId # before(i).anchor.periodId + 1, misread(written[i].rows, a.periodId),
          a.reportDigest.rows # written[i].rows, a.prevAnchorDigest # before(i).anchorDigest>>
      again(i) == i > 1 /\ written[i] = written[i-1]
  IN  /\ MCAnchored(txs) \/ (written = <<>> /\ MCRead(txs))
      /\ Len(written) <= 3
      /\ Cardinality({x \in (DOMAIN written) \X (1..4) : ~again(x[1]) /\ deviates(x[1])[x[2]]}) <= 1

=============================================================================
