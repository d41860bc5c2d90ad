---------------------------- MODULE AuditReader ----------------------------
(***************************************************************************)
(* The transactions of a venue and the reader that joins their two halves  *)
(* into report rows (cycleAudit.js).  The reader is handed transactions in *)
(* whatever order and as often as the stream or a repeated window delivers *)
(* them.  A transaction is a record of its effective time and its events.  *)
(***************************************************************************)
EXTENDS Canon, SequencesExt

CONSTANTS
  Stake,          \* contract ids of the stakes
  CycleIdOf,      \* [Stake -> text]: nothing makes a cycle id unique
  UnitsOf,        \* [Stake -> Nat]: the amount committed
  Outcome,        \* what an operator may declare when it settles
  NoOutcome,
  Times,          \* the effective times a transaction may have
  MaxHalves,      \* how many commits or closings one transaction may hold
  MaxReads        \* how many transactions the reader is handed at most

VARIABLES
  ledger,         \* the transactions, in the order of their offsets
  read            \* positions in the ledger, in the order they were delivered

readerVars == <<ledger, read>>

\* Ids are over the characters that NameBefore orders; no commit accepts an
\* empty one.
ASSUME ReaderAssumption ==
  /\ MaxHalves \in Nat
  /\ UnitsOf \in [Stake -> Nat]
  /\ \A s \in Stake : CycleIdOf[s] \in Texts /\ ValidFieldName(CycleIdOf[s])
  /\ Times \subseteq Int
  /\ Outcome \subseteq [disposition : STRING, returned : Int, forfeited : Int, payout : Int]

ClosingChoice == {"GameStake_Settle", "GameStake_Abort", "GameStake_ExpireUnsettled"}

\* ------------------------------------------------------------ the reader
Txs(positions) == [i \in DOMAIN positions |-> ledger[positions[i]]]

\* The first event of these kinds in a transaction: one, or none.
Find(tx, names) ==
  {tx.events[i] : i \in {j \in DOMAIN tx.events :
     tx.events[j].node \in names /\ \A k \in 1..(j-1) : tx.events[k].node \notin names}}

\* The facts of a half: one record, or none.
CommitFacts(tx) ==
  IF Find(tx, {"Entitlement_Commit"}) = {} THEN {} ELSE
  {[stake |-> e.stake, cycleId |-> CycleIdOf[e.stake], committedAt |-> e.at,
    committed |-> UnitsOf[e.stake]] : e \in Find(tx, {"GameStake"})}

\* unlocked is what the first amulet created in the transaction holds.
ClosingFacts(tx) ==
  {[stake |-> e.stake, choice |-> e.node, settledAt |-> tx.at, outcome |-> e.outcome,
    unlocked |-> {UnitsOf[u.stake] : u \in Find(tx, {"Amulet"})}] : e \in Find(tx, ClosingChoice)}

\* Variant for mutation: an abort is read like a settlement that says nothing.
ExitAmountsDeclared(commit, closing) ==
  IF closing.choice = "GameStake_Settle" THEN closing.outcome
  ELSE [disposition |-> "aborted", returned |-> 0, forfeited |-> 0, payout |-> 0]

\* A settlement declares its amounts; the other two return the stake.
ExitAmounts(commit, closing) ==
  IF closing.choice = "GameStake_Settle" THEN closing.outcome
  ELSE [disposition |-> IF closing.choice = "GameStake_Abort" THEN "aborted" ELSE "expired-unsettled",
        returned |-> commit.committed, forfeited |-> 0, payout |-> 0]

\* A map from stakes to facts, in the order of insertion; what is delivered
\* later replaces in place.
Put(map, f) ==
  IF \E i \in DOMAIN map : map[i].stake = f.stake
  THEN [i \in DOMAIN map |-> IF map[i].stake = f.stake THEN f ELSE map[i]]
  ELSE Append(map, f)

\* What a list of none or one fact each puts into an empty map.
MapOf(facts) ==
  LET map[n \in 0..Len(facts)] ==
        IF n = 0 THEN <<>>
        ELSE IF facts[n] = {} THEN map[n-1]
        ELSE Put(map[n-1], CHOOSE f \in facts[n] : TRUE)
  IN  map[Len(facts)]
CommitMap(txs) == MapOf([i \in DOMAIN txs |-> CommitFacts(txs[i])])
ClosingMap(txs) == MapOf([i \in DOMAIN txs |-> ClosingFacts(txs[i])])
Stakes(map) == {map[i].stake : i \in DOMAIN map}
FactOf(map, s) == map[CHOOSE i \in DOMAIN map : map[i].stake = s]

RowOf(commit, closing) ==
  [cycleId |-> commit.cycleId, committed |-> commit.committed,
   committedAt |-> commit.committedAt, settledAt |-> closing.settledAt,
   exit |-> ExitAmounts(commit, closing)]

\* Variant for mutation: rows are left in the order of their arrival.
RowBeforeNever(a, b) == FALSE

\* The order of a report: by commit time, then by code points of the cycle id.
RowBefore(a, b) ==
  \/ a.committedAt < b.committedAt
  \/ a.committedAt = b.committedAt /\ NameBefore(a.cycleId, b.cycleId)

\* The members of S, each once, in an order given as a set of pairs.
InOrder(S, before) ==
  CHOOSE s \in [1..Cardinality(S) -> S] :
    \A i, j \in 1..Cardinality(S) : i < j => s[i] # s[j] /\ <<s[i], s[j]>> \in before

\* The result of reading: rows, warnings and the halves without their other.
\* Rows that tie keep the order of their commits' arrival.
JoinHalves(commits, closings, paired) ==
  LET closingOf(c) == FactOf(closings, c.stake)
      row(i) == RowOf(commits[i], closingOf(commits[i]))
      joined == {i \in DOMAIN commits : commits[i].stake \in paired}
      first(i, j) == RowBefore(row(i), row(j)) \/ (~RowBefore(row(j), row(i)) /\ i < j)
      order == InOrder(joined, {x \in joined \X joined : first(x[1], x[2])})
      disagrees(c) == \E u \in closingOf(c).unlocked : u # ExitAmounts(c, closingOf(c)).returned
  IN  [rows |-> [i \in 1..Cardinality(joined) |-> row(order[i])],
       warnings |-> {commits[i].cycleId : i \in {j \in joined : disagrees(commits[j])}},
       openStakes |-> Stakes(commits) \ Stakes(closings),
       orphanClosings |-> Stakes(closings) \ Stakes(commits)]

\* Variant for mutation: a closing is joined to the commits delivered before it.
RowsInOrderOfArrival(txs) ==
  LET commits == CommitMap(txs)
      closings == ClosingMap(txs)
  IN  JoinHalves(commits, closings, {s \in Stakes(commits) :
        \E i \in DOMAIN txs :
          /\ \E f \in ClosingFacts(txs[i]) : f.stake = s
          /\ s \in Stakes(CommitMap(SubSeq(txs, 1, i)))})

RowsFromTransactions(txs) ==
  LET commits == CommitMap(txs)
      closings == ClosingMap(txs)
  IN  JoinHalves(commits, closings, Stakes(closings))

\* ------------------------------------------------------------ the ledger
Holding(s, nodes) ==
  \E i \in DOMAIN ledger : \E j \in DOMAIN ledger[i].events :
     ledger[i].events[j].node \in nodes /\ ledger[i].events[j].stake = s
Committed(s) == Holding(s, {"GameStake"})
Closed(s) == Holding(s, ClosingChoice)

Event(node, s, at, outcome) == [node |-> node, stake |-> s, at |-> at, outcome |-> outcome]

Submit(t, events) ==
  /\ read = <<>>
  /\ ledger' = Append(ledger, [at |-> t, events |-> events])
  /\ UNCHANGED read

\* The stakes whose halves one transaction holds, in their order.
Several ==
  {ss \in UNION {[1..n -> Stake] : n \in 1..MaxHalves} : \A i, j \in DOMAIN ss : ss[i] = ss[j] => i = j}

\* Two events for each stake.
Pairs(ss, First(_), Second(_)) ==
  [k \in 1..(2 * Len(ss)) |-> IF k % 2 = 1 THEN First(ss[(k + 1) \div 2]) ELSE Second(ss[k \div 2])]

\* Commits of up to MaxHalves stakes in one transaction.
Commit ==
  \E ss \in Several, t \in Times :
    /\ \A i \in DOMAIN ss : ~Committed(ss[i])
    /\ Submit(t, Pairs(ss, LAMBDA s : Event("Entitlement_Commit", s, 0, NoOutcome),
                           LAMBDA s : Event("GameStake", s, t, NoOutcome)))

\* A settlement says what it returns, and returns what was committed.
ClosingEvent(choice, s, o) ==
  Event(choice, s, 0, IF choice = "GameStake_Settle" THEN [o EXCEPT !.returned = UnitsOf[s]] ELSE NoOutcome)

\* Closings of up to MaxHalves stakes.  A settlement and an abort may unlock
\* the holding in the same transaction, an expiry leaves it to another.
Close ==
  \E ss \in Several, t \in Times, choice \in ClosingChoice, o \in Outcome, unlocks \in BOOLEAN :
    /\ \A i \in DOMAIN ss : Committed(ss[i]) /\ ~Closed(ss[i])
    /\ choice = "GameStake_ExpireUnsettled" => ~unlocks
    /\ choice # "GameStake_Settle" => o = CHOOSE p \in Outcome : TRUE
    /\ Submit(t, IF unlocks
                 THEN Pairs(ss, LAMBDA s : ClosingEvent(choice, s, o),
                                LAMBDA s : Event("Amulet", s, 0, NoOutcome))
                 ELSE [k \in DOMAIN ss |-> ClosingEvent(choice, ss[k], o)])

\* The stream delivers a transaction, perhaps once more or out of order.
Deliver ==
  /\ Len(read) < MaxReads
  /\ \E i \in DOMAIN ledger : read' = Append(read, i)
  /\ UNCHANGED ledger

ReaderInit == ledger = <<>> /\ read = <<>>
ReaderNext == Commit \/ Close \/ Deliver
ReaderSpec == ReaderInit /\ [][ReaderNext]_readerVars
=============================================================================
