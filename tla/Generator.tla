----------------------------- MODULE Generator -----------------------------
(***************************************************************************)
(* The generator of the conformance suite (generate.mjs): the sources a    *)
(* maintainer writes, cases, catalog, decisions and the literals of the    *)
(* Daml tests, are run against the JavaScript client and give a manifest,  *)
(* or none.  A case's expectation is, in this order, the literal the Daml  *)
(* tests have for it, the value written by hand beside it, or what the     *)
(* capability's reference, or for want of one the client, gives.           *)
(* The sources are a record:                                               *)
(*   capabilities  what can be asked of a client: whether the catalog says *)
(*                 that the client has it (implJs), whether the generator  *)
(*                 can call it (run) or has a reference, and the symbols   *)
(*                 of Daml that may anchor it                              *)
(*   groups, profiles, rules, decisions and vectors, the Daml literals     *)
(*   references    what the reference gives, by case                       *)
(*   published     the values found in the files a golden may come from    *)
(*   minors        the minor versions of the clients and the package       *)
(*   packages      the package references the repository vouches for       *)
(*   participant   the packages held by the participants that answered     *)
(* The README's counts and the live anchor report are left out.            *)
(***************************************************************************)
EXTENDS Conformance

NoneWritten == "none"

CapabilityOf(source, c) == CHOOSE cap \in source.capabilities : cap.id = c.capability
CaseIds(source) == {c.id : c \in Cases(source)}
DecisionCases(source, d) == {c \in Cases(source) : c.decision = d.id}

\* ------------------------------------------------- what stops it at once
\* The clients and the ledger's package are of one minor version.
VersionsShared(source) == Cardinality(source.minors) = 1

\* Each id is declared once; the catalog's claim of an implementation and the
\* ability to call it go together, and a capability has one or a reference.
CatalogSound(source) ==
  /\ \A a, b \in source.capabilities : a.id = b.id => a = b
  /\ \A cap \in source.capabilities : (cap.run \/ cap.reference) /\ (cap.implJs <=> cap.run)
  /\ \A r \in source.rules : r.class \in RejectClass

\* A case is new, in its group and in the others, and names a capability; a value
\* written by hand says where it comes from, and no case has both a decision and
\* a Daml literal.
CaseSound(source, c) ==
  /\ \A g, h \in source.groups : \A d \in h.cases :
       c \in g.cases /\ c.id = d.id => c = d /\ g = h
  /\ c.capability \in CapabilityIds(source)
  /\ \A v \in source.vectors : v.key = c.id => c.decision = NoneWritten
  /\ c.written # NoneWritten /\ (\A v \in source.vectors : v.key # c.id)
       => c.golden # NoneWritten \/ c.decision # NoneWritten

\* A Daml literal is one of the kind its capability returns, and its assertion
\* mentions a symbol that capability may be anchored by.
VectorSound(source, c, v) ==
  /\ v.kind = CapabilityOf(source, c).returns
  /\ v.mentions \cap CapabilityOf(source, c).symbols # {}

SourcesRead(source) ==
  /\ source.vectors # {} /\ \A v, w \in source.vectors : v.key = w.key => v = w
  /\ CatalogSound(source)
  /\ \A c \in Cases(source) :
       /\ CaseSound(source, c)
       /\ \A v \in source.vectors : v.key = c.id => VectorSound(source, c, v)

\* ------------------------------------------------------------- observation
\* What a call of the client gives: a call it does not export is refused with a
\* message no rule knows, as is an argument that cannot be decoded.
Driven(source, client, c) ==
  IF c.capability \in client.notExported \/ client.does[c.id] = Unreadable THEN Unclassified
  ELSE Classify(source.rules, client.does[c.id])

\* The reference goes before the client.
Observed(source, client, c) ==
  IF CapabilityOf(source, c).reference /\ client.does[c.id] # Unreadable
  THEN Classify(source.rules, source.references[c.id])
  ELSE Driven(source, client, c)

\* The literal of the Daml tests for a case, if they have one.
Anchor(source, c) == {v.literal : v \in {w \in source.vectors : w.key = c.id}}

Expectation(source, client, c) ==
  IF Anchor(source, c) # {} THEN Anchor(source, c)
  ELSE IF c.written # NoneWritten THEN {c.written} ELSE {Observed(source, client, c)}

\* A case a decision pins and the client does not agree with, and what it did.
Divergences(source, client) ==
  {[id |-> c.id, decision |-> c.decision, observed |-> Observed(source, client, c)] :
     c \in {d \in Cases(source) : /\ Anchor(source, d) = {} /\ d.golden = NoneWritten
                                  /\ d.decision # NoneWritten /\ d.written # NoneWritten
                                  /\ Observed(source, client, d) # d.written}}

\* --------------------------------------- what is collected and stops it at the end
\* A client that disagrees with the reference.
ReferenceHolds(source, client, c) ==
  CapabilityOf(source, c).reference /\ CapabilityOf(source, c).run =>
    Driven(source, client, c) = Observed(source, client, c)

\* Variant for mutation: the literal is what is expected, and nothing is held
\* against it.
AnchorAdopted(source, client, c) ==
  \A literal \in Anchor(source, c) : c.written \in {NoneWritten, literal}

\* The literal is held against the value written by hand, and the client's
\* against the literal.
AnchorHolds(source, client, c) ==
  \A literal \in Anchor(source, c) :
    c.written \in {NoneWritten, literal} /\ Observed(source, client, c) = literal

\* A published value must still come out; a pinned disagreement must still be
\* one, unless the case says that it may agree; a refusal must have a class.
WrittenHolds(source, client, c) ==
  /\ c.written = NoneWritten => Observed(source, client, c) # Unclassified
  /\ Anchor(source, c) = {} /\ c.written # NoneWritten =>
       IF c.golden # NoneWritten THEN Observed(source, client, c) = c.written
       ELSE Observed(source, client, c) = c.written => c.mayAgree

\* A golden is found in the file it is said to come from, and where it names
\* none the Daml tests have it; one without a value of its own makes the
\* generator throw.
Provenance(source, c) ==
  c.golden # NoneWritten /\ (c.written # NoneWritten \/ Anchor(source, c) # {}) =>
    /\ c.written # NoneWritten
    /\ IF c.golden = "file" THEN c.written \in source.published ELSE Anchor(source, c) # {}

\* A decision has cases, each said once, and it says that JavaScript goes red on
\* them exactly when it does.
DecisionHolds(source, client, d) ==
  /\ d.governs \subseteq CaseIds(source)
  /\ d.governs \cap {c.id : c \in DecisionCases(source, d)} = {}
  /\ d.governs # {} \/ DecisionCases(source, d) # {}
  /\ d.goesRed <=> \E x \in Divergences(source, client) : x.decision = d.id

\* Every group, capability and profile is of use and declared, each case is in
\* one profile, and no value is a bare number.
AssemblyHolds(source) ==
  /\ {g.profile : g \in source.groups} \cup {cap.profile : cap \in source.capabilities} \subseteq source.profiles
  /\ \A id \in CapabilityIds(source) : \E c \in Cases(source) : c.capability = id
  /\ \A p \in source.profiles : CasesIn(source, p) # {}
  /\ \A c \in Cases(source) : c.pinned

\* A Daml literal that is held against nothing, and a rule of refusals that no
\* case exercises.
VectorsUsed(source) == {v.key : v \in source.vectors} \subseteq CaseIds(source)
RulesUsed(source, client) ==
  \A r \in source.rules : \E c \in Cases(source) :
    r.class \in {Observed(source, client, c)} \cup
                (IF CapabilityOf(source, c).run THEN {Driven(source, client, c)} ELSE {})

\* The table of refusals is the one in the source of the runner.
RulesAreTheRunners(source, client) == source.rules = client.rejectMap

\* Every package a case names is one the repository knows, and one that each
\* participant that answered holds.
PackagesKnown(source) ==
  LET named == UNION {c.packages : c \in Cases(source)} IN
  named \subseteq source.packages /\ \A held \in source.participant : named \subseteq held

NoProblems(source, client) ==
  /\ \A c \in Cases(source) :
       /\ ReferenceHolds(source, client, c) /\ AnchorHolds(source, client, c)
       /\ WrittenHolds(source, client, c) /\ Provenance(source, c)
  /\ \A d \in source.decisions : DecisionHolds(source, client, d)
  /\ AssemblyHolds(source) /\ VectorsUsed(source) /\ RulesUsed(source, client)
  /\ RulesAreTheRunners(source, client) /\ PackagesKnown(source)

\* -------------------------------------------------------------- the manifest
Manifest(source, client) ==
  LET cases(g) == {[id |-> c.id, capability |-> c.capability, needs |-> c.needs,
                    expect |-> Expectation(source, client, c), pinned |-> c.pinned] : c \in g.cases}
  IN
  [ groups |-> {[name |-> g.name, profile |-> g.profile, cases |-> cases(g),
                 stated |-> Cardinality(g.cases)] : g \in source.groups},
    profiles |-> source.profiles,
    byProfile |-> [p \in source.profiles |-> Cardinality(CasesIn(source, p))],
    capabilities |-> {[id |-> cap.id, profile |-> cap.profile, implJs |-> cap.implJs] : cap \in source.capabilities},
    retiredIds |-> {}, rejectMap |-> client.rejectMap, divergences |-> Divergences(source, client),
    totalCases |-> Cardinality(Cases(source)),
    divergentCases |-> Cardinality(Divergences(source, client)),
    casesWithNoJavaScriptImpl |-> Cardinality({c \in Cases(source) : ~CapabilityOf(source, c).run}) ]

\* 0 when the manifest is written; a throw counts as a refusal.
GeneratorExit(source, client) ==
  IF PackageResolves(client) /\ VersionsShared(source) /\ SourcesRead(source) /\ NoProblems(source, client) THEN 0 ELSE 2

\* With --check nothing is written and the manifest on disk is compared.
CheckExit(source, client, onDisk) ==
  IF GeneratorExit(source, client) # 0 THEN 2
  ELSE IF Manifest(source, client) = onDisk THEN 0 ELSE 1
=============================================================================
