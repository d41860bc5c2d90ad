---------------------------- MODULE Conformance ----------------------------
(***************************************************************************)
(* The conformance runner of the JavaScript client (runners/run.mjs): a    *)
(* manifest is checked, cases are selected by flags, each is run against   *)
(* the client, and the run ends with an exit code.  A manifest is a record *)
(* of cases, groups, profiles, capabilities and the counts it states of    *)
(* itself; a client is what it exports and, for each case, what comes of   *)
(* it: a value, or the class of a refusal.  Reports and the files written  *)
(* are left out.                                                           *)
(***************************************************************************)
EXTENDS Integers, FiniteSets

RejectClass ==
  { "bad-type", "bad-format", "out-of-range", "precision-loss",
    "unknown-tag", "invariant-violated", "not-injective" }

\* A refusal no rule of the table knows, and an input that cannot be decoded.
Unclassified == "unclassified"
Unreadable == "unreadable"

\* The class of a refusal under a table of rules; a value is itself.
Classify(rules, observed) ==
  IF observed \in RejectClass \ {r.class : r \in rules} THEN Unclassified ELSE observed

\* A consumer can import the client: its entry is declared, is there, is among
\* the files that are published, and is the one the suite is about.
EntryFacts == {"declared", "exists", "shipped", "expected"}
PackageResolves(client) == client.entry = EntryFacts

GroupOf(manifest, c) == CHOOSE g \in manifest.groups : c \in g.cases
\* The profile that selects a case is its group's, not its capability's.
ProfileOf(manifest, c) == GroupOf(manifest, c).profile
Cases(manifest) == UNION {g.cases : g \in manifest.groups}
CapabilityIds(manifest) == {cap.id : cap \in manifest.capabilities}
CasesIn(manifest, p) == {c \in Cases(manifest) : ProfileOf(manifest, c) = p}

\* --------------------------------------------------------------- integrity
\* Every case is in one group once, was not retired, names a capability of the
\* catalog, expects one thing, and its texts are pinned by their bytes.
CasesSound(manifest) ==
  /\ \A c, d \in Cases(manifest) : c.id = d.id => c = d
  /\ \A g, h \in manifest.groups : g # h => g.cases \cap h.cases = {}
  /\ \A c \in Cases(manifest) :
       /\ c.id \notin manifest.retiredIds
       /\ c.capability \in CapabilityIds(manifest)
       /\ Cardinality(c.expect) = 1
       /\ c.pinned

\* Every profile that is declared is in use, every one in use is declared, and
\* the manifest's own table of them is right.
ProfilesSound(manifest) ==
  /\ {g.profile : g \in manifest.groups} \subseteq manifest.profiles
  /\ \A p \in manifest.profiles : CasesIn(manifest, p) # {}
  /\ DOMAIN manifest.byProfile = manifest.profiles
  /\ \A p \in manifest.profiles : manifest.byProfile[p] = Cardinality(CasesIn(manifest, p))

\* No capability without a case, and the counts of the summary are those of the
\* file.
CountsSound(manifest) ==
  /\ \A id \in CapabilityIds(manifest) : \E c \in Cases(manifest) : c.capability = id
  /\ manifest.totalCases = Cardinality(Cases(manifest))
  /\ \A g \in manifest.groups : g.stated = Cardinality(g.cases)

Dispatchable(client, id) == id \in client.dispatched /\ id \notin client.notExported

\* The catalog claims an implementation of exactly what the runner can drive.
ImplSound(manifest, client) ==
  \A cap \in manifest.capabilities : cap.implJs <=> Dispatchable(client, cap.id)

RejectMapsAgree(manifest, client) == manifest.rejectMap = client.rejectMap

Trustworthy(manifest, client) ==
  /\ manifest.capabilities # {} /\ manifest.profiles # {}
  /\ CasesSound(manifest) /\ ProfilesSound(manifest) /\ CountsSound(manifest)
  /\ ImplSound(manifest, client) /\ RejectMapsAgree(manifest, client)

\* --------------------------------------------------------------- selection
\* flags.profiles is {} without the flag; "all" stands alone.
FlagsAccepted(manifest, flags) ==
  /\ "all" \in flags.profiles => flags.profiles = {"all"}
  /\ flags.profiles \subseteq manifest.profiles \cup {"all"}
  /\ \A id \in flags.cases : \E c \in Cases(manifest) : c.id = id
  /\ \A n \in flags.groups : \E g \in manifest.groups : g.name = n

ProfilesNamed(manifest, flags) ==
  IF flags.profiles \in {{}, {"all"}} THEN manifest.profiles ELSE flags.profiles

\* Variant for mutation: selection by the profile of the capability.
SelectedByCapability(manifest, flags) ==
  {c \in Cases(manifest) :
     /\ \E cap \in manifest.capabilities :
           cap.id = c.capability /\ cap.profile \in ProfilesNamed(manifest, flags)
     /\ flags.cases # {} => c.id \in flags.cases
     /\ flags.groups # {} => GroupOf(manifest, c).name \in flags.groups}

Selected(manifest, flags) ==
  {c \in Cases(manifest) :
     /\ ProfileOf(manifest, c) \in ProfilesNamed(manifest, flags)
     /\ flags.cases # {} => c.id \in flags.cases
     /\ flags.groups # {} => GroupOf(manifest, c).name \in flags.groups}

\* --------------------------------------------------------------- one case
\* Variant for mutation: a refusal no rule knows counts as the one expected.
StatusLenient(c, client) ==
  IF ~c.needs \subseteq client.traits THEN "not-applicable"
  ELSE IF ~Dispatchable(client, c.capability) THEN "unsupported"
  ELSE IF client.does[c.id] = Unreadable THEN "error"
  ELSE IF Classify(client.rejectMap, client.does[c.id]) = Unclassified
       THEN IF c.expect \subseteq RejectClass THEN "pass" ELSE "error"
  ELSE IF c.expect = {client.does[c.id]} THEN "pass" ELSE "fail"

Status(c, client) ==
  IF ~c.needs \subseteq client.traits THEN "not-applicable"
  ELSE IF ~Dispatchable(client, c.capability) THEN "unsupported"
  ELSE IF client.does[c.id] = Unreadable THEN "error"
  ELSE IF Classify(client.rejectMap, client.does[c.id]) = Unclassified THEN "error"
  ELSE IF c.expect = {client.does[c.id]} THEN "pass" ELSE "fail"

\* -------------------------------------------------------------- the verdict
Tally(cases, client, status) == Cardinality({c \in cases : Status(c, client) = status})

\* A whole run is held against the counts the manifest states of the client,
\* unless its report is suppressed.
CountsMismatch(manifest, client, flags) ==
  LET cases == Selected(manifest, flags) IN
  /\ ~flags.quiet
  /\ flags.cases = {} /\ flags.groups = {} /\ ProfilesNamed(manifest, flags) = manifest.profiles
  /\ \/ manifest.divergentCases # Tally(cases, client, "fail")
     \/ manifest.casesWithNoJavaScriptImpl # Tally(cases, client, "unsupported")

RunnerExit(manifest, client, flags) ==
  LET cases == Selected(manifest, flags) IN
  IF \/ ~PackageResolves(client) \/ ~Trustworthy(manifest, client) \/ ~FlagsAccepted(manifest, flags)
     \/ CountsMismatch(manifest, client, flags) THEN 2
  ELSE IF Tally(cases, client, "fail") + Tally(cases, client, "error") > 0 THEN 1
  ELSE IF Tally(cases, client, "unsupported") > 0 THEN 3
  ELSE 0
=============================================================================
