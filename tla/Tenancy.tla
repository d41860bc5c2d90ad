------------------------------ MODULE Tenancy ------------------------------
(***************************************************************************)
(* How a service that serves several tenants names their assets, tells     *)
(* them apart and reads a tenant off a key (tenant.js, assets.js).  A      *)
(* random secret and its hash are the text they are of.                    *)
(***************************************************************************)
EXTENDS Canon

Lower ==
  { "a", "b", "c", "d", "e", "f", "g", "h", "i", "j", "k", "l", "m", "n", "o", "p", "q", "r",
    "s", "t", "u", "v", "w", "x", "y", "z", "0", "1", "2", "3", "4", "5", "6", "7", "8", "9" }
Over(text, alphabet) == \A i \in 1..Len(text) : text[i] \in alphabet
StartsAndEndsWith(text, alphabet) == {text[1], text[Len(text)]} \subseteq alphabet

ValidTenantId(t) ==
  /\ Len(t) \in 3..32 /\ Over(t, Lower \cup {"-"}) /\ StartsAndEndsWith(t, Lower)
  /\ ~\E i \in 1..(Len(t) - 1) : t[i] = "-" /\ t[i+1] = "-"

\* Variant for mutation: a local id may hold the separators.
ValidLocalIdLoose(l) == Len(l) \in 2..96

ValidLocalId(l) ==
  /\ Len(l) \in 2..96 /\ Over(l, Lower \cup {".", "_", "-"}) /\ StartsAndEndsWith(l, Lower)

ValidInstanceId(i) == Len(i) \in 4..64 /\ Over(i, Lower \cup {"-"})

\* The ids of a tenant's assets: none where the function throws.
NamespacedId(t, l) ==
  IF /\ ValidTenantId(t) /\ Len(l) \in 1..96
     /\ ~Includes(l, "/") /\ ~Includes(l, ":") /\ ~Includes(l, "|") THEN {t \o <<"/">> \o l} ELSE {}
FungibleId(t, l) ==
  IF ValidTenantId(t) /\ ValidLocalId(l) THEN {t \o <<"/">> \o l} ELSE {}
UniqueId(t, l, i) ==
  IF ValidTenantId(t) /\ ValidLocalId(l) /\ ValidInstanceId(i)
  THEN {t \o <<"/">> \o l \o <<"#">> \o i} ELSE {}

\* The text before and after the first occurrence of a character in it.
First(text, character) ==
  CHOOSE i \in 1..Len(text) : text[i] = character /\ ~Includes(SubSeq(text, 1, i-1), character)
Before(text, character) == SubSeq(text, 1, First(text, character) - 1)
After(text, character) == SubSeq(text, First(text, character) + 1, Len(text))

\* An id without a namespace, like the coin, belongs to no tenant: a tenant and
\* an instance are sets of one or none.
ParseInstrumentId(id) ==
  IF ~Includes(id, "/") THEN [tenantId |-> {}, localId |-> id]
  ELSE [tenantId |-> {Before(id, "/")}, localId |-> After(id, "/")]

ParseAsset(id) ==
  LET p == ParseInstrumentId(id) IN
  IF p.tenantId = {} \/ ~Includes(p.localId, "#")
  THEN [tenantId |-> p.tenantId, localId |-> p.localId, instanceId |-> {}]
  ELSE [tenantId |-> p.tenantId, localId |-> Before(p.localId, "#"),
        instanceId |-> {After(p.localId, "#")}]

IsUnique(id) == ParseAsset(id).instanceId # {}

AmountValidForAsset(id, amount) == amount > 0 /\ (IsUnique(id) => amount = 1)

TenantOwnsInstrument(t, id) ==
  ValidTenantId(t) /\ ParseInstrumentId(id).tenantId \subseteq {t}

TenantLegs(t, ids) == \A id \in ids : TenantOwnsInstrument(t, id)

\* -------------------------------------------------------------------- keys
KEY_PREFIX == <<"a", "g", "s", "_">>
TenantKey(t, random) ==
  IF ValidTenantId(t) THEN {KEY_PREFIX \o t \o <<"_">> \o random} ELSE {}

VerifyTenantKey(secret, expectedHash) == secret = expectedHash

\* The tenant a key names: none or one.
TenantIdFromKey(secret) ==
  IF Len(secret) < 4 \/ SubSeq(secret, 1, 4) # KEY_PREFIX THEN {} ELSE
  LET rest == SubSeq(secret, 5, Len(secret)) IN
  IF Includes(rest, "_") /\ ValidTenantId(Before(rest, "_")) THEN {Before(rest, "_")} ELSE {}
=============================================================================
