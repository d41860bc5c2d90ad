------------------------------- MODULE Canon -------------------------------
(***************************************************************************)
(* The canonical encoding that every digest of the SDK is taken of         *)
(* (digest.js).  A text is the sequence of its characters, and a document  *)
(* is the text itself, because what is at stake is whether two different   *)
(* values can ever give the same text; sha256 is taken to be injective, so *)
(* a digest is modelled by the text it is of.  Amounts are given in units  *)
(* of 1e-10 and times in microseconds.  The refusal of a Boolean where an  *)
(* integer is due, and the refusal of an empty text by textDigest, are     *)
(* type errors and are left out.                                           *)
(***************************************************************************)
EXTENDS Integers, Sequences, FiniteSets, TLC

\* Characters are strings of length one; these are the ones that the encoding
\* and the ids are put together with.
Marks ==
  { "t", "i", "b", "m", "p", "d", "o", "l", "r", "k", "a", "g", "s", "0", "1", "2", "3", "4", "5",
    "6", "7", "8", "9", "-", ":", "|", "=", ";", "/", "#", "_", ">" }
ASSUME MarksAssumption == Marks \subseteq STRING

Texts == Seq(STRING)

\* The text of a word that stands in the code.
Spell(word) == [i \in 1..Len(word) |-> SubSeq(word, i, i)]

\* Words of which none is the start of another.
Apart(words) ==
  \A v, w \in words : v # w =>
    \E i \in 1..Len(Spell(v)) : i <= Len(Spell(w)) /\ Spell(v)[i] # Spell(w)[i]

SCHEME_PREFIX == Spell("arccade-sdk-digest-v1")

Includes(text, character) == \E i \in 1..Len(text) : text[i] = character

\* A number in decimal.
Digit == <<"0", "1", "2", "3", "4", "5", "6", "7", "8", "9">>
Decimals(n) ==
  LET digits[k \in 0..n] ==
        IF k < 10 THEN <<Digit[k + 1]>> ELSE digits[k \div 10] \o <<Digit[(k % 10) + 1]>>
  IN  digits[n]
Numeral(n) == IF n < 0 THEN <<"-">> \o Decimals(-n) ELSE Decimals(n)

\* Variant for mutation: the value without its length.
CanonUnsized(tag, value) == <<tag, ":">> \o value

Canon(tag, value) == <<tag, ":">> \o Numeral(Len(value)) \o <<":">> \o value

CanonText(s) == Canon("t", s)
CanonInt(i) == Canon("i", Numeral(i))
CanonBool(b) == Canon("b", IF b THEN Spell("true") ELSE Spell("false"))
CanonTimeMicros(t) == Canon("m", Numeral(t))
CanonParty(p) == Canon("p", p)
CanonDecimal(units) == Canon("d", Numeral(units))

\* A text that may be null or undefined is a set of one or none; with none of
\* it stands the empty text.
OrEmpty(texts) == IF texts = {} THEN <<>> ELSE CHOOSE s \in texts : TRUE
CanonOptional(encoded) == Canon("o", OrEmpty(encoded))

\* The members of xs one after the other with a separator between them.
Joined(xs, separator) ==
  LET join[n \in 0..Len(xs)] ==
        IF n = 0 THEN <<>> ELSE join[n-1] \o (IF n > 1 THEN separator ELSE <<>>) \o xs[n]
  IN  join[Len(xs)]

CanonList(items) == Canon("l", Numeral(Len(items)) \o <<":">> \o Joined(items, <<"|">>))

\* Names are over [a-zA-Z0-9-], compared character by character.
NameCharacters == Spell("-0123456789ABCDEFGHIJKLMNOPQRSTUVWXYZabcdefghijklmnopqrstuvwxyz")
NameAlphabet == {NameCharacters[i] : i \in DOMAIN NameCharacters}
CodePoint == [c \in NameAlphabet |-> CHOOSE i \in DOMAIN NameCharacters : NameCharacters[i] = c]

ValidFieldName(name) == name # <<>> /\ \A i \in 1..Len(name) : name[i] \in NameAlphabet

\* Where they first differ, a has ended or has the smaller character.
NameBefore(a, b) ==
  \E i \in 1..Len(b) :
    /\ i <= Len(a) + 1
    /\ \A k \in 1..(i-1) : a[k] = b[k]
    /\ i <= Len(a) => CodePoint[a[i]] < CodePoint[b[i]]

\* kvs is a sequence of <<name, value>>.  The sort is stable: a field comes
\* after those of smaller names and those of its own name before it.
FieldBefore(kvs, i, j) ==
  \/ NameBefore(kvs[i][1], kvs[j][1])
  \/ kvs[i][1] = kvs[j][1] /\ i <= j
FieldRank(kvs, i) == Cardinality({j \in DOMAIN kvs : FieldBefore(kvs, j, i)})
SortedFields(kvs) == [r \in DOMAIN kvs |-> kvs[CHOOSE i \in DOMAIN kvs : FieldRank(kvs, i) = r]]

\* Fields in the order of their names.
Field(kv) == Canon("k", kv[1]) \o <<"=">> \o kv[2] \o <<";">>
CanonFields(kvs) ==
  LET sorted == SortedFields(kvs)
  IN  Canon("r", Joined([i \in DOMAIN sorted |-> Field(sorted[i])], <<>>))

CanonDocument(schema, version, kvs) ==
  SCHEME_PREFIX \o <<"|">> \o CanonText(schema) \o CanonInt(version) \o CanonFields(kvs)
=============================================================================
