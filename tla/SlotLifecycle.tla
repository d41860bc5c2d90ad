---------------------------- MODULE SlotLifecycle ----------------------------
(***************************************************************************)
(* What a concurrency slot promises (Cycle.daml 306-318): it is issued at  *)
(* most once, it carries at most one open cycle at a time, only closing an *)
(* open cycle can count, by one, and a slot that was given up never comes  *)
(* back.  Cycle.tla implements this specification.                         *)
(***************************************************************************)
EXTENDS Integers

CONSTANTS Player, Index

VARIABLES
  state,      \* of each slot
  counted     \* the cycles the slot's contract claims to have completed

Slot == Player \X Index

Init ==
  /\ state = [s \in Slot |-> "unissued"]
  /\ counted = [s \in Slot |-> 0]

\* The indices a policy can grant: all those below its limit.
Grants == {{i \in Index : i < limit} : limit \in Index} \cup {Index}

\* A batch of players is given the granted slots; the others will never exist
\* for them.
Issue(batch, granted) ==
  /\ \A s \in Slot : s[1] \in batch => state[s] = "unissued"
  /\ state' = [s \in Slot |-> IF s[1] \notin batch THEN state[s]
                              ELSE IF s[2] \in granted THEN "idle" ELSE "gone"]
  /\ UNCHANGED counted

Open(s) ==
  /\ state[s] = "idle"
  /\ state' = [state EXCEPT ![s] = "open"]
  /\ UNCHANGED counted

Close(s, gain) ==
  /\ state[s] = "open"
  /\ state' = [state EXCEPT ![s] = "idle"]
  /\ counted' = [counted EXCEPT ![s] = @ + gain]

Leave(s) ==
  /\ state[s] = "idle"
  /\ state' = [state EXCEPT ![s] = "gone"]
  /\ counted' = [counted EXCEPT ![s] = 0]

Next ==
  \/ \E batch \in SUBSET Player, granted \in Grants : Issue(batch, granted)
  \/ \E s \in Slot : Open(s) \/ Close(s, 0) \/ Close(s, 1) \/ Leave(s)

Spec == Init /\ [][Next]_<<state, counted>>
=============================================================================
