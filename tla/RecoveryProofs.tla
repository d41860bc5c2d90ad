--------------------------- MODULE RecoveryProofs ---------------------------
(***************************************************************************)
(* What a run of the two scripts is evidence of, for every delay, skew and *)
(* number of lost messages.  A run whose checks have all passed so far has *)
(* left exactly the contracts and the refusals that its step calls for     *)
(* (Tidy), each counted as it should be; and a prompt run has met the      *)
(* times it must meet (Timely).                                            *)
(***************************************************************************)
EXTENDS RecoveryProperties, NumberProofs, SequenceTheorems

ScriptOK ==
  /\ script \in {"first-cycle", "recovery"} /\ separate \in BOOLEAN /\ keep \in BOOLEAN
  /\ skew \in Skew /\ pc \in Nat /\ faults \in Nat /\ took \in Seq(Delay)
  /\ ended \in {"running", "green", "failed", "crashed"}
  /\ failures = {} \/ ended # "green"

\* The contracts that are there after n steps.
Alive(id, n) ==
  IF script = "recovery"
  THEN \/ id = "venue" /\ 1 <= n /\ (keep \/ n < 16)
       \/ id = "roster" /\ 2 <= n /\ (keep \/ n < 17)
       \/ id = "slot0" /\ n = 3
       \/ id = "slot1" /\ 3 <= n /\ n < 8
       \/ id = "aborting" /\ 4 <= n /\ n < 6
       \/ id = "aborted" /\ 6 <= n /\ (keep \/ n < 19)
       \/ id = "expiring" /\ 8 <= n /\ n < 12
       \/ id = "expired" /\ n = 12
       \/ id = "reused" /\ 13 <= n /\ n < 15
       \/ id = "settled" /\ 15 <= n /\ (keep \/ n < 18)
  ELSE \/ id = "venue" /\ 1 <= n
       \/ id = "roster" /\ 2 <= n
       \/ id = "slot0" /\ n = 3
       \/ id = "stake" /\ n = 4
       \/ id = "settled" /\ 5 <= n

\* The refusals that were due in n steps.
Due(n) ==
  (IF n >= 7 THEN {<<"too-soon", "cooldown">>} ELSE {})
    \cup (IF n >= 9 THEN {<<"expire-early", "lock">>} ELSE {})
    \cup (IF n >= 14 THEN {<<"forfeit", "forfeit">>} ELSE {})
    \cup (IF separate /\ n >= 5 THEN {<<"abort-solo", "authority">>} ELSE {})
    \cup (IF separate /\ n >= 11 THEN {<<"expire-venue", "authority">>} ELSE {})

\* Every contract once, with the cycles it should have counted.
IdsOf(con) == {c.id : c \in con}
OneEach(con) == \A c, d \in con : c.id = d.id => c = d
CountedRight(c) ==
  c.id \notin {"venue", "roster"} => c.completed = IF c.id = "settled" THEN 1 ELSE 0
Counts(con) == \A c \in con : CountedRight(c)

Tidy ==
  /\ OneEach(contracts) /\ Counts(contracts)
  /\ \A id : id \in IdsOf(contracts) <=> Alive(id, pc)
  /\ script = "recovery" => refused = Due(pc)

Orderly == ended = "running" /\ failures = {} => Tidy

-----------------------------------------------------------------------------
(* Contracts replaced and archived. *)

LEMMA Replaced ==
  ASSUME NEW con, OneEach(con), Counts(con), NEW x \in con, NEW y, CountedRight(y),
         y.id \notin IdsOf(con)
  PROVE  LET new == (con \ {x}) \cup {y} IN
         /\ OneEach(new) /\ Counts(new)
         /\ IdsOf(new) = (IdsOf(con) \ {x.id}) \cup {y.id}
  <1> DEFINE new == (con \ {x}) \cup {y}
  <1>1. OneEach(new)
    BY DEF OneEach, IdsOf
  <1>2. Counts(new)
    BY DEF Counts
  <1>3. IdsOf(new) = (IdsOf(con) \ {x.id}) \cup {y.id}
    BY DEF IdsOf, OneEach
  <1> QED
    BY <1>1, <1>2, <1>3

LEMMA Removed ==
  ASSUME NEW con, OneEach(con), Counts(con), NEW x \in con
  PROVE  LET new == con \ {x} IN
         OneEach(new) /\ Counts(new) /\ IdsOf(new) = IdsOf(con) \ {x.id}
  BY DEF OneEach, Counts, IdsOf

LEMMA TheIs ==
  ASSUME OneEach(contracts), NEW id, Active(id)
  PROVE  /\ The(id) \in contracts /\ The(id).id = id /\ id \in IdsOf(contracts)
         /\ \A c \in contracts : c.id = id => c = The(id)
  BY DEF OneEach, Active, The, IdsOf

LEMMA ActiveIs == \A id : Active(id) <=> id \in IdsOf(contracts)
  BY DEF Active, IdsOf

-----------------------------------------------------------------------------
(* Where the scripts are. *)

RecoveryStep(n, name) ==
  \/ n = 0 /\ name = "venue"
  \/ n = 1 /\ name = "roster"
  \/ n = 2 /\ name = "issue"
  \/ n = 3 /\ name = "commit-abort"
  \/ n = 4 /\ name = "abort-solo"
  \/ n = 5 /\ name = "abort"
  \/ n = 6 /\ name = "too-soon"
  \/ n = 7 /\ name = "commit-expire"
  \/ n = 8 /\ name = "expire-early"
  \/ n = 9 /\ name = "wait"
  \/ n = 10 /\ name = "expire-venue"
  \/ n = 11 /\ name = "expire"
  \/ n = 12 /\ name = "commit-again"
  \/ n = 13 /\ name = "forfeit"
  \/ n = 14 /\ name = "settle"
  \/ n = 15 /\ name = "archive-venue"
  \/ n = 16 /\ name = "archive-roster"
  \/ n = 17 /\ name = "archive-settled"
  \/ n = 18 /\ name = "archive-aborted"
  \/ n = 19 /\ name = "query"

FirstStep(n, name) ==
  \/ n = 0 /\ name = "venue"
  \/ n = 1 /\ name = "roster"
  \/ n = 2 /\ name = "issue"
  \/ n = 3 /\ name = "commit"
  \/ n = 4 /\ name = "settle"
  \/ n = 5 /\ name = "verify"

ScriptStep(name) ==
  IF script = "recovery" THEN RecoveryStep(pc, name) ELSE FirstStep(pc, name)

LEMMA StepIs ==
  ASSUME ScriptOK, NEW name, AtStep(name)
  PROVE  ended = "running" /\ ScriptStep(name)
  <1>1. ended = "running" /\ pc \in Nat /\ pc < Len(Steps) /\ Steps[pc + 1] = name
    BY DEF AtStep, ScriptOK
  <1> DEFINE i == pc + 1
  <1>4. Steps[i] = name
    BY <1>1
  <1>2. CASE script = "recovery"
    <2>1. /\ Len(Steps) = 20
          /\ Steps[1] = "venue" /\ Steps[2] = "roster" /\ Steps[3] = "issue"
          /\ Steps[4] = "commit-abort" /\ Steps[5] = "abort-solo" /\ Steps[6] = "abort"
          /\ Steps[7] = "too-soon" /\ Steps[8] = "commit-expire" /\ Steps[9] = "expire-early"
          /\ Steps[10] = "wait" /\ Steps[11] = "expire-venue" /\ Steps[12] = "expire"
          /\ Steps[13] = "commit-again" /\ Steps[14] = "forfeit" /\ Steps[15] = "settle"
          /\ Steps[16] = "archive-venue" /\ Steps[17] = "archive-roster"
          /\ Steps[18] = "archive-settled" /\ Steps[19] = "archive-aborted"
          /\ Steps[20] = "query"
      BY <1>2 DEF Steps
    <2>2. pc \in 0..19
      BY <1>1, <2>1
    <2>3. \/ (pc = 0 /\ i = 1) \/ (pc = 1 /\ i = 2) \/ (pc = 2 /\ i = 3) \/ (pc = 3 /\ i = 4)
          \/ (pc = 4 /\ i = 5) \/ (pc = 5 /\ i = 6) \/ (pc = 6 /\ i = 7) \/ (pc = 7 /\ i = 8)
          \/ (pc = 8 /\ i = 9) \/ (pc = 9 /\ i = 10) \/ (pc = 10 /\ i = 11) \/ (pc = 11 /\ i = 12)
          \/ (pc = 12 /\ i = 13) \/ (pc = 13 /\ i = 14) \/ (pc = 14 /\ i = 15) \/ (pc = 15 /\ i = 16)
          \/ (pc = 16 /\ i = 17) \/ (pc = 17 /\ i = 18) \/ (pc = 18 /\ i = 19) \/ (pc = 19 /\ i = 20)
      BY <2>2
    <2> HIDE DEF i
    <2> QED
      BY <1>1, <1>4, <1>2, <2>1, <2>3 DEF ScriptStep, RecoveryStep
  <1>3. CASE script # "recovery"
    <2>1. /\ Len(Steps) = 6
          /\ Steps[1] = "venue" /\ Steps[2] = "roster" /\ Steps[3] = "issue"
          /\ Steps[4] = "commit" /\ Steps[5] = "settle" /\ Steps[6] = "verify"
      BY <1>3 DEF Steps, ScriptOK
    <2>2. \/ (pc = 0 /\ i = 1) \/ (pc = 1 /\ i = 2) \/ (pc = 2 /\ i = 3)
          \/ (pc = 3 /\ i = 4) \/ (pc = 4 /\ i = 5) \/ (pc = 5 /\ i = 6)
      BY <1>1, <2>1
    <2> HIDE DEF i
    <2> QED
      BY <1>1, <1>4, <1>3, <2>1, <2>2 DEF ScriptStep, FirstStep
  <1> QED
    BY <1>2, <1>3

-----------------------------------------------------------------------------
(* Steps that keep the contracts tidy, by what they do to them.             *)

ChoicesKept == script' = script /\ separate' = separate /\ keep' = keep /\ skew' = skew

LEMMA ReplaceTidy ==
  ASSUME Tidy, NEW id, NEW y, Active(id), CountedRight(y), ~Alive(y.id, pc),
         contracts' = (contracts \ {The(id)}) \cup {y}, ChoicesKept, refused' = refused,
         \A z : Alive(z, pc') <=> (Alive(z, pc) /\ z # id) \/ z = y.id,
         script = "recovery" => Due(pc') = Due(pc)
  PROVE  Tidy'
  <1>1. /\ OneEach(contracts) /\ Counts(contracts)
        /\ \A z : z \in IdsOf(contracts) <=> Alive(z, pc)
    BY DEF Tidy
  <1>2. The(id) \in contracts /\ The(id).id = id
    BY <1>1, TheIs
  <1>3. y.id \notin IdsOf(contracts)
    BY <1>1
  <1> DEFINE new == contracts'
  <1>4. OneEach(new) /\ Counts(new) /\ IdsOf(new) = (IdsOf(contracts) \ {id}) \cup {y.id}
    BY <1>1, <1>2, <1>3, Replaced
  <1>5. \A z : z \in IdsOf(new) <=> Alive(z, pc')
    BY <1>1, <1>4
  <1>6. OneEach(contracts)' /\ Counts(contracts)' /\ \A z : (z \in IdsOf(contracts))' <=> Alive(z, pc)'
    BY <1>4, <1>5 DEF OneEach, Counts, CountedRight, IdsOf, ChoicesKept, Alive
  <1>7. (script = "recovery" => refused = Due(pc))'
    BY DEF Tidy, ChoicesKept, Due
  <1> QED
    BY <1>6, <1>7 DEF Tidy

LEMMA KeepTidy ==
  ASSUME Tidy, contracts' = contracts, ChoicesKept,
         \A z : Alive(z, pc') <=> Alive(z, pc),
         script = "recovery" => refused' = Due(pc')
  PROVE  Tidy'
  <1>1. OneEach(contracts)' /\ Counts(contracts)'
    BY DEF Tidy, OneEach, Counts, CountedRight
  <1>2. \A z : (z \in IdsOf(contracts))' <=> Alive(z, pc)'
    BY DEF Tidy, IdsOf, ChoicesKept, Alive
  <1>3. (script = "recovery" => refused = Due(pc))'
    BY DEF ChoicesKept, Due
  <1> QED
    BY <1>1, <1>2, <1>3 DEF Tidy

LEMMA RemoveTidy ==
  ASSUME Tidy, NEW id, Active(id), contracts' = contracts \ {The(id)}, ChoicesKept,
         refused' = refused, \A z : Alive(z, pc') <=> Alive(z, pc) /\ z # id,
         script = "recovery" => Due(pc') = Due(pc)
  PROVE  Tidy'
  <1>1. /\ OneEach(contracts) /\ Counts(contracts)
        /\ \A z : z \in IdsOf(contracts) <=> Alive(z, pc)
    BY DEF Tidy
  <1>2. The(id) \in contracts /\ The(id).id = id
    BY <1>1, TheIs
  <1> DEFINE new == contracts'
  <1>3. OneEach(new) /\ Counts(new) /\ IdsOf(new) = IdsOf(contracts) \ {id}
    BY <1>1, <1>2, Removed
  <1>4. \A z : z \in IdsOf(new) <=> Alive(z, pc')
    BY <1>1, <1>3
  <1>5. OneEach(contracts)' /\ Counts(contracts)' /\ \A z : (z \in IdsOf(contracts))' <=> Alive(z, pc)'
    BY <1>3, <1>4 DEF OneEach, Counts, CountedRight, IdsOf, ChoicesKept, Alive
  <1>6. (script = "recovery" => refused = Due(pc))'
    BY DEF Tidy, ChoicesKept, Due
  <1> QED
    BY <1>5, <1>6 DEF Tidy

\* A step is clean when the script runs on and no check has failed.
Clean == ended' = "running" /\ failures' = {} /\ ChoicesKept

LEMMA SetUpTidy ==
  ASSUME ScriptOK, Tidy, Clean, CreateVenue \/ InitRoster \/ Issue
  PROVE  Tidy'
  <1>0. script' = script /\ separate' = separate /\ keep' = keep
    BY DEF Clean, ChoicesKept
  <1>1. CASE CreateVenue
    <2>1. /\ contracts' = {[id |-> "venue"]} /\ refused' = refused /\ pc' = pc + 1
          /\ ScriptStep("venue")
      BY <1>1, StepIs DEF CreateVenue, Plain, Submit, Go, Crash, Clean
    <2>2. pc = 0 /\ pc' = 1
      BY <2>1 DEF ScriptStep, RecoveryStep, FirstStep
    <2>3. Due(pc)' = {} /\ (script = "recovery" => refused = {})
      BY <2>2 DEF Due, Tidy
    <2>4. \A z : Alive(z, pc)' <=> z = "venue"
      BY <1>0, <2>2 DEF Alive
    <2>5. \A z : (z \in IdsOf(contracts))' <=> z = "venue"
      BY <2>1 DEF IdsOf
    <2>6. OneEach(contracts)' /\ Counts(contracts)'
      BY <2>1 DEF OneEach, Counts, CountedRight
    <2> QED
      BY <1>0, <2>1, <2>3, <2>4, <2>5, <2>6 DEF Tidy
  <1>2. CASE InitRoster
    <2>1. /\ contracts' = {[id |-> "venue"], [id |-> "roster"]} /\ refused' = refused
          /\ pc' = pc + 1 /\ ScriptStep("roster")
      BY <1>2, StepIs DEF InitRoster, Plain, Submit, Go, Crash, Clean
    <2>2. pc = 1 /\ pc' = 2
      BY <2>1 DEF ScriptStep, RecoveryStep, FirstStep
    <2>3. Due(pc)' = {} /\ (script = "recovery" => refused = {})
      BY <2>2 DEF Due, Tidy
    <2>4. \A z : Alive(z, pc)' <=> z = "venue" \/ z = "roster"
      BY <1>0, <2>2 DEF Alive
    <2>5. \A z : (z \in IdsOf(contracts))' <=> z = "venue" \/ z = "roster"
      BY <2>1 DEF IdsOf
    <2>6. OneEach(contracts)' /\ Counts(contracts)'
      BY <2>1 DEF OneEach, Counts, CountedRight
    <2> QED
      BY <1>0, <2>1, <2>3, <2>4, <2>5, <2>6 DEF Tidy
  <1>3. CASE Issue
    <2> DEFINE slots == {Token(<<"slot0", "slot1">>[i], 0, 0) : i \in 1..PolicyOf.concurrencyLimit}
               zero == Token("slot0", 0, 0)
               one == Token("slot1", 0, 0)
    <2>1. /\ contracts' = contracts \cup slots /\ refused' = refused /\ pc' = pc + 1
          /\ ScriptStep("issue")
      BY <1>3, StepIs DEF Issue, Plain, Submit, Go, Crash, Clean
    <2>2. pc = 2 /\ pc' = 3
      BY <2>1 DEF ScriptStep, RecoveryStep, FirstStep
    <2>3. Due(pc)' = {} /\ (script = "recovery" => refused = {})
      BY <2>2 DEF Due, Tidy
    <2>4. \A z : Alive(z, pc)' <=> z \in {"venue", "roster", "slot0"} \cup (IF script = "recovery" THEN {"slot1"} ELSE {})
      <3>1. CASE script = "recovery"
        <4>1. \A z : Alive(z, pc)' <=> z \in {"venue", "roster", "slot0", "slot1"}
          BY <1>0, <2>2, <3>1 DEF Alive
        <4> QED
          BY <4>1, <3>1
      <3>2. CASE script # "recovery"
        <4>1. \A z : Alive(z, pc)' <=> z \in {"venue", "roster", "slot0"}
          BY <1>0, <2>2, <3>2 DEF Alive
        <4> QED
          BY <4>1, <3>2
      <3> QED
        BY <3>1, <3>2
    <2>5. \A z : z \in IdsOf(contracts) <=> z = "venue" \/ z = "roster"
      BY <2>2 DEF Tidy, Alive
    <2>6. slots = IF script = "recovery" THEN {zero, one} ELSE {zero}
      <3>1. PolicyOf.concurrencyLimit = IF script = "recovery" THEN 2 ELSE 1
        BY DEF PolicyOf
      <3>2. 1..2 = {1, 2} /\ 1..1 = {1}
        OBVIOUS
      <3>3. <<"slot0", "slot1">>[1] = "slot0" /\ <<"slot0", "slot1">>[2] = "slot1"
        OBVIOUS
      <3> QED
        BY <3>1, <3>2, <3>3
    <2>7. /\ zero.id = "slot0" /\ zero.completed = 0
          /\ one.id = "slot1" /\ one.completed = 0
      BY DEF Token
    <2> HIDE DEF slots, zero, one
    <2>8. \A c \in contracts' : \/ c \in contracts /\ (c.id = "venue" \/ c.id = "roster")
                               \/ c = zero \/ (c = one /\ script = "recovery")
      BY <2>1, <2>5, <2>6 DEF IdsOf
    <2>9. OneEach(contracts)'
      BY <2>7, <2>8 DEF OneEach, Tidy
    <2>10. Counts(contracts)'
      BY <2>7, <2>8 DEF Counts, CountedRight
    <2>11. \A z : (z \in IdsOf(contracts))' <=> z \in {"venue", "roster", "slot0"} \cup (IF script = "recovery" THEN {"slot1"} ELSE {})
      <3>1. zero \in contracts' /\ (script = "recovery" => one \in contracts')
        BY <2>1, <2>6
      <3>2. ASSUME NEW z, (z \in IdsOf(contracts))'
            PROVE  z \in {"venue", "roster", "slot0"} \cup (IF script = "recovery" THEN {"slot1"} ELSE {})
        <4>1. PICK c \in contracts' : z = c.id
          BY <3>2 DEF IdsOf
        <4> QED
          BY <4>1, <2>7, <2>8
      <3>3. \A z : z \in IdsOf(contracts) => (z \in IdsOf(contracts))'
        BY <2>1 DEF IdsOf
      <3>4. ("slot0" \in IdsOf(contracts))' /\ (script = "recovery" => ("slot1" \in IdsOf(contracts))')
        BY <3>1, <2>7 DEF IdsOf
      <3> QED
        BY <2>5, <3>2, <3>3, <3>4
    <2> QED
      BY <1>0, <2>1, <2>3, <2>4, <2>9, <2>10, <2>11 DEF Tidy
  <1> QED
    BY <1>1, <1>2, <1>3

LEMMA CompletedIs ==
  ASSUME Tidy, NEW id, Active(id), id \notin {"venue", "roster"}
  PROVE  The(id).completed = IF id = "settled" THEN 1 ELSE 0
  <1>1. The(id) \in contracts /\ The(id).id = id
    BY TheIs DEF Tidy
  <1> QED
    BY <1>1 DEF Tidy, Counts, CountedRight

LEMMA CommitTidy ==
  ASSUME ScriptOK, Tidy, Clean, NEW t,
         \/ CommitNow("commit", "slot0", "stake", t)
         \/ CommitNow("commit-abort", "slot0", "aborting", t)
         \/ CommitNow("commit-expire", "slot1", "expiring", t)
         \/ CommitNow("commit-again", "expired", "reused", t)
  PROVE  Tidy'
  <1>0. script' = script /\ separate' = separate /\ keep' = keep
    BY DEF Clean, ChoicesKept
  <1> DEFINE until == AddSeconds(clock, LOCK_SECONDS)
             held(token, stake) == [id |-> stake, committedAt |-> t, lockExpiresAt |-> until,
                                    completed |-> The(token).completed]
  <1>1. ASSUME NEW name, NEW token, NEW stake, CommitNow(name, token, stake, t)
        PROVE  /\ CommitVerdict(token, until, t) = "ok"
               /\ contracts' = (contracts \ {The(token)}) \cup {held(token, stake)}
               /\ refused' = refused /\ pc' = pc + 1 /\ AtStep(name)
    BY <1>1 DEF CommitNow, Submit, CommitEffect, Go, Crash, Clean
  <1>2. \A token : CommitVerdict(token, until, t) = "ok" => Active(token)
    BY DEF CommitVerdict
  <1>3. ASSUME NEW token, NEW stake, Active(token),
               token \notin {"venue", "roster", "settled"}, stake # "settled"
        PROVE  CountedRight(held(token, stake)) /\ held(token, stake).id = stake
    <2>1. The(token).completed = 0
      BY <1>3, CompletedIs
    <2> QED
      BY <1>3, <2>1 DEF CountedRight
  <1> HIDE DEF until, held
  <1>4. CASE CommitNow("commit", "slot0", "stake", t)
    <2>1. pc = 3 /\ pc' = 4 /\ script # "recovery"
      BY <1>1, <1>4, StepIs DEF ScriptStep, RecoveryStep, FirstStep
    <2>2. ~Alive("stake", pc)
      BY <2>1 DEF Alive
    <2>3. \A z : Alive(z, pc') <=> (Alive(z, pc) /\ z # "slot0") \/ z = "stake"
      BY <2>1 DEF Alive
    <2> DEFINE y == held("slot0", "stake")
    <2>4. /\ Active("slot0") /\ CountedRight(y) /\ y.id = "stake"
          /\ contracts' = (contracts \ {The("slot0")}) \cup {y} /\ refused' = refused
      BY <1>1, <1>2, <1>3, <1>4
    <2> HIDE DEF y
    <2> QED
      BY <2>1, <2>2, <2>3, <2>4, ReplaceTidy DEF Clean
  <1>5. CASE CommitNow("commit-abort", "slot0", "aborting", t)
    <2>1. pc = 3 /\ pc' = 4 /\ script = "recovery"
      BY <1>1, <1>5, StepIs DEF ScriptStep, RecoveryStep, FirstStep
    <2>2. ~Alive("aborting", pc)
      BY <2>1 DEF Alive
    <2>3. \A z : Alive(z, pc') <=> (Alive(z, pc) /\ z # "slot0") \/ z = "aborting"
      BY <2>1 DEF Alive
    <2> DEFINE y == held("slot0", "aborting")
    <2>4. /\ Active("slot0") /\ CountedRight(y) /\ y.id = "aborting"
          /\ contracts' = (contracts \ {The("slot0")}) \cup {y} /\ refused' = refused
      BY <1>1, <1>2, <1>3, <1>5
    <2>5. Due(pc') = Due(pc)
      BY <2>1 DEF Due
    <2> HIDE DEF y
    <2> QED
      BY <2>1, <2>2, <2>3, <2>4, <2>5, ReplaceTidy DEF Clean
  <1>6. CASE CommitNow("commit-expire", "slot1", "expiring", t)
    <2>1. pc = 7 /\ pc' = 8 /\ script = "recovery"
      BY <1>1, <1>6, StepIs DEF ScriptStep, RecoveryStep, FirstStep
    <2>2. ~Alive("expiring", pc)
      BY <2>1 DEF Alive
    <2>3. \A z : Alive(z, pc') <=> (Alive(z, pc) /\ z # "slot1") \/ z = "expiring"
      BY <2>1 DEF Alive
    <2> DEFINE y == held("slot1", "expiring")
    <2>4. /\ Active("slot1") /\ CountedRight(y) /\ y.id = "expiring"
          /\ contracts' = (contracts \ {The("slot1")}) \cup {y} /\ refused' = refused
      BY <1>1, <1>2, <1>3, <1>6
    <2>5. Due(pc') = Due(pc)
      BY <2>1 DEF Due
    <2> HIDE DEF y
    <2> QED
      BY <2>1, <2>2, <2>3, <2>4, <2>5, ReplaceTidy DEF Clean
  <1>7. CASE CommitNow("commit-again", "expired", "reused", t)
    <2>1. pc = 12 /\ pc' = 13 /\ script = "recovery"
      BY <1>1, <1>7, StepIs DEF ScriptStep, RecoveryStep, FirstStep
    <2>2. ~Alive("reused", pc)
      BY <2>1 DEF Alive
    <2>3. \A z : Alive(z, pc') <=> (Alive(z, pc) /\ z # "expired") \/ z = "reused"
      BY <2>1 DEF Alive
    <2> DEFINE y == held("expired", "reused")
    <2>4. /\ Active("expired") /\ CountedRight(y) /\ y.id = "reused"
          /\ contracts' = (contracts \ {The("expired")}) \cup {y} /\ refused' = refused
      BY <1>1, <1>2, <1>3, <1>7
    <2>5. Due(pc') = Due(pc)
      BY <2>1 DEF Due
    <2> HIDE DEF y
    <2> QED
      BY <2>1, <2>2, <2>3, <2>4, <2>5, ReplaceTidy DEF Clean
  <1> QED
    BY <1>4, <1>5, <1>6, <1>7

LEMMA ResolveTidy ==
  ASSUME ScriptOK, Tidy, Clean, NEW t,
         \/ Abort(t) \/ Expire(t) \/ Settle(IF script = "recovery" THEN "reused" ELSE "stake", t)
  PROVE  Tidy'
  <1>0. script' = script /\ separate' = separate /\ keep' = keep
    BY DEF Clean, ChoicesKept
  <1>1. CASE Abort(t)
    <2> DEFINE y == Token("aborted", AddSeconds(t, PolicyOf.abortCooldownSeconds),
                          The("aborting").completed + 0)
    <2>1. /\ AbortVerdict("aborting", TRUE) = "ok" /\ AtStep("abort")
          /\ contracts' = (contracts \ {The("aborting")}) \cup {y}
          /\ refused' = refused /\ pc' = pc + 1
      BY <1>1 DEF Abort, Submit, Recycle, Go, Crash, Clean
    <2>2. Active("aborting")
      BY <2>1 DEF AbortVerdict
    <2>3. y.id = "aborted" /\ CountedRight(y)
      BY <2>2, CompletedIs DEF Token, CountedRight
    <2> HIDE DEF y
    <2>4. pc = 5 /\ pc' = 6 /\ script = "recovery"
      BY <2>1, StepIs DEF ScriptStep, RecoveryStep, FirstStep
    <2>5. /\ ~Alive("aborted", pc)
          /\ \A z : Alive(z, pc') <=> (Alive(z, pc) /\ z # "aborting") \/ z = "aborted"
      BY <2>4 DEF Alive
    <2>6. Due(pc') = Due(pc)
      BY <2>4 DEF Due
    <2> QED
      BY <2>1, <2>2, <2>3, <2>5, <2>6, ReplaceTidy DEF Clean
  <1>2. CASE Expire(t)
    <2> DEFINE y == Token("expired", t, The("expiring").completed + 0)
    <2>1. /\ ExpireVerdict("expiring", TRUE, t) = "ok" /\ AtStep("expire")
          /\ contracts' = (contracts \ {The("expiring")}) \cup {y}
          /\ refused' = refused /\ pc' = pc + 1
      BY <1>2 DEF Expire, Submit, Recycle, Go, Crash, Clean
    <2>2. Active("expiring")
      BY <2>1 DEF ExpireVerdict
    <2>3. y.id = "expired" /\ CountedRight(y)
      BY <2>2, CompletedIs DEF Token, CountedRight
    <2> HIDE DEF y
    <2>4. pc = 11 /\ pc' = 12 /\ script = "recovery"
      BY <2>1, StepIs DEF ScriptStep, RecoveryStep, FirstStep
    <2>5. /\ ~Alive("expired", pc)
          /\ \A z : Alive(z, pc') <=> (Alive(z, pc) /\ z # "expiring") \/ z = "expired"
      BY <2>4 DEF Alive
    <2>6. Due(pc') = Due(pc)
      BY <2>4 DEF Due
    <2> QED
      BY <2>1, <2>2, <2>3, <2>5, <2>6, ReplaceTidy DEF Clean
  <1>3. CASE Settle(IF script = "recovery" THEN "reused" ELSE "stake", t)
    <2> DEFINE stake == IF script = "recovery" THEN "reused" ELSE "stake"
               y == Token("settled", AddSeconds(t, PolicyOf.cooldownSeconds), The(stake).completed + 1)
               o == [disposition |-> "ReturnedInFull", returned |-> Stake, forfeited |-> 0, payout |-> 0]
    <2>1. /\ SettleVerdict(stake, o, t) = "ok" /\ AtStep("settle")
          /\ contracts' = (contracts \ {The(stake)}) \cup {y}
          /\ refused' = refused /\ pc' = pc + 1
      BY <1>3 DEF Settle, Submit, Recycle, Go, Crash, Clean
    <2>2. Active(stake)
      BY <2>1 DEF SettleVerdict
    <2>3. The(stake).completed = 0
      BY <2>2, CompletedIs
    <2>4. y.id = "settled" /\ CountedRight(y)
      BY <2>3 DEF Token, CountedRight
    <2> HIDE DEF y, o
    <2>5. /\ pc' = pc + 1 /\ pc = (IF script = "recovery" THEN 14 ELSE 4)
      BY <2>1, StepIs DEF ScriptStep, RecoveryStep, FirstStep
    <2>6. /\ ~Alive("settled", pc)
          /\ \A z : Alive(z, pc') <=> (Alive(z, pc) /\ z # stake) \/ z = "settled"
      <3>1. CASE script = "recovery"
        BY <2>5, <3>1 DEF Alive
      <3>2. CASE script # "recovery"
        BY <2>5, <3>2 DEF Alive
      <3> QED
        BY <3>1, <3>2
    <2>7. script = "recovery" => Due(pc') = Due(pc)
      BY <2>5 DEF Due
    <2> HIDE DEF stake
    <2> QED
      BY <2>1, <2>2, <2>4, <2>6, <2>7, ReplaceTidy DEF Clean
  <1> QED
    BY <1>1, <1>2, <1>3

LEMMA RefuseTidy ==
  ASSUME ScriptOK, Tidy, Clean, NEW t,
         AbortSolo(t) \/ TooSoon(t) \/ ExpireEarly(t) \/ ExpireByVenue(t) \/ Forfeit(t)
  PROVE  Tidy'
  <1>1. CASE AbortSolo(t)
    <2>1. /\ contracts' = contracts /\ refused' = refused \cup {<<"abort-solo", "authority">>}
          /\ pc' = pc + 1 /\ AtStep("abort-solo")
      BY <1>1 DEF AbortSolo, MustBeRefused, Go, Clean
    <2>2. pc = 4 /\ pc' = 5 /\ script = "recovery" /\ separate
      BY <1>1, <2>1, StepIs DEF AbortSolo, ScriptStep, RecoveryStep, FirstStep
    <2>3. \A z : Alive(z, pc') <=> Alive(z, pc)
      BY <2>2 DEF Alive
    <2>4. refused' = Due(pc')
      <3>1. refused = Due(pc)
        BY <2>2 DEF Tidy
      <3> QED
        BY <2>1, <2>2, <3>1 DEF Due
    <2> QED
      BY <2>1, <2>3, <2>4, KeepTidy DEF Clean
  <1>2. CASE TooSoon(t)
    <2>1. /\ contracts' = contracts /\ refused' = refused \cup {<<"too-soon", "cooldown">>}
          /\ pc' = pc + 1 /\ AtStep("too-soon")
      BY <1>2 DEF TooSoon, MustBeRefused, Go, Clean
    <2>2. pc = 6 /\ pc' = 7 /\ script = "recovery"
      BY <1>2, <2>1, StepIs DEF TooSoon, ScriptStep, RecoveryStep, FirstStep
    <2>3. \A z : Alive(z, pc') <=> Alive(z, pc)
      BY <2>2 DEF Alive
    <2>4. refused' = Due(pc')
      <3>1. refused = Due(pc)
        BY <2>2 DEF Tidy
      <3> QED
        BY <2>1, <2>2, <3>1 DEF Due
    <2> QED
      BY <2>1, <2>3, <2>4, KeepTidy DEF Clean
  <1>3. CASE ExpireEarly(t)
    <2>1. /\ contracts' = contracts /\ refused' = refused \cup {<<"expire-early", "lock">>}
          /\ pc' = pc + 1 /\ AtStep("expire-early")
      BY <1>3 DEF ExpireEarly, MustBeRefused, Go, Clean
    <2>2. pc = 8 /\ pc' = 9 /\ script = "recovery"
      BY <1>3, <2>1, StepIs DEF ExpireEarly, ScriptStep, RecoveryStep, FirstStep
    <2>3. \A z : Alive(z, pc') <=> Alive(z, pc)
      BY <2>2 DEF Alive
    <2>4. refused' = Due(pc')
      <3>1. refused = Due(pc)
        BY <2>2 DEF Tidy
      <3> QED
        BY <2>1, <2>2, <3>1 DEF Due
    <2> QED
      BY <2>1, <2>3, <2>4, KeepTidy DEF Clean
  <1>4. CASE ExpireByVenue(t)
    <2>1. /\ contracts' = contracts /\ refused' = refused \cup {<<"expire-venue", "authority">>}
          /\ pc' = pc + 1 /\ AtStep("expire-venue")
      BY <1>4 DEF ExpireByVenue, MustBeRefused, Go, Clean
    <2>2. pc = 10 /\ pc' = 11 /\ script = "recovery" /\ separate
      BY <1>4, <2>1, StepIs DEF ExpireByVenue, ScriptStep, RecoveryStep, FirstStep
    <2>3. \A z : Alive(z, pc') <=> Alive(z, pc)
      BY <2>2 DEF Alive
    <2>4. refused' = Due(pc')
      <3>1. refused = Due(pc)
        BY <2>2 DEF Tidy
      <3> QED
        BY <2>1, <2>2, <3>1 DEF Due
    <2> QED
      BY <2>1, <2>3, <2>4, KeepTidy DEF Clean
  <1>5. CASE Forfeit(t)
    <2>1. /\ contracts' = contracts /\ refused' = refused \cup {<<"forfeit", "forfeit">>}
          /\ pc' = pc + 1 /\ AtStep("forfeit")
      BY <1>5 DEF Forfeit, MustBeRefused, Go, Clean
    <2>2. pc = 13 /\ pc' = 14 /\ script = "recovery"
      BY <1>5, <2>1, StepIs DEF Forfeit, ScriptStep, RecoveryStep, FirstStep
    <2>3. \A z : Alive(z, pc') <=> Alive(z, pc)
      BY <2>2 DEF Alive
    <2>4. refused' = Due(pc')
      <3>1. refused = Due(pc)
        BY <2>2 DEF Tidy
      <3> QED
        BY <2>1, <2>2, <3>1 DEF Due
    <2> QED
      BY <2>1, <2>3, <2>4, KeepTidy DEF Clean
  <1> QED
    BY <1>1, <1>2, <1>3, <1>4, <1>5

LEMMA ArchiveTidy ==
  ASSUME ScriptOK, Tidy, Clean,
         \/ Archive("archive-venue", "venue") \/ Archive("archive-roster", "roster")
         \/ Archive("archive-settled", "settled") \/ Archive("archive-aborted", "aborted")
  PROVE  Tidy'
  <1>1. ASSUME NEW name, NEW id, Archive(name, id)
        PROVE  /\ Active(id) /\ contracts' = contracts \ {The(id)} /\ refused' = refused
               /\ pc' = pc + 1 /\ ~keep /\ ScriptStep(name)
    BY <1>1, StepIs DEF Archive, Plain, Submit, Go, Crash, Clean
  <1>2. CASE Archive("archive-venue", "venue")
    <2>1. pc = 15 /\ pc' = 16 /\ script = "recovery" /\ ~keep
      BY <1>1, <1>2 DEF ScriptStep, RecoveryStep, FirstStep
    <2>2. \A z : Alive(z, pc') <=> Alive(z, pc) /\ z # "venue"
      BY <2>1 DEF Alive
    <2>3. Due(pc') = Due(pc)
      BY <2>1 DEF Due
    <2> QED
      BY <1>1, <1>2, <2>2, <2>3, RemoveTidy DEF Clean
  <1>3. CASE Archive("archive-roster", "roster")
    <2>1. pc = 16 /\ pc' = 17 /\ script = "recovery" /\ ~keep
      BY <1>1, <1>3 DEF ScriptStep, RecoveryStep, FirstStep
    <2>2. \A z : Alive(z, pc') <=> Alive(z, pc) /\ z # "roster"
      BY <2>1 DEF Alive
    <2>3. Due(pc') = Due(pc)
      BY <2>1 DEF Due
    <2> QED
      BY <1>1, <1>3, <2>2, <2>3, RemoveTidy DEF Clean
  <1>4. CASE Archive("archive-settled", "settled")
    <2>1. pc = 17 /\ pc' = 18 /\ script = "recovery" /\ ~keep
      BY <1>1, <1>4 DEF ScriptStep, RecoveryStep, FirstStep
    <2>2. \A z : Alive(z, pc') <=> Alive(z, pc) /\ z # "settled"
      BY <2>1 DEF Alive
    <2>3. Due(pc') = Due(pc)
      BY <2>1 DEF Due
    <2> QED
      BY <1>1, <1>4, <2>2, <2>3, RemoveTidy DEF Clean
  <1>5. CASE Archive("archive-aborted", "aborted")
    <2>1. pc = 18 /\ pc' = 19 /\ script = "recovery" /\ ~keep
      BY <1>1, <1>5 DEF ScriptStep, RecoveryStep, FirstStep
    <2>2. \A z : Alive(z, pc') <=> Alive(z, pc) /\ z # "aborted"
      BY <2>1 DEF Alive
    <2>3. Due(pc') = Due(pc)
      BY <2>1 DEF Due
    <2> QED
      BY <1>1, <1>5, <2>2, <2>3, RemoveTidy DEF Clean
  <1> QED
    BY <1>2, <1>3, <1>4, <1>5

LEMMA PassTidy ==
  ASSUME ScriptOK, Tidy, Clean, Skip \/ WaitForLock
  PROVE  Tidy'
  <1>1. contracts' = contracts /\ refused' = refused /\ pc' = pc + 1
    BY DEF Skip, WaitForLock, Go
  <1>2. /\ script = "recovery"
        /\ \/ (pc = 4 /\ ~separate) \/ (pc = 10 /\ ~separate) \/ pc = 9
           \/ (pc \in 15..18 /\ keep)
    <2>1. CASE Skip
      <3>1. PICK name : /\ AtStep(name)
                        /\ \/ name \in {"abort-solo", "expire-venue"} /\ ~separate
                           \/ name \in {"archive-venue", "archive-roster", "archive-settled",
                                        "archive-aborted"} /\ keep
        BY <2>1 DEF Skip
      <3> QED
        BY <3>1, StepIs DEF ScriptStep, RecoveryStep, FirstStep
    <2>2. CASE WaitForLock
      BY <2>2, StepIs DEF WaitForLock, ScriptStep, RecoveryStep, FirstStep
    <2> QED
      BY <2>1, <2>2
  <1>3. \A z : Alive(z, pc') <=> Alive(z, pc)
    BY <1>1, <1>2 DEF Alive
  <1>4. Due(pc') = Due(pc)
    BY <1>1, <1>2 DEF Due
  <1>5. script = "recovery" => refused' = Due(pc')
    BY <1>1, <1>4 DEF Tidy
  <1> QED
    BY <1>1, <1>3, <1>5, KeepTidy DEF Clean

-----------------------------------------------------------------------------
(* Every step. *)

\* What every submission does to the script's own state.
Forward ==
  /\ ended = "running" /\ ChoicesKept /\ (failures' = {} => failures = {})
  /\ \/ ended' = "running" /\ pc' = pc + 1
     \/ ended' = "crashed" /\ pc' = pc
  /\ faults' = faults \/ faults' = faults + 1

LEMMA SubmissionForward ==
  ASSUME ScriptOK, NEW d \in Delay, Submissions(d)
  PROVE  Forward
  <1> DEFINE t == clock + d + skew
  <1>1. CASE CreateVenue \/ InitRoster \/ Issue
    BY <1>1 DEF CreateVenue, InitRoster, Issue, AtStep, Plain, Submit, Unchecked, Go, Crash, Fault,
         choices, Forward, ChoicesKept
  <1>2. CASE \/ CommitNow("commit", "slot0", "stake", t)
             \/ CommitNow("commit-abort", "slot0", "aborting", t)
             \/ CommitNow("commit-expire", "slot1", "expiring", t)
             \/ CommitNow("commit-again", "expired", "reused", t)
    <2>1. PICK name, token, stake : CommitNow(name, token, stake, t)
      BY <1>2
    <2> QED
      BY <2>1 DEF CommitNow, AtStep, Submit, Unchecked, Go, Crash, Fault, choices, Forward, ChoicesKept
  <1>3. CASE AbortSolo(t) \/ TooSoon(t) \/ ExpireEarly(t) \/ ExpireByVenue(t) \/ Forfeit(t)
    BY <1>3 DEF AbortSolo, TooSoon, ExpireEarly, ExpireByVenue, Forfeit, AtStep, MustBeRefused,
         Go, Fault, choices, Forward, ChoicesKept
  <1>4. CASE \/ Abort(t) \/ Expire(t) \/ Settle(IF script = "recovery" THEN "reused" ELSE "stake", t)
    <2>1. CASE Abort(t) \/ Expire(t)
      BY <2>1 DEF Abort, Expire, AtStep, Submit, Go, Crash, Fault, choices, Forward, ChoicesKept
    <2>2. CASE Settle(IF script = "recovery" THEN "reused" ELSE "stake", t)
      BY <2>2 DEF Settle, AtStep, Submit, Go, Crash, Fault, choices, Forward, ChoicesKept
    <2> QED
      BY <1>4, <2>1, <2>2
  <1>5. CASE \/ Archive("archive-venue", "venue") \/ Archive("archive-roster", "roster")
             \/ Archive("archive-settled", "settled") \/ Archive("archive-aborted", "aborted")
    <2>1. PICK name, id : Archive(name, id)
      BY <1>5
    <2> QED
      BY <2>1 DEF Archive, AtStep, Plain, Submit, Unchecked, Go, Crash, Fault, choices, Forward, ChoicesKept
  <1> QED
    BY <1>1, <1>2, <1>3, <1>4, <1>5 DEF Submissions

LEMMA StepForward ==
  ASSUME ScriptOK, Next, ended' # "green", ended' # "failed"
  PROVE  Forward
  <1>1. CASE \E d \in Delay : Submissions(d)
    BY <1>1, SubmissionForward
  <1>2. CASE Skip
    BY <1>2 DEF Skip, AtStep, Go, choices, Forward, ChoicesKept
  <1>3. CASE WaitForLock
    BY <1>3 DEF WaitForLock, AtStep, Go, choices, Forward, ChoicesKept
  <1>4. CASE QueryLost
    BY <1>4 DEF QueryLost, AtStep, Crash, Fault, choices, Forward, ChoicesKept
  <1>5. CASE Finish
    BY <1>5 DEF Finish
  <1> QED
    BY <1>1, <1>2, <1>3, <1>4, <1>5 DEF Next

LEMMA FinishForward ==
  ASSUME ScriptOK, Finish
  PROVE  /\ ended = "running" /\ ChoicesKept /\ ended' \in {"green", "failed"}
         /\ ended' = "green" => failures = {} /\ failures' = {}
         /\ pc' = pc + 1 /\ contracts' = contracts /\ refused' = refused /\ faults' = faults
         /\ took' = took
  BY DEF Finish, AtStep, choices, ChoicesKept

LEMMA OnlyFinishEnds ==
  ASSUME Next, ended' = "green" \/ ended' = "failed", ScriptOK
  PROVE  Finish
  <1>1. CASE \E d \in Delay : Submissions(d)
    BY <1>1, SubmissionForward DEF Forward
  <1>2. CASE Skip \/ WaitForLock \/ QueryLost
    BY <1>2 DEF Skip, WaitForLock, QueryLost, AtStep, Go, Crash
  <1> QED
    BY <1>1, <1>2 DEF Next

LEMMA TookStep ==
  ASSUME ScriptOK, Next
  PROVE  took' = took \/ (\E d \in Delay : took' = Append(took, d))
  BY DEF Next, Submissions, Elapses, Skip, WaitForLock, QueryLost, Finish

LEMMA ScriptStepOK ==
  ASSUME ScriptOK, [Next]_vars
  PROVE  ScriptOK'
  <1>1. CASE UNCHANGED vars
    BY <1>1 DEF vars, ScriptOK
  <1>2. CASE Next
    <2>1. took' \in Seq(Delay)
      BY <1>2, TookStep DEF ScriptOK
    <2>2. CASE ended' = "green" \/ ended' = "failed"
      BY <1>2, <2>1, <2>2, OnlyFinishEnds, FinishForward DEF ScriptOK, ChoicesKept
    <2>3. CASE ended' # "green" /\ ended' # "failed"
      BY <1>2, <2>1, <2>3, StepForward DEF ScriptOK, Forward, ChoicesKept
    <2> QED
      BY <2>2, <2>3
  <1> QED
    BY <1>1, <1>2

LEMMA TidyStep ==
  ASSUME ScriptOK, Tidy, Next, ended' = "running", failures' = {}
  PROVE  Tidy'
  <1>1. Clean
    BY StepForward DEF Forward, Clean
  <1>2. CASE \E d \in Delay : Submissions(d)
    BY <1>1, <1>2, SetUpTidy, CommitTidy, ResolveTidy, RefuseTidy, ArchiveTidy DEF Submissions
  <1>3. CASE Skip \/ WaitForLock
    BY <1>1, <1>3, PassTidy
  <1>4. CASE QueryLost \/ Finish
    BY <1>4 DEF QueryLost, Crash, Finish
  <1> QED
    BY <1>2, <1>3, <1>4 DEF Next

LEMMA OrderlyStep ==
  ASSUME ScriptOK, Orderly, [Next]_vars
  PROVE  Orderly'
  <1>1. CASE UNCHANGED vars
    <2>1. Tidy' <=> Tidy
      BY <1>1 DEF vars, Tidy, OneEach, Counts, CountedRight, IdsOf, Alive, Due
    <2> QED
      BY <1>1, <2>1 DEF vars, Orderly
  <1>2. CASE Next
    <2> SUFFICES ASSUME ended' = "running", failures' = {}
                 PROVE  Tidy'
      BY DEF Orderly
    <2>1. ended = "running" /\ failures = {}
      BY <1>2, StepForward DEF Forward
    <2> QED
      BY <1>2, <2>1, TidyStep DEF Orderly
  <1> QED
    BY <1>1, <1>2

LEMMA GreenStep ==
  ASSUME ScriptOK, Orderly, GreenRunIsComplete, [Next]_vars
  PROVE  GreenRunIsComplete'
  <1>1. CASE UNCHANGED vars
    BY <1>1 DEF vars, GreenRunIsComplete, RefusalsDue, The
  <1>2. CASE Next
    <2> SUFFICES ASSUME ended' = "green"
                 PROVE  GreenRunIsComplete'
      BY DEF GreenRunIsComplete
    <2>1. Finish
      BY <1>2, OnlyFinishEnds
    <2>2. /\ ended = "running" /\ failures = {} /\ failures' = {} /\ ChoicesKept
          /\ contracts' = contracts /\ refused' = refused
      BY <2>1, FinishForward
    <2>3. Tidy
      BY <2>2 DEF Orderly
    <2>4. \A id : Active(id) <=> Alive(id, pc)
      BY <2>3, ActiveIs DEF Tidy
    <2>5. {c.id : c \in contracts} = IdsOf(contracts)
      BY DEF IdsOf
    <2>7. CASE script = "recovery"
      <3>1. pc = 19
        BY <2>1, <2>7, StepIs DEF Finish, ScriptStep, RecoveryStep
      <3>2. refused = RefusalsDue
        BY <2>3, <2>7, <3>1 DEF Tidy, Due, RefusalsDue
      <3>3. ~keep => contracts = {}
        BY <2>1, <2>2, <2>7 DEF Finish
      <3>4. CASE keep
        <4>1. \A id : Alive(id, pc) <=> id \in {"venue", "roster", "settled", "aborted"}
          BY <2>7, <3>1, <3>4 DEF Alive
        <4>2. IdsOf(contracts) = {"venue", "roster", "settled", "aborted"}
          BY <2>3, <4>1 DEF Tidy
        <4>3. The("settled").completed = 1 /\ The("aborted").completed = 0
          BY <2>3, <2>4, <4>1, CompletedIs
        <4> QED
          BY <2>2, <2>5, <2>7, <3>2, <3>4, <4>2, <4>3
             DEF GreenRunIsComplete, RefusalsDue, The, ChoicesKept
      <3> QED
        BY <2>2, <2>7, <3>2, <3>3, <3>4 DEF GreenRunIsComplete, RefusalsDue, ChoicesKept, ScriptOK
    <2>8. CASE script # "recovery"
      <3>1. pc = 5
        BY <2>1, <2>8, StepIs DEF Finish, ScriptStep, FirstStep
      <3>2. \A id : Alive(id, pc) <=> id \in {"venue", "roster", "settled"}
        BY <2>8, <3>1 DEF Alive
      <3>3. IdsOf(contracts) = {"venue", "roster", "settled"}
        BY <2>3, <3>2 DEF Tidy
      <3>4. The("settled").completed = 1
        BY <2>3, <2>4, <3>2, CompletedIs
      <3> QED
        BY <2>2, <2>5, <2>8, <3>3, <3>4 DEF GreenRunIsComplete, The, ChoicesKept
    <2> QED
      BY <2>7, <2>8
  <1> QED
    BY <1>1, <1>2

LEMMA ScriptInit == Init => ScriptOK /\ Orderly /\ GreenRunIsComplete
  <1> SUFFICES ASSUME Init
               PROVE  ScriptOK /\ Orderly /\ GreenRunIsComplete
    OBVIOUS
  <1>1. ScriptOK
    <2>1. separate \in BOOLEAN /\ keep \in BOOLEAN
      BY DEF Init
    <2>2. took \in Seq(Delay)
      BY DEF Init
    <2>3. pc \in Nat /\ faults \in Nat /\ ended = "running"
      BY DEF Init
    <2>4. script \in {"first-cycle", "recovery"} /\ skew \in Skew /\ failures = {}
      BY DEF Init
    <2> QED
      BY <2>1, <2>2, <2>3, <2>4 DEF ScriptOK
  <1>2. Tidy
    <2>1. \A id : ~Alive(id, pc)
      BY DEF Init, Alive
    <2>2. contracts = {} /\ refused = {} /\ pc = 0
      BY DEF Init
    <2> QED
      BY <2>1, <2>2 DEF Tidy, OneEach, Counts, IdsOf, Due
  <1> QED
    BY <1>1, <1>2 DEF Orderly, GreenRunIsComplete, Init

\* A green exit is what it claims, for every delay, skew and number of lost
\* submissions: every refusal was given for its own reason and exactly the
\* contracts that should be left are left, counted as they should be
\* (recovery.mjs:233-508, first-cycle.mjs:86-222).
THEOREM GreenComplete == Spec => []GreenRunIsComplete
  <1>1. Init => ScriptOK /\ Orderly /\ GreenRunIsComplete
    BY ScriptInit
  <1>2. ScriptOK /\ Orderly /\ GreenRunIsComplete /\ [Next]_vars
          => (ScriptOK /\ Orderly /\ GreenRunIsComplete)'
    BY ScriptStepOK, OrderlyStep, GreenStep
  <1> QED
    BY <1>1, <1>2, PTL DEF Spec

-----------------------------------------------------------------------------
(* A prompt run: no submission lost, a tolerable skew, prompt delays.       *)

Prompted == faults = 0 /\ skew \in Tolerated /\ \A i \in DOMAIN took : took[i] \in Prompt

\* The times a prompt run has met at its step.
TimeRight(c) ==
  /\ c.id \in {"slot0", "slot1"} => c.nextEligibleAt = 0
  /\ c.id = "aborted" /\ pc = 6 => c.nextEligibleAt = AddSeconds(clock + skew, 120)
  /\ c.id = "expiring" => c.lockExpiresAt = expiring
  /\ c.id = "expired" => c.nextEligibleAt = clock + skew
  /\ c.id = "stake" => c.committedAt = clock + skew
  /\ c.id = "reused" =>
       /\ c.committedAt \in Int
       /\ pc = 13 => c.committedAt = clock + skew
       /\ pc = 14 => /\ AddSeconds(c.committedAt, 1) <= clock + skew
                     /\ clock + skew <= AddSeconds(c.committedAt, 10)

Timely ==
  /\ clock \in Int /\ AddSeconds(0, Started) <= clock /\ expiring \in Int
  /\ \A c \in contracts : TimeRight(c)
  /\ pc = 8 => AddSeconds(clock, 15) <= expiring
  /\ pc \in {10, 11} => AddSeconds(expiring, 3) <= clock

OnTime ==
  Prompted => /\ ended \in {"running", "green"} /\ failures = {}
              /\ ended = "running" => Timely

LEMMA PromptTimes ==
  ASSUME skew \in Tolerated, NEW d \in Prompt
  PROVE  /\ TicksPerSecond \in Nat /\ TicksPerSecond > 0
         /\ d \in Int /\ TicksPerSecond <= d /\ d <= 10 * TicksPerSecond
         /\ skew \in Int /\ -(2 * TicksPerSecond) <= skew /\ skew <= 2 * TicksPerSecond
  <1>1. TicksPerSecond \in Nat /\ TicksPerSecond > 0
    BY TicksPerSecondAssumption DEF TicksPerSecondAssumption
  <1>2. AddSeconds(0, 1) = TicksPerSecond /\ AddSeconds(0, 10) = 10 * TicksPerSecond
        /\ AddSeconds(0, 2) = 2 * TicksPerSecond
    BY <1>1 DEF AddSeconds
  <1>3. d \in TicksPerSecond..(10 * TicksPerSecond)
    BY <1>2, PromptAssumption DEF PromptAssumption
  <1>4. skew \in (-(2 * TicksPerSecond))..(2 * TicksPerSecond)
    BY <1>2, PromptAssumption DEF PromptAssumption
  <1> QED
    BY <1>1, <1>3, <1>4

LEMMA ThereIs ==
  ASSUME Tidy, NEW id, Alive(id, pc)
  PROVE  Active(id) /\ The(id) \in contracts /\ The(id).id = id
  <1>1. Active(id)
    BY ActiveIs DEF Tidy
  <1> QED
    BY <1>1, TheIs DEF Tidy

\* The lock a script asks for is within its policy when it is prompt.
LEMMA TermsMet ==
  ASSUME skew \in Tolerated, NEW d \in Prompt, Timely, NEW until, until = AddSeconds(clock, LOCK_SECONDS)
  PROVE  /\ clock + d + skew \in Nat
         /\ TermsMeetPolicy(PolicyOf, clock + d + skew,
                            [stakeAmount |-> Stake, feeAmount |-> 0, lockExpiresAt |-> until])
  <1> DEFINE t == clock + d + skew
             q == TicksPerSecond
  <1>1. /\ q \in Nat /\ q > 0 /\ d \in Int /\ q <= d /\ d <= 10 * q
        /\ skew \in Int /\ -(2 * q) <= skew /\ skew <= 2 * q
    BY PromptTimes
  <1>2. clock \in Int /\ 1000000 * q <= clock
    BY <1>1 DEF Timely, AddSeconds, Started
  <1>3. t \in Nat
    BY <1>1, <1>2
  <1>4. CASE script = "recovery"
    <2>1. until = clock + 25 * q
      BY <1>4 DEF AddSeconds, LOCK_SECONDS
    <2>2. until \in Nat /\ 13 * q <= until - t /\ until - t <= 26 * q
      BY <1>1, <1>2, <2>1
    <2>3. 13 <= SecondsBetween(t, until) /\ SecondsBetween(t, until) <= 26
      BY <1>3, <2>2, SecondsWithin
    <2>4. SecondsBetween(t, until) \in Int
      BY <1>3, <2>2, EpochSecondsBounds DEF SecondsBetween
    <2>5. /\ PolicyOf.minLockSeconds = 5 /\ PolicyOf.maxLockSeconds = 172800
          /\ PolicyOf.minStakeAmount = 10 /\ PolicyOf.maxStakeAmount = 1000
          /\ PolicyOf.minPlatformFee = 0
      BY <1>4 DEF PolicyOf
    <2> HIDE DEF t
    <2> QED
      BY <2>3, <2>4, <2>5, <1>3 DEF TermsMeetPolicy, Stake, t
  <1>5. CASE script # "recovery"
    <2>1. until = clock + 3600 * q
      BY <1>5 DEF AddSeconds, LOCK_SECONDS
    <2>2. until \in Nat /\ 3588 * q <= until - t /\ until - t <= 3601 * q
      BY <1>1, <1>2, <2>1
    <2>3. 3588 <= SecondsBetween(t, until) /\ SecondsBetween(t, until) <= 3601
      BY <1>3, <2>2, SecondsWithin
    <2>4. SecondsBetween(t, until) \in Int
      BY <1>3, <2>2, EpochSecondsBounds DEF SecondsBetween
    <2>5. /\ PolicyOf.minLockSeconds = 60 /\ PolicyOf.maxLockSeconds = 172800
          /\ PolicyOf.minStakeAmount = 10 /\ PolicyOf.maxStakeAmount = 1000
          /\ PolicyOf.minPlatformFee = 0
      BY <1>5 DEF PolicyOf
    <2> HIDE DEF t
    <2> QED
      BY <2>3, <2>4, <2>5, <1>3 DEF TermsMeetPolicy, Stake, t
  <1> QED
    BY <1>3, <1>4, <1>5

-----------------------------------------------------------------------------
(* A prompt submission is answered as the script wants. *)

\* What a prompt submission finds.
Ready(d) ==
  /\ ScriptOK /\ Tidy /\ Timely /\ failures = {} /\ ended = "running"
  /\ d \in Prompt /\ skew \in Tolerated /\ faults' = faults

LEMMA NoFault == ASSUME ScriptOK, faults' = faults PROVE ~Fault
  BY DEF ScriptOK, Fault

LEMMA SetUpPrompt ==
  ASSUME NEW d, Ready(d), CreateVenue \/ InitRoster \/ Issue
  PROVE  ended' = "running" /\ failures' = {}
  <1>1. ~Fault
    BY NoFault DEF Ready
  <1> QED
    BY <1>1 DEF Ready, CreateVenue, InitRoster, Issue, Plain, Submit, Unchecked, Go

LEMMA CommitPrompt ==
  ASSUME NEW d, Ready(d), NEW t, t = clock + d + skew,
         \/ CommitNow("commit", "slot0", "stake", t)
         \/ CommitNow("commit-abort", "slot0", "aborting", t)
         \/ CommitNow("commit-expire", "slot1", "expiring", t)
         \/ CommitNow("commit-again", "expired", "reused", t)
  PROVE  ended' = "running" /\ failures' = {}
  <1>1. ~Fault
    BY NoFault DEF Ready
  <1> DEFINE until == AddSeconds(clock, LOCK_SECONDS)
  <1>2. /\ clock + d + skew \in Nat
        /\ TermsMeetPolicy(PolicyOf, t, [stakeAmount |-> Stake, feeAmount |-> 0,
                                         lockExpiresAt |-> until])
    BY TermsMet DEF Ready
  <1>9. /\ skew \in Int /\ d \in Int /\ 0 < d /\ clock \in Int
    BY PromptTimes DEF Ready, Timely
  <1>0. t \in Int /\ 0 <= t /\ clock + skew \in Int /\ clock + skew <= t
    BY <1>2, <1>9
  <1>3. ASSUME NEW name, NEW token, NEW stake, CommitNow(name, token, stake, t),
               Active(token), The(token).nextEligibleAt \in Int, The(token).nextEligibleAt <= t
        PROVE  ended' = "running" /\ failures' = {}
    <2>1. CommitVerdict(token, until, t) = "ok"
      BY <1>0, <1>2, <1>3 DEF CommitVerdict
    <2> QED
      BY <1>1, <1>3, <2>1 DEF CommitNow, Submit, Unchecked, Go, Ready
  <1>4. \A id : Alive(id, pc) => Active(id) /\ TimeRight(The(id)) /\ The(id).id = id
    BY ThereIs DEF Ready, Timely
  <1>5. CASE CommitNow("commit", "slot0", "stake", t) \/ CommitNow("commit-abort", "slot0", "aborting", t)
    <2>1. pc = 3
      BY <1>5, StepIs DEF CommitNow, Ready, ScriptStep, RecoveryStep, FirstStep
    <2>2. Active("slot0") /\ The("slot0").nextEligibleAt = 0
      BY <1>4, <2>1 DEF Alive, TimeRight
    <2> QED
      BY <1>0, <1>3, <1>5, <2>2
  <1>6. CASE CommitNow("commit-expire", "slot1", "expiring", t)
    <2>1. pc = 7 /\ script = "recovery"
      BY <1>6, StepIs DEF CommitNow, Ready, ScriptStep, RecoveryStep, FirstStep
    <2>2. Active("slot1") /\ The("slot1").nextEligibleAt = 0
      BY <1>4, <2>1 DEF Alive, TimeRight
    <2> QED
      BY <1>0, <1>3, <1>6, <2>2
  <1>7. CASE CommitNow("commit-again", "expired", "reused", t)
    <2>1. pc = 12 /\ script = "recovery"
      BY <1>7, StepIs DEF CommitNow, Ready, ScriptStep, RecoveryStep, FirstStep
    <2>2. Active("expired") /\ The("expired").nextEligibleAt = clock + skew
      BY <1>4, <2>1 DEF Alive, TimeRight
    <2>3. The("expired").nextEligibleAt \in Int /\ The("expired").nextEligibleAt <= t
      BY <1>0, <2>2
    <2> QED
      BY <1>3, <1>7, <2>2, <2>3
  <1> QED
    BY <1>5, <1>6, <1>7

\* The cycle that settles: its duration is in the policy's bounds.
LEMMA DurationOK ==
  ASSUME NEW d, Ready(d), NEW t, t = clock + d + skew, NEW from \in Int,
         AddSeconds(0, Started) <= from + AddSeconds(0, 100),
         \/ from = clock + skew
         \/ AddSeconds(from, 1) <= clock + skew /\ clock + skew <= AddSeconds(from, 10)
  PROVE  /\ ~(SecondsBetween(from, t) < PolicyOf.minCycleSeconds)
         /\ ~(SecondsBetween(from, t) > PolicyOf.maxCycleSeconds)
  <1> DEFINE q == TicksPerSecond
  <1>1. /\ q \in Nat /\ q > 0 /\ d \in Int /\ q <= d /\ d <= 10 * q
        /\ skew \in Int /\ clock \in Int
    BY PromptTimes DEF Ready, Timely
  <1>2. from \in Nat /\ t \in Nat /\ 1 * q <= t - from /\ t - from <= 20 * q
    <2>1. from \in Nat
      BY <1>1 DEF AddSeconds, Started
    <2>2. CASE from = clock + skew
      BY <1>1, <2>1, <2>2
    <2>3. CASE AddSeconds(from, 1) <= clock + skew /\ clock + skew <= AddSeconds(from, 10)
      BY <1>1, <2>1, <2>3 DEF AddSeconds
    <2> QED
      BY <2>2, <2>3
  <1>3. 1 <= SecondsBetween(from, t) /\ SecondsBetween(from, t) <= 20
    BY <1>2, SecondsWithin
  <1>4. SecondsBetween(from, t) \in Int
    BY <1>2, EpochSecondsBounds DEF SecondsBetween
  <1>5. PolicyOf.minCycleSeconds = 1 /\ PolicyOf.maxCycleSeconds = 7200
    BY DEF PolicyOf
  <1> HIDE DEF q
  <1> QED
    BY <1>3, <1>4, <1>5

LEMMA RefusePrompt ==
  ASSUME NEW d, Ready(d), NEW t, t = clock + d + skew,
         AbortSolo(t) \/ TooSoon(t) \/ ExpireEarly(t) \/ ExpireByVenue(t) \/ Forfeit(t)
  PROVE  ended' = "running" /\ failures' = {}
  <1>1. ~Fault /\ failures = {} /\ ended = "running"
    BY NoFault DEF Ready
  <1> DEFINE q == TicksPerSecond
  <1>2. /\ q \in Nat /\ q > 0 /\ d \in Int /\ q <= d /\ d <= 10 * q
        /\ skew \in Int /\ -(2 * q) <= skew /\ skew <= 2 * q
        /\ clock \in Int /\ 1000000 * q <= clock /\ expiring \in Int
    BY PromptTimes DEF Ready, Timely, AddSeconds, Started
  <1>3. \A id : Alive(id, pc) => Active(id) /\ TimeRight(The(id)) /\ The(id).id = id
    BY ThereIs DEF Ready, Timely
  <1> HIDE DEF q
  <1>4. CASE AbortSolo(t)
    <2>1. pc = 4 /\ script = "recovery"
      BY <1>4, StepIs DEF AbortSolo, Ready, ScriptStep, RecoveryStep, FirstStep
    <2>2. AbortVerdict("aborting", FALSE) = "authority"
      BY <1>3, <2>1 DEF Alive, AbortVerdict
    <2> QED
      BY <1>1, <1>4, <2>2 DEF AbortSolo, MustBeRefused, Go
  <1>5. CASE TooSoon(t)
    <2>1. pc = 6 /\ script = "recovery"
      BY <1>5, StepIs DEF TooSoon, Ready, ScriptStep, RecoveryStep, FirstStep
    <2>2. Active("aborted") /\ The("aborted").nextEligibleAt = clock + skew + 120 * q
      BY <1>3, <2>1 DEF Alive, TimeRight, AddSeconds, q
    <2>3. t < The("aborted").nextEligibleAt
      BY <1>2, <2>2
    <2>4. \A until : CommitVerdict("aborted", until, t) = "cooldown"
      BY <2>2, <2>3 DEF CommitVerdict
    <2> QED
      BY <1>1, <1>5, <2>4 DEF TooSoon, MustBeRefused, Go
  <1>6. CASE ExpireEarly(t)
    <2>1. pc = 8 /\ script = "recovery"
      BY <1>6, StepIs DEF ExpireEarly, Ready, ScriptStep, RecoveryStep, FirstStep
    <2>2. Active("expiring") /\ The("expiring").lockExpiresAt = expiring
      BY <1>3, <2>1 DEF Alive, TimeRight
    <2>3. clock + 15 * q <= expiring
      BY <2>1 DEF Ready, Timely, AddSeconds, q
    <2>4. t < The("expiring").lockExpiresAt
      BY <1>2, <2>2, <2>3
    <2>5. ExpireVerdict("expiring", TRUE, t) = "lock"
      BY <2>2, <2>4 DEF ExpireVerdict
    <2> QED
      BY <1>1, <1>6, <2>5 DEF ExpireEarly, MustBeRefused, Go
  <1>7. CASE ExpireByVenue(t)
    <2>1. pc = 10 /\ script = "recovery"
      BY <1>7, StepIs DEF ExpireByVenue, Ready, ScriptStep, RecoveryStep, FirstStep
    <2>2. ExpireVerdict("expiring", FALSE, t) = "authority"
      BY <1>3, <2>1 DEF Alive, ExpireVerdict
    <2> QED
      BY <1>1, <1>7, <2>2 DEF ExpireByVenue, MustBeRefused, Go
  <1>8. CASE Forfeit(t)
    <2> DEFINE o == [disposition |-> "ForfeitedInFull", returned |-> 0, forfeited |-> Stake, payout |-> 0]
               from == The("reused").committedAt
    <2>1. pc = 13 /\ script = "recovery"
      BY <1>8, StepIs DEF Forfeit, Ready, ScriptStep, RecoveryStep, FirstStep
    <2>2. Active("reused") /\ from = clock + skew /\ from \in Int
      BY <1>3, <2>1 DEF Alive, TimeRight
    <2>3. AddSeconds(0, Started) <= from + AddSeconds(0, 100)
      BY <1>2, <2>2 DEF AddSeconds, Started, q
    <2>4. /\ ~(SecondsBetween(from, t) < PolicyOf.minCycleSeconds)
          /\ ~(SecondsBetween(from, t) > PolicyOf.maxCycleSeconds)
      <3> HIDE DEF from
      <3> QED
        BY <2>2, <2>3, DurationOK
    <2>5. o.forfeited > 0
      BY DEF Stake
    <2>6. SettleVerdict("reused", o, t) = "forfeit"
      BY <2>2, <2>4, <2>5 DEF SettleVerdict
    <2> QED
      BY <1>1, <1>8, <2>6 DEF Forfeit, MustBeRefused, Go
  <1> QED
    BY <1>4, <1>5, <1>6, <1>7, <1>8

LEMMA ResolvePrompt ==
  ASSUME NEW d, Ready(d), NEW t, t = clock + d + skew,
         \/ Abort(t) \/ Expire(t) \/ Settle(IF script = "recovery" THEN "reused" ELSE "stake", t)
  PROVE  ended' = "running" /\ failures' = {}
  <1>1. ~Fault /\ failures = {} /\ ended = "running"
    BY NoFault DEF Ready
  <1> DEFINE q == TicksPerSecond
  <1>2. /\ q \in Nat /\ q > 0 /\ d \in Int /\ q <= d /\ d <= 10 * q
        /\ skew \in Int /\ -(2 * q) <= skew /\ skew <= 2 * q
        /\ clock \in Int /\ 1000000 * q <= clock /\ expiring \in Int
    BY PromptTimes DEF Ready, Timely, AddSeconds, Started
  <1>3. \A id : Alive(id, pc) => Active(id) /\ TimeRight(The(id)) /\ The(id).id = id
    BY ThereIs DEF Ready, Timely
  <1>9. \A id : Alive(id, pc) /\ id \notin {"venue", "roster", "settled"} => The(id).completed = 0
    BY <1>3, CompletedIs DEF Ready
  <1> HIDE DEF q
  <1>4. CASE Abort(t)
    <2>1. pc = 5 /\ script = "recovery"
      BY <1>4, StepIs DEF Abort, Ready, ScriptStep, RecoveryStep, FirstStep
    <2>2. AbortVerdict("aborting", TRUE) = "ok" /\ The("aborting").completed = 0
      BY <1>3, <1>9, <2>1 DEF Alive, AbortVerdict
    <2> QED
      BY <1>1, <1>4, <2>2 DEF Abort, Submit, Go
  <1>5. CASE Expire(t)
    <2>1. pc = 11 /\ script = "recovery"
      BY <1>5, StepIs DEF Expire, Ready, ScriptStep, RecoveryStep, FirstStep
    <2>2. /\ Active("expiring") /\ The("expiring").lockExpiresAt = expiring
          /\ The("expiring").completed = 0
      BY <1>3, <1>9, <2>1 DEF Alive, TimeRight
    <2>3. expiring + 3 * q <= clock
      BY <2>1 DEF Ready, Timely, AddSeconds, q
    <2>4. ~(t < The("expiring").lockExpiresAt)
      BY <1>2, <2>2, <2>3
    <2>5. ExpireVerdict("expiring", TRUE, t) = "ok"
      BY <2>2, <2>4 DEF ExpireVerdict
    <2> QED
      BY <1>1, <1>5, <2>2, <2>5 DEF Expire, Submit, Go
  <1>6. CASE Settle(IF script = "recovery" THEN "reused" ELSE "stake", t)
    <2> DEFINE stake == IF script = "recovery" THEN "reused" ELSE "stake"
               o == [disposition |-> "ReturnedInFull", returned |-> Stake, forfeited |-> 0, payout |-> 0]
               from == The(stake).committedAt
    <2>1. pc = IF script = "recovery" THEN 14 ELSE 4
      BY <1>6, StepIs DEF Settle, Ready, ScriptStep, RecoveryStep, FirstStep
    <2>2. Alive(stake, pc)
      BY <2>1 DEF Alive
    <2>3. Active(stake) /\ The(stake).completed = 0
      BY <1>3, <1>9, <2>2
    <2>4. /\ from \in Int
          /\ \/ from = clock + skew
             \/ AddSeconds(from, 1) <= clock + skew /\ clock + skew <= AddSeconds(from, 10)
      <3>1. CASE script = "recovery"
        BY <1>3, <2>1, <2>2, <3>1 DEF TimeRight
      <3>2. CASE script # "recovery"
        BY <1>2, <1>3, <2>1, <2>2, <3>2 DEF TimeRight
      <3> QED
        BY <3>1, <3>2
    <2>5. AddSeconds(0, Started) <= from + AddSeconds(0, 100)
      <3> HIDE DEF from
      <3> QED
        BY <1>2, <2>4 DEF AddSeconds, Started, q
    <2>6. /\ ~(SecondsBetween(from, t) < PolicyOf.minCycleSeconds)
          /\ ~(SecondsBetween(from, t) > PolicyOf.maxCycleSeconds)
      <3> HIDE DEF from
      <3> QED
        BY <2>4, <2>5, DurationOK
    <2>7. /\ ~(o.forfeited > 0) /\ PolicyOf.maxPayoutAmount = 0
          /\ OutcomeAccepted("TimeLockedHolding", Stake, 0, o)
      BY DEF Stake, OutcomeAccepted, PolicyOf
    <2>8. SettleVerdict(stake, o, t) = "ok"
      BY <2>3, <2>6, <2>7 DEF SettleVerdict
    <2> QED
      BY <1>1, <1>6, <2>3, <2>8 DEF Settle, Submit, Go
  <1> QED
    BY <1>4, <1>5, <1>6

LEMMA ArchivePrompt ==
  ASSUME NEW d, Ready(d),
         \/ Archive("archive-venue", "venue") \/ Archive("archive-roster", "roster")
         \/ Archive("archive-settled", "settled") \/ Archive("archive-aborted", "aborted")
  PROVE  ended' = "running" /\ failures' = {}
  <1>1. ~Fault /\ failures = {} /\ ended = "running"
    BY NoFault DEF Ready
  <1>2. \A id : Alive(id, pc) => Active(id)
    BY ThereIs DEF Ready
  <1>3. ASSUME NEW name, NEW id, Archive(name, id), ScriptStep(name) => Alive(id, pc)
        PROVE  ended' = "running" /\ failures' = {}
    <2>1. Active(id)
      BY <1>2, <1>3, StepIs DEF Archive, Ready
    <2> QED
      BY <1>1, <1>3, <2>1 DEF Archive, Plain, Submit, Unchecked, Go
  <1>4. /\ ScriptStep("archive-venue") => Alive("venue", pc)
        /\ ScriptStep("archive-roster") => Alive("roster", pc)
        /\ ScriptStep("archive-settled") => Alive("settled", pc)
        /\ ScriptStep("archive-aborted") => Alive("aborted", pc)
    BY DEF ScriptStep, RecoveryStep, FirstStep, Alive
  <1> QED
    BY <1>3, <1>4

LEMMA SubmissionPrompt ==
  ASSUME NEW d, Ready(d), Submissions(d)
  PROVE  ended' = "running" /\ failures' = {}
  BY SetUpPrompt, CommitPrompt, RefusePrompt, ResolvePrompt, ArchivePrompt DEF Submissions

-----------------------------------------------------------------------------
(* A prompt step meets the times of the next one. *)

\* What a prompt step of d ticks does to the script's own state.
Prompts(d) ==
  /\ ScriptOK /\ Tidy /\ Tidy' /\ Timely /\ ChoicesKept /\ d \in Int /\ 0 <= d
  /\ pc' = pc + 1 /\ clock' = clock + d

LEMMA TimelyStep ==
  ASSUME NEW d, Prompts(d), expiring' \in Int, expiring' = expiring \/ pc = 7,
         pc = 13 => AddSeconds(0, 1) <= d /\ d <= AddSeconds(0, 10),
         \A c \in contracts' \ contracts : TimeRight(c)',
         pc = 7 => AddSeconds(clock', 15) <= expiring',
         pc = 9 => AddSeconds(expiring', 3) <= clock'
  PROVE  Timely'
  <1>1. /\ TicksPerSecond \in Nat /\ clock \in Int /\ AddSeconds(0, Started) <= clock
        /\ d \in Int /\ 0 <= d /\ clock' = clock + d /\ pc \in Nat /\ pc' = pc + 1
        /\ script' = script /\ skew' = skew /\ keep' = keep
    BY TicksPerSecondAssumption DEF Prompts, Timely, ScriptOK, ChoicesKept, TicksPerSecondAssumption
  <1> DEFINE q == TicksPerSecond
  <1>2. clock' \in Int /\ AddSeconds(0, Started) <= clock'
    BY <1>1 DEF AddSeconds, Started
  <1>3. pc' = 8 => AddSeconds(clock', 15) <= expiring'
    BY <1>1
  <1>4. pc' \in {10, 11} => AddSeconds(expiring', 3) <= clock'
    <2>1. CASE pc' = 10
      BY <1>1, <2>1
    <2>2. CASE pc' = 11
      <3>1. expiring' = expiring /\ AddSeconds(expiring, 3) <= clock /\ expiring \in Int
        BY <1>1, <2>2 DEF Prompts, Timely
      <3> QED
        BY <1>1, <3>1 DEF AddSeconds
    <2> QED
      BY <2>1, <2>2
  <1>5. ASSUME NEW c \in contracts', c \in contracts
        PROVE  TimeRight(c)'
    <2>1. TimeRight(c) /\ Alive(c.id, pc) /\ Alive(c.id, pc')
      <3>1. c.id \in IdsOf(contracts) /\ (c.id \in IdsOf(contracts))'
        BY <1>5 DEF IdsOf
      <3>2. Alive(c.id, pc) /\ Alive(c.id, pc)'
        BY <3>1 DEF Prompts, Tidy
      <3>3. Alive(c.id, pc')
        BY <1>1, <3>2 DEF Alive
      <3> QED
        BY <1>5, <3>2, <3>3 DEF Prompts, Timely
    <2>2. c.id \in {"slot0", "slot1"} => c.nextEligibleAt = 0
      BY <2>1 DEF TimeRight
    <2>3. ~(c.id = "aborted" /\ pc' = 6) /\ c.id # "expired" /\ c.id # "stake"
      BY <1>1, <2>1 DEF Alive
    <2>4. c.id = "expiring" => c.lockExpiresAt = expiring'
      BY <1>1, <2>1 DEF Alive, TimeRight
    <2>5. c.id = "reused" =>
            /\ c.committedAt \in Int
            /\ pc' # 13
            /\ pc' = 14 => /\ AddSeconds(c.committedAt, 1) <= clock' + skew'
                           /\ clock' + skew' <= AddSeconds(c.committedAt, 10)
      <3> SUFFICES ASSUME c.id = "reused"
                   PROVE  /\ c.committedAt \in Int
                          /\ pc' # 13
                          /\ pc' = 14 => /\ AddSeconds(c.committedAt, 1) <= clock' + skew'
                                         /\ clock' + skew' <= AddSeconds(c.committedAt, 10)
        OBVIOUS
      <3>1. c.committedAt \in Int /\ pc = 13 /\ c.committedAt = clock + skew
        BY <1>1, <2>1 DEF Alive, TimeRight
      <3>2. 1 * q <= d /\ d <= 10 * q
        BY <1>1, <3>1 DEF AddSeconds
      <3>3. skew \in Int
        BY RecoveryAssumption DEF Prompts, ScriptOK, RecoveryAssumption
      <3> QED
        BY <1>1, <3>1, <3>2, <3>3 DEF AddSeconds
    <2> QED
      BY <2>2, <2>3, <2>4, <2>5 DEF TimeRight
  <1>6. \A c \in contracts' : TimeRight(c)'
    BY <1>5
  <1> QED
    BY <1>2, <1>3, <1>4, <1>6 DEF Timely

\* A prompt submission that was answered as it should be.
Answered(d) ==
  Ready(d) /\ d \in Delay /\ Submissions(d) /\ Tidy' /\ ended' = "running" /\ failures' = {}

LEMMA AnsweredTimes ==
  ASSUME NEW d, Answered(d)
  PROVE  /\ Prompts(d) /\ Clean /\ clock' + skew' = clock + d + skew /\ expiring \in Int
         /\ AddSeconds(0, 1) <= d /\ d <= AddSeconds(0, 10)
  <1>1. Forward
    BY SubmissionForward DEF Answered, Ready
  <1>2. /\ TicksPerSecond \in Nat /\ d \in Int /\ TicksPerSecond <= d /\ d <= 10 * TicksPerSecond
        /\ clock' = clock + d /\ clock \in Int /\ skew \in Int /\ skew' = skew /\ expiring \in Int
    BY <1>1, PromptTimes DEF Answered, Ready, Submissions, Elapses, Timely, Forward, ChoicesKept
  <1>3. AddSeconds(0, 1) <= d /\ d <= AddSeconds(0, 10) /\ 0 <= d
    BY <1>2 DEF AddSeconds
  <1>4. ScriptOK /\ Tidy /\ Tidy' /\ Timely /\ ChoicesKept /\ pc' = pc + 1
    BY <1>1 DEF Answered, Ready, Forward
  <1>5. clock' + skew' = clock + d + skew
    BY <1>2
  <1>6. Prompts(d)
    BY <1>2, <1>3, <1>4 DEF Prompts
  <1>7. Clean
    BY <1>4 DEF Answered, Clean
  <1> QED
    BY <1>2, <1>3, <1>5, <1>6, <1>7

LEMMA SetUpTimely ==
  ASSUME NEW d, Answered(d), CreateVenue \/ InitRoster \/ Issue
  PROVE  Timely'
  <1>1. Prompts(d) /\ Clean /\ expiring \in Int
    BY AnsweredTimes
  <1>2. expiring' = expiring
    BY DEF CreateVenue, InitRoster, Issue, Plain
  <1>3. pc \in {0, 1, 2}
    BY StepIs DEF CreateVenue, InitRoster, Issue, Answered, Ready, ScriptStep, RecoveryStep, FirstStep
  <1>4. ASSUME NEW c \in contracts' \ contracts
        PROVE  TimeRight(c)'
    <2>1. CASE CreateVenue \/ InitRoster
      <3>1. c.id \in {"venue", "roster"}
        BY <1>1, <1>4, <2>1 DEF CreateVenue, InitRoster, Plain, Submit, Go, Crash, Clean
      <3> QED
        BY <3>1 DEF TimeRight
    <2>2. CASE Issue
      <3>1. PICK i \in 1..PolicyOf.concurrencyLimit : c = Token(<<"slot0", "slot1">>[i], 0, 0)
        BY <1>1, <1>4, <2>2 DEF Issue, Plain, Submit, Go, Crash, Clean
      <3>2. i \in {1, 2}
        BY DEF PolicyOf
      <3>3. c.id \in {"slot0", "slot1"} /\ c.nextEligibleAt = 0
        BY <3>1, <3>2 DEF Token
      <3> QED
        BY <3>3 DEF TimeRight
    <2> QED
      BY <2>1, <2>2
  <1> QED
    BY <1>1, <1>2, <1>3, <1>4, TimelyStep

LEMMA CommitTimely ==
  ASSUME NEW d, Answered(d), NEW t, t = clock + d + skew,
         \/ CommitNow("commit", "slot0", "stake", t)
         \/ CommitNow("commit-abort", "slot0", "aborting", t)
         \/ CommitNow("commit-expire", "slot1", "expiring", t)
         \/ CommitNow("commit-again", "expired", "reused", t)
  PROVE  Timely'
  <1>1. /\ Prompts(d) /\ Clean /\ expiring \in Int /\ clock' + skew' = t
        /\ AddSeconds(0, 1) <= d /\ d <= AddSeconds(0, 10)
    BY AnsweredTimes
  <1> DEFINE until == AddSeconds(clock, LOCK_SECONDS)
  <1>2. ASSUME NEW name, NEW token, NEW stake, CommitNow(name, token, stake, t)
        PROVE  /\ \A c \in contracts' \ contracts :
                    c.id = stake /\ c.committedAt = t /\ c.lockExpiresAt = until
               /\ expiring' = (IF name = "commit-expire" THEN until ELSE expiring) /\ ScriptStep(name)
    <2>1. /\ contracts' = (contracts \ {The(token)}) \cup
               {[id |-> stake, committedAt |-> t, lockExpiresAt |-> until,
                 completed |-> The(token).completed]}
          /\ expiring' = (IF name = "commit-expire" THEN until ELSE expiring)
      BY <1>1, <1>2 DEF CommitNow, Submit, CommitEffect, Go, Crash, Clean
    <2>2. ScriptStep(name)
      BY <1>2, StepIs DEF CommitNow, Answered, Ready
    <2> QED
      BY <2>1, <2>2
  <1>3. /\ TicksPerSecond \in Nat /\ clock \in Int /\ d \in Int /\ clock' = clock + d /\ skew \in Int
        /\ pc' = pc + 1 /\ pc \in Nat
    <2>1. Ready(d) /\ pc' = pc + 1 /\ clock' = clock + d
      BY <1>1 DEF Answered, Prompts
    <2>2. clock \in Int /\ pc \in Nat
      BY <2>1 DEF Ready, ScriptOK, Timely
    <2> QED
      BY <2>1, <2>2, PromptTimes DEF Ready
  <1>4. until \in Int
    BY <1>3 DEF AddSeconds, LOCK_SECONDS
  <1>5. t \in Int
    BY <1>3
  <1> HIDE DEF until
  <1>6. CASE CommitNow("commit", "slot0", "stake", t)
    <2>1. \A c \in contracts' \ contracts : TimeRight(c)'
      BY <1>1, <1>2, <1>6 DEF TimeRight
    <2>2. expiring' = expiring /\ pc = 3
      BY <1>2, <1>6 DEF ScriptStep, RecoveryStep, FirstStep
    <2> QED
      BY <1>1, <2>1, <2>2, TimelyStep
  <1>7. CASE CommitNow("commit-abort", "slot0", "aborting", t)
    <2>1. \A c \in contracts' \ contracts : TimeRight(c)'
      BY <1>1, <1>2, <1>7 DEF TimeRight
    <2>2. expiring' = expiring /\ pc = 3
      BY <1>2, <1>7 DEF ScriptStep, RecoveryStep, FirstStep
    <2> QED
      BY <1>1, <2>1, <2>2, TimelyStep
  <1>8. CASE CommitNow("commit-expire", "slot1", "expiring", t)
    <2>2. expiring' = until /\ pc = 7 /\ script = "recovery"
      BY <1>2, <1>8 DEF ScriptStep, RecoveryStep, FirstStep
    <2>1. \A c \in contracts' \ contracts : TimeRight(c)'
      BY <1>1, <1>2, <1>8, <2>2 DEF TimeRight
    <2>3. AddSeconds(clock', 15) <= expiring'
      <3>1. until = clock + 25 * TicksPerSecond
        BY <2>2 DEF until, AddSeconds, LOCK_SECONDS
      <3> QED
        BY <1>1, <1>3, <2>2, <3>1 DEF AddSeconds
    <2> QED
      BY <1>1, <1>4, <2>1, <2>2, <2>3, TimelyStep
  <1>9. CASE CommitNow("commit-again", "expired", "reused", t)
    <2>2. expiring' = expiring /\ pc = 12 /\ pc' = 13
      BY <1>2, <1>3, <1>9 DEF ScriptStep, RecoveryStep, FirstStep
    <2>1. \A c \in contracts' \ contracts : TimeRight(c)'
      BY <1>1, <1>2, <1>5, <1>9, <2>2 DEF TimeRight
    <2> QED
      BY <1>1, <2>1, <2>2, TimelyStep
  <1> QED
    BY <1>6, <1>7, <1>8, <1>9

LEMMA ResolveTimely ==
  ASSUME NEW d, Answered(d), NEW t, t = clock + d + skew,
         \/ Abort(t) \/ Expire(t) \/ Settle(IF script = "recovery" THEN "reused" ELSE "stake", t)
  PROVE  Timely'
  <1>1. /\ Prompts(d) /\ Clean /\ expiring \in Int /\ clock' + skew' = t /\ pc' = pc + 1
    BY AnsweredTimes DEF Prompts
  <1>2. expiring' = expiring
    BY DEF Abort, Expire, Settle
  <1>3. pc \in Nat
    BY DEF Answered, Ready, ScriptOK
  <1>4. CASE Abort(t)
    <2>1. pc = 5 /\ pc' = 6 /\ script = "recovery"
      BY <1>1, <1>4, StepIs DEF Abort, Answered, Ready, ScriptStep, RecoveryStep, FirstStep
    <2>2. \A c \in contracts' \ contracts : c.id = "aborted" /\ c.nextEligibleAt = AddSeconds(t, 120)
      BY <1>1, <1>4, <2>1 DEF Abort, Submit, Recycle, Token, PolicyOf, Go, Crash, Clean
    <2>3. \A c \in contracts' \ contracts : TimeRight(c)'
      BY <1>1, <2>1, <2>2 DEF TimeRight, AddSeconds
    <2> QED
      BY <1>1, <1>2, <2>1, <2>3, TimelyStep
  <1>5. CASE Expire(t)
    <2>1. pc = 11 /\ pc' = 12 /\ script = "recovery"
      BY <1>1, <1>5, StepIs DEF Expire, Answered, Ready, ScriptStep, RecoveryStep, FirstStep
    <2>2. \A c \in contracts' \ contracts : c.id = "expired" /\ c.nextEligibleAt = t
      BY <1>1, <1>5, <2>1 DEF Expire, Submit, Recycle, Token, Go, Crash, Clean
    <2>3. \A c \in contracts' \ contracts : TimeRight(c)'
      BY <1>1, <2>1, <2>2 DEF TimeRight
    <2> QED
      BY <1>1, <1>2, <2>1, <2>3, TimelyStep
  <1>6. CASE Settle(IF script = "recovery" THEN "reused" ELSE "stake", t)
    <2>1. pc \in {4, 14}
      BY <1>6, StepIs DEF Settle, Answered, Ready, ScriptStep, RecoveryStep, FirstStep
    <2>2. \A c \in contracts' \ contracts : c.id = "settled"
      BY <1>1, <1>6, <2>1 DEF Settle, Submit, Recycle, Token, Go, Crash, Clean
    <2>3. \A c \in contracts' \ contracts : TimeRight(c)'
      BY <2>2 DEF TimeRight
    <2> QED
      BY <1>1, <1>2, <2>1, <2>3, TimelyStep
  <1> QED
    BY <1>4, <1>5, <1>6

LEMMA KeepTimely ==
  ASSUME NEW d, Answered(d), NEW t, t = clock + d + skew,
         \/ AbortSolo(t) \/ TooSoon(t) \/ ExpireEarly(t) \/ ExpireByVenue(t) \/ Forfeit(t)
         \/ Archive("archive-venue", "venue") \/ Archive("archive-roster", "roster")
         \/ Archive("archive-settled", "settled") \/ Archive("archive-aborted", "aborted")
  PROVE  Timely'
  <1>1. /\ Prompts(d) /\ Clean /\ expiring \in Int
        /\ AddSeconds(0, 1) <= d /\ d <= AddSeconds(0, 10)
    BY AnsweredTimes
  <1>2. CASE AbortSolo(t) \/ TooSoon(t) \/ ExpireEarly(t) \/ ExpireByVenue(t) \/ Forfeit(t)
    <2>1. expiring' = expiring /\ contracts' = contracts
      <3>1. CASE AbortSolo(t)
        BY <1>1, <3>1 DEF AbortSolo, MustBeRefused, Clean
      <3>2. CASE TooSoon(t)
        BY <1>1, <3>2 DEF TooSoon, MustBeRefused, Clean
      <3>3. CASE ExpireEarly(t)
        BY <1>1, <3>3 DEF ExpireEarly, MustBeRefused, Clean
      <3>4. CASE ExpireByVenue(t)
        BY <1>1, <3>4 DEF ExpireByVenue, MustBeRefused, Clean
      <3>5. CASE Forfeit(t)
        BY <1>1, <3>5 DEF Forfeit, MustBeRefused, Clean
      <3> QED
        BY <1>2, <3>1, <3>2, <3>3, <3>4, <3>5
    <2>2. pc \in {4, 6, 8, 10, 13}
      <3>1. PICK name \in {"abort-solo", "too-soon", "expire-early", "expire-venue", "forfeit"} :
              AtStep(name)
        BY <1>2 DEF AbortSolo, TooSoon, ExpireEarly, ExpireByVenue, Forfeit
      <3> QED
        BY <3>1, StepIs DEF Answered, Ready, ScriptStep, RecoveryStep, FirstStep
    <2> QED
      BY <1>1, <2>1, <2>2, TimelyStep
  <1>3. CASE \/ Archive("archive-venue", "venue") \/ Archive("archive-roster", "roster")
             \/ Archive("archive-settled", "settled") \/ Archive("archive-aborted", "aborted")
    <2>1. PICK name \in {"archive-venue", "archive-roster", "archive-settled", "archive-aborted"},
                id \in {"venue", "roster", "settled", "aborted"} : Archive(name, id)
      BY <1>3
    <2>2. expiring' = expiring /\ contracts' = contracts \ {The(id)}
      BY <1>1, <2>1 DEF Archive, Plain, Submit, Go, Crash, Clean
    <2>3. pc \in 15..18
      BY <2>1, StepIs DEF Archive, Answered, Ready, ScriptStep, RecoveryStep, FirstStep
    <2> QED
      BY <1>1, <2>2, <2>3, TimelyStep
  <1> QED
    BY <1>2, <1>3

LEMMA SubmissionTimely ==
  ASSUME NEW d, Answered(d)
  PROVE  Timely'
  <1>1. Submissions(d)
    BY DEF Answered
  <1> QED
    BY <1>1, SetUpTimely, CommitTimely, ResolveTimely, KeepTimely DEF Submissions

LEMMA PassTimely ==
  ASSUME ScriptOK, Tidy, Tidy', Timely, Clean, Skip \/ WaitForLock
  PROVE  Timely'
  <1>1. TicksPerSecond \in Nat /\ clock \in Int /\ expiring \in Int /\ expiring' = expiring
    BY TicksPerSecondAssumption DEF TicksPerSecondAssumption, Timely, Skip, WaitForLock
  <1>2. contracts' = contracts /\ pc' = pc + 1 /\ ChoicesKept
    BY DEF Skip, WaitForLock, Go, Clean
  <1>3. CASE Skip
    <2>1. PICK name \in {"abort-solo", "expire-venue", "archive-venue", "archive-roster",
                         "archive-settled", "archive-aborted"} : AtStep(name)
      BY <1>3 DEF Skip
    <2>2. pc \in {4, 10, 15, 16, 17, 18}
      BY <2>1, StepIs DEF ScriptStep, RecoveryStep, FirstStep
    <2>3. Prompts(0)
      BY <1>1, <1>2, <1>3 DEF Prompts, Skip
    <2> QED
      BY <1>1, <1>2, <2>2, <2>3, TimelyStep
  <1>4. CASE WaitForLock
    <2>1. pc = 9
      BY <1>4, StepIs DEF WaitForLock, ScriptStep, RecoveryStep, FirstStep
    <2> DEFINE d == clock' - clock
    <2>2. clock' = (IF expiring > clock THEN expiring ELSE clock) + 3 * TicksPerSecond
      BY <1>4 DEF WaitForLock, AddSeconds, Margin
    <2>3. d \in Int /\ 0 <= d /\ clock' = clock + d /\ expiring + 3 * TicksPerSecond <= clock'
      BY <1>1, <2>2
    <2> HIDE DEF d
    <2>4. Prompts(d)
      BY <1>1, <1>2, <2>3 DEF Prompts
    <2>5. AddSeconds(expiring', 3) <= clock'
      BY <1>1, <2>3 DEF AddSeconds
    <2> QED
      BY <1>1, <1>2, <2>1, <2>4, <2>5, TimelyStep
  <1> QED
    BY <1>3, <1>4

-----------------------------------------------------------------------------
(* Prompt runs are green. *)

\* A run that is prompt after a step was prompt before it, and so was the step.
LEMMA PromptedBefore ==
  ASSUME ScriptOK, Next, Prompted'
  PROVE  Prompted /\ faults' = faults
  <1>1. faults \in Nat /\ (faults' = faults \/ faults' = faults + 1) /\ skew' = skew
    <2>1. CASE ended' = "green" \/ ended' = "failed"
      BY <2>1, OnlyFinishEnds, FinishForward DEF ScriptOK, ChoicesKept
    <2>2. CASE ended' # "green" /\ ended' # "failed"
      BY <2>2, StepForward DEF ScriptOK, Forward, ChoicesKept
    <2> QED
      BY <2>1, <2>2
  <1>2. faults = 0 /\ faults' = faults
    BY <1>1 DEF Prompted
  <1>3. \A i \in DOMAIN took : i \in DOMAIN took' /\ took'[i] = took[i]
    <2>1. took \in Seq(Delay)
      BY DEF ScriptOK
    <2>2. CASE took' = took
      BY <2>2
    <2>3. ASSUME NEW d \in Delay, took' = Append(took, d)
          PROVE  \A i \in DOMAIN took : i \in DOMAIN took' /\ took'[i] = took[i]
      BY <2>1, <2>3, AppendProperties
    <2> QED
      BY <2>2, <2>3, TookStep
  <1> QED
    BY <1>1, <1>2, <1>3 DEF Prompted

LEMMA PromptDelay ==
  ASSUME ScriptOK, NEW d \in Delay, Elapses(d), Prompted'
  PROVE  d \in Prompt
  <1>1. CASE d = Usual
    BY <1>1, PromptAssumption DEF PromptAssumption
  <1>2. CASE d # Usual
    <2>1. took' = Append(took, d) /\ took \in Seq(Delay)
      BY <1>2 DEF Elapses, ScriptOK
    <2>2. Len(took) + 1 \in DOMAIN took' /\ took'[Len(took) + 1] = d
      BY <2>1, AppendProperties, LenProperties
    <2> QED
      BY <2>2 DEF Prompted
  <1> QED
    BY <1>1, <1>2

LEMMA OnTimeStep ==
  ASSUME ScriptOK, Orderly, OnTime, [Next]_vars
  PROVE  OnTime'
  <1>1. CASE UNCHANGED vars
    <2>1. Timely' <=> Timely
      BY <1>1 DEF vars, Timely, TimeRight
    <2>2. Prompted' <=> Prompted
      BY <1>1 DEF vars, Prompted
    <2> QED
      BY <1>1, <2>1, <2>2 DEF vars, OnTime
  <1>2. CASE Next
    <2> SUFFICES ASSUME Prompted'
                 PROVE  /\ ended' \in {"running", "green"} /\ failures' = {}
                        /\ ended' = "running" => Timely'
      BY DEF OnTime
    <2>1. Prompted /\ faults' = faults
      BY <1>2, PromptedBefore
    <2>2. ended = "running"
      <3>1. CASE Finish
        BY <3>1, FinishForward
      <3>2. CASE ~Finish
        BY <1>2, <3>2, OnlyFinishEnds, StepForward DEF Forward
      <3> QED
        BY <3>1, <3>2
    <2>3. failures = {} /\ Timely /\ Tidy
      BY <2>1, <2>2 DEF OnTime, Orderly
    <2>4. CASE \E d \in Delay : Submissions(d)
      <3>1. PICK d \in Delay : Submissions(d)
        BY <2>4
      <3>2. d \in Prompt
        BY <3>1, PromptDelay DEF Submissions
      <3>3. Ready(d)
        BY <2>1, <2>2, <2>3, <3>2 DEF Ready, Prompted
      <3>4. ended' = "running" /\ failures' = {}
        BY <3>1, <3>3, SubmissionPrompt
      <3>5. Tidy'
        BY <1>2, <2>3, <3>4, TidyStep
      <3>6. Timely'
        BY <3>1, <3>3, <3>4, <3>5, SubmissionTimely DEF Answered
      <3> QED
        BY <3>4, <3>6
    <2>5. CASE Skip \/ WaitForLock
      <3>1. ended' = "running" /\ failures' = {}
        BY <2>2, <2>3, <2>5 DEF Skip, WaitForLock, Go
      <3>2. Tidy' /\ Clean
        BY <1>2, <2>3, <3>1, TidyStep, StepForward DEF Forward, Clean
      <3> QED
        BY <2>3, <2>5, <3>1, <3>2, PassTimely
    <2>6. CASE QueryLost
      <3>1. ~Fault
        BY <2>1, NoFault
      <3> QED
        BY <2>6, <3>1 DEF QueryLost
    <2>7. CASE Finish
      <3>1. script = "recovery" /\ ~keep => contracts = {}
        <4> SUFFICES ASSUME script = "recovery", ~keep
                     PROVE  contracts = {}
          OBVIOUS
        <4>1. pc = 19
          BY <2>7, StepIs DEF Finish, ScriptStep, RecoveryStep
        <4>2. \A id : ~Alive(id, pc)
          BY <4>1 DEF Alive
        <4> QED
          BY <2>3, <4>2 DEF Tidy, IdsOf
      <3>2. failures' = {} /\ ended' = "green"
        BY <2>3, <2>7, <3>1 DEF Finish
      <3> QED
        BY <3>2
    <2> QED
      BY <1>2, <2>4, <2>5, <2>6, <2>7 DEF Next
  <1> QED
    BY <1>1, <1>2

\* A prompt run is green: with every delay within the waits of the script and
\* the two clocks close enough, the sub-second truncation of a duration and the
\* margin after a lock fail no step, whatever the number of ticks in a second
\* (recovery.mjs:233-470, first-cycle.mjs:156-222).
THEOREM PromptGreen == Spec => []PromptRunsAreGreen
  <1>1. Init => ScriptOK /\ Orderly /\ OnTime
    <2>1. Init => Timely
      BY TicksPerSecondAssumption DEF TicksPerSecondAssumption, Init, Timely, AddSeconds, Started
    <2> QED
      BY <2>1, ScriptInit DEF Init, OnTime
  <1>2. ScriptOK /\ Orderly /\ OnTime /\ [Next]_vars => (ScriptOK /\ Orderly /\ OnTime)'
    BY ScriptStepOK, OrderlyStep, OnTimeStep
  <1>3. ScriptOK /\ OnTime => PromptRunsAreGreen
    BY DEF ScriptOK, OnTime, Prompted, PromptRunsAreGreen
  <1> QED
    BY <1>1, <1>2, <1>3, PTL DEF Spec
=============================================================================
