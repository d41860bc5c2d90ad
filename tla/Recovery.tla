------------------------------ MODULE Recovery ------------------------------
(***************************************************************************)
(* The two scripts an integrator runs against a participant: one cycle     *)
(* that settles (first-cycle.mjs), and the ways a cycle ends otherwise,    *)
(* with the submissions the ledger must refuse (recovery.mjs).  Both write *)
(* to a dry-run venue of their own, under the ledger's clock, which is the *)
(* script's clock and a skew.  A submission takes its time, and its        *)
(* request or its answer may be lost.  Digests are left out.               *)
(***************************************************************************)
EXTENDS Policy, Settlement, Sequences, FiniteSets

CONSTANTS
  Delay,        \* how many ticks a submission may take to be executed
  Skew,         \* how far the ledger's clock may be ahead of the script's
  Usual,        \* the delay of most submissions
  MaxUnusual,   \* bound on submissions with another one
  MaxFaults     \* bound on lost requests and answers

ASSUME RecoveryAssumption ==
  Delay \subseteq Nat /\ Skew \subseteq Int /\ Usual \in Nat /\ MaxUnusual \in Nat /\ MaxFaults \in Nat

VARIABLES
  script,       \* "first-cycle" or "recovery"
  separate,     \* venue and player are two parties
  keep,         \* KEEP=1
  skew,
  pc,           \* how many steps are done
  clock,        \* the script's clock
  contracts,    \* the contracts of the venue that are active
  expiring,     \* what the script remembers: lockExpiresAt of step 7
  failures,     \* the steps whose check failed
  ended,        \* "running", "green", "failed" or "crashed"
  refused,      \* history: the refusals so far, step and reason
  took,         \* history: the unusual delays, in order
  faults        \* history: how many were lost

vars == <<script, separate, keep, skew, pc, clock, contracts, expiring, failures, ended,
          refused, took, faults>>
choices == <<script, separate, keep, skew>>

Stake == 30
LOCK_SECONDS == IF script = "recovery" THEN 25 ELSE 3600
Margin == 3
Started == 1000000    \* when the script starts, in seconds after the epoch

PolicyOf ==
  [ minStakeAmount |-> 10, maxStakeAmount |-> 1000, minPlatformFee |-> 0, maxPayoutAmount |-> 0,
    minLockSeconds |-> IF script = "recovery" THEN 5 ELSE 60, maxLockSeconds |-> 172800,
    minCycleSeconds |-> 1, maxCycleSeconds |-> 7200, cooldownSeconds |-> 0,
    abortCooldownSeconds |-> IF script = "recovery" THEN 120 ELSE 0,
    concurrencyLimit |-> IF script = "recovery" THEN 2 ELSE 1, requireCustodyProof |-> FALSE ]

Steps ==
  IF script = "first-cycle" THEN <<"venue", "roster", "issue", "commit", "settle", "verify">>
  ELSE <<"venue", "roster", "issue", "commit-abort", "abort-solo", "abort", "too-soon",
         "commit-expire", "expire-early", "wait", "expire-venue", "expire", "commit-again",
         "forfeit", "settle", "archive-venue", "archive-roster", "archive-settled",
         "archive-aborted", "query">>

-----------------------------------------------------------------------------
(* What the ledger says to a submission at its time t: "ok" or why not.    *)

Active(id) == \E c \in contracts : c.id = id
The(id) == CHOOSE c \in contracts : c.id = id

Token(id, nextEligibleAt, completed) ==
  [id |-> id, nextEligibleAt |-> nextEligibleAt, completed |-> completed]

CommitVerdict(token, lockExpiresAt, t) ==
  IF ~Active(token) THEN "gone"
  ELSE IF t < The(token).nextEligibleAt THEN "cooldown"
  ELSE IF ~TermsMeetPolicy(PolicyOf, t, [stakeAmount |-> Stake, feeAmount |-> 0,
                                         lockExpiresAt |-> lockExpiresAt]) THEN "terms"
  ELSE "ok"

CommitEffect(token, stake, lockExpiresAt, t) ==
  contracts' = (contracts \ {The(token)}) \cup
     {[id |-> stake, committedAt |-> t, lockExpiresAt |-> lockExpiresAt,
       completed |-> The(token).completed]}

SettleVerdict(stake, outcome, t) ==
  IF ~Active(stake) THEN "gone"
  ELSE LET elapsed == SecondsBetween(The(stake).committedAt, t) IN
       IF elapsed < PolicyOf.minCycleSeconds \/ elapsed > PolicyOf.maxCycleSeconds THEN "duration"
       ELSE IF outcome.forfeited > 0 THEN "forfeit"
       ELSE IF ~OutcomeAccepted("TimeLockedHolding", Stake, PolicyOf.maxPayoutAmount, outcome) THEN "outcome"
       ELSE "ok"

\* players: whether the submission carries the player's authority.
AbortVerdict(stake, players) ==
  IF ~Active(stake) THEN "gone" ELSE IF ~players THEN "authority" ELSE "ok"

ExpireVerdict(stake, players, t) ==
  IF ~Active(stake) THEN "gone" ELSE IF ~players THEN "authority"
  ELSE IF t < The(stake).lockExpiresAt THEN "lock" ELSE "ok"

Recycle(stake, token, nextEligibleAt, counted) ==
  contracts' = (contracts \ {The(stake)}) \cup
     {Token(token, nextEligibleAt, The(stake).completed + (IF counted THEN 1 ELSE 0))}

-----------------------------------------------------------------------------
(* The script.                                                             *)

AtStep(name) == ended = "running" /\ pc < Len(Steps) /\ Steps[pc + 1] = name

\* A submission is executed at ledger time t, after d ticks of the script's.
Elapses(d) ==
  /\ clock' = clock + d
  /\ IF d = Usual THEN UNCHANGED took
     ELSE Len(took) < MaxUnusual /\ took' = Append(took, d)
Go == pc' = pc + 1 /\ UNCHANGED ended
Crash == ended' = "crashed" /\ UNCHANGED <<pc, failures>>
Fault == faults < MaxFaults /\ faults' = faults + 1

\* A submission the script counts on: it throws when it is refused or lost,
\* whether the ledger has executed it or not.  Checked adds its own failures.
Submit(verdict, Effect, Checked) ==
  /\ UNCHANGED <<choices, refused>>
  /\ \/ verdict = "ok" /\ Effect /\ Checked /\ Go /\ UNCHANGED faults
     \/ verdict # "ok" /\ Crash /\ UNCHANGED <<contracts, faults>>
     \/ verdict = "ok" /\ Fault /\ Effect /\ Crash
     \/ Fault /\ Crash /\ UNCHANGED contracts

\* Variant for mutation: any refusal will do.
MustBeRefusedAnyhow(name, expected, verdict, Effect) ==
  /\ Go /\ UNCHANGED <<choices, expiring>>
  /\ \/ verdict = "ok" /\ Effect /\ failures' = failures \cup {name} /\ UNCHANGED <<refused, faults>>
     \/ /\ verdict # "ok" /\ refused' = refused \cup {<<name, verdict>>}
        /\ UNCHANGED <<failures, contracts, faults>>
     \/ Fault /\ UNCHANGED <<contracts, refused, failures>>

\* A submission that is to be refused: it fails the script when it is accepted,
\* refused for another reason, or lost, and the script goes on.
MustBeRefused(name, expected, verdict, Effect) ==
  /\ Go /\ UNCHANGED <<choices, expiring>>
  /\ \/ verdict = "ok" /\ Effect /\ failures' = failures \cup {name} /\ UNCHANGED <<refused, faults>>
     \/ /\ verdict # "ok" /\ refused' = refused \cup {<<name, verdict>>}
        /\ failures' = IF verdict = expected THEN failures ELSE failures \cup {name}
        /\ UNCHANGED <<contracts, faults>>
     \/ Fault /\ UNCHANGED <<contracts, refused>> /\ failures' = failures \cup {name}
     \/ verdict = "ok" /\ Fault /\ Effect /\ failures' = failures \cup {name} /\ UNCHANGED refused

Unchecked == UNCHANGED failures
Plain(verdict, Effect) == UNCHANGED expiring /\ Submit(verdict, Effect, Unchecked)

Init ==
  /\ script \in {"first-cycle", "recovery"}
  /\ separate \in (IF script = "recovery" THEN BOOLEAN ELSE {FALSE})
  /\ keep \in (IF script = "recovery" THEN BOOLEAN ELSE {TRUE})
  /\ skew \in Skew
  /\ pc = 0 /\ clock = AddSeconds(0, Started) /\ contracts = {} /\ expiring = 0
  /\ failures = {} /\ ended = "running"
  /\ refused = {} /\ took = <<>> /\ faults = 0

CreateVenue ==
  /\ AtStep("venue")
  /\ Plain("ok", contracts' = {[id |-> "venue"]})

InitRoster ==
  /\ AtStep("roster")
  /\ Plain("ok", contracts' = {[id |-> "venue"], [id |-> "roster"]})

\* One slot for each cycle the policy lets a player have open.
Issue ==
  /\ AtStep("issue")
  /\ Plain("ok", contracts' = contracts \cup
       {Token(<<"slot0", "slot1">>[i], 0, 0) : i \in 1..PolicyOf.concurrencyLimit})

\* The lock is asked for by the script's clock, before the submission is sent.
CommitNow(name, token, stake, t) ==
  LET lockExpiresAt == AddSeconds(clock, LOCK_SECONDS) IN
  /\ AtStep(name)
  /\ expiring' = IF name = "commit-expire" THEN lockExpiresAt ELSE expiring
  /\ Submit(CommitVerdict(token, lockExpiresAt, t),
            CommitEffect(token, stake, lockExpiresAt, t), Unchecked)

AbortSolo(t) ==
  /\ AtStep("abort-solo") /\ separate
  /\ MustBeRefused("abort-solo", "authority", AbortVerdict("aborting", FALSE), UNCHANGED contracts)

\* An abort counts nothing, and its slot rests for the abort's cooldown.
Abort(t) ==
  /\ AtStep("abort") /\ UNCHANGED expiring
  /\ Submit(AbortVerdict("aborting", TRUE),
            Recycle("aborting", "aborted", AddSeconds(t, PolicyOf.abortCooldownSeconds), FALSE),
            failures' = IF The("aborting").completed = 0 THEN failures ELSE failures \cup {"abort"})

TooSoon(t) ==
  LET lockExpiresAt == AddSeconds(clock, LOCK_SECONDS) IN
  /\ AtStep("too-soon")
  /\ MustBeRefused("too-soon", "cooldown", CommitVerdict("aborted", lockExpiresAt, t),
                   CommitEffect("aborted", "tooSoon", lockExpiresAt, t))

ExpireEarly(t) ==
  /\ AtStep("expire-early")
  /\ MustBeRefused("expire-early", "lock", ExpireVerdict("expiring", TRUE, t),
                   Recycle("expiring", "early", t, FALSE))

ExpireByVenue(t) ==
  /\ AtStep("expire-venue") /\ separate
  /\ MustBeRefused("expire-venue", "authority", ExpireVerdict("expiring", FALSE, t), UNCHANGED contracts)

Expire(t) ==
  /\ AtStep("expire") /\ UNCHANGED expiring
  /\ Submit(ExpireVerdict("expiring", TRUE, t), Recycle("expiring", "expired", t, FALSE),
            failures' = IF The("expiring").completed = 0 THEN failures ELSE failures \cup {"expire"})

Forfeit(t) ==
  LET o == [disposition |-> "ForfeitedInFull", returned |-> 0, forfeited |-> Stake, payout |-> 0] IN
  /\ AtStep("forfeit")
  /\ MustBeRefused("forfeit", "forfeit", SettleVerdict("reused", o, t),
                   Recycle("reused", "forfeited", t, TRUE))

Settle(stake, t) ==
  LET o == [disposition |-> "ReturnedInFull", returned |-> Stake, forfeited |-> 0, payout |-> 0] IN
  /\ AtStep("settle") /\ UNCHANGED expiring
  /\ Submit(SettleVerdict(stake, o, t),
            Recycle(stake, "settled", AddSeconds(t, PolicyOf.cooldownSeconds), TRUE),
            failures' = IF The(stake).completed = 0 THEN failures ELSE failures \cup {"settle"})

\* Nothing is archived with KEEP=1; a contract that is gone throws.
Archive(name, id) ==
  /\ AtStep(name) /\ ~keep
  /\ Plain(IF Active(id) THEN "ok" ELSE "gone", contracts' = contracts \ {The(id)})

Submissions(d) ==
  LET t == clock + d + skew IN
  /\ Elapses(d)
  /\ \/ CreateVenue \/ InitRoster \/ Issue
     \/ CommitNow("commit", "slot0", "stake", t)
     \/ CommitNow("commit-abort", "slot0", "aborting", t)
     \/ AbortSolo(t) \/ Abort(t) \/ TooSoon(t)
     \/ CommitNow("commit-expire", "slot1", "expiring", t)
     \/ ExpireEarly(t) \/ ExpireByVenue(t) \/ Expire(t)
     \/ CommitNow("commit-again", "expired", "reused", t)
     \/ Forfeit(t) \/ Settle(IF script = "recovery" THEN "reused" ELSE "stake", t)
     \/ Archive("archive-venue", "venue") \/ Archive("archive-roster", "roster")
     \/ Archive("archive-settled", "settled") \/ Archive("archive-aborted", "aborted")

\* The refusals that need two parties are skipped with one, the cleanup with KEEP.
Skip ==
  /\ \/ \E name \in {"abort-solo", "expire-venue"} : AtStep(name) /\ ~separate
     \/ \E name \in {"archive-venue", "archive-roster", "archive-settled", "archive-aborted"} :
           AtStep(name) /\ keep
  /\ Go /\ UNCHANGED <<choices, clock, contracts, expiring, failures, refused, took, faults>>

\* Variant for mutation: no margin is waited.
WaitForLockExactly ==
  /\ AtStep("wait") /\ Go
  /\ clock' = IF expiring > clock THEN expiring ELSE clock
  /\ UNCHANGED <<choices, contracts, expiring, failures, refused, took, faults>>

WaitForLock ==
  /\ AtStep("wait") /\ Go
  /\ clock' = AddSeconds(IF expiring > clock THEN expiring ELSE clock, Margin)
  /\ UNCHANGED <<choices, contracts, expiring, failures, refused, took, faults>>

\* The last step: first-cycle compares digests, recovery asks the ledger what is
\* left of its venue; then the exit code.
Finish ==
  LET left == script = "recovery" /\ ~keep /\ contracts # {} IN
  /\ \/ AtStep("verify") \/ AtStep("query")
  /\ pc' = pc + 1
  /\ failures' = IF left THEN failures \cup {"query"} ELSE failures
  /\ ended' = IF failures' = {} THEN "green" ELSE "failed"
  /\ UNCHANGED <<choices, clock, contracts, expiring, refused, took, faults>>

QueryLost ==
  /\ AtStep("query") /\ ~keep /\ Fault /\ Crash
  /\ UNCHANGED <<choices, clock, contracts, expiring, refused, took>>

Next == (\E d \in Delay : Submissions(d)) \/ Skip \/ WaitForLock \/ QueryLost \/ Finish

Spec == Init /\ [][Next]_vars
=============================================================================
