------------------------- MODULE RecoveryProperties -------------------------
(***************************************************************************)
(* What a run of the two scripts is evidence of.                           *)
(***************************************************************************)
EXTENDS Recovery

CONSTANTS Prompt, Tolerated    \* delays and skews the scripts are made for

ASSUME PromptAssumption ==
  /\ Usual \in Prompt /\ Prompt \subseteq AddSeconds(0, 1)..AddSeconds(0, 10)
  /\ Tolerated \subseteq -AddSeconds(0, 2)..AddSeconds(0, 2)

\* What the ledger must have said no to in a run of recovery.mjs, and why.
RefusalsDue ==
  {<<"too-soon", "cooldown">>, <<"expire-early", "lock">>, <<"forfeit", "forfeit">>}
    \cup (IF separate THEN {<<"abort-solo", "authority">>, <<"expire-venue", "authority">>} ELSE {})

\* A green exit of recovery.mjs means that every refusal it can ask for was
\* given for its own reason, that only the ordinary settlement counted a cycle,
\* and that no contract of its venue is left unless it was told to keep them;
\* one of first-cycle.mjs that its slot is back with one cycle counted.
GreenRunIsComplete ==
  ended = "green" =>
    IF script = "recovery"
    THEN /\ refused = RefusalsDue
         /\ IF keep THEN {c.id : c \in contracts} = {"venue", "roster", "settled", "aborted"}
                         /\ The("settled").completed = 1 /\ The("aborted").completed = 0
            ELSE contracts = {}
    ELSE {c.id : c \in contracts} = {"venue", "roster", "settled"} /\ The("settled").completed = 1

\* A run fails or throws only where a submission was lost, took under a second
\* or over ten, or met a clock more than two seconds from the script's: but for
\* those neither the truncation of a duration, nor the margin after a lock, nor
\* the two clocks fail it.  Under a second is no rare thing: on a participant that
\* answers sooner the settlement, which the scripts send with no wait after the
\* commitment, is refused as too early (first-cycle.mjs:181-202,
\* recovery.mjs:405-452, Cycle.daml:461-462), and no such run is called prompt.
PromptRunsAreGreen ==
  ended \in {"failed", "crashed"} => faults > 0 \/ skew \notin Tolerated \/ \E i \in DOMAIN took : took[i] \notin Prompt
=============================================================================
