----------------------------- MODULE MCRecovery -----------------------------
(* Half-second ticks: a submission takes from half a second to over two      *)
(* minutes, the ledger's clock is up to 25 seconds ahead or 4 behind.        *)
EXTENDS RecoveryProperties

Delays == {1, 2, 20, 60, 250}
Skews == {-8, -4, 0, 4, 50}
PromptDelays == {d \in Delays : d >= TicksPerSecond /\ d <= 10 * TicksPerSecond}
ToleratedSkews == {s \in Skews : s <= 2 * TicksPerSecond /\ -s <= 2 * TicksPerSecond}
=============================================================================
