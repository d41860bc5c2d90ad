---- MODULE WholeSeconds ----
(***************************************************************************)
(* The arithmetic of ledger time (Time.daml, ledgerTime.js).               *)
(*                                                                         *)
(* The ledger counts microseconds; every duration rule of the contracts    *)
(* counts whole seconds, obtained by truncating EACH endpoint before the   *)
(* subtraction.  A tick stands for the smallest step of the clock and      *)
(* TicksPerSecond for the 1000000 of the source, so that an instance with  *)
(* two ticks per second already has the sub-second boundary cases.  Times  *)
(* are at or after the epoch, where truncation toward zero is floor.       *)
(***************************************************************************)
EXTENDS Integers

CONSTANT TicksPerSecond     \* 1000000 in the source

ASSUME TicksPerSecondAssumption == TicksPerSecond \in Nat \ {0}

EpochSeconds(t) == t \div TicksPerSecond

SecondsBetween(a, b) == EpochSeconds(b) - EpochSeconds(a)

AddSeconds(t, s) == t + s * TicksPerSecond
====
