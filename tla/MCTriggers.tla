----------------------------- MODULE MCTriggers -----------------------------
(***************************************************************************)
(* The instances of Triggers for TLC: a period shorter than the cooldown.  *)
(* With two commands of the timer, one still runs when the next is due.    *)
(***************************************************************************)
EXTENDS Triggers

ASSUME PeriodAssumption == Period < Cooldown
=============================================================================
