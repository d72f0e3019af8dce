----------------------------- MODULE HostFaults -----------------------------
(* What goes wrong around the programs that change the host: commands and
   writes fail, processes die, and somebody else changes what they manage. *)
EXTENDS Naturals

CONSTANT MaxOdds       \* bound on failures, deaths and interventions

VARIABLES odds,        \* how many there have been
          meddled      \* somebody else put something of their own in place

Odd == odds < MaxOdds /\ odds' = odds + 1

FaultsInit == odds = 0 /\ meddled = FALSE
=============================================================================
