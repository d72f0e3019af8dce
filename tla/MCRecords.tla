----------------------------- MODULE MCRecords -----------------------------
(* The control ledger and the record graph of the vault in one run of three
   parts that share no state: the intents and decisions of the ledger; tasks
   with their hands and WorkThreads; entities with the links that name them.
   `part` picks which of them a behaviour is about, so that their state
   spaces add up instead of multiplying. *)
EXTENDS TaskHands, EntityGraph, ControlLedger

VARIABLE part

MCInit == part \in {"ledger", "tasks", "entities"} /\ Init /\ HandsInit /\ GraphInit

MCNext ==
    \/ part = "ledger" /\ Next /\ UNCHANGED <<part, handsVars, graphVars>>
    \/ part = "tasks" /\ HandsNext /\ UNCHANGED <<part, vars, graphVars>>
    \/ part = "entities" /\ GraphNext /\ UNCHANGED <<part, vars, handsVars>>

MCSpec == MCInit /\ [][MCNext]_<<part, vars, handsVars, graphVars>>

(* The sets of model values that two parts permute are the same sets, which
   keeps the group small: processes are WorkThreads, intents are entities. *)
MCSymmetry == Symmetry \cup Permutations(Tasks) \cup Permutations(Threads) \cup Permutations(Entities)
============================================================================
