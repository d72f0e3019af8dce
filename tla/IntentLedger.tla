---------------------------- MODULE IntentLedger -----------------------------
(***************************************************************************)
(* What the control queue and the operation ledger promise together: an
   intent a person queued in the Bridge is kept for ever and receives at
   most one accept/reject disposition, which never changes. *)
(***************************************************************************)
CONSTANTS
  Events,      \* intents, identified by their event ID
  Decisions    \* accepted, rejected

VARIABLES
  intents,     \* intents ever queued
  disposition  \* disposition[e]: the durable decisions on e: none, or one

Init == intents = {} /\ disposition = [e \in Events |-> {}]

Queue(e) ==
  /\ e \in Events \ intents
  /\ intents' = intents \cup {e}
  /\ UNCHANGED disposition

Decide(e, d) ==
  /\ e \in intents /\ disposition[e] = {}
  /\ disposition' = [disposition EXCEPT ![e] = {d}]
  /\ UNCHANGED intents

Next == \E e \in Events : Queue(e) \/ \E d \in Decisions : Decide(e, d)

Spec == Init /\ [][Next]_<<intents, disposition>>
=============================================================================
