------------------------------ MODULE Mailbox ------------------------------
(* What the resident mailbox promises its writers and its consumers: a signal,
   once taken, is kept; an event key is taken once; an acknowledgement is
   never withdrawn or given to another consumer.  ResidentSignals, with its
   archives, staged files and recovery, implements it.                      *)
EXTENDS Naturals, FiniteSets

CONSTANTS Unkeyed       \* the event key of a signal that has none
VARIABLES taken,        \* every signal of the mailbox, live or archived
          settled       \* every acknowledgement

Ids(S) == {s.id : s \in S}

Init == Ids(taken) = {} /\ settled = {}

\* A writer's group of new signals: fresh identifiers, keys not taken before.
Take == \E new \in SUBSET (taken' \ taken) :
          /\ new # {} /\ taken' = taken \cup new
          /\ Ids(new) \cap Ids(taken) = {}
          /\ \A s \in new, t \in taken' :
                s # t => s.id # t.id /\ (s.key = Unkeyed \/ s.key # t.key)
          /\ UNCHANGED settled

\* A consumer's group of acknowledgements, of signals nobody acknowledged.
Settle == /\ settled \subseteq settled' /\ settled' # settled
          /\ \A a, b \in settled' : a.id = b.id => a = b
          /\ Ids(settled') \subseteq Ids(taken)
          /\ UNCHANGED taken

Next == Take \/ Settle

Spec == Init /\ [][Next]_<<taken, settled>>
=============================================================================
