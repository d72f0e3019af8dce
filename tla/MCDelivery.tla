----------------------------- MODULE MCDelivery -----------------------------
(* What reaches the resident from outside, in one run of two independent
   parts: the signals that wait for it, and the deliveries of a local
   message source with the receipts it gives for them. *)
EXTENDS ResidentSignals, SourceDelivery

VARIABLE part

MCBodySize == [b \in Bodies \cup {EditedBody} |-> IF b = "long" THEN 2 ELSE 1]

(* A part that is not the one explored stays in one of its initial states. *)
MCInit ==
    /\ part \in {"signals", "sources"}
    /\ Init /\ SourcesInit
    /\ part = "sources" => Start("empty")
    /\ part = "signals" => source = "whatsapp"

MCNext ==
    \/ part = "signals" /\ Next /\ UNCHANGED <<part, sourceVars>>
    \/ part = "sources" /\ SourcesNext /\ UNCHANGED <<part, vars>>

MCSpec == MCInit /\ [][MCNext]_<<part, vars, sourceVars>>
=============================================================================
