---------------------------- MODULE MCConnectors ----------------------------
(* Four independent parts of the connectors in one run: authentication and
   token custody, the calls with their confirmations and snapshots, one
   upload to a provider, and one write that is classified before it is sent. *)
EXTENDS ConnectorAuth, ConnectorCalls, ProviderUploads, GuardedWrites, TLC

VARIABLE part   \* the part this behaviour is about

MCInit ==
    /\ part \in {"auth", "calls", "uploads", "writes"}
    /\ Init /\ CallsInit /\ UploadInit /\ WriteInit
    /\ part # "calls" => tools = ReadKinds
    /\ part # "writes" => item = [ver |-> 0, guests |-> {}, parts |-> {},
                                  conf |-> FALSE, trashed |-> FALSE]

MCNext ==
    /\ UNCHANGED part
    /\ \/ part = "auth" /\ Next /\ UNCHANGED <<sessionvars, upvars, wvars>>
       \/ part = "calls" /\ CallsNext /\ UNCHANGED <<vars, upvars, wvars>>
       \/ part = "uploads" /\ UploadNext /\ UNCHANGED <<vars, sessionvars, wvars>>
       \/ part = "writes" /\ WriteNext /\ UNCHANGED <<vars, sessionvars, upvars>>

MCSpec == MCInit /\ [][MCNext]_<<part, vars, sessionvars, upvars, wvars>>

(* What a provider was sent: an upload reports what the provider has, and a
   write reaches only the item it was reviewed against. *)
SentAsSaid == UploadHonest /\ OnlyAsReviewed

Symmetry == Permutations(Procs) \cup Permutations(Tokens)
=============================================================================
