--------------------------- MODULE DeliveryProofs ---------------------------
(* Proofs about the resident mailbox, for any keys, consumers, operation
   names and bounds: the next transaction opens it whatever died before
   (Reopens), and it keeps the promise of Mailbox (Implements).  And about
   the local sources, for any store, batch limit and disturbance: nothing is
   skipped, a delivery has one receipt, the checkpoint rests on it
   (SourcesHonest). *)
EXTENDS ResidentSignals, SourceDelivery, FiniteSetTheorems, WellFoundedInduction, TLAPS

----------------------------------------
(* The mailbox: the inductive invariant *)

Files ==
  [inputs : SUBSET Signals, acks : SUBSET Acks, settled : (SUBSET Signals) \cup {None},
   archIn : [Tokens -> (SUBSET Signals) \cup {None}],
   archAck : [Tokens -> (SUBSET Acks) \cup {None}]]

\* Stages of a compaction: each name holds what belongs there.
ContentOf(n) == IF n \in {"acks", "archAck"} THEN SUBSET Acks ELSE SUBSET Signals

Staging(s) ==
  /\ DOMAIN s \subseteq Names /\ s = [n \in DOMAIN s |-> s[n]]
  /\ \A n \in DOMAIN s : s[n] \in ContentOf(n)

RSTypeOK ==
  /\ files \in Files
  /\ DOMAIN stages = Tokens /\ stages = [t \in Tokens |-> stages[t]]
  /\ \A t \in Tokens : stages[t] # None => Staging(stages[t])
  /\ marker # None =>
        /\ marker = [token |-> marker.token, version |-> marker.version,
                      digests |-> marker.digests, expected |-> marker.expected]
        /\ marker.token \in Tokens /\ marker.version \in {1, 2}
  /\ pc \in {"idle", "recover", "upgrade", "publish", "unstage", "reconcile", "cleanup", "ready", "stage"}
  /\ pc # "idle" => txn = [op |-> txn.op, arg |-> txn.arg, token |-> txn.token] /\ outcome = "none"

\* The signals and the acknowledgements a set of files holds, and the archives in it.
Moved(F) == UNION {F.archIn[t] : t \in {u \in Tokens : F.archIn[u] # None}}
MovedAcks(F) == UNION {F.archAck[t] : t \in {u \in Tokens : F.archAck[u] # None}}
TakenIn(F) == F.inputs \cup Moved(F)
AckedIn(F) == F.acks \cup MovedAcks(F)
Count(F) == Cardinality({t \in Tokens : F.archIn[t] # None})
            + Cardinality({t \in Tokens : F.archAck[t] # None})

\* Files that every validation accepts.
Whole(F) ==
  /\ \A t \in Tokens : F.archIn[t] = None <=> F.archAck[t] = None
  /\ \A t \in Tokens : F.archIn[t] # None => IdsOf(F.archIn[t]) = IdsOf(F.archAck[t])
  /\ IdsOf(F.acks) \subseteq IdsOf(F.inputs)
  /\ F.inputs \cap Moved(F) = {}
  /\ Separate(F.inputs, KeyEntries(Moved(F)))
  /\ UniqueHistory(TakenIn(F), AckedIn(F))
  /\ F.settled = None \/ F.settled = KeyEntries(Moved(F))

\* The files once a compaction is done.
Compacted(F, t, d, s) ==
  [inputs |-> d["inputs"], acks |-> d["acks"], settled |-> s,
   archIn |-> [F.archIn EXCEPT ![t] = d["archIn"]],
   archAck |-> [F.archAck EXCEPT ![t] = d["archAck"]]]

\* d splits live files.
Splits(d, inputs, acks) ==
  /\ d["archIn"] # {} /\ d["archAck"] # {}
  /\ inputs = d["inputs"] \cup d["archIn"] /\ d["inputs"] \cap d["archIn"] = {}
  /\ acks = d["acks"] \cup d["archAck"] /\ d["acks"] \cap d["archAck"] = {}

Finished == Compacted(files, marker.token, marker.digests,
                      IF marker.version = 1 THEN None ELSE marker.digests["settled"])

\* F has some of what the marker names published, the archives before the live files.
Between(F) ==
  LET t == marker.token  d == marker.digests  e == marker.expected IN
  /\ F.archIn[t] \in {None, d["archIn"]} /\ F.archAck[t] \in {None, d["archAck"]}
  /\ F.inputs \in {e["inputs"], d["inputs"]} /\ F.acks \in {e["acks"], d["acks"]}
  /\ F.inputs = d["inputs"] => F.archIn[t] = d["archIn"]
  /\ F.acks = d["acks"] => F.archAck[t] = d["archAck"]
  /\ marker.version = 2 => F.settled \in {e["settled"], d["settled"]}

\* A marker stands: its stages are complete, and what of them is published.
MarkedFiles ==
  LET t == marker.token  d == marker.digests  e == marker.expected IN
  /\ DOMAIN d = NamesOf(marker.version)
  /\ Staging(d)
  /\ stages[t] = d
  /\ \A u \in Tokens \ {t} : stages[u] = None
  /\ Splits(d, e["inputs"], e["acks"])
  /\ Between(files)
  /\ marker.version = 2 => Count(Finished) <= MaxHistoryFiles
  /\ Whole(Finished)

Marked ==
  /\ MarkedFiles
  /\ pc \in {"idle", "recover", "upgrade", "publish"}
  /\ pc = "upgrade" => marker.version = 1
  /\ pc = "publish" /\ marker.version = 1 => files.settled = KeyEntries(Moved(Finished))

\* A compaction is being prepared, nothing of it is published.
Staged ==
  LET t == txn.token  d == txn.arg IN
  /\ t \in Tokens /\ txn.op = "compacted"
  /\ DOMAIN d = Names /\ Staging(d)
  /\ stages[t] # None /\ \A n \in DOMAIN stages[t] : stages[t][n] = d[n]
  /\ \A u \in Tokens \ {t} : stages[u] = None
  /\ files.archIn[t] = None /\ files.archAck[t] = None
  /\ Splits(d, files.inputs, files.acks)
  /\ Whole(Compacted(files, t, d, d["settled"]))
  /\ Count(Compacted(files, t, d, d["settled"])) <= MaxHistoryFiles

\* No marker: the files are whole, and what stages are left can be dropped.
UnmarkedFiles ==
  /\ Whole(files)
  /\ \A t \in Tokens : stages[t] # None => Residue(t)

\* The ledger is there, or there is nothing for it.
Reconciled == files.settled # None \/ \A t \in Tokens : files.archIn[t] = None

Unmarked ==
  /\ UnmarkedFiles
  /\ pc \in {"idle", "recover", "unstage", "reconcile", "cleanup", "ready", "stage"}
  /\ pc \in {"cleanup", "ready", "stage"} => Reconciled
  /\ pc = "ready" => \A t \in Tokens : stages[t] = None
  /\ pc = "unstage" => txn.token \in Tokens /\ stages[txn.token] # None
  /\ pc = "stage" => Staged

\* What a call brings.
Asked ==
  /\ pc # "idle" /\ txn.op = "append" =>
       txn.arg \subseteq Requests /\ LastId + Cardinality(txn.arg) <= MaxSignals
  /\ pc # "idle" /\ txn.op = "acknowledge" => txn.arg.consumer \in Consumers

RSInv ==
  /\ RSTypeOK
  /\ marker # None => Marked
  /\ marker = None => Unmarked
  /\ Asked
  /\ Reopens

----------------------------------------
(* Numbers *)

NatLess == {p \in Nat \X Nat : p[1] < p[2]}

LEMMA HasLeast ==
  ASSUME NEW S \in SUBSET Nat, S # {}
  PROVE  Min(S) \in S /\ \A n \in S : Min(S) <= n
<1>1. IsWellFoundedOn(NatLess, Nat) BY NatLessThanWellFounded, Zenon DEF OpToRel, NatLess
<1>2. PICK m \in S : \A n \in S : ~ (<<n, m>> \in NatLess) BY <1>1, WFMin
<1>3. \A n \in S : n < m => <<n, m>> \in NatLess BY DEF NatLess
<1>4. \A n \in S : ~ (n < m) BY <1>2, <1>3
<1>5. \A n \in S : m <= n BY <1>4
<1> QED BY <1>5 DEF Min

LEMMA HasGreatest ==
  ASSUME NEW k \in Nat, NEW S \in SUBSET (0..k), S # {}
  PROVE  Max(S) \in S /\ \A n \in S : n <= Max(S)
<1> DEFINE Below == {k - n : n \in S}
<1>1. Below \in SUBSET Nat /\ Below # {}
  <2>1. \A n \in S : n \in Nat /\ n <= k OBVIOUS
  <2>2. \A n \in S : k - n \in Nat BY <2>1
  <2> QED BY <2>2
<1>2. Min(Below) \in Below /\ \A n \in Below : Min(Below) <= n BY <1>1, HasLeast
<1>3. PICK m \in S : Min(Below) = k - m BY <1>2
<1>4. \A n \in S : k - m <= k - n BY <1>2, <1>3
<1>5. \A n \in S : m >= n BY <1>4
<1> QED BY <1>5 DEF Max

LEMMA FiniteRequests == IsFiniteSet(Requests)
<1> DEFINE K == Keys \cup {Unkeyed}
           Request == [p \in K \X Envelopes |-> [key |-> p[1], env |-> p[2]]]
<1>1. IsFiniteSet(Keys) /\ IsFiniteSet(Envelopes) BY Bounds
<1>2. IsFiniteSet(K \X Envelopes) BY <1>1, FS_AddElement, FS_Product
<1>3. \A r \in Requests : r = Request[<<r.key, r.env>>] /\ <<r.key, r.env>> \in K \X Envelopes
  BY DEF Requests
<1>4. \A p \in K \X Envelopes : Request[p] \in Requests BY DEF Requests
<1>5. Request \in Surjection(K \X Envelopes, Requests)
  <2>1. Request \in [K \X Envelopes -> Requests] BY <1>4
  <2>2. \A r \in Requests : \E p \in K \X Envelopes : Request[p] = r BY <1>3
  <2> HIDE DEF Request
  <2> QED BY <2>1, <2>2 DEF Surjection
<1> QED BY <1>2, <1>5, FS_Surjection

----------------------------------------
(* Files: what the validations of the code find in them *)

PairsOf(F) == {[inputs |-> F.archIn[t], acks |-> F.archAck[t]] :
                 t \in {u \in Tokens : F.archIn[u] # None \/ F.archAck[u] # None}}

\* Every validation accepts whole files, with or without their ledger.
LEMMA WholeBuildable ==
  ASSUME NEW F, Whole(F)
  PROVE  /\ IndexBuildable(F.inputs, F.acks, PairsOf(F), F.settled)
         /\ IndexBuildable(F.inputs, F.acks, PairsOf(F), None)
<1> DEFINE P == PairsOf(F)
           In == UNION {p.inputs : p \in {q \in P : q.inputs # None}}
           Ack == UNION {p.acks : p \in {q \in P : q.acks # None}}
<1>1. \A p \in P : \E t \in Tokens : /\ F.archIn[t] # None /\ F.archAck[t] # None
                                     /\ p.inputs = F.archIn[t] /\ p.acks = F.archAck[t]
  BY DEF Whole, PairsOf
<1>2. \A t \in Tokens : F.archIn[t] # None \/ F.archAck[t] # None =>
        \E p \in P : p.inputs = F.archIn[t] /\ p.acks = F.archAck[t]
  <2>1. ASSUME NEW t \in Tokens, F.archIn[t] # None \/ F.archAck[t] # None
        PROVE  [inputs |-> F.archIn[t], acks |-> F.archAck[t]] \in P
    BY <2>1 DEF PairsOf
  <2> QED BY <2>1
<1> HIDE DEF P
<1>3. In = Moved(F)
  <2>1. \A x \in In : x \in Moved(F) BY <1>1 DEF Moved
  <2>2. ASSUME NEW x \in Moved(F) PROVE x \in In
    <3>1. PICK t \in Tokens : F.archIn[t] # None /\ x \in F.archIn[t] BY DEF Moved
    <3> QED BY <3>1, <1>2
  <2> QED BY <2>1, <2>2
<1>4. Ack = MovedAcks(F)
  <2>1. \A x \in Ack : x \in MovedAcks(F) BY <1>1 DEF MovedAcks
  <2>2. ASSUME NEW x \in MovedAcks(F) PROVE x \in Ack
    <3>1. PICK t \in Tokens : F.archAck[t] # None /\ x \in F.archAck[t] BY DEF MovedAcks
    <3> QED BY <3>1, <1>2
  <2> QED BY <2>1, <2>2
<1>5. /\ \A p \in P : p.inputs # None /\ p.acks # None
      /\ \A p \in P : IdsOf(p.inputs) = IdsOf(p.acks)
  BY <1>1 DEF Whole
<1>6. /\ IdsOf(F.acks) \subseteq IdsOf(F.inputs)
      /\ Separate(F.inputs, KeyEntries(In))
      /\ UniqueHistory(F.inputs \cup In, F.acks \cup Ack)
      /\ F.settled = None \/ F.settled = KeyEntries(In)
  BY <1>3, <1>4 DEF Whole, TakenIn, AckedIn
<1> HIDE DEF In, Ack
<1>7. IndexBuildable(F.inputs, F.acks, P, F.settled) /\ IndexBuildable(F.inputs, F.acks, P, None)
  BY <1>5, <1>6 DEF IndexBuildable, In, Ack
<1> QED BY <1>7 DEF P

LEMMA PairsAreOf == Pairs = PairsOf(files) /\ Archived = Moved(files) /\ ArchivedAcks = MovedAcks(files)
                    /\ ArchiveCount = Count(files)
BY DEF Pairs, PairsOf, Archived, ArchivedAcks, Moved, MovedAcks, ArchiveCount, Count

\* What the archives of all tokens but one hold.
Others(F, t) == UNION {F.archIn[u] : u \in {v \in Tokens \ {t} : F.archIn[v] # None}}
OtherAcks(F, t) == UNION {F.archAck[u] : u \in {v \in Tokens \ {t} : F.archAck[v] # None}}

LEMMA MovedSplits ==
  ASSUME NEW F, NEW t \in Tokens
  PROVE  /\ Moved(F) = Others(F, t) \cup (IF F.archIn[t] = None THEN {} ELSE F.archIn[t])
         /\ MovedAcks(F) = OtherAcks(F, t) \cup (IF F.archAck[t] = None THEN {} ELSE F.archAck[t])
<1>1. Moved(F) = Others(F, t) \cup (IF F.archIn[t] = None THEN {} ELSE F.archIn[t])
  <2>1. \A x \in Moved(F) : x \in Others(F, t) \cup (IF F.archIn[t] = None THEN {} ELSE F.archIn[t])
    BY DEF Moved, Others
  <2>2. \A x \in Others(F, t) : x \in Moved(F) BY DEF Moved, Others
  <2>3. F.archIn[t] # None => \A x \in F.archIn[t] : x \in Moved(F) BY DEF Moved
  <2> QED BY <2>1, <2>2, <2>3
<1>2. MovedAcks(F) = OtherAcks(F, t) \cup (IF F.archAck[t] = None THEN {} ELSE F.archAck[t])
  <2>1. \A x \in MovedAcks(F) : x \in OtherAcks(F, t) \cup (IF F.archAck[t] = None THEN {} ELSE F.archAck[t])
    BY DEF MovedAcks, OtherAcks
  <2>2. \A x \in OtherAcks(F, t) : x \in MovedAcks(F) BY DEF MovedAcks, OtherAcks
  <2>3. F.archAck[t] # None => \A x \in F.archAck[t] : x \in MovedAcks(F) BY DEF MovedAcks
  <2> QED BY <2>1, <2>2, <2>3
<1> QED BY <1>1, <1>2

LEMMA ContentIsThere ==
  /\ \A x \in SUBSET Signals : x \in Contents /\ x # None
  /\ \A x \in SUBSET Acks : x \in Contents /\ x # None
  /\ \A n : \A x \in ContentOf(n) : x \in Contents /\ x # None
<1>1. \A S \in Contents : S # None BY Absent
<1>2. /\ \A x \in SUBSET Signals : x \in Contents
      /\ \A x \in SUBSET Acks : x \in Contents
  BY DEF Contents
<1>3. \A n : \A x \in ContentOf(n) : x \in SUBSET Signals \/ x \in SUBSET Acks BY DEF ContentOf
<1> QED BY <1>1, <1>2, <1>3

\* The files of a finished compaction.
LEMMA CompactedIs ==
  ASSUME NEW F \in Files, NEW t \in Tokens, NEW d, NEW s,
         d["archIn"] \in SUBSET Signals, d["archAck"] \in SUBSET Acks
  PROVE  LET G == Compacted(F, t, d, s) IN
         /\ G.inputs = d["inputs"] /\ G.acks = d["acks"] /\ G.settled = s
         /\ G.archIn[t] = d["archIn"] /\ G.archAck[t] = d["archAck"]
         /\ d["archIn"] # None /\ d["archAck"] # None
         /\ \A u \in Tokens \ {t} : G.archIn[u] = F.archIn[u] /\ G.archAck[u] = F.archAck[u]
         /\ Others(G, t) = Others(F, t) /\ OtherAcks(G, t) = OtherAcks(F, t)
         /\ Moved(G) = Others(F, t) \cup d["archIn"]
         /\ MovedAcks(G) = OtherAcks(F, t) \cup d["archAck"]
<1> DEFINE G == Compacted(F, t, d, s)
<1>1. F.archIn \in [Tokens -> (SUBSET Signals) \cup {None}] /\ F.archAck \in [Tokens -> (SUBSET Acks) \cup {None}]
  BY DEF Files
<1>2. /\ G.inputs = d["inputs"] /\ G.acks = d["acks"] /\ G.settled = s
      /\ G.archIn[t] = d["archIn"] /\ G.archAck[t] = d["archAck"]
      /\ \A u \in Tokens \ {t} : G.archIn[u] = F.archIn[u] /\ G.archAck[u] = F.archAck[u]
  BY <1>1 DEF Compacted
<1>3. d["archIn"] # None /\ d["archAck"] # None BY ContentIsThere
<1> HIDE DEF G
<1>4. Others(G, t) = Others(F, t) /\ OtherAcks(G, t) = OtherAcks(F, t)
  BY <1>2 DEF Others, OtherAcks
<1>5. /\ Moved(G) = Others(F, t) \cup d["archIn"]
      /\ MovedAcks(G) = OtherAcks(F, t) \cup d["archAck"]
  BY <1>2, <1>3, <1>4, MovedSplits
<1> QED BY <1>2, <1>3, <1>4, <1>5 DEF G

LEMMA Orders ==
  /\ DOMAIN Order(1) = 1..4 /\ DOMAIN Order(2) = 1..5
  /\ Order(1)[1] = "archIn" /\ Order(1)[2] = "archAck" /\ Order(1)[3] = "inputs" /\ Order(1)[4] = "acks"
  /\ Order(2)[1] = "archIn" /\ Order(2)[2] = "archAck" /\ Order(2)[3] = "settled"
  /\ Order(2)[4] = "inputs" /\ Order(2)[5] = "acks"
  /\ NamesOf(1) = {"archIn", "archAck", "inputs", "acks"} /\ NamesOf(2) = Names
<1>1. /\ DOMAIN Order(1) = 1..4 /\ DOMAIN Order(2) = 1..5
      /\ Order(1)[1] = "archIn" /\ Order(1)[2] = "archAck" /\ Order(1)[3] = "inputs" /\ Order(1)[4] = "acks"
      /\ Order(2)[1] = "archIn" /\ Order(2)[2] = "archAck" /\ Order(2)[3] = "settled"
      /\ Order(2)[4] = "inputs" /\ Order(2)[5] = "acks"
  BY DEF Order
<1> HIDE DEF Order
<1>2. 1..4 = {1, 2, 3, 4} /\ 1..5 = {1, 2, 3, 4, 5} OBVIOUS
<1>3. NamesOf(1) = {"archIn", "archAck", "inputs", "acks"} BY <1>1, <1>2 DEF NamesOf
<1>4. NamesOf(2) = Names BY <1>1, <1>2 DEF NamesOf, Names
<1> QED BY <1>1, <1>3, <1>4

\* What the marker names, and the files it leads to.
LEMMA MarkerNames ==
  ASSUME RSTypeOK, marker # None, Marked
  PROVE  LET t == marker.token  d == marker.digests IN
         /\ t \in Tokens /\ marker.version \in {1, 2}
         /\ d["archIn"] \in SUBSET Signals /\ d["inputs"] \in SUBSET Signals
         /\ d["archAck"] \in SUBSET Acks /\ d["acks"] \in SUBSET Acks
         /\ marker.version = 2 => d["settled"] \in SUBSET Signals
         /\ d["archIn"] # None /\ d["archAck"] # None
         /\ marker.version = 2 => d["settled"] # None
         /\ DOMAIN d \subseteq Names /\ {"archIn", "archAck", "inputs", "acks"} \subseteq DOMAIN d
         /\ marker.version = 2 => DOMAIN d = Names
         /\ Finished.inputs = d["inputs"] /\ Finished.acks = d["acks"]
         /\ Finished.archIn[t] = d["archIn"] /\ Finished.archAck[t] = d["archAck"]
         /\ Finished.settled = (IF marker.version = 1 THEN None ELSE d["settled"])
         /\ \A u \in Tokens \ {t} : /\ Finished.archIn[u] = files.archIn[u]
                                    /\ Finished.archAck[u] = files.archAck[u]
         /\ Moved(Finished) = Others(files, t) \cup d["archIn"]
         /\ MovedAcks(Finished) = OtherAcks(files, t) \cup d["archAck"]
<1> DEFINE t == marker.token
           d == marker.digests
           s == IF marker.version = 1 THEN None ELSE d["settled"]
<1>1. t \in Tokens /\ marker.version \in {1, 2} /\ files \in Files BY DEF RSTypeOK
<1>2. DOMAIN d = NamesOf(marker.version) /\ \A n \in DOMAIN d : d[n] \in ContentOf(n)
  BY DEF Marked, MarkedFiles, Staging
<1>3. /\ {"archIn", "archAck", "inputs", "acks"} \subseteq DOMAIN d /\ DOMAIN d \subseteq Names
      /\ marker.version = 2 => DOMAIN d = Names
  BY <1>1, <1>2, Orders DEF Names
<1>4. /\ d["archIn"] \in SUBSET Signals /\ d["inputs"] \in SUBSET Signals
      /\ d["archAck"] \in SUBSET Acks /\ d["acks"] \in SUBSET Acks
  BY <1>2, <1>3 DEF ContentOf
<1>5. marker.version = 2 => d["settled"] \in SUBSET Signals BY <1>2, <1>3 DEF ContentOf, Names
<1>6. marker.version = 2 => d["settled"] # None BY <1>5, ContentIsThere
<1>7. Finished = Compacted(files, t, d, s) BY DEF Finished
<1> HIDE DEF t, d, s
<1>8. /\ Finished.inputs = d["inputs"] /\ Finished.acks = d["acks"]
      /\ Finished.archIn[t] = d["archIn"] /\ Finished.archAck[t] = d["archAck"]
      /\ Finished.settled = s
      /\ d["archIn"] # None /\ d["archAck"] # None
      /\ \A u \in Tokens \ {t} : /\ Finished.archIn[u] = files.archIn[u]
                                 /\ Finished.archAck[u] = files.archAck[u]
      /\ Moved(Finished) = Others(files, t) \cup d["archIn"]
      /\ MovedAcks(Finished) = OtherAcks(files, t) \cup d["archAck"]
  BY <1>1, <1>4, <1>7, CompactedIs
<1> QED BY <1>1, <1>3, <1>4, <1>5, <1>6, <1>8 DEF t, d, s

\* Whatever of a compaction is published, the mailbox holds what it held.
LEMMA CompactedHistory ==
  ASSUME NEW F \in Files, NEW t \in Tokens, NEW d, NEW s, NEW inputs, NEW acks,
         d["archIn"] \in SUBSET Signals, d["archAck"] \in SUBSET Acks,
         inputs = d["inputs"] \cup d["archIn"], acks = d["acks"] \cup d["archAck"],
         F.archIn[t] \in {None, d["archIn"]}, F.archAck[t] \in {None, d["archAck"]},
         F.inputs \in {inputs, d["inputs"]}, F.acks \in {acks, d["acks"]},
         F.inputs = d["inputs"] => F.archIn[t] = d["archIn"],
         F.acks = d["acks"] => F.archAck[t] = d["archAck"]
  PROVE  /\ TakenIn(F) = TakenIn(Compacted(F, t, d, s))
         /\ AckedIn(F) = AckedIn(Compacted(F, t, d, s))
<1> DEFINE G == Compacted(F, t, d, s)
<1>1. /\ d["archIn"] # None /\ d["archAck"] # None
      /\ G.inputs = d["inputs"] /\ G.acks = d["acks"]
      /\ Moved(G) = Others(F, t) \cup d["archIn"]
      /\ MovedAcks(G) = OtherAcks(F, t) \cup d["archAck"]
  BY CompactedIs
<1>2. /\ Moved(F) = Others(F, t) \cup (IF F.archIn[t] = None THEN {} ELSE F.archIn[t])
      /\ MovedAcks(F) = OtherAcks(F, t) \cup (IF F.archAck[t] = None THEN {} ELSE F.archAck[t])
  BY MovedSplits
<1> HIDE DEF G
<1>3. F.inputs \cup Moved(F) = d["inputs"] \cup d["archIn"] \cup Others(F, t)
  <2>1. CASE F.inputs = d["inputs"] BY <1>1, <1>2, <2>1
  <2>2. CASE F.inputs = inputs BY <1>1, <1>2, <2>2
  <2> QED BY <2>1, <2>2
<1>4. F.acks \cup MovedAcks(F) = d["acks"] \cup d["archAck"] \cup OtherAcks(F, t)
  <2>1. CASE F.acks = d["acks"] BY <1>1, <1>2, <2>1
  <2>2. CASE F.acks = acks BY <1>1, <1>2, <2>2
  <2> QED BY <2>1, <2>2
<1> QED BY <1>1, <1>3, <1>4 DEF TakenIn, AckedIn, G

LEMMA MarkedHistory ==
  ASSUME RSTypeOK, marker # None, Marked, NEW F \in Files, Between(F), NEW s
  PROVE  /\ TakenIn(F) = TakenIn(Compacted(F, marker.token, marker.digests, s))
         /\ AckedIn(F) = AckedIn(Compacted(F, marker.token, marker.digests, s))
<1>1. /\ marker.token \in Tokens
      /\ marker.digests["archIn"] \in SUBSET Signals /\ marker.digests["archAck"] \in SUBSET Acks
  BY MarkerNames
<1>2. PICK inputs, acks : inputs = marker.expected["inputs"] /\ acks = marker.expected["acks"]
  OBVIOUS
<1>3. /\ inputs = marker.digests["inputs"] \cup marker.digests["archIn"]
      /\ acks = marker.digests["acks"] \cup marker.digests["archAck"]
  BY <1>2 DEF Marked, MarkedFiles, Splits
<1>4. /\ F.archIn[marker.token] \in {None, marker.digests["archIn"]}
      /\ F.archAck[marker.token] \in {None, marker.digests["archAck"]}
      /\ F.inputs \in {inputs, marker.digests["inputs"]}
      /\ F.acks \in {acks, marker.digests["acks"]}
      /\ F.inputs = marker.digests["inputs"] => F.archIn[marker.token] = marker.digests["archIn"]
      /\ F.acks = marker.digests["acks"] => F.archAck[marker.token] = marker.digests["archAck"]
  BY <1>2 DEF Between
<1> QED BY <1>1, <1>3, <1>4, CompactedHistory

LEMMA CountCompacted ==
  ASSUME NEW F \in Files, NEW t \in Tokens, NEW d, NEW s,
         d["archIn"] \in SUBSET Signals, d["archAck"] \in SUBSET Acks
  PROVE  /\ Count(F) \in Nat
         /\ Count(Compacted(F, t, d, s)) = Count(F) + (IF F.archIn[t] = None THEN 1 ELSE 0)
                                                    + (IF F.archAck[t] = None THEN 1 ELSE 0)
<1> DEFINE G == Compacted(F, t, d, s)
           A == {u \in Tokens : F.archIn[u] # None}
           B == {u \in Tokens : F.archAck[u] # None}
<1>1. IsFiniteSet(Tokens) BY Bounds
<1>2. A \in SUBSET Tokens /\ B \in SUBSET Tokens OBVIOUS
<1>3. IsFiniteSet(A) /\ IsFiniteSet(B) BY <1>1, <1>2, FS_Subset
<1>4. Cardinality(A) \in Nat /\ Cardinality(B) \in Nat BY <1>3, FS_CardinalityType
<1>5. /\ G.archIn[t] # None /\ G.archAck[t] # None
      /\ \A u \in Tokens \ {t} : G.archIn[u] = F.archIn[u] /\ G.archAck[u] = F.archAck[u]
  BY CompactedIs
<1> HIDE DEF G
<1>6. /\ {u \in Tokens : G.archIn[u] # None} = A \cup {t}
      /\ {u \in Tokens : G.archAck[u] # None} = B \cup {t}
  BY <1>5
<1>7. /\ Cardinality(A \cup {t}) = IF t \in A THEN Cardinality(A) ELSE Cardinality(A) + 1
      /\ Cardinality(B \cup {t}) = IF t \in B THEN Cardinality(B) ELSE Cardinality(B) + 1
  BY <1>3, FS_AddElement
<1>8. (t \in A <=> F.archIn[t] # None) /\ (t \in B <=> F.archAck[t] # None) OBVIOUS
<1>9. Count(F) = Cardinality(A) + Cardinality(B)
      /\ Count(G) = Cardinality(A \cup {t}) + Cardinality(B \cup {t})
  BY <1>6 DEF Count
<1> HIDE DEF A, B
<1> QED BY <1>4, <1>7, <1>8, <1>9 DEF G

\* While the three files are left alone, so is everything that is said of them.
LEMMA QuietFiles ==
  ASSUME UNCHANGED <<files, stages, marker>>
  PROVE  /\ MarkedFiles' <=> MarkedFiles
         /\ UnmarkedFiles' <=> UnmarkedFiles
         /\ Reconciled' <=> Reconciled
         /\ TakenIn(files)' = TakenIn(files) /\ AckedIn(files)' = AckedIn(files)
         /\ LastId' = LastId
         /\ Finished' = Finished
<1>1. Finished' = Finished BY DEF Finished
<1>2. MarkedFiles' <=> MarkedFiles BY <1>1 DEF MarkedFiles, Between
<1>3. \A t \in Tokens : Residue(t)' <=> Residue(t) BY DEF Residue, Target
<1>4. UnmarkedFiles' <=> UnmarkedFiles BY <1>3 DEF UnmarkedFiles
<1>5. LastId' = LastId BY DEF LastId, Archived
<1> QED BY <1>1, <1>2, <1>4, <1>5 DEF Reconciled

SameHistory == TakenIn(files)' = TakenIn(files) /\ AckedIn(files)' = AckedIn(files)

LEMMA HistoryKeepsLast ==
  ASSUME SameHistory
  PROVE  LastId' = LastId
BY DEF SameHistory, TakenIn, LastId, Archived, Moved

----------------------------------------
(* The steps that leave files, stages and marker alone *)

LEMMA AskedKept ==
  ASSUME Asked, LastId' = LastId,
         \/ pc' = "idle" \/ txn'.op = "compacted"
         \/ pc # "idle" /\ txn'.op = txn.op /\ txn'.arg = txn.arg
  PROVE  Asked'
BY DEF Asked

\* A call ends: well, or refused over a version 1 marker.
LEMMA EndInv ==
  ASSUME RSInv, UNCHANGED <<files, stages, marker>>, pc' = "idle",
         outcome' = "refused" => marker # None /\ marker.version = 1
  PROVE  RSInv' /\ SameHistory
<1>1. RSTypeOK' BY DEF RSInv, RSTypeOK
<1>2. marker' # None => Marked' BY QuietFiles DEF RSInv, Marked
<1>3. marker' = None => Unmarked' BY QuietFiles DEF RSInv, Unmarked
<1>4. Asked' BY QuietFiles, AskedKept DEF RSInv
<1>5. Reopens' BY DEF Reopens
<1>6. SameHistory BY QuietFiles DEF SameHistory
<1> QED BY <1>1, <1>2, <1>3, <1>4, <1>5, <1>6 DEF RSInv

\* The holder of the lock goes on to its next step.
LEMMA OnInv ==
  ASSUME RSInv, UNCHANGED <<files, stages, marker, txn, outcome>>,
         pc # "idle", pc' \in {"upgrade", "publish", "reconcile", "cleanup", "ready"},
         pc' \in {"upgrade", "publish"} => marker # None,
         pc' \in {"reconcile", "cleanup", "ready"} => marker = None,
         pc' = "upgrade" => marker.version = 1,
         pc' = "publish" /\ marker.version = 1 => files.settled = KeyEntries(Moved(Finished)),
         pc' \in {"cleanup", "ready"} => Reconciled,
         pc' = "ready" => \A t \in Tokens : stages[t] = None
  PROVE  RSInv' /\ SameHistory
<1>1. RSTypeOK' BY DEF RSInv, RSTypeOK
<1>2. marker' # None => Marked' BY QuietFiles DEF RSInv, Marked
<1>3. marker' = None => Unmarked' BY QuietFiles DEF RSInv, Unmarked
<1>4. Asked' BY QuietFiles, AskedKept DEF RSInv
<1>5. Reopens' BY DEF Reopens, RSInv, RSTypeOK
<1>6. SameHistory BY QuietFiles DEF SameHistory
<1> QED BY <1>1, <1>2, <1>3, <1>4, <1>5, <1>6 DEF RSInv

LEMMA CallsInv ==
  ASSUME RSInv, CallList \/ CallAppend \/ CallAcknowledge \/ CallCompact
  PROVE  RSInv' /\ SameHistory
<1>1. /\ pc = "idle" /\ pc' = "recover" /\ outcome' = "none"
      /\ UNCHANGED <<files, stages, marker, view>>
  BY DEF CallList, CallAppend, CallAcknowledge, CallCompact, Call, Begin
<1>2. PICK o, arg : txn' = [op |-> o, arg |-> arg, token |-> None]
  BY DEF CallList, CallAppend, CallAcknowledge, CallCompact, Call, Begin
<1>3. RSTypeOK'
  <2>1. txn' = [op |-> txn'.op, arg |-> txn'.arg, token |-> txn'.token] BY <1>2
  <2> QED BY <1>1, <2>1 DEF RSInv, RSTypeOK
<1>4. marker' # None => Marked' BY <1>1, QuietFiles DEF RSInv, Marked
<1>5. marker' = None => Unmarked' BY <1>1, QuietFiles DEF RSInv, Unmarked
<1>6. Asked'
  <2>1. LastId' = LastId BY <1>1, QuietFiles
  <2>2. CASE CallAppend
    <3>1. PICK reqs \in kSubset(1, Requests) \cup kSubset(MaxBatch, Requests) :
             /\ LastId + Cardinality(reqs) <= MaxSignals
             /\ txn' = [op |-> "append", arg |-> reqs, token |-> None]
      BY <2>2 DEF CallAppend, Call, Begin
    <3>2. txn'.op = "append" /\ txn'.arg = reqs /\ reqs \subseteq Requests BY <3>1 DEF kSubset
    <3> QED BY <2>1, <3>1, <3>2 DEF Asked
  <2>3. CASE CallAcknowledge
    <3>1. PICK c \in Consumers, ids \in SUBSET IdsOf(view[1]) :
             txn' = [op |-> "acknowledge", arg |-> [ids |-> ids, consumer |-> c], token |-> None]
      BY <2>3 DEF CallAcknowledge, Call, Begin
    <3>2. txn'.op = "acknowledge" /\ txn'.arg.consumer = c BY <3>1
    <3> QED BY <3>2 DEF Asked
  <2>4. CASE CallList \/ CallCompact
    <3>1. txn'.op \in {"list", "compact"} BY <2>4 DEF CallList, CallCompact, Call, Begin
    <3> QED BY <3>1 DEF Asked
  <2> QED BY <2>2, <2>3, <2>4
<1>7. Reopens' BY <1>1 DEF Reopens
<1>8. SameHistory BY <1>1, QuietFiles DEF SameHistory
<1> QED BY <1>3, <1>4, <1>5, <1>6, <1>7, <1>8 DEF RSInv

LEMMA DieInv ==
  ASSUME RSInv, Die
  PROVE  RSInv' /\ SameHistory
<1>1. UNCHANGED <<files, stages, marker>> /\ pc' = "idle" /\ outcome' = "died" BY DEF Die, Done
<1> QED BY <1>1, EndInv

----------------------------------------
(* Recovery *)

\* A compaction of this version can always be finished.
LEMMA AlwaysRecoverable ==
  ASSUME RSTypeOK, marker # None, Marked, marker.version = 2
  PROVE  Recoverable
<1> DEFINE t == marker.token
           d == marker.digests
<1>1. /\ t \in Tokens /\ marker.version \in {1, 2}
      /\ d["archIn"] \in SUBSET Signals /\ d["archAck"] \in SUBSET Acks
      /\ d["archIn"] # None /\ d["archAck"] # None
      /\ DOMAIN d = Names
      /\ Finished.inputs = d["inputs"] /\ Finished.acks = d["acks"] /\ Finished.settled = d["settled"]
      /\ Finished.archIn[t] = d["archIn"] /\ Finished.archAck[t] = d["archAck"]
      /\ \A u \in Tokens \ {t} : /\ Finished.archIn[u] = files.archIn[u]
                                 /\ Finished.archAck[u] = files.archAck[u]
  BY MarkerNames
<1>2. /\ stages[t] = d /\ Staging(d)
      /\ files.archIn[t] \in {None, d["archIn"]} /\ files.archAck[t] \in {None, d["archAck"]}
      /\ Count(Finished) <= MaxHistoryFiles /\ Whole(Finished)
  BY DEF Marked, MarkedFiles, Between
<1>3. stages[t] # None
  <2>1. \A n \in Names : d[n] \in Contents BY <1>1, <1>2, ContentIsThere DEF Staging
  <2>2. d \in [Names -> Contents] BY <1>1, <1>2, <2>1 DEF Staging
  <2> QED BY <1>2, <2>2, Absent
<1>4. OtherPairs(t) \cup StagedPair = PairsOf(Finished)
  BY <1>1 DEF OtherPairs, StagedPair, PairsOf
<1>5. IndexBuildable(d["inputs"], d["acks"], OtherPairs(t) \cup StagedPair, d["settled"])
  BY <1>1, <1>2, <1>4, WholeBuildable
<1>6. Capacity(t)
  <2>1. files \in Files /\ ArchiveCount = Count(files) BY PairsAreOf DEF RSTypeOK
  <2>2. /\ Count(files) \in Nat
        /\ Count(Finished) = Count(files) + (IF files.archIn[t] = None THEN 1 ELSE 0)
                                          + (IF files.archAck[t] = None THEN 1 ELSE 0)
    BY <1>1, <2>1, CountCompacted DEF Finished
  <2> QED BY <1>2, <2>1, <2>2, Bounds DEF Capacity
<1> QED BY <1>1, <1>2, <1>3, <1>5, <1>6, Orders DEF Recoverable, Target

LEMMA RecoverInv ==
  ASSUME RSInv, Recover
  PROVE  RSInv' /\ SameHistory
<1>1. pc = "recover" /\ UNCHANGED <<files, stages, marker>> BY DEF Recover
<1>2. CASE marker = None
  <2>1. pc' = "reconcile" /\ UNCHANGED <<txn, outcome>> BY <1>2 DEF Recover, Step
  <2> QED BY <1>1, <1>2, <2>1, OnInv
<1>3. CASE marker # None /\ ~Recoverable
  <2>1. pc' = "idle" /\ marker.version = 1
    BY <1>3, AlwaysRecoverable DEF Recover, Done, RSInv, RSTypeOK
  <2> QED BY <1>1, <1>3, <2>1, EndInv
<1>4. CASE marker # None /\ Recoverable
  <2>1. /\ pc' = IF marker.version = 1 THEN "upgrade" ELSE "publish"
        /\ UNCHANGED <<txn, outcome>>
    BY <1>4 DEF Recover, Step
  <2> QED BY <1>1, <1>4, <2>1, OnInv
<1> QED BY <1>2, <1>3, <1>4

LEMMA EntriesAreSignals ==
  ASSUME NEW S \in SUBSET Signals
  PROVE  KeyEntries(S) \in SUBSET Signals
BY DEF KeyEntries, Signals

LEMMA MovedTypes ==
  ASSUME NEW F \in Files
  PROVE  Moved(F) \in SUBSET Signals /\ MovedAcks(F) \in SUBSET Acks
<1>1. \A t \in Tokens : F.archIn[t] # None => F.archIn[t] \in SUBSET Signals BY DEF Files
<1>2. \A t \in Tokens : F.archAck[t] # None => F.archAck[t] \in SUBSET Acks BY DEF Files
<1> QED BY <1>1, <1>2 DEF Moved, MovedAcks

\* A step that publishes what the marker names, and nothing else.
LEMMA PublishedInv ==
  ASSUME RSInv, marker # None, UNCHANGED <<stages, marker, txn, outcome>>,
         pc # "idle", pc' = "publish", files' \in Files,
         \A u \in Tokens \ {marker.token} : /\ files'.archIn[u] = files.archIn[u]
                                            /\ files'.archAck[u] = files.archAck[u],
         Between(files'),
         marker.version = 1 => files'.settled = KeyEntries(Moved(Finished))
  PROVE  RSInv' /\ SameHistory
<1> DEFINE t == marker.token
           d == marker.digests
           s == IF marker.version = 1 THEN None ELSE d["settled"]
<1>1. RSTypeOK' BY DEF RSInv, RSTypeOK
<1>2. Finished' = Finished
  <2>1. t \in Tokens /\ files \in Files BY DEF RSInv, RSTypeOK
  <2>2. /\ [files'.archIn EXCEPT ![t] = d["archIn"]] = [files.archIn EXCEPT ![t] = d["archIn"]]
        /\ [files'.archAck EXCEPT ![t] = d["archAck"]] = [files.archAck EXCEPT ![t] = d["archAck"]]
    BY <2>1 DEF Files
  <2>3. Compacted(files', t, d, s) = Compacted(files, t, d, s) BY <2>2 DEF Compacted
  <2>4. marker' = marker OBVIOUS
  <2> QED BY <2>3, <2>4 DEF Finished
<1>3. MarkedFiles'
  <2>1. MarkedFiles BY DEF RSInv, Marked
  <2>2. marker' = marker /\ stages' = stages OBVIOUS
  <2>3. Whole(Finished) /\ (marker.version = 2 => Count(Finished) <= MaxHistoryFiles)
    BY <2>1 DEF MarkedFiles
  <2>4. (Whole(Finished) /\ (marker.version = 2 => Count(Finished) <= MaxHistoryFiles))'
    BY <1>2, <2>2, <2>3
  <2> QED BY <2>1, <2>2, <2>4 DEF MarkedFiles, Between
<1>4. Marked'
  <2>1. marker.version = 1 => files'.settled = KeyEntries(Moved(Finished')) BY <1>2
  <2> QED BY <1>3, <2>1 DEF Marked
<1>5. SameHistory
  <2>1. RSTypeOK /\ Marked /\ files \in Files /\ Between(files)
    BY DEF RSInv, RSTypeOK, Marked, MarkedFiles
  <2>2. /\ TakenIn(files) = TakenIn(Compacted(files, marker.token, marker.digests, s))
        /\ AckedIn(files) = AckedIn(Compacted(files, marker.token, marker.digests, s))
    BY <2>1, MarkedHistory
  <2>3. /\ TakenIn(files') = TakenIn(Compacted(files', marker.token, marker.digests, s))
        /\ AckedIn(files') = AckedIn(Compacted(files', marker.token, marker.digests, s))
    BY <2>1, MarkedHistory
  <2>4. /\ Finished = Compacted(files, marker.token, marker.digests, s)
        /\ Finished' = Compacted(files', marker.token, marker.digests, s)
    BY DEF Finished
  <2> QED BY <1>2, <2>2, <2>3, <2>4 DEF SameHistory
<1>6. Asked'
  <2>1. LastId' = LastId BY <1>5, HistoryKeepsLast
  <2> QED BY <2>1, AskedKept DEF RSInv
<1>7. Reopens' BY DEF RSInv, RSTypeOK, Reopens
<1> QED BY <1>1, <1>4, <1>5, <1>6, <1>7 DEF RSInv

LEMMA UpgradeIndexInv ==
  ASSUME RSInv, UpgradeIndex
  PROVE  RSInv' /\ SameHistory
<1> DEFINE t == marker.token
           d == marker.digests
           canonical == KeyEntries(d["archIn"] \cup UNION {p.inputs : p \in OtherPairs(t)})
<1>1. pc = "upgrade" /\ UNCHANGED <<stages, marker>> BY DEF UpgradeIndex
<1>2. marker # None /\ Marked /\ RSTypeOK /\ marker.version = 1
  BY <1>1 DEF RSInv, Unmarked, Marked
<1>3. CASE files' = files /\ pc' = "idle" BY <1>1, <1>2, <1>3, EndInv
<1>4. CASE /\ files' = [files EXCEPT !.settled = canonical]
           /\ pc' = "publish" /\ UNCHANGED <<txn, outcome>>
  <2>1. /\ t \in Tokens /\ d["archIn"] \in SUBSET Signals
        /\ Finished.archIn[t] = d["archIn"] /\ d["archIn"] # None
        /\ Moved(Finished) = Others(files, t) \cup d["archIn"]
        /\ \A u \in Tokens \ {t} : /\ Finished.archIn[u] = files.archIn[u]
                                   /\ Finished.archAck[u] = files.archAck[u]
    BY <1>2, MarkerNames
  <2>2. Whole(Finished) /\ Between(files) BY <1>2 DEF Marked, MarkedFiles
  <2>3. \A u \in Tokens \ {t} : files.archIn[u] = None <=> files.archAck[u] = None
    BY <2>1, <2>2 DEF Whole
  <2>4. UNION {p.inputs : p \in OtherPairs(t)} = Others(files, t)
    <3>1. ASSUME NEW x \in UNION {p.inputs : p \in OtherPairs(t)} PROVE x \in Others(files, t)
      BY <3>1, <2>3 DEF OtherPairs, Others
    <3>2. ASSUME NEW x \in Others(files, t) PROVE x \in UNION {p.inputs : p \in OtherPairs(t)}
      <4>1. PICK u \in Tokens \ {t} : files.archIn[u] # None /\ x \in files.archIn[u]
        BY <3>2 DEF Others
      <4>2. [inputs |-> files.archIn[u], acks |-> files.archAck[u]] \in OtherPairs(t)
        BY <4>1 DEF OtherPairs
      <4> QED BY <4>1, <4>2
    <3> QED BY <3>1, <3>2
  <2>5. canonical = KeyEntries(Moved(Finished))
    <3>1. d["archIn"] \cup Others(files, t) = Moved(Finished) BY <2>1
    <3> QED BY <2>4, <3>1
  <2> HIDE DEF canonical, d, t
  <2>6. canonical \in SUBSET Signals
    <3>1. files \in Files BY <1>2 DEF RSTypeOK
    <3>2. Moved(files) \in SUBSET Signals BY <3>1, MovedTypes
    <3>3. Others(files, t) \subseteq Moved(files) BY <2>1, MovedSplits
    <3>4. Moved(Finished) \in SUBSET Signals BY <2>1, <3>2, <3>3
    <3> QED BY <2>5, <3>4, EntriesAreSignals
  <2>7. /\ files' \in Files /\ files'.inputs = files.inputs /\ files'.acks = files.acks
        /\ files'.archIn = files.archIn /\ files'.archAck = files.archAck
        /\ files'.settled = canonical
    BY <1>2, <1>4, <2>6 DEF RSTypeOK, Files
  <2>8. Between(files') BY <1>2, <2>2, <2>7 DEF Between
  <2> QED BY <1>1, <1>2, <1>4, <2>5, <2>7, <2>8, PublishedInv
<1> QED BY <1>3, <1>4 DEF UpgradeIndex, Done, Step

LEMMA WrittenIs ==
  ASSUME files \in Files, NEW t \in Tokens, NEW n \in Names, NEW c \in ContentOf(n)
  PROVE  LET G == Written(n, t, c) IN
         /\ G \in Files
         /\ G.inputs = (IF n = "inputs" THEN c ELSE files.inputs)
         /\ G.acks = (IF n = "acks" THEN c ELSE files.acks)
         /\ G.settled = (IF n = "settled" THEN c ELSE files.settled)
         /\ G.archIn[t] = (IF n = "archIn" THEN c ELSE files.archIn[t])
         /\ G.archAck[t] = (IF n = "archAck" THEN c ELSE files.archAck[t])
         /\ \A u \in Tokens \ {t} : G.archIn[u] = files.archIn[u] /\ G.archAck[u] = files.archAck[u]
<1>1. n \in {"acks", "archAck"} => c \in SUBSET Acks BY DEF ContentOf
<1>2. n \notin {"acks", "archAck"} => c \in SUBSET Signals BY DEF ContentOf
<1>3. CASE n = "archIn" BY <1>1, <1>2, <1>3 DEF Written, Files
<1>4. CASE n = "archAck" BY <1>1, <1>2, <1>4 DEF Written, Files
<1>5. CASE n = "inputs" BY <1>1, <1>2, <1>5 DEF Written, Files
<1>6. CASE n = "acks" BY <1>1, <1>2, <1>6 DEF Written, Files
<1>7. CASE n = "settled" BY <1>1, <1>2, <1>7 DEF Written, Files
<1> QED BY <1>3, <1>4, <1>5, <1>6, <1>7 DEF Names

LEMMA PublishInv ==
  ASSUME RSInv, Publish
  PROVE  RSInv' /\ SameHistory
<1> DEFINE t == marker.token
           d == marker.digests
           e == marker.expected
           i == Min(Pending)
           n == Order(marker.version)[i]
           prior == IF n \in {"archIn", "archAck"} THEN None ELSE e[n]
<1>1. pc = "publish" /\ Pending # {} /\ UNCHANGED <<stages, marker>> BY DEF Publish
<1>2. /\ marker # None /\ Marked /\ RSTypeOK /\ Between(files) /\ stages[t] = d /\ Staging(d)
      /\ marker.version = 1 => files.settled = KeyEntries(Moved(Finished))
  BY <1>1 DEF RSInv, Unmarked, Marked, MarkedFiles
<1>3. /\ t \in Tokens /\ marker.version \in {1, 2}
      /\ d["archIn"] # None /\ d["archAck"] # None
      /\ DOMAIN d \subseteq Names /\ {"archIn", "archAck", "inputs", "acks"} \subseteq DOMAIN d
      /\ marker.version = 2 => DOMAIN d = Names
  BY <1>2, MarkerNames
<1>4. /\ i \in Pending /\ \A j \in Pending : i <= j
      /\ i \in DOMAIN Order(marker.version)
  <2>1. Pending \in SUBSET Nat /\ Pending \subseteq DOMAIN Order(marker.version)
    <3>1. DOMAIN Order(marker.version) \subseteq Nat BY <1>3, Orders
    <3> QED BY <3>1 DEF Pending
  <2> QED BY <1>1, <2>1, HasLeast
<1>5. /\ n \in Names /\ n \in DOMAIN d /\ (marker.version = 1 => n # "settled")
      /\ n = "inputs" => i > 1
      /\ n = "acks" => i > 2
  <2>1. CASE marker.version = 1
    <3>1. i \in {1, 2, 3, 4} BY <1>4, <2>1, Orders
    <3> QED BY <1>3, <2>1, <3>1, Orders
  <2>2. CASE marker.version = 2
    <3>1. i \in {1, 2, 3, 4, 5} BY <1>4, <2>2, Orders
    <3>2. n \in Names BY <2>2, <3>1, Orders DEF Names
    <3> QED BY <1>3, <2>2, <3>1, <3>2, Orders
  <2> QED BY <1>3, <2>1, <2>2
<1>6. Target(n, t) # d[n] BY <1>4 DEF Pending
<1>7. /\ i > 1 => files.archIn[t] = d["archIn"]
      /\ i > 2 => files.archAck[t] = d["archAck"]
  <2>1. /\ Order(marker.version)[1] = "archIn" /\ Order(marker.version)[2] = "archAck"
        /\ 1 \in DOMAIN Order(marker.version) /\ 2 \in DOMAIN Order(marker.version)
    BY <1>3, Orders
  <2>2. i \in Nat BY <1>3, <1>4, Orders
  <2>3. /\ i > 1 => 1 \notin Pending
        /\ i > 2 => 2 \notin Pending
    BY <1>4, <2>2
  <2>4. /\ 1 \notin Pending => Target("archIn", t) = d["archIn"]
        /\ 2 \notin Pending => Target("archAck", t) = d["archAck"]
    BY <2>1 DEF Pending
  <2> QED BY <2>3, <2>4 DEF Target
<1>8. stages[t][n] = d[n] /\ d[n] \in ContentOf(n) BY <1>2, <1>5 DEF Staging
<1>9. Target(n, t) = prior
  <2>1. Target(n, t) \in {prior, d[n]}
    <3>1. CASE n = "archIn" BY <1>2, <3>1 DEF Target, Between
    <3>2. CASE n = "archAck" BY <1>2, <3>2 DEF Target, Between
    <3>3. CASE n = "inputs" BY <1>2, <3>3 DEF Target, Between
    <3>4. CASE n = "acks" BY <1>2, <3>4 DEF Target, Between
    <3>5. CASE n = "settled" BY <1>2, <1>3, <1>5, <3>5 DEF Target, Between
    <3> QED BY <1>5, <3>1, <3>2, <3>3, <3>4, <3>5 DEF Names
  <2> QED BY <1>6, <2>1
<1>10. files' = Written(n, t, d[n]) /\ pc' = "publish" /\ UNCHANGED <<txn, outcome>>
  BY <1>8, <1>9 DEF Publish, Step
<1> HIDE DEF n, t, d, e, i, prior
<1>11. /\ files' \in Files
       /\ files'.inputs = (IF n = "inputs" THEN d[n] ELSE files.inputs)
       /\ files'.acks = (IF n = "acks" THEN d[n] ELSE files.acks)
       /\ files'.settled = (IF n = "settled" THEN d[n] ELSE files.settled)
       /\ files'.archIn[t] = (IF n = "archIn" THEN d[n] ELSE files.archIn[t])
       /\ files'.archAck[t] = (IF n = "archAck" THEN d[n] ELSE files.archAck[t])
       /\ \A u \in Tokens \ {t} : files'.archIn[u] = files.archIn[u] /\ files'.archAck[u] = files.archAck[u]
  BY <1>2, <1>3, <1>5, <1>8, <1>10, WrittenIs DEF RSTypeOK
<1>12. Between(files')
  <2>1. /\ files.archIn[t] \in {None, d["archIn"]} /\ files.archAck[t] \in {None, d["archAck"]}
        /\ files.inputs \in {e["inputs"], d["inputs"]} /\ files.acks \in {e["acks"], d["acks"]}
        /\ files.inputs = d["inputs"] => files.archIn[t] = d["archIn"]
        /\ files.acks = d["acks"] => files.archAck[t] = d["archAck"]
        /\ marker.version = 2 => files.settled \in {e["settled"], d["settled"]}
    BY <1>2 DEF Between, t, d, e
  <2>2. /\ files'.archIn[t] \in {None, d["archIn"]} /\ files'.archAck[t] \in {None, d["archAck"]}
        /\ files'.inputs \in {e["inputs"], d["inputs"]} /\ files'.acks \in {e["acks"], d["acks"]}
        /\ marker.version = 2 => files'.settled \in {e["settled"], d["settled"]}
    BY <1>11, <2>1
  <2>3. files'.inputs = d["inputs"] => files'.archIn[t] = d["archIn"] BY <1>5, <1>7, <1>11, <2>1
  <2>4. files'.acks = d["acks"] => files'.archAck[t] = d["archAck"] BY <1>5, <1>7, <1>11, <2>1
  <2> QED BY <2>2, <2>3, <2>4 DEF Between, t, d, e
<1>13. marker.version = 1 => files'.settled = KeyEntries(Moved(Finished)) BY <1>2, <1>5, <1>11
<1> QED BY <1>1, <1>2, <1>10, <1>11, <1>12, <1>13, PublishedInv DEF t

LEMMA StagingIsThere ==
  ASSUME NEW s, Staging(s)
  PROVE  s # None
<1>1. \A n \in DOMAIN s : s[n] \in Contents BY ContentIsThere DEF Staging
<1>2. s \in [DOMAIN s -> Contents] /\ DOMAIN s \in SUBSET Names BY <1>1 DEF Staging
<1> QED BY <1>2, Absent

\* Files that hold the same and have a ledger that fits are whole together.
LEMMA WholeLike ==
  ASSUME NEW F, NEW G, Whole(G), F.inputs = G.inputs, F.acks = G.acks,
         \A t \in Tokens : F.archIn[t] = G.archIn[t] /\ F.archAck[t] = G.archAck[t],
         F.settled = None \/ F.settled = KeyEntries(Moved(G))
  PROVE  Whole(F) /\ TakenIn(F) = TakenIn(G) /\ AckedIn(F) = AckedIn(G)
<1>1. Moved(F) = Moved(G) /\ MovedAcks(F) = MovedAcks(G) BY DEF Moved, MovedAcks
<1>2. TakenIn(F) = TakenIn(G) /\ AckedIn(F) = AckedIn(G) BY <1>1 DEF TakenIn, AckedIn
<1> QED BY <1>1, <1>2 DEF Whole

LEMMA UnlinkMarkerInv ==
  ASSUME RSInv, UnlinkMarker
  PROVE  RSInv' /\ SameHistory
<1> DEFINE t == marker.token
           d == marker.digests
<1>1. /\ pc = "publish" /\ Pending = {} /\ UNCHANGED <<files, stages, outcome>>
      /\ marker' = None /\ pc' = "unstage" /\ txn' = [txn EXCEPT !.token = marker.token]
  BY DEF UnlinkMarker
<1>2. /\ marker # None /\ Marked /\ RSTypeOK /\ Between(files) /\ stages[t] = d /\ Staging(d)
      /\ Whole(Finished) /\ \A u \in Tokens \ {t} : stages[u] = None
      /\ marker.version = 1 => files.settled = KeyEntries(Moved(Finished))
      /\ DOMAIN d = NamesOf(marker.version)
  BY <1>1 DEF RSInv, Unmarked, Marked, MarkedFiles
<1>3. /\ t \in Tokens /\ marker.version \in {1, 2}
      /\ d["archIn"] # None /\ d["archAck"] # None
      /\ marker.version = 2 => d["settled"] # None
      /\ {"archIn", "archAck", "inputs", "acks"} \subseteq DOMAIN d
      /\ marker.version = 2 => DOMAIN d = Names
      /\ Finished.inputs = d["inputs"] /\ Finished.acks = d["acks"]
      /\ Finished.archIn[t] = d["archIn"] /\ Finished.archAck[t] = d["archAck"]
      /\ Finished.settled = (IF marker.version = 1 THEN None ELSE d["settled"])
      /\ \A u \in Tokens \ {t} : /\ Finished.archIn[u] = files.archIn[u]
                                 /\ Finished.archAck[u] = files.archAck[u]
  BY <1>2, MarkerNames
<1>4. \A n \in DOMAIN d : Target(n, t) = d[n]
  <2>1. \A n \in NamesOf(marker.version) :
          \E i \in DOMAIN Order(marker.version) : n = Order(marker.version)[i]
    BY DEF NamesOf
  <2> QED BY <1>1, <1>2, <2>1 DEF Pending
<1>5. /\ files.archIn[t] = d["archIn"] /\ files.archAck[t] = d["archAck"]
      /\ files.inputs = d["inputs"] /\ files.acks = d["acks"]
      /\ marker.version = 2 => files.settled = d["settled"]
  <2>1. /\ Target("archIn", t) = d["archIn"] /\ Target("archAck", t) = d["archAck"]
        /\ Target("inputs", t) = d["inputs"] /\ Target("acks", t) = d["acks"]
        /\ marker.version = 2 => Target("settled", t) = d["settled"]
    BY <1>3, <1>4 DEF Names
  <2> QED BY <2>1 DEF Target
<1>6. Whole(files)
  <2>1. files.settled = KeyEntries(Moved(Finished))
    <3>1. CASE marker.version = 1 BY <1>2, <3>1
    <3>2. CASE marker.version = 2 BY <1>2, <1>3, <1>5, <3>2 DEF Whole
    <3> QED BY <1>3, <3>1, <3>2
  <2>2. \A u \in Tokens : files.archIn[u] = Finished.archIn[u] /\ files.archAck[u] = Finished.archAck[u]
    BY <1>3, <1>5
  <2> QED BY <1>2, <1>3, <1>5, <2>1, <2>2, WholeLike
<1>7. Residue(t) BY <1>2, <1>3, <1>4, <1>5 DEF Residue
<1>8. UnmarkedFiles'
  <2>1. UnmarkedFiles BY <1>2, <1>3, <1>6, <1>7 DEF UnmarkedFiles
  <2> QED BY <1>1, <2>1 DEF UnmarkedFiles, Residue, Target
<1>9. txn' = [op |-> txn.op, arg |-> txn.arg, token |-> t] BY <1>1, <1>2 DEF RSTypeOK
<1>10. Unmarked'
  <2>1. stages[t] # None BY <1>2, StagingIsThere
  <2> QED BY <1>1, <1>3, <1>8, <1>9, <2>1 DEF Unmarked
<1>11. RSTypeOK' BY <1>1, <1>2, <1>9 DEF RSTypeOK
<1>12. SameHistory BY <1>1 DEF SameHistory
<1>13. Asked'
  <2>1. LastId' = LastId BY <1>12, HistoryKeepsLast
  <2> QED BY <1>1, <1>9, <2>1, AskedKept DEF RSInv
<1>14. Reopens' BY <1>1, <1>2 DEF Reopens, RSTypeOK
<1> QED BY <1>1, <1>10, <1>11, <1>12, <1>13, <1>14 DEF RSInv

\* Stages that are dropped leave what can be dropped.
LEMMA DroppedStages ==
  ASSUME RSInv, marker = None, UNCHANGED <<files, marker>>,
         NEW t \in Tokens, stages[t] # None, NEW n, NEW s,
         s = None \/ s = [m \in DOMAIN stages[t] \ {n} |-> stages[t][m]],
         stages' = [stages EXCEPT ![t] = s]
  PROVE  /\ UnmarkedFiles' /\ SameHistory /\ LastId' = LastId
         /\ Reconciled' <=> Reconciled
         /\ DOMAIN stages' = Tokens /\ stages' = [u \in Tokens |-> stages'[u]]
         /\ \A u \in Tokens : stages'[u] # None => Staging(stages'[u])
         /\ s # None => stages'[t] # None
<1>1. /\ RSTypeOK /\ Unmarked /\ Staging(stages[t]) /\ Residue(t) /\ Whole(files)
  BY DEF RSInv, RSTypeOK, Unmarked, UnmarkedFiles
<1>2. /\ DOMAIN stages = Tokens /\ stages = [u \in Tokens |-> stages[u]]
      /\ \A u \in Tokens : stages[u] # None => Staging(stages[u]) /\ Residue(u)
  BY <1>1 DEF RSTypeOK, Unmarked, UnmarkedFiles
<1>3. /\ DOMAIN stages' = Tokens /\ stages' = [u \in Tokens |-> stages'[u]]
      /\ stages'[t] = s /\ \A u \in Tokens \ {t} : stages'[u] = stages[u]
  BY <1>2
<1>4. s # None => /\ DOMAIN s = DOMAIN stages[t] \ {n}
                  /\ \A m \in DOMAIN s : s[m] = stages[t][m]
                  /\ s = [m \in DOMAIN s |-> s[m]]
  OBVIOUS
<1>5. s # None => Staging(s) BY <1>1, <1>4 DEF Staging
<1>6. \A m, u : Target(m, u)' = Target(m, u) BY DEF Target
<1>7. ASSUME NEW u \in Tokens, stages'[u] # None
      PROVE  Residue(u)'
  <2>1. CASE u = t BY <1>1, <1>3, <1>4, <1>6, <1>7, <2>1 DEF Residue
  <2>2. CASE u # t BY <1>2, <1>3, <1>6, <1>7, <2>2 DEF Residue
  <2> QED BY <2>1, <2>2
<1>8. UnmarkedFiles' BY <1>1, <1>7 DEF UnmarkedFiles
<1>9. SameHistory /\ (Reconciled' <=> Reconciled) BY DEF SameHistory, Reconciled
<1>10. LastId' = LastId BY <1>9, HistoryKeepsLast
<1> QED BY <1>2, <1>3, <1>5, <1>8, <1>9, <1>10

LEMMA UnlinkStageInv ==
  ASSUME RSInv, UnlinkStage
  PROVE  RSInv' /\ SameHistory
<1> DEFINE t == txn.token
           n == First(Order(2), DOMAIN stages[t])
           rest == [m \in DOMAIN stages[t] \ {n} |-> stages[t][m]]
<1>1. pc = "unstage" /\ UNCHANGED <<files, marker>> BY DEF UnlinkStage
<1>2. marker = None /\ Unmarked /\ RSTypeOK /\ t \in Tokens /\ stages[t] # None
  BY <1>1 DEF RSInv, Unmarked, Marked
<1>3. CASE DOMAIN stages[t] # {}
  <2>1. stages' = [stages EXCEPT ![t] = rest] /\ pc' = "unstage" /\ UNCHANGED <<txn, outcome>>
    BY <1>3 DEF UnlinkStage, Step
  <2>2. rest # None
    <3>1. Staging(stages[t]) BY <1>2 DEF RSTypeOK
    <3>2. Staging(rest) BY <3>1 DEF Staging
    <3> QED BY <3>2, StagingIsThere
  <2>3. PICK s : s = rest OBVIOUS
  <2>4. PICK x : x = n OBVIOUS
  <2>5. /\ UnmarkedFiles' /\ SameHistory /\ LastId' = LastId
        /\ DOMAIN stages' = Tokens /\ stages' = [u \in Tokens |-> stages'[u]]
        /\ \A u \in Tokens : stages'[u] # None => Staging(stages'[u])
        /\ stages'[t] # None
    BY <1>1, <1>2, <2>1, <2>2, <2>3, <2>4, DroppedStages
  <2>6. RSTypeOK' BY <1>1, <1>2, <2>1, <2>5 DEF RSTypeOK
  <2>7. Unmarked' BY <1>1, <1>2, <2>1, <2>5 DEF Unmarked
  <2>8. Asked' BY <1>1, <2>1, <2>5, AskedKept DEF RSInv
  <2>9. Reopens' BY <1>1, <1>2, <2>1 DEF Reopens, RSTypeOK
  <2> QED BY <1>1, <1>2, <2>5, <2>6, <2>7, <2>8, <2>9 DEF RSInv
<1>4. CASE DOMAIN stages[t] = {}
  <2>1. /\ stages' = [stages EXCEPT ![t] = None]
        /\ \/ pc' = "idle" /\ outcome' = "ok"
           \/ pc' = "reconcile" /\ UNCHANGED <<txn, outcome>>
    BY <1>4 DEF UnlinkStage, Step, Done
  <2>2. /\ UnmarkedFiles' /\ SameHistory /\ LastId' = LastId
        /\ DOMAIN stages' = Tokens /\ stages' = [u \in Tokens |-> stages'[u]]
        /\ \A u \in Tokens : stages'[u] # None => Staging(stages'[u])
    BY <1>1, <1>2, <2>1, DroppedStages
  <2>3. RSTypeOK' BY <1>1, <1>2, <2>1, <2>2 DEF RSTypeOK
  <2>4. Unmarked' BY <1>1, <1>2, <2>1, <2>2 DEF Unmarked
  <2>5. Asked' BY <1>1, <2>1, <2>2, AskedKept DEF RSInv
  <2>6. Reopens' BY <1>1, <1>2, <2>1 DEF Reopens, RSTypeOK
  <2> QED BY <1>1, <1>2, <2>2, <2>3, <2>4, <2>5, <2>6 DEF RSInv
<1> QED BY <1>3, <1>4

LEMMA ReconcileInv ==
  ASSUME RSInv, Reconcile
  PROVE  RSInv' /\ SameHistory
<1>1. pc = "reconcile" /\ UNCHANGED <<stages, marker>> BY DEF Reconcile
<1>2. marker = None /\ Unmarked /\ RSTypeOK /\ Whole(files)
  BY <1>1 DEF RSInv, Unmarked, UnmarkedFiles, Marked
<1>3. IndexBuildable(files.inputs, files.acks, Pairs, files.settled)
  BY <1>2, WholeBuildable, PairsAreOf
<1>4. CASE UNCHANGED <<files, txn, outcome>> /\ pc' = "cleanup" /\ Reconciled
  BY <1>1, <1>2, <1>4, OnInv
<1>5. CASE /\ files' = [files EXCEPT !.settled = KeyEntries(Archived)]
           /\ pc' = "cleanup" /\ UNCHANGED <<txn, outcome>>
  <2>1. Archived = Moved(files) /\ Moved(files) \in SUBSET Signals
    BY <1>2, MovedTypes, PairsAreOf DEF RSTypeOK
  <2>2. KeyEntries(Moved(files)) \in SUBSET Signals BY <2>1, EntriesAreSignals
  <2>3. /\ files' \in Files /\ files'.inputs = files.inputs /\ files'.acks = files.acks
        /\ files'.archIn = files.archIn /\ files'.archAck = files.archAck
        /\ files'.settled = KeyEntries(Moved(files))
    BY <1>2, <1>5, <2>1, <2>2 DEF RSTypeOK, Files
  <2>4. Whole(files') /\ TakenIn(files') = TakenIn(files) /\ AckedIn(files') = AckedIn(files)
    BY <1>2, <2>3, WholeLike
  <2>5. files.settled # None => files'.settled = files.settled BY <1>2, <2>3 DEF Whole
  <2>6. ASSUME NEW t \in Tokens, stages[t] # None
        PROVE  Residue(t)'
    <3>1. Residue(t) /\ Staging(stages[t]) BY <1>2, <2>6 DEF Unmarked, UnmarkedFiles, RSTypeOK
    <3>2. \A m : m # "settled" => Target(m, t)' = Target(m, t) BY <2>3 DEF Target
    <3>3. files.settled # None => Target("settled", t)' = Target("settled", t)
      BY <2>5 DEF Target
    <3>4. CASE files.archIn[t] = None /\ files.archAck[t] = None BY <2>3, <3>4 DEF Residue
    <3>5. CASE /\ files.archIn[t] # None /\ files.archAck[t] # None
               /\ \A n \in DOMAIN stages[t] : stages[t][n] = Target(n, t)
      <4>1. "settled" \in DOMAIN stages[t] => files.settled # None
        <5>1. "settled" \in DOMAIN stages[t] => stages[t]["settled"] # None
          BY <3>1, ContentIsThere DEF Staging
        <5> QED BY <3>5, <5>1 DEF Target
      <4>2. \A n \in DOMAIN stages[t] : Target(n, t)' = Target(n, t) BY <3>2, <3>3, <4>1
      <4> QED BY <1>1, <2>3, <3>5, <4>2 DEF Residue
    <3> QED BY <3>1, <3>4, <3>5 DEF Residue
  <2>7. UnmarkedFiles' BY <1>1, <2>4, <2>6 DEF UnmarkedFiles
  <2>8. Reconciled' BY <2>2, <2>3, ContentIsThere DEF Reconciled
  <2>9. SameHistory BY <2>4 DEF SameHistory
  <2>10. Asked'
    <3>1. LastId' = LastId BY <2>9, HistoryKeepsLast
    <3> QED BY <1>1, <1>5, <3>1, AskedKept DEF RSInv
  <2>11. RSTypeOK' /\ Unmarked' /\ Reopens'
    BY <1>1, <1>2, <1>5, <2>3, <2>7, <2>8 DEF RSTypeOK, Unmarked, Reopens
  <2> QED BY <1>1, <1>2, <2>9, <2>10, <2>11 DEF RSInv
<1>6. Pairs = {} => \A t \in Tokens : files.archIn[t] = None
  <2>1. ASSUME NEW t \in Tokens, files.archIn[t] # None
        PROVE  [inputs |-> files.archIn[t], acks |-> files.archAck[t]] \in Pairs
    BY <2>1 DEF Pairs
  <2> QED BY <2>1
<1>7. Reconcile => \/ UNCHANGED <<files, txn, outcome>> /\ pc' = "cleanup" /\ Reconciled
                   \/ /\ files' = [files EXCEPT !.settled = KeyEntries(Archived)]
                      /\ pc' = "cleanup" /\ UNCHANGED <<txn, outcome>>
  BY <1>3, <1>6 DEF Reconcile, Step, Reconciled
<1> QED BY <1>4, <1>5, <1>7

LEMMA CleanupResidueInv ==
  ASSUME RSInv, CleanupResidue
  PROVE  RSInv' /\ SameHistory
<1>1. pc = "cleanup" /\ UNCHANGED <<files, marker>> BY DEF CleanupResidue
<1>2. marker = None /\ Unmarked /\ RSTypeOK /\ Reconciled BY <1>1 DEF RSInv, Unmarked, Marked
<1>3. CASE /\ \A t \in Tokens : stages[t] = None
           /\ Step("ready") /\ UNCHANGED stages
  BY <1>1, <1>2, <1>3, OnInv DEF Step
<1>4. ASSUME NEW t \in Tokens, NEW n, NEW s, stages[t] # None,
             s = None \/ s = [m \in DOMAIN stages[t] \ {n} |-> stages[t][m]],
             stages' = [stages EXCEPT ![t] = s], Step("cleanup")
      PROVE  RSInv' /\ SameHistory
  <2>1. pc' = "cleanup" /\ UNCHANGED <<txn, outcome>> BY <1>4 DEF Step
  <2>2. /\ UnmarkedFiles' /\ SameHistory /\ LastId' = LastId
        /\ Reconciled' <=> Reconciled
        /\ DOMAIN stages' = Tokens /\ stages' = [u \in Tokens |-> stages'[u]]
        /\ \A u \in Tokens : stages'[u] # None => Staging(stages'[u])
    BY <1>1, <1>2, <1>4, DroppedStages
  <2>3. RSTypeOK' BY <1>1, <1>2, <2>1, <2>2 DEF RSTypeOK
  <2>4. Unmarked' BY <1>1, <1>2, <2>1, <2>2 DEF Unmarked
  <2>5. Asked' BY <1>1, <2>1, <2>2, AskedKept DEF RSInv
  <2>6. Reopens' BY <1>1, <1>2, <2>1 DEF Reopens, RSTypeOK
  <2> QED BY <1>1, <1>2, <2>2, <2>3, <2>4, <2>5, <2>6 DEF RSInv
<1>5. CASE \E t \in Tokens :
            /\ stages[t] # None
            /\ \/ /\ ~Residue(t) /\ Done("refused") /\ UNCHANGED stages
               \/ /\ Residue(t) /\ DOMAIN stages[t] # {}
                  /\ \E n \in DOMAIN stages[t] :
                        stages' = [stages EXCEPT ![t] = [m \in DOMAIN @ \ {n} |-> @[m]]]
                  /\ Step("cleanup")
               \/ /\ Residue(t) /\ DOMAIN stages[t] = {}
                  /\ stages' = [stages EXCEPT ![t] = None] /\ Step("cleanup")
  <2>1. PICK t \in Tokens :
            /\ stages[t] # None
            /\ \/ /\ ~Residue(t) /\ Done("refused") /\ UNCHANGED stages
               \/ /\ Residue(t) /\ DOMAIN stages[t] # {}
                  /\ \E n \in DOMAIN stages[t] :
                        stages' = [stages EXCEPT ![t] = [m \in DOMAIN stages[t] \ {n} |-> stages[t][m]]]
                  /\ Step("cleanup")
               \/ /\ Residue(t) /\ DOMAIN stages[t] = {}
                  /\ stages' = [stages EXCEPT ![t] = None] /\ Step("cleanup")
    <3>1. DOMAIN stages = Tokens /\ stages = [u \in Tokens |-> stages[u]] BY <1>2 DEF RSTypeOK
    <3> QED BY <1>5, <3>1
  <2>2. Residue(t) BY <1>2, <2>1 DEF Unmarked, UnmarkedFiles
  <2>3. CASE stages' = [stages EXCEPT ![t] = None] /\ Step("cleanup") BY <1>4, <2>1, <2>3
  <2>4. CASE /\ \E n \in DOMAIN stages[t] :
                   stages' = [stages EXCEPT ![t] = [m \in DOMAIN stages[t] \ {n} |-> stages[t][m]]]
             /\ Step("cleanup")
    <3>1. PICK n \in DOMAIN stages[t] :
            stages' = [stages EXCEPT ![t] = [m \in DOMAIN stages[t] \ {n} |-> stages[t][m]]]
      BY <2>4
    <3>2. PICK s : s = [m \in DOMAIN stages[t] \ {n} |-> stages[t][m]] OBVIOUS
    <3> QED BY <1>4, <2>1, <2>4, <3>1, <3>2
  <2> QED BY <2>1, <2>2, <2>3, <2>4
<1> QED BY <1>3, <1>5 DEF CleanupResidue

----------------------------------------
(* The operations *)

LEMMA ReadyFacts ==
  ASSUME RSInv, pc = "ready"
  PROVE  /\ marker = None /\ Unmarked /\ UnmarkedFiles /\ RSTypeOK /\ Whole(files) /\ Reconciled
         /\ files \in Files /\ Coherent /\ outcome = "none"
         /\ \A t \in Tokens : stages[t] = None
<1>1. marker = None /\ Unmarked /\ UnmarkedFiles /\ RSTypeOK /\ Whole(files) /\ Reconciled
  BY DEF RSInv, Marked, Unmarked, UnmarkedFiles
<1>2. Coherent BY <1>1 DEF Whole, Coherent
<1> QED BY <1>1, <1>2 DEF RSTypeOK, Unmarked

LEMMA ListInv ==
  ASSUME RSInv, List
  PROVE  RSInv' /\ SameHistory
<1>1. pc = "ready" /\ UNCHANGED <<files, stages, marker>> BY DEF List, Ready
<1>2. pc' = "idle" /\ outcome' = "ok" BY <1>1, ReadyFacts DEF List, Done
<1> QED BY <1>1, <1>2, EndInv

\* No identifier is beyond the last.
LEMMA LastIdIs ==
  ASSUME files \in Files
  PROVE  LastId \in Nat /\ \A x \in TakenIn(files) : x.id \in Nat /\ x.id <= LastId
<1> DEFINE I == IdsOf(files.inputs \cup Archived) \cup {0}
<1>1. TakenIn(files) \in SUBSET Signals /\ TakenIn(files) = files.inputs \cup Archived
  BY MovedTypes, PairsAreOf DEF TakenIn, Files
<1>2. MaxSignals \in Nat BY Bounds
<1>3. \A x \in TakenIn(files) : x.id \in I BY <1>1 DEF IdsOf
<1>4. \A x \in Signals : x.id \in 1..MaxSignals BY DEF Signals
<1>5. \A i \in I : i \in 0..MaxSignals BY <1>1, <1>2, <1>4 DEF IdsOf
<1>6. I \in SUBSET (0..MaxSignals) /\ I # {} BY <1>5
<1> HIDE DEF I
<1>7. Max(I) \in I /\ \A n \in I : n <= Max(I) BY <1>2, <1>6, HasGreatest
<1>8. LastId = Max(I) BY DEF LastId, I
<1> QED BY <1>3, <1>5, <1>7, <1>8

\* The signals a group of requests becomes: one each, numbered after the last.
LEMMA NumberedIs ==
  ASSUME files \in Files, NEW S \in SUBSET Requests, LastId + Cardinality(S) <= MaxSignals
  PROVE  /\ Numbered(S) \in SUBSET Signals
         /\ \A x \in Numbered(S) : x.id \in Nat /\ x.id > LastId
         /\ \A x \in Numbered(S) : \E r \in S : x.key = r.key /\ x.env = r.env
         /\ \A x, y \in Numbered(S) : x # y =>
              /\ x.id # y.id
              /\ \E q, r \in S : q # r /\ x.key = q.key /\ y.key = r.key
<1> DEFINE c == Cardinality(S)
           Full(g) == \A x \in S : \E i \in DOMAIN g : g[i] = x
           f == CHOOSE g \in [1..c -> S] : Full(g)
<1>1. IsFiniteSet(S) BY FiniteRequests, FS_Subset
<1>2. c \in Nat /\ ExistsBijection(1..c, S) BY <1>1, FS_CardinalityType
<1>3. PICK g \in [1..c -> S] : Full(g)
  <2>1. PICK b \in Bijection(1..c, S) : TRUE BY <1>2 DEF ExistsBijection
  <2>2. b \in [1..c -> S] /\ \A x \in S : \E i \in 1..c : b[i] = x
    BY <2>1 DEF Bijection, Surjection
  <2> QED BY <2>2
<1>4. f \in [1..c -> S] /\ Full(f) BY <1>3
<1>5. \A i, j \in 1..c : f[i] = f[j] => i = j
  <2>1. f \in Surjection(1..c, S) BY <1>4 DEF Surjection
  <2>2. IsFiniteSet(1..c) /\ Cardinality(1..c) = c BY <1>2, FS_Interval
  <2>3. f \in Injection(1..c, S) BY <2>1, <2>2, FS_SurjSameCardinalityImpliesInj
  <2> QED BY <2>3 DEF Injection, IsInjective
<1>6. Numbered(S) = {Signal(LastId + i, f[i]) : i \in 1..c} BY DEF Numbered
<1> HIDE DEF f
<1>7. LastId \in Nat /\ MaxSignals \in Nat BY LastIdIs, Bounds
<1>8. ASSUME NEW i \in 1..c
      PROVE  /\ Signal(LastId + i, f[i]) \in Signals
             /\ Signal(LastId + i, f[i]).id = LastId + i /\ LastId + i > LastId /\ LastId + i \in Nat
             /\ Signal(LastId + i, f[i]).key = f[i].key /\ Signal(LastId + i, f[i]).env = f[i].env
             /\ f[i] \in S
  <2>1. f[i] \in S /\ f[i] \in Requests BY <1>4
  <2>2. LastId + i \in 1..MaxSignals /\ LastId + i > LastId BY <1>2, <1>7
  <2> QED BY <2>1, <2>2, <1>7 DEF Signal, Signals, Requests
<1>9. \A x \in Numbered(S) : x \in Signals /\ x.id \in Nat /\ x.id > LastId
                             /\ \E r \in S : x.key = r.key /\ x.env = r.env
  BY <1>6, <1>8
<1>10. ASSUME NEW x \in Numbered(S), NEW y \in Numbered(S), x # y
       PROVE  /\ x.id # y.id
              /\ \E q, r \in S : q # r /\ x.key = q.key /\ y.key = r.key
  <2>1. PICK i \in 1..c : x = Signal(LastId + i, f[i]) BY <1>6
  <2>2. PICK j \in 1..c : y = Signal(LastId + j, f[j]) BY <1>6
  <2>3. i # j /\ i \in Nat /\ j \in Nat BY <1>10, <2>1, <2>2
  <2>4. x.id = LastId + i /\ y.id = LastId + j /\ x.key = f[i].key /\ y.key = f[j].key
        /\ f[i] \in S /\ f[j] \in S
    BY <1>8, <2>1, <2>2
  <2>5. f[i] # f[j] BY <1>5, <2>3
  <2>6. x.id # y.id BY <1>7, <2>3, <2>4
  <2> QED BY <2>4, <2>5, <2>6
<1> QED BY <1>9, <1>10

\* The mailbox's state, as Mailbox sees it.
LEMMA BoxState ==
  /\ TakenIn(files) = files.inputs \cup Archived /\ AckedIn(files) = files.acks \cup ArchivedAcks
  /\ TakenIn(files)' = (files.inputs \cup Archived)' /\ AckedIn(files)' = (files.acks \cup ArchivedAcks)'
BY DEF TakenIn, AckedIn, Archived, ArchivedAcks, Moved, MovedAcks

BoxStep == [Box!Next]_<<files.inputs \cup Archived, files.acks \cup ArchivedAcks>>

LEMMA StutterIs ==
  ASSUME SameHistory
  PROVE  BoxStep
BY BoxState DEF SameHistory, BoxStep

\* New signals with new identifiers and new keys are a step of Mailbox.
LEMMA TakeIs ==
  ASSUME NEW new, TakenIn(files)' = TakenIn(files) \cup new, AckedIn(files)' = AckedIn(files),
         \A x \in new, y \in TakenIn(files) : x.id # y.id,
         \A x \in new, y \in TakenIn(files) \cup new :
            x # y => x.id # y.id /\ (x.key = Unkeyed \/ x.key # y.key)
  PROVE  BoxStep
<1>1. CASE new = {} BY <1>1, StutterIs DEF SameHistory
<1>2. CASE new # {}
  <2>1. PICK T, U, A : T = TakenIn(files) /\ U = TakenIn(files)' /\ A = AckedIn(files) OBVIOUS
  <2>2. \A x \in new : x \notin T BY <2>1
  <2>3. new \in SUBSET (U \ T) /\ U = T \cup new BY <2>1, <2>2
  <2>4. {s.id : s \in new} \cap {s.id : s \in T} = {} BY <2>1
  <2>5. \A s \in new, t \in U : s # t => s.id # t.id /\ (s.key = Unkeyed \/ s.key # t.key)
    BY <2>1, <2>3
  <2>6. /\ files.inputs \cup Archived = T /\ (files.inputs \cup Archived)' = U
        /\ files.acks \cup ArchivedAcks = A /\ (files.acks \cup ArchivedAcks)' = A
    BY <2>1, BoxState
  <2>7. Box!Take BY <1>2, <2>3, <2>4, <2>5, <2>6 DEF Box!Take, Box!Ids
  <2> QED BY <2>7 DEF BoxStep, Box!Next
<1> QED BY <1>1, <1>2

\* A call that publishes new live files, and ends.
LEMMA LiveInv ==
  ASSUME RSInv, pc = "ready", UNCHANGED <<stages, marker>>, pc' = "idle", outcome' = "ok",
         files' \in Files, Whole(files'), files'.archIn = files.archIn
  PROVE  RSInv'
<1>1. /\ marker = None /\ Unmarked /\ RSTypeOK /\ \A t \in Tokens : stages[t] = None
  BY ReadyFacts
<1>2. RSTypeOK' BY <1>1 DEF RSTypeOK
<1>3. UnmarkedFiles' BY <1>1 DEF UnmarkedFiles
<1>4. Unmarked' BY <1>3 DEF Unmarked
<1> QED BY <1>1, <1>2, <1>4 DEF RSInv, Asked, Reopens

LEMMA AppendInv ==
  ASSUME RSInv, AppendSignals
  PROVE  RSInv' /\ BoxStep
<1> DEFINE S == {r \in txn.arg : ~Known(r)}
<1>1. pc = "ready" /\ txn.op = "append" /\ UNCHANGED <<stages, marker>>
  BY DEF AppendSignals, Ready
<1>2. /\ marker = None /\ Whole(files) /\ Reconciled /\ files \in Files /\ Coherent
  BY <1>1, ReadyFacts
<1>3. CASE files' = files /\ pc' = "idle" /\ outcome' \in {"conflict", "full"}
  BY <1>1, <1>3, EndInv, StutterIs
<1>4. CASE /\ files' = [files EXCEPT !.inputs = @ \cup Numbered(S)]
           /\ pc' = "idle" /\ outcome' = "ok"
           /\ ~\E r \in txn.arg : Differs(r, txn.arg)
  <2>1. txn.arg \subseteq Requests /\ LastId + Cardinality(txn.arg) <= MaxSignals
    BY <1>1 DEF RSInv, Asked
  <2>2. S \in SUBSET Requests /\ S \in SUBSET txn.arg BY <2>1
  <2>3. LastId + Cardinality(S) <= MaxSignals
    <3>1. IsFiniteSet(txn.arg) BY <2>1, FiniteRequests, FS_Subset
    <3>2. Cardinality(txn.arg) \in Nat /\ Cardinality(S) \in Nat /\ Cardinality(S) <= Cardinality(txn.arg)
      BY <2>2, <3>1, FS_Subset, FS_CardinalityType
    <3>3. LastId \in Nat /\ MaxSignals \in Nat BY <1>2, LastIdIs, Bounds
    <3> QED BY <2>1, <3>2, <3>3
  <2>4. PICK new : new = Numbered(S) OBVIOUS
  <2>5. /\ new \in SUBSET Signals
        /\ \A x \in new : x.id \in Nat /\ x.id > LastId
        /\ \A x \in new : \E r \in S : x.key = r.key /\ x.env = r.env
        /\ \A x, y \in new : x # y =>
              /\ x.id # y.id
              /\ \E q, r \in S : q # r /\ x.key = q.key /\ y.key = r.key
    <3>1. PICK R : R = S OBVIOUS
    <3>2. R \in SUBSET Requests /\ LastId + Cardinality(R) <= MaxSignals /\ new = Numbered(R)
      BY <2>2, <2>3, <2>4, <3>1
    <3> HIDE DEF S
    <3>3. /\ new \in SUBSET Signals
          /\ \A x \in new : x.id \in Nat /\ x.id > LastId
          /\ \A x \in new : \E r \in R : x.key = r.key /\ x.env = r.env
          /\ \A x, y \in new : x # y =>
                /\ x.id # y.id
                /\ \E q, r \in R : q # r /\ x.key = q.key /\ y.key = r.key
      BY <1>2, <3>2, NumberedIs
    <3> QED BY <3>1, <3>3
  <2>6. /\ files' \in Files /\ files'.inputs = files.inputs \cup new /\ files'.acks = files.acks
        /\ files'.archIn = files.archIn /\ files'.archAck = files.archAck
        /\ files'.settled = files.settled
    BY <1>2, <1>4, <2>4, <2>5 DEF Files
  <2>7. /\ Moved(files') = Moved(files) /\ MovedAcks(files') = MovedAcks(files)
        /\ TakenIn(files') = TakenIn(files) \cup new /\ AckedIn(files') = AckedIn(files)
    BY <2>6 DEF Moved, MovedAcks, TakenIn, AckedIn
  <2>8. \A x \in new, y \in TakenIn(files) : x.id # y.id
    <3>1. LastId \in Nat /\ \A y \in TakenIn(files) : y.id \in Nat /\ y.id <= LastId
      BY <1>2, LastIdIs
    <3>2. ASSUME NEW x \in new, NEW y \in TakenIn(files) PROVE x.id # y.id
      <4>1. x.id \in Nat /\ x.id > LastId /\ y.id \in Nat /\ y.id <= LastId BY <2>5, <3>1
      <4> QED BY <3>1, <4>1
    <3> QED BY <3>2
  <2>9. \A x \in new, y \in TakenIn(files) : x.key = Unkeyed \/ x.key # y.key
    <3>1. ASSUME NEW x \in new, NEW y \in TakenIn(files), x.key # Unkeyed, x.key = y.key PROVE FALSE
      <4>1. PICK r \in S : x.key = r.key BY <2>5
      <4>2. /\ \A s \in files.inputs : s.key # r.key
            /\ files.settled # None => \A e \in files.settled : e.key # r.key
        BY <3>1, <4>1 DEF Known
      <4>3. y \in Moved(files) BY <3>1, <4>1, <4>2 DEF TakenIn
      <4>4. files.settled # None BY <1>2, <4>3 DEF Reconciled, Moved
      <4>5. files.settled = KeyEntries(Moved(files)) BY <1>2, <4>4 DEF Whole
      <4>6. [key |-> y.key, env |-> y.env, id |-> y.id] \in KeyEntries(Moved(files))
        BY <3>1, <4>3 DEF KeyEntries
      <4> QED BY <3>1, <4>1, <4>2, <4>4, <4>5, <4>6
    <3> QED BY <3>1
  <2>10. \A x, y \in new : x # y => x.id # y.id /\ (x.key = Unkeyed \/ x.key # y.key)
    <3>1. ASSUME NEW x \in new, NEW y \in new, x # y, x.key # Unkeyed, x.key = y.key PROVE FALSE
      <4>1. PICK q \in S, r \in S : q # r /\ x.key = q.key /\ y.key = r.key BY <2>5, <3>1
      <4>2. q.env = r.env BY <1>4, <3>1, <4>1, <2>2 DEF Differs
      <4>3. q \in Requests /\ r \in Requests /\ q.key = r.key BY <2>2, <3>1, <4>1
      <4>4. \A v \in Requests : v = [key |-> v.key, env |-> v.env] BY DEF Requests
      <4>5. q = [key |-> q.key, env |-> q.env] /\ r = [key |-> r.key, env |-> r.env]
        BY <4>3, <4>4
      <4>6. q = r BY <4>2, <4>3, <4>5
      <4> QED BY <4>1, <4>6
    <3> QED BY <2>5, <3>1
  <2>11. \A x \in new, y \in TakenIn(files) \cup new :
            x # y => x.id # y.id /\ (x.key = Unkeyed \/ x.key # y.key)
    BY <2>8, <2>9, <2>10
  <2>12. UniqueHistory(TakenIn(files'), AckedIn(files'))
    <3>1. UniqueHistory(TakenIn(files), AckedIn(files)) BY <1>2 DEF Whole
    <3>2. \A s, t \in TakenIn(files) \cup new :
             s # t => s.id # t.id /\ (s.key = Unkeyed \/ s.key # t.key)
      BY <2>11, <3>1 DEF UniqueHistory
    <3>3. IdsOf(AckedIn(files)) \subseteq IdsOf(TakenIn(files) \cup new)
      BY <3>1 DEF UniqueHistory, IdsOf
    <3> QED BY <2>7, <3>1, <3>2, <3>3 DEF UniqueHistory
  <2>13. Separate(files'.inputs, KeyEntries(Moved(files')))
    <3>1. ASSUME NEW s \in new, NEW e \in KeyEntries(Moved(files)), s.key # Unkeyed
          PROVE  s.key # e.key
      <4>1. PICK y \in Moved(files) : e.key = y.key BY DEF KeyEntries
      <4> QED BY <2>9, <3>1, <4>1 DEF TakenIn
    <3>2. Separate(files.inputs, KeyEntries(Moved(files))) BY <1>2 DEF Whole
    <3> QED BY <2>6, <2>7, <3>1, <3>2 DEF Separate
  <2>14. Whole(files')
    <3>1. IdsOf(files'.acks) \subseteq IdsOf(files'.inputs) BY <1>2, <2>6 DEF Whole, IdsOf
    <3>2. files'.inputs \cap Moved(files') = {} BY <1>2, <2>6, <2>7, <2>8 DEF Whole, TakenIn
    <3> QED BY <1>2, <2>6, <2>7, <2>12, <2>13, <3>1, <3>2 DEF Whole
  <2>15. RSInv' BY <1>1, <1>4, <2>6, <2>14, LiveInv
  <2>16. BoxStep BY <2>7, <2>8, <2>11, TakeIs
  <2> QED BY <2>15, <2>16
<1> QED BY <1>2, <1>3, <1>4 DEF AppendSignals, Done

\* New acknowledgements of live signals nobody acknowledged are a step of Mailbox.
LEMMA SettleIs ==
  ASSUME TakenIn(files)' = TakenIn(files), AckedIn(files) \subseteq AckedIn(files)',
         UniqueHistory(TakenIn(files), AckedIn(files)')
  PROVE  BoxStep
<1>1. PICK T, A, B : T = TakenIn(files) /\ A = AckedIn(files) /\ B = AckedIn(files)' OBVIOUS
<1>2. /\ files.inputs \cup Archived = T /\ (files.inputs \cup Archived)' = T
      /\ files.acks \cup ArchivedAcks = A /\ (files.acks \cup ArchivedAcks)' = B
  BY <1>1, BoxState
<1>3. CASE A = B BY <1>2, <1>3 DEF BoxStep
<1>4. CASE A # B
  <2>1. A \subseteq B /\ (\A a, b \in B : a.id = b.id => a = b) /\ {a.id : a \in B} \subseteq {s.id : s \in T}
    BY <1>1 DEF UniqueHistory, IdsOf
  <2>2. Box!Settle BY <1>2, <1>4, <2>1 DEF Box!Settle, Box!Ids
  <2> QED BY <2>2 DEF BoxStep, Box!Next
<1> QED BY <1>3, <1>4

LEMMA AcknowledgeInv ==
  ASSUME RSInv, Acknowledge
  PROVE  RSInv' /\ BoxStep
<1> DEFINE ids == txn.arg.ids
           c == txn.arg.consumer
           previous(i) == {a \in files.acks : a.id = i}
           Fresh == {[id |-> i, consumer |-> c] : i \in {j \in ids : previous(j) = {}}}
<1>1. pc = "ready" /\ txn.op = "acknowledge" /\ UNCHANGED <<stages, marker>>
  BY DEF Acknowledge, Ready
<1>2. /\ marker = None /\ Whole(files) /\ files \in Files /\ Coherent BY <1>1, ReadyFacts
<1>3. CASE files' = files /\ pc' = "idle" /\ outcome' \in {"conflict", "missing"}
  BY <1>1, <1>3, EndInv, StutterIs
<1>4. CASE /\ files' = [files EXCEPT !.acks = @ \cup Fresh]
           /\ pc' = "idle" /\ outcome' = "ok"
           /\ ids \subseteq IdsOf(files.inputs)
  <2>1. c \in Consumers BY <1>1 DEF RSInv, Asked
  <2>2. files.inputs \in SUBSET Signals /\ files.acks \in SUBSET Acks BY <1>2 DEF Files
  <2>3. PICK new : new = Fresh OBVIOUS
  <2>4. \A a \in new : /\ a = [id |-> a.id, consumer |-> c]
                       /\ a.id \in IdsOf(files.inputs)
                       /\ \A b \in files.acks : b.id # a.id
    BY <1>4, <2>3
  <2>5. new \in SUBSET Acks
    <3>1. \A i \in IdsOf(files.inputs) : i \in 1..MaxSignals BY <2>2 DEF IdsOf, Signals
    <3> QED BY <2>1, <2>4, <3>1 DEF Acks
  <2>6. /\ files' \in Files /\ files'.acks = files.acks \cup new /\ files'.inputs = files.inputs
        /\ files'.archIn = files.archIn /\ files'.archAck = files.archAck
        /\ files'.settled = files.settled
    BY <1>2, <1>4, <2>3, <2>5 DEF Files
  <2>7. /\ Moved(files') = Moved(files) /\ MovedAcks(files') = MovedAcks(files)
        /\ TakenIn(files') = TakenIn(files) /\ AckedIn(files') = AckedIn(files) \cup new
    BY <2>6 DEF Moved, MovedAcks, TakenIn, AckedIn
  <2>8. UniqueHistory(TakenIn(files), AckedIn(files)) BY <1>2 DEF Whole
  <2>9. \A a \in new, b \in MovedAcks(files) : a.id # b.id
    <3>1. ASSUME NEW a \in new, NEW b \in MovedAcks(files), a.id = b.id PROVE FALSE
      <4>1. PICK t \in Tokens : files.archAck[t] # None /\ b \in files.archAck[t]
        BY DEF MovedAcks
      <4>2. files.archIn[t] # None /\ IdsOf(files.archIn[t]) = IdsOf(files.archAck[t])
        BY <1>2, <4>1 DEF Whole
      <4>3. PICK m \in files.archIn[t] : m.id = b.id BY <4>1, <4>2 DEF IdsOf
      <4>4. PICK s \in files.inputs : s.id = a.id BY <2>4 DEF IdsOf
      <4>5. m \in Moved(files) BY <4>2, <4>3 DEF Moved
      <4>6. m = s BY <2>8, <3>1, <4>3, <4>4, <4>5 DEF UniqueHistory, TakenIn
      <4> QED BY <1>2, <4>4, <4>5, <4>6 DEF Whole
    <3> QED BY <3>1
  <2>10. UniqueHistory(TakenIn(files'), AckedIn(files'))
    <3>1. \A a \in new, b \in AckedIn(files) : a.id # b.id BY <2>4, <2>9 DEF AckedIn
    <3>2. \A a, b \in new : a.id = b.id => a = b BY <2>4
    <3>3. \A a, b \in AckedIn(files) \cup new : a.id = b.id => a = b
      BY <2>8, <3>1, <3>2 DEF UniqueHistory
    <3>4. IdsOf(AckedIn(files) \cup new) \subseteq IdsOf(TakenIn(files))
      <4>1. IdsOf(files.inputs) \subseteq IdsOf(TakenIn(files)) BY DEF IdsOf, TakenIn
      <4>2. \A a \in AckedIn(files) : a.id \in IdsOf(TakenIn(files))
        BY <2>8 DEF UniqueHistory, IdsOf
      <4>3. \A a \in AckedIn(files) \cup new : a.id \in IdsOf(TakenIn(files))
        BY <2>4, <4>1, <4>2
      <4> QED BY <4>3 DEF IdsOf
    <3> QED BY <2>7, <2>8, <3>3, <3>4 DEF UniqueHistory
  <2>11. Whole(files')
    <3>1. IdsOf(files'.acks) \subseteq IdsOf(files'.inputs)
      <4>1. \A a \in files.acks : a.id \in IdsOf(files.inputs) BY <1>2 DEF Whole, IdsOf
      <4>2. \A a \in files'.acks : a.id \in IdsOf(files'.inputs) BY <2>4, <2>6, <4>1
      <4> QED BY <4>2 DEF IdsOf
    <3> QED BY <1>2, <2>6, <2>7, <2>10, <3>1 DEF Whole
  <2>12. RSInv' BY <1>1, <1>4, <2>6, <2>11, LiveInv
  <2>13. BoxStep
    <3>1. UniqueHistory(TakenIn(files), AckedIn(files')) BY <2>7, <2>10
    <3>2. AckedIn(files) \subseteq AckedIn(files') BY <2>7
    <3> QED BY <2>7, <3>1, <3>2, SettleIs
  <2> QED BY <2>12, <2>13
<1>5. Acknowledge => \/ files' = files /\ pc' = "idle" /\ outcome' \in {"conflict", "missing"}
                     \/ /\ files' = [files EXCEPT !.acks = @ \cup Fresh]
                        /\ pc' = "idle" /\ outcome' = "ok"
                        /\ ids \subseteq IdsOf(files.inputs)
  BY <1>2 DEF Acknowledge, Done
<1> QED BY <1>3, <1>4, <1>5

\* What compact plans to move, and what the live files will be.
Planned(t, moved, d) ==
  /\ t \in Tokens /\ files.archIn[t] = None /\ files.archAck[t] = None
  /\ moved \in SUBSET files.inputs /\ moved # {} /\ IdsOf(moved) \subseteq IdsOf(files.acks)
  /\ DOMAIN d = Names /\ d = [n \in Names |-> d[n]]
  /\ d["archIn"] = moved
  /\ d["archAck"] = {a \in files.acks : a.id \in IdsOf(moved)}
  /\ d["settled"] = (IF files.settled = None THEN {} ELSE files.settled) \cup KeyEntries(moved)
  /\ d["inputs"] = files.inputs \ moved /\ d["acks"] = files.acks \ d["archAck"]

\* The files a planned compaction leads to are whole again.
LEMMA PlannedIs ==
  ASSUME files \in Files, Whole(files), Reconciled, NEW t, NEW moved, NEW d, Planned(t, moved, d)
  PROVE  /\ DOMAIN d = Names /\ Staging(d)
         /\ Splits(d, files.inputs, files.acks)
         /\ Whole(Compacted(files, t, d, d["settled"]))
         /\ Count(Compacted(files, t, d, d["settled"])) = ArchiveCount + 2 /\ ArchiveCount \in Nat
<1>0. PICK movedAcks, before :
         /\ movedAcks = {a \in files.acks : a.id \in IdsOf(moved)}
         /\ before = IF files.settled = None THEN {} ELSE files.settled
  OBVIOUS
<1>2. /\ t \in Tokens /\ files.archIn[t] = None /\ files.archAck[t] = None
      /\ moved \in SUBSET files.inputs /\ moved # {} /\ IdsOf(moved) \subseteq IdsOf(files.acks)
      /\ DOMAIN d = Names /\ d = [n \in Names |-> d[n]]
      /\ d["archIn"] = moved /\ d["archAck"] = movedAcks /\ d["settled"] = before \cup KeyEntries(moved)
      /\ d["inputs"] = files.inputs \ moved /\ d["acks"] = files.acks \ movedAcks
  BY <1>0 DEF Planned
<1> DEFINE G == Compacted(files, t, d, d["settled"])
<1>1. files.inputs \in SUBSET Signals /\ files.acks \in SUBSET Acks
      /\ files.settled \in (SUBSET Signals) \cup {None}
  BY DEF Files
<1>3. moved \in SUBSET Signals /\ movedAcks \in SUBSET Acks /\ before \in SUBSET Signals
  BY <1>0, <1>1, <1>2
<1>4. KeyEntries(moved) \in SUBSET Signals BY <1>3, EntriesAreSignals
<1>5. Staging(d) BY <1>1, <1>2, <1>3, <1>4 DEF Staging, ContentOf, Names
<1>6. IdsOf(moved) = IdsOf(movedAcks)
  <2>1. ASSUME NEW s \in moved PROVE \E a \in movedAcks : a.id = s.id
    <3>1. s.id \in IdsOf(moved) BY DEF IdsOf
    <3>2. PICK a \in files.acks : a.id = s.id BY <1>2, <3>1 DEF IdsOf
    <3> QED BY <1>0, <3>1, <3>2
  <2> QED BY <1>0, <2>1 DEF IdsOf
<1>7. movedAcks # {} BY <1>2, <1>6 DEF IdsOf
<1>8. Splits(d, files.inputs, files.acks) BY <1>0, <1>2, <1>7 DEF Splits
<1>9. /\ Moved(files) = Others(files, t) /\ MovedAcks(files) = OtherAcks(files, t)
  <2>1. /\ Moved(files) = Others(files, t) \cup (IF files.archIn[t] = None THEN {} ELSE files.archIn[t])
        /\ MovedAcks(files) = OtherAcks(files, t) \cup (IF files.archAck[t] = None THEN {} ELSE files.archAck[t])
    BY <1>2, MovedSplits
  <2> QED BY <1>2, <2>1
<1>10. /\ G.inputs = files.inputs \ moved /\ G.acks = files.acks \ movedAcks
       /\ G.settled = before \cup KeyEntries(moved)
       /\ G.archIn[t] = moved /\ G.archAck[t] = movedAcks /\ moved # None /\ movedAcks # None
       /\ \A u \in Tokens \ {t} : G.archIn[u] = files.archIn[u] /\ G.archAck[u] = files.archAck[u]
       /\ Moved(G) = Moved(files) \cup moved
       /\ MovedAcks(G) = MovedAcks(files) \cup movedAcks
  <2>1. d["archIn"] \in SUBSET Signals /\ d["archAck"] \in SUBSET Acks BY <1>2, <1>3
  <2>2. PICK s : s = d["settled"] OBVIOUS
  <2>3. LET H == Compacted(files, t, d, s) IN
        /\ H.inputs = d["inputs"] /\ H.acks = d["acks"] /\ H.settled = s
        /\ H.archIn[t] = d["archIn"] /\ H.archAck[t] = d["archAck"]
        /\ d["archIn"] # None /\ d["archAck"] # None
        /\ \A u \in Tokens \ {t} : H.archIn[u] = files.archIn[u] /\ H.archAck[u] = files.archAck[u]
        /\ Moved(H) = Others(files, t) \cup d["archIn"]
        /\ MovedAcks(H) = OtherAcks(files, t) \cup d["archAck"]
    BY <1>2, <2>1, CompactedIs
  <2>4. G = Compacted(files, t, d, s) BY <2>2
  <2> HIDE DEF G
  <2> QED BY <1>2, <1>9, <2>2, <2>3, <2>4
<1> HIDE DEF G
<1>11. TakenIn(G) = TakenIn(files) /\ AckedIn(G) = AckedIn(files)
  BY <1>0, <1>2, <1>10 DEF TakenIn, AckedIn
<1>12. UniqueHistory(TakenIn(files), AckedIn(files)) BY DEF Whole
<1>13. KeyEntries(Moved(G)) = KeyEntries(Moved(files)) \cup KeyEntries(moved)
  BY <1>10 DEF KeyEntries
<1>14. G.settled = KeyEntries(Moved(G))
  <2>1. CASE files.settled = None
    <3>1. Moved(files) = {} BY <2>1 DEF Reconciled, Moved
    <3>2. KeyEntries(Moved(files)) = {} BY <3>1 DEF KeyEntries
    <3> QED BY <1>0, <1>10, <1>13, <2>1, <3>2
  <2>2. CASE files.settled # None BY <1>0, <1>10, <1>13, <2>2 DEF Whole
  <2> QED BY <2>1, <2>2
<1>15. IdsOf(G.acks) \subseteq IdsOf(G.inputs)
  <2>1. ASSUME NEW a \in files.acks, a \notin movedAcks
        PROVE  \E s \in files.inputs \ moved : s.id = a.id
    <3>1. PICK s \in files.inputs : s.id = a.id BY <2>1 DEF Whole, IdsOf
    <3>2. a.id \notin IdsOf(moved) BY <1>0, <2>1
    <3>3. s \notin moved BY <3>1, <3>2 DEF IdsOf
    <3> QED BY <3>1, <3>3
  <2> QED BY <1>10, <2>1 DEF IdsOf
<1>16. Separate(G.inputs, KeyEntries(Moved(G)))
  <2>1. Separate(files.inputs, KeyEntries(Moved(files))) BY DEF Whole
  <2>2. ASSUME NEW s \in files.inputs \ moved, NEW e \in KeyEntries(moved), s.key # Unkeyed
        PROVE  s.key # e.key
    <3>1. PICK y \in moved : e.key = y.key BY DEF KeyEntries
    <3>2. s # y /\ s \in TakenIn(files) /\ y \in TakenIn(files) BY <1>2, <3>1 DEF TakenIn
    <3> QED BY <1>12, <2>2, <3>1, <3>2 DEF UniqueHistory
  <2> QED BY <1>10, <1>13, <2>1, <2>2 DEF Separate
<1>17. G.inputs \cap Moved(G) = {} BY <1>10 DEF Whole
<1>18. Whole(G)
  <2>1. \A u \in Tokens : G.archIn[u] = None <=> G.archAck[u] = None BY <1>10 DEF Whole
  <2>2. \A u \in Tokens : G.archIn[u] # None => IdsOf(G.archIn[u]) = IdsOf(G.archAck[u])
    BY <1>6, <1>10 DEF Whole
  <2> QED BY <1>11, <1>12, <1>14, <1>15, <1>16, <1>17, <2>1, <2>2 DEF Whole
<1>19. Count(G) = ArchiveCount + 2 /\ ArchiveCount \in Nat
  <2>1. /\ Count(files) \in Nat
        /\ Count(G) = Count(files) + (IF files.archIn[t] = None THEN 1 ELSE 0)
                                   + (IF files.archAck[t] = None THEN 1 ELSE 0)
    <3>1. d["archIn"] \in SUBSET Signals /\ d["archAck"] \in SUBSET Acks BY <1>2, <1>3
    <3>2. PICK s : s = d["settled"] OBVIOUS
    <3>3. /\ Count(files) \in Nat
          /\ Count(Compacted(files, t, d, s)) = Count(files) + (IF files.archIn[t] = None THEN 1 ELSE 0)
                                                             + (IF files.archAck[t] = None THEN 1 ELSE 0)
      BY <1>2, <3>1, CountCompacted
    <3> QED BY <3>2, <3>3 DEF G
  <2> QED BY <1>2, <2>1, PairsAreOf
<1> QED BY <1>2, <1>5, <1>8, <1>18, <1>19 DEF G

LEMMA PlanCompactionInv ==
  ASSUME RSInv, PlanCompaction
  PROVE  RSInv' /\ SameHistory
<1> DEFINE Moves == {s \in Older(txn.arg) : s.id \in IdsOf(files.acks)}
           MovesAcks == {a \in files.acks : a.id \in IdsOf(Moves)}
           Remembered == IF files.settled = None THEN {} ELSE files.settled
           Free == {t \in Tokens : stages[t] = None /\ files.archIn[t] = None /\ files.archAck[t] = None}
           Plan == [archIn |-> Moves, archAck |-> MovesAcks, settled |-> Remembered \cup KeyEntries(Moves),
                    inputs |-> files.inputs \ Moves, acks |-> files.acks \ MovesAcks]
<1>1. pc = "ready" /\ UNCHANGED <<files, marker>> BY DEF PlanCompaction, Ready
<1>2. /\ marker = None /\ Unmarked /\ UnmarkedFiles /\ RSTypeOK /\ Whole(files) /\ Reconciled
      /\ files \in Files /\ Coherent /\ outcome = "none" /\ \A t \in Tokens : stages[t] = None
  BY <1>1, ReadyFacts
<1>3. CASE stages' = stages /\ pc' = "idle" /\ outcome' \in {"ok", "full"} BY <1>1, <1>3, EndInv
<1>4. CASE /\ Moves # {} /\ Free # {} /\ ~(ArchiveCount + 2 > MaxHistoryFiles)
           /\ stages' = [stages EXCEPT ![Min(Free)] = [n \in {} |-> None]]
           /\ txn' = [op |-> "compacted", token |-> Min(Free), arg |-> Plan]
           /\ pc' = "stage" /\ UNCHANGED outcome
  <2>1. PICK t, d, empty : t = Min(Free) /\ d = Plan /\ empty = [n \in {} |-> None] OBVIOUS
  <2>2. t \in Tokens /\ stages[t] = None /\ files.archIn[t] = None /\ files.archAck[t] = None
    <3>1. Free \in SUBSET Nat BY Bounds
    <3>2. Min(Free) \in Free BY <1>4, <3>1, HasLeast
    <3> QED BY <2>1, <3>2
  <2>3. Moves \in SUBSET files.inputs /\ IdsOf(Moves) \subseteq IdsOf(files.acks)
    BY DEF Older, IdsOf
  <2>4. PICK moved : moved = Moves OBVIOUS
  <2>5. Planned(t, moved, d) BY <1>4, <2>1, <2>2, <2>3, <2>4 DEF Planned, Names
  <2> HIDE DEF Moves, MovesAcks, Remembered, Plan, Free
  <2>6. /\ DOMAIN d = Names /\ Staging(d)
        /\ Splits(d, files.inputs, files.acks)
        /\ Whole(Compacted(files, t, d, d["settled"]))
        /\ Count(Compacted(files, t, d, d["settled"])) = ArchiveCount + 2 /\ ArchiveCount \in Nat
    BY <1>2, <2>5, PlannedIs
  <2>7. Count(Compacted(files, t, d, d["settled"])) <= MaxHistoryFiles BY <1>4, <2>6, Bounds
  <2>8. /\ stages' = [stages EXCEPT ![t] = empty]
        /\ txn' = [op |-> "compacted", token |-> t, arg |-> d]
        /\ txn'.op = "compacted" /\ txn'.token = t /\ txn'.arg = d
    BY <1>4, <2>1
  <2>9. /\ DOMAIN stages' = Tokens /\ stages' = [u \in Tokens |-> stages'[u]]
        /\ stages'[t] = empty /\ \A u \in Tokens \ {t} : stages'[u] = None
    BY <1>2, <2>2, <2>8 DEF RSTypeOK
  <2>10. Staging(empty) /\ DOMAIN empty = {} BY <2>1 DEF Staging
  <2>11. empty # None BY <2>10, StagingIsThere
  <2>12. RSTypeOK' BY <1>1, <1>2, <1>4, <2>8, <2>9, <2>10 DEF RSTypeOK
  <2>13. UnmarkedFiles'
    <3>1. Residue(t)' BY <1>1, <2>2 DEF Residue
    <3> QED BY <1>1, <1>2, <2>9, <3>1 DEF UnmarkedFiles
  <2>14. Staged' BY <1>1, <2>2, <2>6, <2>7, <2>8, <2>9, <2>10, <2>11 DEF Staged
  <2>15. Unmarked' BY <1>1, <1>2, <1>4, <2>13, <2>14 DEF Unmarked, Reconciled
  <2>16. SameHistory BY <1>1 DEF SameHistory
  <2>17. Asked' BY <2>8, <2>16, HistoryKeepsLast, AskedKept DEF RSInv
  <2>18. Reopens' BY <1>2, <1>4 DEF Reopens
  <2> QED BY <1>1, <1>2, <2>12, <2>15, <2>16, <2>17, <2>18 DEF RSInv
<1>5. \/ stages' = stages /\ pc' = "idle" /\ outcome' \in {"ok", "full"}
      \/ /\ Moves # {} /\ Free # {} /\ ~(ArchiveCount + 2 > MaxHistoryFiles)
         /\ stages' = [stages EXCEPT ![Min(Free)] = [n \in {} |-> None]]
         /\ txn' = [op |-> "compacted", token |-> Min(Free), arg |-> Plan]
         /\ pc' = "stage" /\ UNCHANGED outcome
  BY <1>2 DEF PlanCompaction, Done
<1> QED BY <1>3, <1>4, <1>5

LEMMA NextStage ==
  ASSUME NEW S \in SUBSET Names, S # {}
  PROVE  First(StageOrder, S) \in S
<1> DEFINE I == {i \in DOMAIN StageOrder : StageOrder[i] \in S}
<1>1. /\ DOMAIN StageOrder = 1..5
      /\ StageOrder[1] = "archAck" /\ StageOrder[2] = "archIn" /\ StageOrder[3] = "acks"
      /\ StageOrder[4] = "inputs" /\ StageOrder[5] = "settled"
  BY DEF StageOrder
<1>2. \A n \in Names : \E i \in DOMAIN StageOrder : StageOrder[i] = n
  <2>1. 1 \in 1..5 /\ 2 \in 1..5 /\ 3 \in 1..5 /\ 4 \in 1..5 /\ 5 \in 1..5 OBVIOUS
  <2> QED BY <1>1, <2>1 DEF Names
<1>3. I \in SUBSET Nat /\ I # {} BY <1>1, <1>2
<1> HIDE DEF StageOrder
<1>4. Min(I) \in I BY <1>3, HasLeast
<1> QED BY <1>4 DEF First

LEMMA WriteStageInv ==
  ASSUME RSInv, WriteStage
  PROVE  RSInv' /\ SameHistory
<1>1. pc = "stage" /\ UNCHANGED <<files, marker, pc, txn, outcome>> BY DEF WriteStage
<1>2. marker = None /\ Unmarked /\ UnmarkedFiles /\ RSTypeOK /\ Staged /\ Reconciled
  BY <1>1 DEF RSInv, Unmarked, Marked
<1>3. PICK t, d : t = txn.token /\ d = txn.arg OBVIOUS
<1>4. /\ t \in Tokens /\ DOMAIN d = Names /\ Staging(d)
      /\ stages[t] # None /\ \A n \in DOMAIN stages[t] : stages[t][n] = d[n]
      /\ \A u \in Tokens \ {t} : stages[u] = None
      /\ files.archIn[t] = None /\ files.archAck[t] = None
  BY <1>2, <1>3 DEF Staged
<1>5. Staging(stages[t]) /\ DOMAIN stages = Tokens /\ stages = [u \in Tokens |-> stages[u]]
  BY <1>2, <1>4 DEF RSTypeOK
<1>6. PICK n \in Names : stages' = [stages EXCEPT ![t] = [m \in DOMAIN stages[t] \cup {n} |-> d[m]]]
  <2>1. /\ DOMAIN stages[t] # Names
        /\ stages' = [stages EXCEPT ![t] = [m \in DOMAIN stages[t] \cup {First(StageOrder, Names \ DOMAIN stages[t])}
                                              |-> d[m]]]
    BY <1>3, <1>4, <1>5, Orders DEF WriteStage
  <2>2. First(StageOrder, Names \ DOMAIN stages[t]) \in Names \ DOMAIN stages[t]
    BY <1>5, <2>1, NextStage DEF Staging
  <2> QED BY <2>1, <2>2
<1>7. PICK s : s = [m \in DOMAIN stages[t] \cup {n} |-> d[m]] OBVIOUS
<1>8. /\ DOMAIN s = DOMAIN stages[t] \cup {n} /\ \A m \in DOMAIN s : s[m] = d[m]
      /\ s = [m \in DOMAIN s |-> s[m]]
  BY <1>7
<1>9. Staging(s) BY <1>4, <1>5, <1>8 DEF Staging
<1>10. s # None BY <1>9, StagingIsThere
<1>11. /\ DOMAIN stages' = Tokens /\ stages' = [u \in Tokens |-> stages'[u]]
       /\ stages'[t] = s /\ \A u \in Tokens \ {t} : stages'[u] = None
  BY <1>4, <1>5, <1>6, <1>7
<1>12. RSTypeOK' BY <1>1, <1>2, <1>9, <1>11 DEF RSTypeOK
<1>13. UnmarkedFiles'
  <2>1. Residue(t)' BY <1>1, <1>4 DEF Residue
  <2> QED BY <1>1, <1>2, <1>11, <2>1 DEF UnmarkedFiles
<1>14. Staged'
  <2>1. \A m \in DOMAIN stages'[t] : stages'[t][m] = d[m] BY <1>8, <1>11
  <2>2. txn.op = "compacted" /\ Splits(d, files.inputs, files.acks)
        /\ Whole(Compacted(files, t, d, d["settled"]))
        /\ Count(Compacted(files, t, d, d["settled"])) <= MaxHistoryFiles
    BY <1>2, <1>3 DEF Staged
  <2> QED BY <1>1, <1>3, <1>4, <1>10, <1>11, <2>1, <2>2 DEF Staged
<1>15. Unmarked' BY <1>1, <1>2, <1>13, <1>14 DEF Unmarked, Reconciled
<1>16. SameHistory BY <1>1 DEF SameHistory
<1>17. Asked' BY <1>1, <1>16, HistoryKeepsLast, AskedKept DEF RSInv
<1>18. Reopens' BY <1>1, <1>2 DEF Reopens, RSTypeOK
<1> QED BY <1>1, <1>2, <1>12, <1>15, <1>16, <1>17, <1>18 DEF RSInv

LEMMA WriteMarkerInv ==
  ASSUME RSInv, WriteMarker
  PROVE  RSInv' /\ SameHistory
<1>1. pc = "stage" /\ pc' = "recover" /\ UNCHANGED <<files, stages, txn, outcome>>
  BY DEF WriteMarker, Step
<1>2. marker = None /\ Unmarked /\ RSTypeOK /\ Staged /\ files \in Files
  BY <1>1 DEF RSInv, Unmarked, Marked, RSTypeOK
<1>3. PICK t, d, e : /\ t = txn.token /\ d = txn.arg
                     /\ e = [inputs |-> files.inputs, acks |-> files.acks, settled |-> files.settled]
  OBVIOUS
<1>4. /\ t \in Tokens /\ DOMAIN d = Names /\ Staging(d)
      /\ stages[t] # None /\ \A n \in DOMAIN stages[t] : stages[t][n] = d[n]
      /\ \A u \in Tokens \ {t} : stages[u] = None
      /\ files.archIn[t] = None /\ files.archAck[t] = None
      /\ Splits(d, files.inputs, files.acks)
      /\ Whole(Compacted(files, t, d, d["settled"]))
      /\ Count(Compacted(files, t, d, d["settled"])) <= MaxHistoryFiles
  BY <1>2, <1>3 DEF Staged
<1>5. /\ marker' = [token |-> t, version |-> 2, digests |-> d, expected |-> e]
      /\ marker'.token = t /\ marker'.version = 2 /\ marker'.digests = d /\ marker'.expected = e
      /\ DOMAIN stages[t] = Names
  BY <1>3, Orders DEF WriteMarker
<1>6. e["inputs"] = files.inputs /\ e["acks"] = files.acks /\ e["settled"] = files.settled
  BY <1>3
<1>7. marker' # None
  <2>1. d \in [Names -> Contents] BY <1>4, ContentIsThere DEF Staging
  <2>2. files.inputs \in Contents /\ files.acks \in Contents /\ files.settled \in Contents \cup {None}
    BY <1>2, ContentIsThere DEF Files
  <2>3. e \in [{"inputs", "acks", "settled"} -> Contents \cup {None}] BY <1>3, <2>2
  <2>4. marker' \in Markers(Names, {"inputs", "acks", "settled"})
    BY <1>4, <1>5, <2>1, <2>3 DEF Markers
  <2> QED BY <2>4, Absent DEF Names
<1>8. stages[t] = d
  <2>1. Staging(stages[t]) BY <1>2, <1>4 DEF RSTypeOK
  <2> QED BY <1>4, <1>5, <2>1 DEF Staging
<1>9. Between(files)'
  <2>1. files.inputs # d["inputs"] /\ files.acks # d["acks"] BY <1>4 DEF Splits
  <2> QED BY <1>1, <1>4, <1>5, <1>6, <2>1 DEF Between
<1>10. Finished' = Compacted(files, t, d, d["settled"]) BY <1>1, <1>5 DEF Finished
<1>11. MarkedFiles'
  <2>1. (Whole(Finished) /\ Count(Finished) <= MaxHistoryFiles)' BY <1>4, <1>10
  <2> QED BY <1>1, <1>4, <1>5, <1>6, <1>8, <1>9, <2>1, Orders DEF MarkedFiles
<1>12. Marked' BY <1>1, <1>11 DEF Marked
<1>13. RSTypeOK' BY <1>1, <1>2, <1>4, <1>5 DEF RSTypeOK
<1>14. SameHistory BY <1>1 DEF SameHistory
<1>15. Asked' BY <1>1, <1>14, HistoryKeepsLast, AskedKept DEF RSInv
<1>16. Reopens' BY <1>1, <1>2 DEF Reopens, RSTypeOK
<1> QED BY <1>7, <1>12, <1>13, <1>14, <1>15, <1>16 DEF RSInv

----------------------------------------
(* The initial states *)

\* One signal archived with its acknowledgement, another live.
LEMMA OneArchived ==
  ASSUME NEW t \in Tokens, NEW old, NEW new, NEW ack, NEW F,
         old.id = 1, new.id = 2, ack.id = 1, new.key = Unkeyed,
         F.inputs = {new}, F.acks = {}, F.settled = None,
         F.archIn[t] = {old}, F.archAck[t] = {ack}, {old} # None, {ack} # None,
         \A u \in Tokens \ {t} : F.archIn[u] = None /\ F.archAck[u] = None
  PROVE  Whole(F)
<1>1. Moved(F) = {old} /\ MovedAcks(F) = {ack} BY DEF Moved, MovedAcks
<1>2. TakenIn(F) = {new, old} /\ AckedIn(F) = {ack} /\ old # new BY <1>1 DEF TakenIn, AckedIn
<1>3. IdsOf({new, old}) = {1, 2} /\ IdsOf({ack}) = {1} /\ IdsOf({old}) = {1} /\ IdsOf({}) = {}
  BY DEF IdsOf
<1>4. UniqueHistory({new, old}, {ack})
  <2>1. \A x, y \in {new, old} : x # y => x.id # y.id /\ (x.key = Unkeyed \/ x.key # y.key)
    OBVIOUS
  <2>2. IdsOf({ack}) \subseteq IdsOf({new, old}) /\ \A a, b \in {ack} : a = b BY <1>3
  <2> QED BY <2>1, <2>2 DEF UniqueHistory
<1>5. Separate({new}, KeyEntries({old})) BY DEF Separate
<1>6. {new} \cap {old} = {} BY <1>2
<1>7. /\ \A u \in Tokens : F.archIn[u] = None <=> F.archAck[u] = None
      /\ \A u \in Tokens : F.archIn[u] # None => IdsOf(F.archIn[u]) = IdsOf(F.archAck[u])
  <2>1. IdsOf(F.archIn[t]) = IdsOf(F.archAck[t]) BY <1>3
  <2>2. \A u \in Tokens : u # t => F.archIn[u] = None /\ F.archAck[u] = None OBVIOUS
  <2> QED BY <2>1, <2>2
<1>8. /\ IdsOf(F.acks) \subseteq IdsOf(F.inputs)
      /\ F.inputs \cap Moved(F) = {}
      /\ Separate(F.inputs, KeyEntries(Moved(F)))
      /\ UniqueHistory(TakenIn(F), AckedIn(F))
  BY <1>1, <1>2, <1>3, <1>4, <1>5, <1>6
<1> QED BY <1>7, <1>8 DEF Whole

LEMMA InitInv ==
  ASSUME Init
  PROVE  RSInv
<1>1. pc = "idle" /\ outcome = "none" BY DEF Init
<1>2. Asked /\ Reopens BY <1>1 DEF Asked, Reopens
<1>3. PICK kind \in StartFrom : Start(kind) BY DEF Init
<1>4. PICK k, e, c, t : /\ k = CHOOSE x \in Keys : TRUE
                        /\ e = CHOOSE x \in Envelopes : TRUE
                        /\ c = CHOOSE x \in Consumers : TRUE
                        /\ t = Min(Tokens)
  OBVIOUS
<1>5. k \in Keys /\ e \in Envelopes /\ c \in Consumers /\ t \in Tokens
  <2>1. \E x \in Keys : TRUE BY Bounds
  <2>2. \E x \in Envelopes : TRUE BY Bounds
  <2>3. \E x \in Consumers : TRUE BY Bounds
  <2>4. Min(Tokens) \in Tokens BY Bounds, HasLeast
  <2> QED BY <1>4, <2>1, <2>2, <2>3, <2>4
<1>6. PICK old, new, ack, none :
         /\ old = [id |-> 1, key |-> k, env |-> e]
         /\ new = [id |-> 2, key |-> Unkeyed, env |-> e]
         /\ ack = [id |-> 1, consumer |-> c]
         /\ none = [u \in Tokens |-> None]
  OBVIOUS
<1>7. PICK prepared : prepared = [archIn |-> {old}, archAck |-> {ack}, inputs |-> {new}, acks |-> {}]
  OBVIOUS
<1>8. /\ old \in Signals /\ new \in Signals /\ ack \in Acks
      /\ old.id = 1 /\ new.id = 2 /\ ack.id = 1 /\ new.key = Unkeyed
  <2>1. 1 \in 1..MaxSignals /\ 2 \in 1..MaxSignals BY Bounds
  <2> QED BY <1>5, <1>6, <2>1 DEF Signals, Acks
<1>9. {old} # None /\ {ack} # None BY <1>8, ContentIsThere
<1>10. DOMAIN none = Tokens /\ \A u \in Tokens : none[u] = None BY <1>6
<1>11. /\ DOMAIN prepared = {"archIn", "archAck", "inputs", "acks"}
       /\ prepared = [n \in DOMAIN prepared |-> prepared[n]]
       /\ prepared["archIn"] = {old} /\ prepared["archAck"] = {ack}
       /\ prepared["inputs"] = {new} /\ prepared["acks"] = {}
  BY <1>7
<1>12. CASE kind = "empty"
  <2>1. /\ files = [inputs |-> {}, acks |-> {}, settled |-> None, archIn |-> none, archAck |-> none]
        /\ stages = none /\ marker = None
    BY <1>3, <1>6, <1>12 DEF Start
  <2>2. RSTypeOK BY <1>1, <1>6, <1>10, <2>1 DEF RSTypeOK, Files
  <2>3. Moved(files) = {} /\ MovedAcks(files) = {} BY <1>10, <2>1 DEF Moved, MovedAcks
  <2>4. Whole(files)
    BY <1>10, <2>1, <2>3 DEF Whole, TakenIn, AckedIn, UniqueHistory, Separate, IdsOf
  <2>5. Unmarked BY <1>1, <1>10, <2>1, <2>4 DEF Unmarked, UnmarkedFiles
  <2> QED BY <1>2, <2>1, <2>2, <2>5 DEF RSInv
<1>13. CASE kind = "v1_archived"
  <2>1. /\ files = [inputs |-> {new}, acks |-> {}, settled |-> None,
                    archIn |-> [none EXCEPT ![t] = {old}], archAck |-> [none EXCEPT ![t] = {ack}]]
        /\ stages = none /\ marker = None
    BY <1>3, <1>4, <1>6, <1>13 DEF Start
  <2>2. /\ files.inputs = {new} /\ files.acks = {} /\ files.settled = None
        /\ files.archIn[t] = {old} /\ files.archAck[t] = {ack}
        /\ \A u \in Tokens \ {t} : files.archIn[u] = None /\ files.archAck[u] = None
    BY <1>5, <1>10, <2>1
  <2>3. RSTypeOK BY <1>1, <1>5, <1>6, <1>8, <1>10, <2>1 DEF RSTypeOK, Files
  <2>4. Whole(files) BY <1>5, <1>8, <1>9, <2>2, OneArchived
  <2>5. Unmarked BY <1>1, <1>10, <2>1, <2>4 DEF Unmarked, UnmarkedFiles
  <2> QED BY <1>2, <2>1, <2>3, <2>5 DEF RSInv
<1>14. CASE kind = "v1_prepared"
  <2>1. PICK x : x = [inputs |-> {old, new}, acks |-> {ack}] OBVIOUS
  <2>2. /\ files = [inputs |-> {old, new}, acks |-> {ack}, settled |-> None,
                    archIn |-> none, archAck |-> none]
        /\ stages = [none EXCEPT ![t] = prepared]
        /\ marker = [token |-> t, version |-> 1, digests |-> prepared, expected |-> x]
    BY <1>3, <1>4, <1>6, <1>7, <1>14, <2>1 DEF Start
  <2>3. /\ files.inputs = {old, new} /\ files.acks = {ack} /\ files.settled = None
        /\ files.archIn[t] = None /\ files.archAck[t] = None
        /\ \A u \in Tokens : files.archIn[u] = None /\ files.archAck[u] = None
        /\ stages[t] = prepared /\ \A u \in Tokens \ {t} : stages[u] = None
        /\ DOMAIN stages = Tokens /\ stages = [u \in Tokens |-> stages[u]]
        /\ marker.token = t /\ marker.version = 1 /\ marker.digests = prepared /\ marker.expected = x
        /\ x["inputs"] = {old, new} /\ x["acks"] = {ack}
    BY <1>5, <1>6, <1>10, <2>1, <2>2
  <2>4. Staging(prepared) BY <1>8, <1>11 DEF Staging, ContentOf, Names
  <2>5. marker # None
    <3>1. prepared \in [{"archIn", "archAck", "inputs", "acks"} -> Contents]
      BY <1>11, <2>4, ContentIsThere DEF Staging
    <3>2. {old, new} \in Contents /\ {ack} \in Contents BY <1>8, ContentIsThere
    <3>3. x \in [{"inputs", "acks"} -> Contents \cup {None}] BY <2>1, <3>2
    <3>4. marker \in Markers({"archIn", "archAck", "inputs", "acks"}, {"inputs", "acks"})
      BY <1>5, <2>2, <3>1, <3>3 DEF Markers
    <3> QED BY <3>4, Absent DEF Names
  <2>6. RSTypeOK
    <3>1. files \in Files BY <1>6, <1>8, <2>2 DEF Files
    <3> QED BY <1>1, <1>5, <2>2, <2>3, <2>4, <3>1 DEF RSTypeOK
  <2>7. Splits(prepared, {old, new}, {ack})
    <3>1. old # new BY <1>8
    <3> QED BY <1>11, <3>1 DEF Splits
  <2>8. Between(files)
    <3>1. {old, new} # {new} /\ {ack} # {} BY <1>8
    <3> QED BY <1>11, <2>3, <3>1 DEF Between
  <2>9. Whole(Finished)
    <3>1. PICK G : G = Compacted(files, t, prepared, None) OBVIOUS
    <3>2. Finished = G BY <2>3, <3>1 DEF Finished
    <3>3. /\ G.inputs = {new} /\ G.acks = {} /\ G.settled = None
          /\ G.archIn[t] = {old} /\ G.archAck[t] = {ack}
          /\ \A u \in Tokens \ {t} : G.archIn[u] = None /\ G.archAck[u] = None
      BY <1>5, <1>6, <1>11, <2>2, <2>3, <3>1 DEF Compacted
    <3>4. Whole(G) BY <1>5, <1>8, <1>9, <3>3, OneArchived
    <3> QED BY <3>2, <3>4
  <2>10. MarkedFiles BY <1>11, <2>3, <2>4, <2>7, <2>8, <2>9, Orders DEF MarkedFiles
  <2>11. Marked BY <1>1, <2>10 DEF Marked
  <2> QED BY <1>2, <2>5, <2>6, <2>11 DEF RSInv
<1> QED BY <1>3, <1>12, <1>13, <1>14, Bounds

----------------------------------------
(* The theorems *)

LEMMA NextInv ==
  ASSUME RSInv, [Next]_vars
  PROVE  RSInv' /\ BoxStep
<1>1. CASE CallList \/ CallAppend \/ CallAcknowledge \/ CallCompact BY <1>1, CallsInv, StutterIs
<1>2. CASE Recover BY <1>2, RecoverInv, StutterIs
<1>3. CASE UpgradeIndex BY <1>3, UpgradeIndexInv, StutterIs
<1>4. CASE Publish BY <1>4, PublishInv, StutterIs
<1>5. CASE UnlinkMarker BY <1>5, UnlinkMarkerInv, StutterIs
<1>6. CASE UnlinkStage BY <1>6, UnlinkStageInv, StutterIs
<1>7. CASE Reconcile BY <1>7, ReconcileInv, StutterIs
<1>8. CASE CleanupResidue BY <1>8, CleanupResidueInv, StutterIs
<1>9. CASE List BY <1>9, ListInv, StutterIs
<1>10. CASE AppendSignals BY <1>10, AppendInv
<1>11. CASE Acknowledge BY <1>11, AcknowledgeInv
<1>12. CASE PlanCompaction BY <1>12, PlanCompactionInv, StutterIs
<1>13. CASE WriteStage BY <1>13, WriteStageInv, StutterIs
<1>14. CASE WriteMarker BY <1>14, WriteMarkerInv, StutterIs
<1>15. CASE Die BY <1>15, DieInv, StutterIs
<1>16. CASE UNCHANGED vars
  <2>1. UNCHANGED <<files, stages, marker, pc, txn, view, outcome>> BY <1>16 DEF vars
  <2>2. RSTypeOK' /\ Reopens' BY <2>1 DEF RSInv, RSTypeOK, Reopens
  <2>3. marker' # None => Marked' BY <2>1, QuietFiles DEF RSInv, Marked
  <2>4. marker' = None => Unmarked'
    <3>1. Staged => Staged' BY <2>1 DEF Staged
    <3> QED BY <2>1, <3>1, QuietFiles DEF RSInv, Unmarked
  <2>5. SameHistory BY <2>1, QuietFiles DEF SameHistory
  <2>6. Asked' BY <2>1, QuietFiles DEF RSInv, Asked
  <2> QED BY <2>2, <2>3, <2>4, <2>5, <2>6, StutterIs DEF RSInv
<1> QED
  BY <1>1, <1>2, <1>3, <1>4, <1>5, <1>6, <1>7, <1>8, <1>9, <1>10, <1>11, <1>12, <1>13, <1>14,
     <1>15, <1>16 DEF Next

\* In every reachable state the files are whole, or on the way of the one
\* compaction the marker names, and the stages left can be dropped.
THEOREM MailboxInvariant == Spec => []RSInv
<1>1. Init => RSInv BY InitInv
<1>2. RSInv /\ [Next]_vars => RSInv' BY NextInv
<1> QED BY <1>1, <1>2, PTL DEF Spec

\* Whatever process dies between two durable writes, no later call is refused
\* over what it left, unless it left a compaction of format version 1.
THEOREM AlwaysReopens == Spec => []Reopens
<1>1. RSInv => Reopens BY DEF RSInv
<1> QED BY <1>1, MailboxInvariant, PTL

\* Every step of the mailbox files, whatever dies, is a step of Mailbox or
\* none: signals are kept once, keys taken once, acknowledgements never lost.
THEOREM KeepsMailbox == Spec => Implements
<1>1. RSInv /\ [Next]_vars => [Box!Next]_<<files.inputs \cup Archived, files.acks \cup ArchivedAcks>>
  BY NextInv DEF BoxStep
<1> QED BY <1>1, MailboxInvariant, PTL DEF Spec, Implements

----------------------------------------
(* The local sources: the inductive invariant *)

MessageRows == [body : Bodies \cup {EditedBody}, shown : BOOLEAN, at : 0..Now]
Stores == [file : Nat, schema : Nat, rows : Seq(MessageRows \cup {Gone})]

\* A snapshot of SOURCES.md is a record, and so is its observation.
SnapshotIn(snap, n) ==
  /\ snap = [rev |-> snap.rev, selected |-> snap.selected, obs |-> snap.obs]
  /\ snap.rev \in 1..n
  /\ snap.obs # Nothing =>
       snap.obs = [result |-> snap.obs.result, account |-> snap.obs.account,
                   covered |-> snap.obs.covered, complete |-> snap.obs.complete,
                   evidence |-> snap.obs.evidence]

\* A place in a store: nothing lies behind its end.
PlaceIn(s, c) ==
  /\ c \in Cursors /\ c.generation[1] <= s.file
  /\ c.generation[1] = s.file => c.rowid <= Len(s.rows)

ReceiptRecord(p) == p = [token |-> p.token, disp |-> p.disp, ref |-> p.ref, rev |-> p.rev]

SourcesTyped ==
  /\ source \in {"apple_messages", "whatsapp"}
  /\ store \in Stores /\ nextRev \in 1..MaxRev
  /\ SnapshotIn(sources, nextRev)
  /\ events \subseteq (1..nextRev) \X (1..nextRev)
  /\ \A p \in receipts : /\ ReceiptRecord(p) /\ p.rev \in 1..nextRev
                         /\ p.token # Nothing /\ p.token.seq \in Nat
  /\ commit # NoFile => commit.before \in 1..nextRev /\ commit.after \in 1..nextRev
  /\ ckpt # NoFile =>
       /\ ckpt = [seq |-> ckpt.seq, cursor |-> ckpt.cursor, pending |-> ckpt.pending,
                  last |-> ckpt.last, reset |-> ckpt.reset, adopted |-> ckpt.adopted]
       /\ ckpt.seq \in Nat /\ PlaceIn(store, ckpt.cursor)

\* Nothing that is there between a row and the end of a delivery is left out of it.
Brings(s, from, t) ==
  t.target.generation[1] = s.file =>
    \A r \in Live(s) :
      from < r /\ r <= t.target.rowid /\ s.rows[r].shown => \E i \in DOMAIN t.items : t.items[i][1] = r

\* The delivery that waits for a receipt goes on from the checkpoint.
PendingOK ==
  ckpt # NoFile /\ ckpt.pending # Nothing =>
    /\ ckpt.pending.seq = ckpt.seq /\ ckpt.pending.rev \in Nat
    /\ PlaceIn(store, ckpt.pending.target)
    /\ ckpt.pending.target.generation[1] = ckpt.cursor.generation[1]
    /\ Brings(store, ckpt.cursor.rowid, ckpt.pending)

\* The rows the checkpoint has left behind were given up or delivered before.
Behind(seq) == waived \cup UNION {Delivered(p) : p \in {q \in receipts : q.token.seq < seq}}

NothingLeft ==
  ckpt # NoFile /\ ckpt.cursor.generation[1] = store.file =>
    \A r \in Live(store) :
      r <= ckpt.cursor.rowid /\ store.rows[r].shown => <<store.file, r>> \in Behind(ckpt.seq)

\* Receipts are of the pending delivery or of earlier ones.
ReceiptsPlaced ==
  /\ ckpt = NoFile => receipts = {}
  /\ ckpt # NoFile => \A p \in receipts : /\ p.token.seq <= ckpt.seq
                                          /\ p.token.seq = ckpt.seq => p.token = ckpt.pending

\* The receipts for the pending delivery, but for the gap that gives it up.
Acked == {p \in receipts : p.token = ckpt.pending /\ p.disp # "gap"}
Audited(p) == \E b \in 1..MaxRev : <<b, p.rev>> \in events
MarkerAudited == <<commit.before, commit.after>> \in events

\* SOURCES.md, as it stays if the running acknowledgement fails.
Kept == IF op.pc = "event" THEN op.was ELSE sources

\* The marker is for one receipt.
MarkerOK ==
  commit # NoFile =>
    /\ commit.before < commit.after
    /\ \A e \in events : e[2] = commit.after => e[1] = commit.before
    /\ \A p \in receipts : p.rev = commit.after =>
         p.token = commit.token /\ p.disp # "gap" /\ commit.bind = <<p.disp, p.ref>>
    /\ MarkerAudited => /\ \E p \in receipts : p.rev = commit.after
                        /\ commit.after <= Kept.rev
                        /\ op.pc \notin {"publish", "event"}

\* Receipts for the pending delivery are the marker's, or earlier attempts at it.
Attempts ==
  ckpt # NoFile /\ ckpt.pending # Nothing =>
    /\ ckpt.pending.rev <= Kept.rev
    /\ \A p \in Acked :
         /\ commit # NoFile /\ commit.token = ckpt.pending /\ commit.bind = <<p.disp, p.ref>>
         /\ ckpt.pending.rev < p.rev
         /\ p.rev <= Kept.rev \/ (op.pc = "event" /\ p.rev = op.rev)
         /\ Audited(p) => p.rev = commit.after

\* What SOURCES.md calls a gap has a receipt.
GapNoted(snap, set) ==
  snap.obs # Nothing /\ snap.obs.evidence # <<>> /\ snap.obs.evidence[1] = "gap" =>
    \E p \in set : p.token = snap.obs.evidence[2] /\ p.disp = "gap"

LastOK ==
  ckpt # NoFile /\ ckpt.last # Nothing =>
    ckpt.last.token.seq \in Nat /\ ckpt.last.token.seq < ckpt.seq

CoreInv ==
  /\ SourcesTyped /\ PendingOK /\ NothingLeft /\ ReceiptsPlaced
  /\ MarkerOK /\ Attempts /\ GapNoted(sources, receipts)
  /\ LastOK /\ OneReceipt /\ CheckpointBacked

Operating ==
  /\ op.pc \in {"idle", "archive", "reset", "prepare", "publish", "event", "checkpoint"}
  /\ op.pc = "idle" => op = Idle
  /\ ckpt = NoFile => op.pc = "idle"

Rebaselining ==
  op.pc \in {"archive", "reset"} =>
    /\ op = [pc |-> op.pc, why |-> op.why, cursor |-> op.cursor]
    /\ op.why \in {"forward_only_reset", "discard_stale_delivery"}
    /\ PlaceIn(store, op.cursor)
    /\ op.why = "discard_stale_delivery" =>
         \E p \in receipts : p.token = ckpt.pending /\ p.disp = "gap"

OwnMarker == /\ commit # NoFile /\ commit.token = ckpt.pending
             /\ commit.bind = op.bind /\ commit.after = op.rev

\* The receipt that is published next.
ReceiptTaken ==
  LET next == ReceiptAt(op.rev)
  IN /\ SnapshotIn(next, nextRev) /\ next.rev = op.rev
     /\ next.obs.evidence = <<"ack", ckpt.pending, op.bind>>

Acknowledging ==
  /\ op.pc \in {"prepare", "publish", "event", "checkpoint"} =>
       ckpt.pending # Nothing /\ op.bind = <<op.bind[1], op.bind[2]>> /\ op.bind[1] # "gap"
  /\ op.pc = "prepare" => /\ op = [pc |-> op.pc, bind |-> op.bind, rev |-> op.rev]
                          /\ \A p \in Acked : commit.bind = op.bind
  /\ op.pc \in {"prepare", "publish", "event"} => \A p \in Acked : ~Audited(p)
  /\ op.pc = "publish" => OwnMarker /\ sources.rev = commit.before /\ ReceiptTaken
  /\ op.pc = "event" =>
       /\ OwnMarker /\ sources.rev = op.rev /\ SnapshotIn(op.was, nextRev)
       /\ op.was.rev = commit.before /\ GapNoted(op.was, receipts)
       /\ \E p \in receipts : p.token = ckpt.pending /\ p.rev = op.rev
  /\ op.pc = "checkpoint" =>
       /\ \E p \in receipts : p.token = ckpt.pending /\ p.rev = op.rev
       /\ \E b \in 1..MaxRev : <<b, op.rev>> \in events

SourcesInv == CoreInv /\ Operating /\ Rebaselining /\ Acknowledging

----------------------------------------
(* Reading a store *)

LEMMA LiveFacts ==
  ASSUME NEW s \in Stores
  PROVE  /\ Len(s.rows) \in Nat /\ s.file \in Nat /\ s.schema \in Nat
         /\ Live(s) \in SUBSET (1..Len(s.rows)) /\ IsFiniteSet(Live(s))
         /\ \A r \in Live(s) : s.rows[r] \in MessageRows
<1>1. s.rows \in Seq(MessageRows \cup {Gone}) /\ s.file \in Nat /\ s.schema \in Nat
  BY DEF Stores
<1>2. Len(s.rows) \in Nat /\ DOMAIN s.rows = 1..Len(s.rows) BY <1>1
<1>3. Live(s) \in SUBSET (1..Len(s.rows)) BY <1>2 DEF Live
<1>4. IsFiniteSet(Live(s))
  <2>1. IsFiniteSet(1..Len(s.rows)) BY <1>2, FS_Interval
  <2> QED BY <1>3, <2>1, FS_Subset
<1>5. \A r \in Live(s) : s.rows[r] \in MessageRows BY <1>1, <1>2 DEF Live
<1> QED BY <1>1, <1>2, <1>3, <1>4, <1>5

\* The greatest of some bounded naturals.
LEMMA TopIs ==
  ASSUME NEW k \in Nat, NEW S \in SUBSET (0..k)
  PROVE  /\ Top(S) \in 0..k /\ (S # {} => Top(S) \in S)
         /\ \A n \in S : n <= Top(S)
<1>1. CASE S = {} BY <1>1 DEF Top
<1>2. CASE S # {}
  <2>1. Max(S) \in S /\ \A n \in S : n <= Max(S) BY <1>2, HasGreatest
  <2>2. Top(S) \in S /\ \A n \in S : n <= Top(S) BY <1>2, <2>1 DEF Top
  <2> QED BY <2>2
<1> QED BY <1>1, <1>2

LEMMA MaxRowIs ==
  ASSUME NEW s \in Stores
  PROVE  MaxRow(s) \in 0..Len(s.rows) /\ \A r \in Live(s) : r <= MaxRow(s)
<1>1. PICK rows, k : rows = Live(s) /\ k = Len(s.rows) OBVIOUS
<1>2. k \in Nat /\ rows \in SUBSET (0..k) BY <1>1, LiveFacts
<1>3. Top(rows) \in 0..k /\ \A r \in rows : r <= Top(rows) BY <1>2, TopIs
<1> QED BY <1>1, <1>3 DEF MaxRow

LEMMA PrefixIs ==
  ASSUME NEW s \in Stores, NEW n \in Nat
  PROVE  LET p == PrefixAggregates(s, n)
         IN p.messages \in Nat /\ p.rowid \in 0..Len(s.rows) /\ p.newest \in Nat
<1> DEFINE prefix == {r \in Live(s) : r <= n}
           times == {s.rows[r].at : r \in prefix}
<1>1. prefix \in SUBSET (0..Len(s.rows)) /\ Len(s.rows) \in Nat /\ IsFiniteSet(prefix)
  BY LiveFacts, FS_Subset
<1>2. times \in SUBSET (0..Now) /\ Now \in Nat BY LiveFacts, DeliveryAssumption DEF MessageRows
<1>3. Top(prefix) \in 0..Len(s.rows)
  <2>1. PICK k, S : k = Len(s.rows) /\ S = prefix OBVIOUS
  <2>2. Top(S) \in 0..k BY <1>1, <2>1, TopIs
  <2> QED BY <2>1, <2>2
<1>4. Top(times) \in Nat
  <2>1. PICK k, S : k = Now /\ S = times OBVIOUS
  <2>2. Top(S) \in 0..k /\ k \in Nat BY <1>2, <2>1, TopIs
  <2> QED BY <2>1, <2>2
<1>5. Cardinality(prefix) \in Nat BY <1>1, FS_CardinalityType
<1> QED BY <1>3, <1>4, <1>5 DEF PrefixAggregates

\* A cursor names the file and the last row it was taken at.
LEMMA CursorIs ==
  ASSUME NEW s \in Stores, NEW n \in Nat, PrefixAggregates(s, n).rowid = n
  PROVE  LET c == CursorAtPrefix(s, n)
         IN /\ c \in Cursors /\ c.generation[1] = s.file
            /\ c.rowid = n /\ n <= Len(s.rows)
<1>1. PICK p : p = PrefixAggregates(s, n) OBVIOUS
<1>2. p.rowid = n /\ p.messages \in Nat /\ p.newest \in Nat /\ n \in 0..Len(s.rows)
  BY <1>1, PrefixIs
<1>3. s.file \in Nat /\ s.schema \in Nat /\ Len(s.rows) \in Nat BY LiveFacts
<1>4. CursorAtPrefix(s, n) = [schema |-> s.schema, generation |-> <<s.file, s.schema>>,
                              messages |-> p.messages, rowid |-> n, newest |-> p.newest]
  BY <1>1, <1>2 DEF CursorAtPrefix, Generation
<1> QED BY <1>2, <1>3, <1>4 DEF Cursors

LEMMA CursorExact ==
  ASSUME NEW s, NEW n, CursorAtPrefix(s, n) # Refused
  PROVE  PrefixAggregates(s, n).rowid = n
BY DEF CursorAtPrefix

\* The cursor of a whole store.
LEMMA WholeCursor ==
  ASSUME NEW s \in Stores
  PROVE  LET c == CursorAtPrefix(s, MaxRow(s))
         IN /\ c \in Cursors /\ c.generation[1] = s.file
            /\ c.rowid = MaxRow(s) /\ c.rowid <= Len(s.rows)
<1>1. MaxRow(s) \in Nat /\ \A r \in Live(s) : r <= MaxRow(s) BY MaxRowIs
<1>2. {r \in Live(s) : r <= MaxRow(s)} = Live(s) BY <1>1
<1>3. PrefixAggregates(s, MaxRow(s)).rowid = MaxRow(s) BY <1>2 DEF PrefixAggregates, MaxRow
<1> QED BY <1>1, <1>3, CursorIs

\* The first rows of those after a row: none is left out between them.
LEMMA DeltaIs ==
  ASSUME NEW s \in Stores, NEW after \in Nat, NEW through \in Nat, NEW n \in Nat,
         NEW rows, rows = DeltaRows(s, after, through, n)
  PROVE  /\ rows \in SUBSET Live(s) /\ \A r \in rows : after < r
         /\ \A r \in rows, q \in Live(s) : after < q /\ q <= r => q \in rows
<1> DEFINE delta == {r \in Live(s) : after < r /\ r <= through}
           UpToRow(r) == {q \in delta : q <= r}
<1>1. rows = {r \in delta : Cardinality(UpToRow(r)) <= n} BY DEF DeltaRows
<1>2. Live(s) \in SUBSET Nat /\ IsFiniteSet(Live(s)) /\ IsFiniteSet(delta)
  <2>1. Live(s) \in SUBSET Nat /\ IsFiniteSet(Live(s)) BY LiveFacts
  <2> QED BY <2>1, FS_Subset
<1>3. ASSUME NEW r \in rows, NEW q \in Live(s), after < q, q <= r
      PROVE  q \in rows
  <2>1. r \in delta /\ q \in delta /\ Cardinality(UpToRow(r)) <= n BY <1>1, <1>2, <1>3
  <2>2. UpToRow(q) \in SUBSET UpToRow(r) /\ IsFiniteSet(UpToRow(r))
    BY <1>2, <1>3, <2>1, FS_Subset
  <2>3. /\ Cardinality(UpToRow(q)) <= Cardinality(UpToRow(r))
        /\ Cardinality(UpToRow(q)) \in Nat /\ Cardinality(UpToRow(r)) \in Nat
    BY <2>2, FS_Subset, FS_CardinalityType
  <2>4. Cardinality(UpToRow(q)) <= n BY <2>1, <2>3
  <2> QED BY <1>1, <2>1, <2>4
<1> QED BY <1>1, <1>3

----------------------------------------
(* A batch, row by row *)

Batches == [items : Seq(Nat \X (Bodies \cup {EditedBody}) \X Nat), last : Nat, left : Nat,
            complete : BOOLEAN]
EmptyBatch(start) == [items |-> <<>>, last |-> start, left |-> Budget, complete |-> TRUE]
NextBatch(s, rows, b, r) == IF r \in rows THEN TakeRow(s, b, r) ELSE b

\* The batches up to the n-th row.
BatchesTo(s, rows, start, n, g) ==
  g = [r \in 0..n |-> IF r = 0 THEN EmptyBatch(start) ELSE NextBatch(s, rows, g[r - 1], r)]

LEMMA BatchesExist ==
  ASSUME NEW s, NEW rows, NEW start, NEW n \in Nat
  PROVE  \E g : BatchesTo(s, rows, start, n, g)
<1> DEFINE T == {k \in Nat : ~ \E g : BatchesTo(s, rows, start, k, g)}
<1>1. SUFFICES ASSUME T # {} PROVE FALSE
  OBVIOUS
<1>2. PICK k \in T : \A m \in T : k <= m
  <2>1. T \in SUBSET Nat OBVIOUS
  <2>2. Min(T) \in T /\ \A m \in T : Min(T) <= m BY <1>1, <2>1, HasLeast
  <2> QED BY <2>2
<1>3. k \in Nat /\ ~ \E g : BatchesTo(s, rows, start, k, g) OBVIOUS
<1>4. CASE k = 0
  <2>1. PICK g : g = [r \in 0..0 |-> EmptyBatch(start)] OBVIOUS
  <2>2. g = [r \in 0..0 |-> IF r = 0 THEN EmptyBatch(start) ELSE NextBatch(s, rows, g[r - 1], r)]
    BY <2>1
  <2>3. BatchesTo(s, rows, start, 0, g) BY <2>2 DEF BatchesTo
  <2> QED BY <1>3, <1>4, <2>3
<1>5. CASE k > 0
  <2>1. k - 1 \in Nat /\ k - 1 \notin T BY <1>2, <1>3, <1>5
  <2>2. PICK g : BatchesTo(s, rows, start, k - 1, g) BY <2>1
  <2>3. /\ g[0] = EmptyBatch(start)
        /\ \A r \in 1..(k - 1) : g[r] = NextBatch(s, rows, g[r - 1], r)
    <3>1. \A r \in 0..(k - 1) :
            g[r] = IF r = 0 THEN EmptyBatch(start) ELSE NextBatch(s, rows, g[r - 1], r)
      BY <2>2 DEF BatchesTo
    <3> QED BY <2>1, <3>1
  <2>4. PICK h : h = [r \in 0..k |-> IF r = k THEN NextBatch(s, rows, g[k - 1], k) ELSE g[r]]
    OBVIOUS
  <2>5. /\ DOMAIN h = 0..k /\ h[k] = NextBatch(s, rows, g[k - 1], k)
        /\ \A r \in 0..(k - 1) : h[r] = g[r]
    BY <1>3, <2>4
  <2>6. \A r \in 1..k : h[r] = NextBatch(s, rows, h[r - 1], r)
    <3> SUFFICES ASSUME NEW r \in 1..k PROVE h[r] = NextBatch(s, rows, h[r - 1], r)
      OBVIOUS
    <3>1. r - 1 \in 0..(k - 1) /\ h[r - 1] = g[r - 1] BY <1>3, <2>5
    <3>2. CASE r = k BY <2>5, <3>1, <3>2
    <3>3. CASE r # k
      <4>1. r \in 1..(k - 1) /\ r \in 0..(k - 1) BY <1>3, <3>3
      <4> QED BY <2>3, <2>5, <3>1, <4>1
    <3> QED BY <3>2, <3>3
  <2>7. h[0] = EmptyBatch(start) BY <1>3, <1>5, <2>3, <2>5
  <2>8. \A r \in 0..k :
          h[r] = IF r = 0 THEN EmptyBatch(start) ELSE NextBatch(s, rows, h[r - 1], r)
    <3> SUFFICES ASSUME NEW r \in 0..k
                 PROVE h[r] = IF r = 0 THEN EmptyBatch(start) ELSE NextBatch(s, rows, h[r - 1], r)
      OBVIOUS
    <3>1. r = 0 \/ r \in 1..k BY <1>3
    <3>2. r \in 1..k => r # 0 BY <1>3
    <3> QED BY <2>6, <2>7, <3>1, <3>2
  <2>9. h = [r \in 0..k |-> h[r]] BY <2>4
  <2>10. BatchesTo(s, rows, start, k, h) BY <2>8, <2>9 DEF BatchesTo
  <2> QED BY <1>3, <2>10
<1> QED BY <1>3, <1>4, <1>5

LEMMA BatchIs ==
  ASSUME NEW s \in Stores, NEW rows, NEW start
  PROVE  \E g : /\ BoundedMessages(s, rows, start) = g[MaxRow(s)]
                /\ g[0] = EmptyBatch(start)
                /\ \A r \in 1..MaxRow(s) : g[r] = NextBatch(s, rows, g[r - 1], r)
<1>1. MaxRow(s) \in Nat BY MaxRowIs, LiveFacts
<1> DEFINE g == CHOOSE h : BatchesTo(s, rows, start, MaxRow(s), h)
<1>2. BatchesTo(s, rows, start, MaxRow(s), g) BY <1>1, BatchesExist
<1>3. BoundedMessages(s, rows, start) = g[MaxRow(s)]
  BY DEF BoundedMessages, BatchesTo, EmptyBatch, NextBatch
<1> HIDE DEF g
<1>4. \A r \in 0..MaxRow(s) :
        g[r] = IF r = 0 THEN EmptyBatch(start) ELSE NextBatch(s, rows, g[r - 1], r)
  BY <1>2 DEF BatchesTo
<1>5. \A r \in 1..MaxRow(s) : r \in 0..MaxRow(s) /\ r # 0 BY <1>1
<1> QED BY <1>1, <1>3, <1>4, <1>5

\* What one row does to a batch.
LEMMA TakeRowIs ==
  ASSUME NEW s \in Stores, NEW b \in Batches, NEW r \in Live(s)
  PROVE  LET n == TakeRow(s, b, r)
         IN /\ n \in Batches
            /\ n = b \/ n.last = r \/ (n.last = b.last /\ n.items = b.items)
            /\ n.complete \/ n.last # b.last => b.complete
            /\ n.complete => n.last = r
            /\ \A i \in DOMAIN b.items : i \in DOMAIN n.items /\ n.items[i] = b.items[i]
            /\ n.last = r /\ b.last # r /\ s.rows[r].shown => \E i \in DOMAIN n.items : n.items[i][1] = r
<1>1. PICK row, size, kept : /\ row = s.rows[r] /\ size = BodySize[row.body]
                             /\ kept = IF size < b.left THEN size ELSE b.left
  OBVIOUS
<1>2. row \in MessageRows /\ r \in Nat BY <1>1, LiveFacts
<1>3. row.body \in Bodies \cup {EditedBody} /\ size \in Nat
  BY <1>1, <1>2, DeliveryAssumption DEF MessageRows
<1>4. /\ b.items \in Seq(Nat \X (Bodies \cup {EditedBody}) \X Nat) /\ b.last \in Nat /\ b.left \in Nat
      /\ b.complete \in BOOLEAN
  BY DEF Batches
<1>5. kept \in Nat /\ b.left - kept \in Nat BY <1>1, <1>3, <1>4
<1>6. PICK n : n = TakeRow(s, b, r) OBVIOUS
<1>7. n = IF ~b.complete THEN b
          ELSE IF ~row.shown THEN [b EXCEPT !.last = r]
          ELSE IF size > 0 /\ b.left = 0 THEN [b EXCEPT !.complete = FALSE]
          ELSE [b EXCEPT !.last = r, !.left = @ - kept, !.items = Append(@, <<r, row.body, kept>>)]
  BY <1>1, <1>6 DEF TakeRow
<1>8. CASE n = b /\ ~b.complete BY <1>1, <1>4, <1>6, <1>8
<1>9. CASE n = [b EXCEPT !.last = r] /\ ~row.shown /\ b.complete
  <2>1. n \in Batches BY <1>2, <1>9 DEF Batches
  <2>2. n.last = r /\ n.items = b.items /\ n.complete = b.complete BY <1>9 DEF Batches
  <2> QED BY <1>1, <1>6, <1>9, <2>1, <2>2
<1>10. CASE n = [b EXCEPT !.complete = FALSE] /\ b.complete
  <2>1. n \in Batches BY <1>10 DEF Batches
  <2>2. n.last = b.last /\ n.items = b.items /\ ~n.complete BY <1>10 DEF Batches
  <2> QED BY <1>6, <1>10, <2>1, <2>2
<1>11. CASE /\ n = [b EXCEPT !.last = r, !.left = @ - kept, !.items = Append(@, <<r, row.body, kept>>)]
            /\ b.complete
  <2>1. PICK item, items : item = <<r, row.body, kept>> /\ items = Append(b.items, item) OBVIOUS
  <2>2. item \in Nat \X (Bodies \cup {EditedBody}) \X Nat /\ item[1] = r
    BY <1>2, <1>3, <1>5, <2>1
  <2>3. /\ items \in Seq(Nat \X (Bodies \cup {EditedBody}) \X Nat)
        /\ DOMAIN items = 1..(Len(b.items) + 1) /\ items[Len(b.items) + 1] = item
        /\ \A i \in 1..Len(b.items) : items[i] = b.items[i]
        /\ Len(b.items) \in Nat /\ DOMAIN b.items = 1..Len(b.items)
    BY <1>4, <2>1, <2>2
  <2>4. n = [b EXCEPT !.last = r, !.left = b.left - kept, !.items = items] BY <1>11, <2>1
  <2>5. n \in Batches BY <1>2, <1>5, <2>3, <2>4 DEF Batches
  <2>6. n.last = r /\ n.items = items BY <2>4 DEF Batches
  <2>7. \A i \in DOMAIN b.items : i \in DOMAIN n.items /\ n.items[i] = b.items[i] BY <2>3, <2>6
  <2>8. Len(b.items) + 1 \in DOMAIN n.items /\ n.items[Len(b.items) + 1][1] = r
    BY <2>2, <2>3, <2>6
  <2> QED BY <1>6, <1>11, <2>5, <2>6, <2>7, <2>8
<1> QED BY <1>7, <1>8, <1>9, <1>10, <1>11

\* A batch up to the n-th row ends at a row it was given, and has every message
\* up to there.
BatchHas(s, rows, start, n, b) ==
  /\ b \in Batches
  /\ b.complete => \A r \in rows : r <= n => r <= b.last
  /\ b.last = start \/ (b.last \in rows /\ b.last <= n)
  /\ \A r \in rows : r <= n /\ r <= b.last /\ s.rows[r].shown =>
       \E i \in DOMAIN b.items : b.items[i][1] = r

LEMMA BatchGrows ==
  ASSUME NEW s \in Stores, NEW rows \in SUBSET Live(s), NEW start \in Nat, \A r \in rows : start < r,
         NEW n \in Nat, NEW b, BatchHas(s, rows, start, n, b)
  PROVE  BatchHas(s, rows, start, n + 1, NextBatch(s, rows, b, n + 1))
<1>0. \A r \in rows : r \in Nat BY LiveFacts
<1>1. CASE n + 1 \notin rows
  <2>1. NextBatch(s, rows, b, n + 1) = b BY <1>1 DEF NextBatch
  <2>2. \A r \in rows : r <= n + 1 => r <= n BY <1>0, <1>1
  <2>3. \A r \in rows : r <= n => r <= n + 1 BY <1>0
  <2> QED BY <2>1, <2>2, <2>3 DEF BatchHas
<1>2. CASE n + 1 \in rows
  <2>1. PICK m : m = TakeRow(s, b, n + 1) OBVIOUS
  <2>2. NextBatch(s, rows, b, n + 1) = m BY <1>2, <2>1 DEF NextBatch
  <2>3. b \in Batches /\ b.last \in Nat /\ n + 1 \in Live(s) BY <1>2 DEF BatchHas, Batches
  <2>4. b.last < n + 1
    <3>1. b.last = start \/ b.last <= n BY DEF BatchHas
    <3> QED BY <1>2, <2>3, <3>1
  <2>5. /\ m \in Batches
        /\ m = b \/ m.last = n + 1 \/ (m.last = b.last /\ m.items = b.items)
        /\ m.complete \/ m.last # b.last => b.complete
        /\ m.complete => m.last = n + 1
        /\ \A i \in DOMAIN b.items : i \in DOMAIN m.items /\ m.items[i] = b.items[i]
        /\ m.last = n + 1 /\ b.last # n + 1 /\ s.rows[n + 1].shown =>
              \E i \in DOMAIN m.items : m.items[i][1] = n + 1
    BY <2>1, <2>3, TakeRowIs
  <2>6. m.last = start \/ (m.last \in rows /\ m.last <= n + 1)
    <3>1. b.last = start \/ (b.last \in rows /\ b.last <= n + 1) BY <1>0 DEF BatchHas
    <3> QED BY <1>2, <2>5, <3>1
  <2>7. ASSUME NEW r \in rows, r <= n + 1, r <= m.last, s.rows[r].shown
        PROVE  \E i \in DOMAIN m.items : m.items[i][1] = r
    <3>1. CASE r = n + 1
      <4>1. m.last # b.last BY <1>0, <2>3, <2>4, <2>7, <3>1
      <4>2. m.last = n + 1 BY <2>5, <4>1
      <4> QED BY <2>3, <2>4, <2>5, <2>7, <3>1, <4>2
    <3>2. CASE r # n + 1
      <4>1. r <= n BY <1>0, <2>7, <3>2
      <4>2. CASE r <= b.last
        <5>1. PICK i \in DOMAIN b.items : b.items[i][1] = r BY <2>7, <4>1, <4>2 DEF BatchHas
        <5> QED BY <2>5, <5>1
      <4>3. CASE b.last < r
        <5>1. m.last # b.last BY <1>0, <2>3, <2>5, <2>7, <4>3
        <5>2. b.complete BY <2>5, <5>1
        <5> QED BY <1>0, <2>3, <4>1, <4>3, <5>2 DEF BatchHas
      <4> QED BY <1>0, <2>3, <4>2, <4>3
    <3> QED BY <3>1, <3>2
  <2>8. m.complete => \A r \in rows : r <= n + 1 => r <= m.last BY <1>0, <2>5
  <2> QED BY <2>2, <2>5, <2>6, <2>7, <2>8 DEF BatchHas
<1> QED BY <1>1, <1>2

\* A batch of the first rows after a row leaves out no message up to its end.
LEMMA BatchCovers ==
  ASSUME NEW s \in Stores, NEW rows \in SUBSET Live(s), NEW start \in Nat, \A r \in rows : start < r
  PROVE  LET b == BoundedMessages(s, rows, start)
         IN /\ b.last \in rows \cup {start}
            /\ \A r \in rows : r <= b.last /\ s.rows[r].shown =>
                 \E i \in DOMAIN b.items : b.items[i][1] = r
<1>1. PICK g : /\ BoundedMessages(s, rows, start) = g[MaxRow(s)]
               /\ g[0] = EmptyBatch(start)
               /\ \A r \in 1..MaxRow(s) : g[r] = NextBatch(s, rows, g[r - 1], r)
  BY BatchIs
<1>2. MaxRow(s) \in Nat /\ \A r \in rows : r \in Nat /\ r > 0 /\ r <= MaxRow(s)
  BY MaxRowIs, LiveFacts
<1> DEFINE T == {n \in 0..MaxRow(s) : ~BatchHas(s, rows, start, n, g[n])}
<1>3. BatchHas(s, rows, start, 0, g[0])
  <2>1. g[0] \in Batches /\ g[0].last = start
    BY <1>1, DeliveryAssumption DEF EmptyBatch, Batches
  <2>2. \A r \in rows : ~(r <= 0) BY <1>2
  <2> QED BY <2>1, <2>2 DEF BatchHas
<1>4. T = {}
  <2> SUFFICES ASSUME T # {} PROVE FALSE
    OBVIOUS
  <2>1. PICK k \in T : \A m \in T : k <= m
    <3>1. T \in SUBSET Nat OBVIOUS
    <3>2. Min(T) \in T /\ \A m \in T : Min(T) <= m BY <3>1, HasLeast
    <3> QED BY <3>2
  <2>2. k # 0 /\ k \in 1..MaxRow(s) /\ k - 1 \in Nat /\ k - 1 \in 0..MaxRow(s) /\ (k - 1) + 1 = k
    BY <1>2, <1>3
  <2>3. k - 1 \notin T BY <2>1, <2>2
  <2>4. BatchHas(s, rows, start, k - 1, g[k - 1]) BY <2>2, <2>3
  <2>5. BatchHas(s, rows, start, (k - 1) + 1, NextBatch(s, rows, g[k - 1], (k - 1) + 1))
    BY <2>2, <2>4, BatchGrows
  <2>6. BatchHas(s, rows, start, k, g[k]) BY <1>1, <2>2, <2>5
  <2> QED BY <2>1, <2>6
<1>5. BatchHas(s, rows, start, MaxRow(s), g[MaxRow(s)]) BY <1>2, <1>4
<1> QED BY <1>1, <1>2, <1>5 DEF BatchHas

----------------------------------------
(* What the reads return *)

\* The end of a read, and what it brings up to there.
LEMMA ReadTarget ==
  ASSUME NEW s \in Stores, NEW from \in Nat, NEW b, NEW to,
         b = BoundedMessages(s, DeltaRows(s, from, MaxRow(s), Limit), from),
         to = IF MaxRow(s) = from THEN from ELSE b.last,
         CursorAtPrefix(s, to) # Refused
  PROVE  LET c == CursorAtPrefix(s, to)
             items == IF MaxRow(s) = from THEN <<>> ELSE b.items
         IN /\ c \in Cursors /\ c.generation[1] = s.file /\ c.rowid <= Len(s.rows)
            /\ \A r \in Live(s) : from < r /\ r <= c.rowid /\ s.rows[r].shown =>
                 \E i \in DOMAIN items : items[i][1] = r
<1>1. PICK rows : rows = DeltaRows(s, from, MaxRow(s), Limit) OBVIOUS
<1>2. MaxRow(s) \in Nat /\ \A r \in Live(s) : r \in Nat /\ r <= MaxRow(s) BY MaxRowIs, LiveFacts
<1>3. /\ rows \in SUBSET Live(s) /\ \A r \in rows : from < r
      /\ \A r \in rows, q \in Live(s) : from < q /\ q <= r => q \in rows
  BY <1>1, <1>2, DeltaIs, DeliveryAssumption
<1>4. /\ b.last \in rows \cup {from}
      /\ \A r \in rows : r <= b.last /\ s.rows[r].shown => \E i \in DOMAIN b.items : b.items[i][1] = r
  BY <1>1, <1>3, BatchCovers
<1>5. to \in Nat BY <1>2, <1>3, <1>4
<1>6. PICK c : c = CursorAtPrefix(s, to) OBVIOUS
<1>7. c \in Cursors /\ c.generation[1] = s.file /\ c.rowid = to /\ c.rowid <= Len(s.rows)
  BY <1>5, <1>6, CursorExact, CursorIs
<1>8. CASE MaxRow(s) = from
  <2>1. \A r \in Live(s) : ~(from < r) BY <1>2, <1>8
  <2> QED BY <1>6, <1>7, <2>1
<1>9. CASE MaxRow(s) # from
  <2>1. c.rowid = b.last BY <1>7, <1>9
  <2>2. ASSUME NEW r \in Live(s), from < r, r <= c.rowid, s.rows[r].shown
        PROVE  \E i \in DOMAIN b.items : b.items[i][1] = r
    <3>1. b.last \in rows BY <1>2, <1>4, <2>1, <2>2
    <3>2. r \in rows BY <1>3, <2>1, <2>2, <3>1
    <3> QED BY <1>4, <2>1, <2>2, <3>2
  <2> QED BY <1>6, <1>7, <1>9, <2>2
<1> QED BY <1>8, <1>9

\* Both sources read the store by the same operators.
LEMMA SameReads ==
  /\ \A s : Apple!MaxRow(s) = MaxRow(s) /\ Wa!MaxRow(s) = MaxRow(s)
  /\ \A s, n : /\ Apple!CursorAtPrefix(s, n) = CursorAtPrefix(s, n)
               /\ Wa!CursorAtPrefix(s, n) = CursorAtPrefix(s, n)
  /\ \A s, a, b, n : /\ Apple!DeltaRows(s, a, b, n) = DeltaRows(s, a, b, n)
                     /\ Wa!DeltaRows(s, a, b, n) = DeltaRows(s, a, b, n)
  /\ \A s, rows, n : /\ Apple!BoundedMessages(s, rows, n) = BoundedMessages(s, rows, n)
                     /\ Wa!BoundedMessages(s, rows, n) = BoundedMessages(s, rows, n)
<1>5. \A S : Apple!Cardinality(S) = Cardinality(S) /\ Wa!Cardinality(S) = Cardinality(S)
  BY Zenon DEF Cardinality, Apple!Cardinality, Wa!Cardinality
<1>0. /\ \A s : Apple!Live(s) = Live(s) /\ Wa!Live(s) = Live(s)
      /\ \A S : Apple!Top(S) = Top(S) /\ Wa!Top(S) = Top(S)
  BY DEF Top, Apple!Top, Wa!Top, Live, Apple!Live, Wa!Live
<1>1. \A s : Apple!MaxRow(s) = MaxRow(s) /\ Wa!MaxRow(s) = MaxRow(s)
  BY <1>0 DEF MaxRow, Apple!MaxRow, Wa!MaxRow
<1>2. \A s, n : /\ Apple!PrefixAggregates(s, n) = PrefixAggregates(s, n)
                /\ Wa!PrefixAggregates(s, n) = PrefixAggregates(s, n)
  BY Zenon, <1>5 DEF PrefixAggregates, Apple!PrefixAggregates, Wa!PrefixAggregates, Top, Apple!Top, Wa!Top,
     Live, Apple!Live, Wa!Live
<1>3. \A s, n : /\ Apple!CursorAtPrefix(s, n) = CursorAtPrefix(s, n)
                /\ Wa!CursorAtPrefix(s, n) = CursorAtPrefix(s, n)
  BY <1>2 DEF CursorAtPrefix, Apple!CursorAtPrefix, Wa!CursorAtPrefix, Generation,
              Apple!Generation, Wa!Generation
<1>4. \A s, a, b, n : /\ Apple!DeltaRows(s, a, b, n) = DeltaRows(s, a, b, n)
                      /\ Wa!DeltaRows(s, a, b, n) = DeltaRows(s, a, b, n)
  <2> SUFFICES ASSUME NEW s, NEW a, NEW b, NEW n
               PROVE  /\ Apple!DeltaRows(s, a, b, n) = DeltaRows(s, a, b, n)
                      /\ Wa!DeltaRows(s, a, b, n) = DeltaRows(s, a, b, n)
    OBVIOUS
  <2> DEFINE delta == {r \in Live(s) : a < r /\ r <= b}
             UpToRow(r) == {q \in delta : q <= r}
  <2>1. DeltaRows(s, a, b, n) = {r \in delta : Cardinality(UpToRow(r)) <= n} BY DEF DeltaRows
  <2>2. Apple!DeltaRows(s, a, b, n) = {r \in delta : Apple!Cardinality(UpToRow(r)) <= n}
    BY Zenon DEF Apple!DeltaRows, Live, Apple!Live
  <2>3. Wa!DeltaRows(s, a, b, n) = {r \in delta : Wa!Cardinality(UpToRow(r)) <= n}
    BY Zenon DEF Wa!DeltaRows, Live, Wa!Live
  <2> HIDE DEF delta, UpToRow
  <2>4. \A r : Apple!Cardinality(UpToRow(r)) = Cardinality(UpToRow(r)) BY <1>5
  <2>5. \A r : Wa!Cardinality(UpToRow(r)) = Cardinality(UpToRow(r)) BY <1>5
  <2> QED BY <2>1, <2>2, <2>3, <2>4, <2>5
<1>6. \A s, rows, n : /\ Apple!BoundedMessages(s, rows, n) = BoundedMessages(s, rows, n)
                      /\ Wa!BoundedMessages(s, rows, n) = BoundedMessages(s, rows, n)
  BY Zenon DEF BoundedMessages, Apple!BoundedMessages, Wa!BoundedMessages, TakeRow, Apple!TakeRow,
     Wa!TakeRow, MaxRow, Apple!MaxRow, Wa!MaxRow, Top, Apple!Top, Wa!Top, Live, Apple!Live, Wa!Live
<1> QED BY <1>1, <1>3, <1>4, <1>6

\* A read goes on in the file of its cursor and leaves no message out.
LEMMA ReadIs ==
  ASSUME store \in Stores, source \in {"apple_messages", "whatsapp"}, NEW c \in Cursors,
         NEW d, d = Read(c), d # Refused
  PROVE  /\ PlaceIn(store, d.cursor) /\ d.cursor.generation[1] = store.file /\ c.generation[1] = store.file
         /\ \A r \in Live(store) : c.rowid < r /\ r <= d.cursor.rowid /\ store.rows[r].shown =>
              \E i \in DOMAIN d.items : d.items[i][1] = r
<1>1. PICK b, to : /\ b = BoundedMessages(store, DeltaRows(store, c.rowid, MaxRow(store), Limit), c.rowid)
                   /\ to = IF MaxRow(store) = c.rowid THEN c.rowid ELSE b.last
  OBVIOUS
<1>2. c.rowid \in Nat /\ store.file \in Nat BY LiveFacts DEF Cursors
<1>3. /\ c.generation[1] = store.file /\ CursorAtPrefix(store, to) # Refused
      /\ d.cursor = CursorAtPrefix(store, to)
      /\ d.items = IF MaxRow(store) = c.rowid THEN <<>> ELSE b.items
  <2>1. CASE IsApple
    <3>1. d = Apple!ReadDelta(store, account, Now, c) BY <2>1 DEF Read
    <3>2. Apple!ValidCursor(store, c) /\ Apple!CursorAtPrefix(store, to) # Refused
      BY <1>1, <3>1, SameReads DEF Apple!ReadDelta
    <3>3. d.cursor = CursorAtPrefix(store, to) /\ d.items = IF MaxRow(store) = c.rowid THEN <<>> ELSE b.items
      BY <1>1, <3>1, SameReads DEF Apple!ReadDelta
    <3>4. c.generation[1] = store.file BY <3>2 DEF Apple!ValidCursor, Apple!Generation
    <3> QED BY <3>2, <3>3, <3>4, SameReads
  <2>2. CASE ~IsApple
    <3>1. d = Wa!ReadDelta(store, account, Now, c) BY <2>2 DEF Read
    <3>2. /\ Wa!ValidCursor(store, c) \/ Wa!SchemaMigratedInPlace(store, c)
          /\ Wa!CursorAtPrefix(store, to) # Refused
      BY <1>1, <3>1, SameReads DEF Wa!ReadDelta
    <3>3. d.cursor = CursorAtPrefix(store, to) /\ d.items = IF MaxRow(store) = c.rowid THEN <<>> ELSE b.items
      BY <1>1, <3>1, SameReads DEF Wa!ReadDelta
    <3>4. c.generation[1] = store.file
      BY <3>2 DEF Wa!ValidCursor, Wa!SchemaMigratedInPlace, Wa!SameStoreUnderPriorSchema, Wa!Generation
    <3> QED BY <3>2, <3>3, <3>4, SameReads
  <2> QED BY <2>1, <2>2
<1>4. /\ d.cursor \in Cursors /\ d.cursor.generation[1] = store.file /\ d.cursor.rowid <= Len(store.rows)
      /\ \A r \in Live(store) : c.rowid < r /\ r <= d.cursor.rowid /\ store.rows[r].shown =>
           \E i \in DOMAIN d.items : d.items[i][1] = r
  BY <1>1, <1>2, <1>3, ReadTarget
<1> QED BY <1>2, <1>3, <1>4 DEF PlaceIn

\* The aggregates of the whole store are a place in it.
LEMMA InspectedIs ==
  ASSUME store \in Stores
  PROVE  /\ PlaceIn(store, Inspected.cursor) /\ Inspected.cursor.generation[1] = store.file
<1>1. Inspected.cursor = CursorAtPrefix(store, MaxRow(store))
  BY SameReads DEF Inspected, Apple!Inspect, Wa!Inspect
<1> QED BY <1>1, WholeCursor, LiveFacts DEF PlaceIn

\* An imported cursor that was verified is the prefix it says.
LEMMA VerifiedIs ==
  ASSUME store \in Stores, NEW n \in Nat, NEW imported, imported = CursorAtPrefix(store, n),
         imported # Refused, NEW c, c = Verified(imported), c # Refused
  PROVE  PlaceIn(store, c) /\ c.generation[1] = store.file /\ c.rowid = n
<1>1. /\ imported \in Cursors /\ imported.generation[1] = store.file
      /\ imported.rowid = n /\ n <= Len(store.rows)
  BY CursorExact, CursorIs
<1>2. CASE IsApple
  <2>1. c = imported BY <1>2 DEF Verified, Apple!VerifyCheckpoint
  <2> QED BY <1>1, <2>1, LiveFacts DEF PlaceIn
<1>3. CASE ~IsApple
  <2>1. c = Wa!ReconcileCursor(store, imported) /\ c # Refused
    BY <1>3 DEF Verified, Wa!VerifyCheckpoint
  <2>2. c = [imported EXCEPT !.schema = store.schema,
                             !.generation = <<store.file, store.schema>>]
    BY <2>1 DEF Wa!ReconcileCursor, Wa!Generation
  <2>3. store.file \in Nat /\ store.schema \in Nat BY LiveFacts
  <2>4. c \in Cursors
    <3>1. PICK g : g = <<store.file, store.schema>> OBVIOUS
    <3>2. g \in Nat \X Nat BY <2>3, <3>1
    <3> QED BY <1>1, <2>2, <2>3, <3>1, <3>2 DEF Cursors
  <2>5. c.generation = <<store.file, store.schema>> /\ c.rowid = n BY <1>1, <2>2 DEF Cursors
  <2> QED BY <1>1, <2>3, <2>4, <2>5 DEF PlaceIn
<1> QED BY <1>2, <1>3

----------------------------------------
(* The local sources: steps of the world *)

LEMMA SourcesInitInv == SourcesInit => SourcesInv
<1> SUFFICES ASSUME SourcesInit PROVE SourcesInv
  OBVIOUS
<1>1. /\ ckpt = NoFile /\ commit = NoFile /\ events = {} /\ receipts = {} /\ op = Idle
      /\ nextRev = 1 /\ source \in {"apple_messages", "whatsapp"}
      /\ store = [file |-> 1, schema |-> 1, rows |-> <<>>]
      /\ sources = [rev |-> 1, selected |-> TRUE, obs |-> Nothing]
  BY DEF SourcesInit, Ledger!EmptySnapshot
<1>2. store \in Stores
  <2>1. <<>> \in Seq(MessageRows \cup {Gone}) OBVIOUS
  <2> QED BY <1>1, <2>1 DEF Stores
<1>3. SourcesTyped BY <1>1, <1>2, DeliveryAssumption DEF SourcesTyped, SnapshotIn
<1>4. CoreInv
  BY <1>1, <1>3 DEF CoreInv, PendingOK, NothingLeft, ReceiptsPlaced, MarkerOK, Attempts, GapNoted, LastOK,
     OneReceipt, CheckpointBacked
<1> QED BY <1>1, <1>4 DEF SourcesInv, Operating, Rebaselining, Acknowledging, Idle

\* The store grows, forgets and is replaced: no place in it moves behind its end,
\* and no message appears at a place that was passed.
Evolves(s, n) ==
  /\ n \in Stores /\ n.file >= s.file
  /\ n.file = s.file => /\ Len(n.rows) >= Len(s.rows)
                        /\ \A r \in Live(n) : r <= Len(s.rows) =>
                             r \in Live(s) /\ (n.rows[r].shown => s.rows[r].shown)

LEMMA PlaceStays ==
  ASSUME NEW s \in Stores, NEW n, Evolves(s, n), NEW c, PlaceIn(s, c)
  PROVE  PlaceIn(n, c)
<1>1. c.generation[1] \in Nat /\ c.rowid \in Nat BY DEF PlaceIn, Cursors
<1>2. n.file \in Nat /\ s.file \in Nat /\ Len(n.rows) \in Nat /\ Len(s.rows) \in Nat
  BY LiveFacts DEF Evolves
<1> QED BY <1>1, <1>2 DEF PlaceIn, Evolves

LEMMA BringsStays ==
  ASSUME NEW s \in Stores, NEW n, Evolves(s, n), NEW from \in Nat, NEW t, PlaceIn(s, t.target),
         Brings(s, from, t)
  PROVE  Brings(n, from, t)
<1> SUFFICES ASSUME t.target.generation[1] = n.file, NEW r \in Live(n),
                    from < r, r <= t.target.rowid, n.rows[r].shown
             PROVE  \E i \in DOMAIN t.items : t.items[i][1] = r
  BY DEF Brings
<1>1. t.target.generation[1] \in Nat /\ t.target.rowid \in Nat BY DEF PlaceIn, Cursors
<1>2. /\ n.file \in Nat /\ s.file \in Nat /\ Len(n.rows) \in Nat /\ Len(s.rows) \in Nat
      /\ Live(n) \in SUBSET (1..Len(n.rows))
  BY LiveFacts DEF Evolves
<1>3. t.target.generation[1] = s.file /\ n.file = s.file BY <1>1, <1>2 DEF PlaceIn, Evolves
<1>4. r <= Len(s.rows) BY <1>1, <1>2, <1>3 DEF PlaceIn
<1>5. r \in Live(s) /\ s.rows[r].shown BY <1>3, <1>4 DEF Evolves
<1> QED BY <1>3, <1>5 DEF Brings

LEMMA StoreMoves ==
  ASSUME SourcesInv, Evolves(store, store'),
         UNCHANGED <<source, ckpt, commit, sources, events, nextRev, op, receipts, waived>>
  PROVE  SourcesInv'
<1>1. store \in Stores /\ store' \in Stores /\ store.file \in Nat /\ store'.file \in Nat
  <2>1. store \in Stores /\ store' \in Stores BY DEF SourcesInv, CoreInv, SourcesTyped, Evolves
  <2> QED BY <2>1, LiveFacts
<1>2. SourcesTyped'
  <2>1. ckpt # NoFile => PlaceIn(store', ckpt.cursor)
    BY <1>1, PlaceStays DEF SourcesInv, CoreInv, SourcesTyped
  <2> QED BY <1>1, <2>1 DEF SourcesInv, CoreInv, SourcesTyped
<1>3. PendingOK'
  <2> SUFFICES ASSUME ckpt # NoFile, ckpt.pending # Nothing
               PROVE  PlaceIn(store', ckpt.pending.target) /\ Brings(store', ckpt.cursor.rowid, ckpt.pending)
    BY DEF SourcesInv, CoreInv, PendingOK
  <2>1. /\ PlaceIn(store, ckpt.pending.target) /\ Brings(store, ckpt.cursor.rowid, ckpt.pending)
        /\ ckpt.cursor.rowid \in Nat
    BY DEF SourcesInv, CoreInv, PendingOK, SourcesTyped, PlaceIn, Cursors
  <2> QED BY <1>1, <2>1, PlaceStays, BringsStays
<1>4. NothingLeft'
  <2> SUFFICES ASSUME ckpt # NoFile, ckpt.cursor.generation[1] = store'.file,
                      NEW r \in Live(store'), r <= ckpt.cursor.rowid, store'.rows[r].shown
               PROVE  <<store'.file, r>> \in Behind(ckpt.seq)
    BY DEF NothingLeft, Behind, Delivered
  <2>1. /\ ckpt.cursor.generation[1] \in Nat /\ ckpt.cursor.rowid \in Nat
        /\ ckpt.cursor.generation[1] <= store.file
        /\ ckpt.cursor.generation[1] = store.file => ckpt.cursor.rowid <= Len(store.rows)
    BY DEF SourcesInv, CoreInv, SourcesTyped, PlaceIn, Cursors
  <2>2. store'.file = store.file BY <1>1, <2>1 DEF Evolves
  <2>3. r \in Nat /\ Len(store.rows) \in Nat BY <1>1, LiveFacts
  <2>4. r \in Live(store) /\ store.rows[r].shown BY <2>1, <2>2, <2>3 DEF Evolves
  <2> QED BY <2>2, <2>4 DEF SourcesInv, CoreInv, NothingLeft
<1>5. ReceiptsPlaced' /\ MarkerOK' /\ Attempts' /\ GapNoted(sources, receipts)' /\ LastOK'
  BY DEF SourcesInv, CoreInv, ReceiptsPlaced, MarkerOK, MarkerAudited, Kept, Attempts, Acked, Audited,
         GapNoted, LastOK
<1>6. OneReceipt' /\ CheckpointBacked'
  <2>1. OneReceipt /\ CheckpointBacked BY DEF SourcesInv, CoreInv
  <2>2. OneReceipt' BY <2>1 DEF OneReceipt
  <2> QED BY <2>1, <2>2 DEF CheckpointBacked
<1>7. Operating' /\ Acknowledging'
  BY DEF SourcesInv, Operating, Acknowledging, Acked, Audited, OwnMarker, ReceiptTaken, ReceiptAt,
         GapNoted, Idle
<1>8. Rebaselining' BY <1>1, PlaceStays DEF SourcesInv, Rebaselining
<1> QED BY <1>2, <1>3, <1>4, <1>5, <1>6, <1>7, <1>8 DEF SourcesInv, CoreInv

LEMMA ReceiveInv == SourcesInv /\ Receive => SourcesInv'
<1> SUFFICES ASSUME SourcesInv, Receive PROVE SourcesInv'
  OBVIOUS
<1>1. PICK body \in Bodies, at \in 1..(Now - 1) :
        store' = [store EXCEPT !.rows = Append(@, [body |-> body, shown |-> TRUE, at |-> at])]
  BY DEF Receive
<1>2. PICK row, rows : row = [body |-> body, shown |-> TRUE, at |-> at] /\ rows = Append(store.rows, row)
  OBVIOUS
<1>3. store \in Stores /\ store.rows \in Seq(MessageRows \cup {Gone}) /\ store.file \in Nat
  BY DEF SourcesInv, CoreInv, SourcesTyped, Stores
<1>4. row \in MessageRows BY <1>2, DeliveryAssumption DEF MessageRows
<1>5. /\ rows \in Seq(MessageRows \cup {Gone}) /\ Len(rows) = Len(store.rows) + 1 /\ Len(store.rows) \in Nat
      /\ DOMAIN rows = 1..Len(rows) /\ DOMAIN store.rows = 1..Len(store.rows)
      /\ \A r \in 1..Len(store.rows) : rows[r] = store.rows[r]
  BY <1>2, <1>3, <1>4
<1>6. store' = [store EXCEPT !.rows = rows] BY <1>1, <1>2
<1>7. store' \in Stores BY <1>3, <1>5, <1>6 DEF Stores
<1>8. store'.file = store.file /\ store'.rows = rows BY <1>3, <1>6 DEF Stores
<1>9. \A r \in Live(store') : r <= Len(store.rows) =>
        r \in Live(store) /\ (store'.rows[r].shown => store.rows[r].shown)
  BY <1>5, <1>8 DEF Live
<1>10. Evolves(store, store') BY <1>3, <1>5, <1>7, <1>8, <1>9 DEF Evolves
<1> QED BY <1>10, StoreMoves DEF Receive, vault, history

LEMMA ChangeRowInv == SourcesInv /\ ChangeRow => SourcesInv'
<1> SUFFICES ASSUME SourcesInv, ChangeRow PROVE SourcesInv'
  OBVIOUS
<1>1. PICK r \in Live(store) :
        \/ store' = [store EXCEPT !.rows[r].body = EditedBody]
        \/ store' = [store EXCEPT !.rows[r].shown = FALSE]
        \/ store' = [store EXCEPT !.rows[r] = Gone]
  BY DEF ChangeRow
<1>2. store \in Stores /\ store.rows \in Seq(MessageRows \cup {Gone}) /\ store.file \in Nat
  BY DEF SourcesInv, CoreInv, SourcesTyped, Stores
<1>3. PICK row : row = store.rows[r] OBVIOUS
<1>4. r \in 1..Len(store.rows) /\ row \in MessageRows /\ Len(store.rows) \in Nat
  BY <1>2, <1>3, LiveFacts
<1>5. \E new \in MessageRows \cup {Gone} :
        /\ store' = [store EXCEPT !.rows = [store.rows EXCEPT ![r] = new]]
        /\ new = Gone \/ (new \in MessageRows /\ (new.shown => row.shown))
  <2>1. CASE store' = [store EXCEPT !.rows[r].body = EditedBody]
    <3>1. PICK new : new = [row EXCEPT !.body = EditedBody] OBVIOUS
    <3>2. new \in MessageRows /\ new.shown = row.shown BY <1>4, <3>1 DEF MessageRows
    <3>3. store' = [store EXCEPT !.rows = [store.rows EXCEPT ![r] = new]] BY <1>3, <2>1, <3>1
    <3> QED BY <3>2, <3>3
  <2>2. CASE store' = [store EXCEPT !.rows[r].shown = FALSE]
    <3>1. PICK new : new = [row EXCEPT !.shown = FALSE] OBVIOUS
    <3>2. new \in MessageRows /\ ~new.shown BY <1>4, <3>1 DEF MessageRows
    <3>3. store' = [store EXCEPT !.rows = [store.rows EXCEPT ![r] = new]] BY <1>3, <2>2, <3>1
    <3> QED BY <3>2, <3>3
  <2>3. CASE store' = [store EXCEPT !.rows[r] = Gone] BY <2>3
  <2> QED BY <1>1, <2>1, <2>2, <2>3
<1>6. PICK new \in MessageRows \cup {Gone} :
        /\ store' = [store EXCEPT !.rows = [store.rows EXCEPT ![r] = new]]
        /\ new = Gone \/ (new \in MessageRows /\ (new.shown => row.shown))
  BY <1>5
<1>7. PICK rows : rows = [store.rows EXCEPT ![r] = new] OBVIOUS
<1>8. /\ rows \in Seq(MessageRows \cup {Gone}) /\ Len(rows) = Len(store.rows)
      /\ DOMAIN rows = 1..Len(store.rows) /\ DOMAIN store.rows = 1..Len(store.rows)
      /\ rows[r] = new /\ \A q \in 1..Len(store.rows) : q # r => rows[q] = store.rows[q]
  BY <1>2, <1>4, <1>7
<1>9. store' = [store EXCEPT !.rows = rows] BY <1>6, <1>7
<1>10. store' \in Stores BY <1>2, <1>8, <1>9 DEF Stores
<1>11. store'.file = store.file /\ store'.rows = rows BY <1>2, <1>9 DEF Stores
<1>12. \A q \in Live(store') : q \in Live(store) /\ (store'.rows[q].shown => store.rows[q].shown)
  <2> SUFFICES ASSUME NEW q \in Live(store')
               PROVE  q \in Live(store) /\ (store'.rows[q].shown => store.rows[q].shown)
    OBVIOUS
  <2>1. q \in 1..Len(store.rows) /\ rows[q] # Gone BY <1>8, <1>11 DEF Live
  <2>2. CASE q = r BY <1>3, <1>6, <1>8, <1>11, <2>1, <2>2
  <2>3. CASE q # r BY <1>8, <1>11, <2>1, <2>3 DEF Live
  <2> QED BY <2>2, <2>3
<1>13. Evolves(store, store') BY <1>2, <1>4, <1>8, <1>10, <1>11, <1>12 DEF Evolves
<1> QED BY <1>13, StoreMoves DEF ChangeRow, vault, history

LEMMA ReplaceStoreInv == SourcesInv /\ ReplaceStore => SourcesInv'
<1> SUFFICES ASSUME SourcesInv, ReplaceStore PROVE SourcesInv'
  OBVIOUS
<1>1. PICK rows \in {<<>>, store.rows} : store' = [store EXCEPT !.file = @ + 1, !.rows = rows]
  BY DEF ReplaceStore
<1>2. store \in Stores /\ store.file \in Nat BY DEF SourcesInv, CoreInv, SourcesTyped, Stores
<1>3. rows \in Seq(MessageRows \cup {Gone})
  <2>1. <<>> \in Seq(MessageRows \cup {Gone}) OBVIOUS
  <2>2. store.rows \in Seq(MessageRows \cup {Gone}) BY <1>2 DEF Stores
  <2> QED BY <1>1, <2>1, <2>2
<1>4. store' \in Stores
  <2>1. PICK file \in Nat : file = store.file + 1 BY <1>2
  <2>2. store' = [store EXCEPT !.file = file, !.rows = rows] BY <1>1, <2>1
  <2> QED BY <1>2, <1>3, <2>2 DEF Stores
<1>5. store'.file = store.file + 1 BY <1>1, <1>2 DEF Stores
<1>6. Evolves(store, store') BY <1>2, <1>4, <1>5 DEF Evolves
<1> QED BY <1>6, StoreMoves DEF ReplaceStore, vault, history

LEMMA MigrateSchemaInv == SourcesInv /\ MigrateSchema => SourcesInv'
<1> SUFFICES ASSUME SourcesInv, MigrateSchema PROVE SourcesInv'
  OBVIOUS
<1>1. store' = [store EXCEPT !.schema = 2] BY DEF MigrateSchema
<1>2. store \in Stores /\ store.file \in Nat /\ Len(store.rows) \in Nat
  BY LiveFacts DEF SourcesInv, CoreInv, SourcesTyped
<1>3. store' \in Stores BY <1>1, <1>2 DEF Stores
<1>4. store'.file = store.file /\ store'.rows = store.rows BY <1>1, <1>2 DEF Stores
<1>5. Evolves(store, store') BY <1>2, <1>3, <1>4 DEF Evolves, Live
<1> QED BY <1>5, StoreMoves DEF MigrateSchema, vault, history

\* The account and the records receipts refer to are not what the invariant is about.
LEMMA ElsewhereInv ==
  ASSUME SourcesInv, SwitchAccount \/ EditRecord
  PROVE  SourcesInv'
<1>1. UNCHANGED <<source, store, ckpt, commit, sources, events, nextRev, op, receipts, waived>>
  BY DEF SwitchAccount, EditRecord, vault, history, world
<1>2. store \in Stores /\ store.file \in Nat /\ Len(store.rows) \in Nat
  BY LiveFacts DEF SourcesInv, CoreInv, SourcesTyped
<1>3. Evolves(store, store') BY <1>1, <1>2 DEF Evolves, Live
<1> QED BY <1>1, <1>3, StoreMoves

----------------------------------------
(* The local sources: steps of an operation *)

\* Of an operation, only what it holds of SOURCES.md concerns the core.
LEMMA CoreOp ==
  ASSUME SourcesInv, op'.pc \notin {"publish", "event"},
         UNCHANGED <<source, store, ckpt, commit, sources, events, nextRev, receipts, waived>>
  PROVE  CoreInv'
<1>1. Kept' = sources BY DEF Kept
<1>2. /\ sources.rev \in Nat /\ Kept.rev \in Nat /\ Kept.rev <= sources.rev
      /\ op.pc = "event" => op.rev <= sources.rev
  <2>1. sources.rev \in 1..nextRev /\ nextRev \in Nat
    BY DEF SourcesInv, CoreInv, SourcesTyped, SnapshotIn
  <2>2. CASE op.pc = "event"
    <3>1. /\ commit # NoFile /\ commit.after = op.rev /\ sources.rev = op.rev
          /\ op.was.rev = commit.before
      BY <2>2 DEF SourcesInv, Acknowledging, OwnMarker
    <3>2. commit.before \in 1..nextRev /\ commit.after \in 1..nextRev /\ commit.before < commit.after
      BY <3>1 DEF SourcesInv, CoreInv, SourcesTyped, MarkerOK
    <3> QED BY <2>1, <2>2, <3>1, <3>2 DEF Kept
  <2>3. CASE op.pc # "event" BY <2>1, <2>3 DEF Kept
  <2> QED BY <2>2, <2>3
<1>3. MarkerOK'
  <2> SUFFICES ASSUME commit # NoFile, MarkerAudited PROVE commit.after <= sources.rev
    BY <1>1 DEF SourcesInv, CoreInv, MarkerOK, MarkerAudited
  <2>1. commit.after \in 1..nextRev /\ nextRev \in Nat /\ commit.after <= Kept.rev
    BY DEF SourcesInv, CoreInv, SourcesTyped, MarkerOK
  <2> QED BY <1>2, <2>1
<1>4. Attempts'
  <2> SUFFICES ASSUME ckpt # NoFile, ckpt.pending # Nothing
               PROVE  ckpt.pending.rev <= sources.rev /\ \A p \in Acked : p.rev <= sources.rev
    BY <1>1 DEF SourcesInv, CoreInv, Attempts, Acked, Audited
  <2>1. ckpt.pending.rev \in Nat /\ ckpt.pending.rev <= Kept.rev
    BY DEF SourcesInv, CoreInv, PendingOK, Attempts
  <2>2. \A p \in Acked : p.rev \in Nat /\ (p.rev <= Kept.rev \/ (op.pc = "event" /\ p.rev = op.rev))
    BY DEF SourcesInv, CoreInv, SourcesTyped, Attempts, Acked
  <2> QED BY <1>2, <2>1, <2>2
<1>5. SourcesTyped' /\ PendingOK' /\ NothingLeft' /\ ReceiptsPlaced' /\ GapNoted(sources, receipts)' /\ LastOK'
  BY DEF SourcesInv, CoreInv, SourcesTyped, PendingOK, NothingLeft, ReceiptsPlaced, GapNoted, LastOK,
         Behind, Delivered
<1>6. OneReceipt' /\ CheckpointBacked'
  <2>1. OneReceipt /\ CheckpointBacked BY DEF SourcesInv, CoreInv
  <2>2. OneReceipt' BY <2>1 DEF OneReceipt
  <2> QED BY <2>1, <2>2 DEF CheckpointBacked
<1> QED BY <1>3, <1>4, <1>5, <1>6 DEF CoreInv

\* Between operations nothing is promised for one.
LEMMA IdleOp ==
  ASSUME op' = Idle
  PROVE  /\ op'.pc \notin {"publish", "event"}
         /\ Operating' /\ Rebaselining' /\ Acknowledging'
BY DEF Operating, Rebaselining, Acknowledging, Idle

LEMMA OperationDiesInv == SourcesInv /\ OperationDies => SourcesInv'
<1> SUFFICES ASSUME SourcesInv, OperationDies PROVE SourcesInv'
  OBVIOUS
<1>1. op' = Idle BY DEF OperationDies
<1>2. CoreInv' BY <1>1, CoreOp, IdleOp DEF OperationDies, world, vault, history
<1> QED BY <1>1, <1>2, IdleOp DEF SourcesInv

LEMMA AcknowledgeRefusedInv == SourcesInv /\ AcknowledgeRefused => SourcesInv'
<1> SUFFICES ASSUME SourcesInv, AcknowledgeRefused PROVE SourcesInv'
  OBVIOUS
<1>1. op' = Idle BY DEF AcknowledgeRefused
<1>2. CoreInv' BY <1>1, CoreOp, IdleOp DEF AcknowledgeRefused, world, vault, history
<1> QED BY <1>1, <1>2, IdleOp DEF SourcesInv

LEMMA RebaselineForwardInv == SourcesInv /\ RebaselineForward => SourcesInv'
<1> SUFFICES ASSUME SourcesInv, RebaselineForward PROVE SourcesInv'
  OBVIOUS
<1>1. /\ op' = [pc |-> "archive", why |-> "forward_only_reset", cursor |-> Inspected.cursor]
      /\ ckpt # NoFile /\ ckpt' = ckpt /\ store' = store
  BY DEF RebaselineForward, world
<1>2. CoreInv' BY <1>1, CoreOp DEF RebaselineForward, world, vault, history
<1>3. PlaceIn(store, Inspected.cursor) BY InspectedIs DEF SourcesInv, CoreInv, SourcesTyped
<1>4. Rebaselining' BY <1>1, <1>3 DEF Rebaselining
<1> QED BY <1>1, <1>2, <1>4 DEF SourcesInv, Operating, Acknowledging

LEMMA ArchiveCheckpointInv == SourcesInv /\ ArchiveCheckpoint => SourcesInv'
<1> SUFFICES ASSUME SourcesInv, ArchiveCheckpoint PROVE SourcesInv'
  OBVIOUS
<1>1. /\ op.pc = "archive" /\ (op' = Idle \/ op' = [op EXCEPT !.pc = "reset"])
      /\ UNCHANGED <<source, store, ckpt, commit, sources, events, nextRev, receipts, waived>>
  BY DEF ArchiveCheckpoint, world, vault, history
<1>2. CASE op' = Idle
  <2>1. CoreInv' BY <1>1, <1>2, CoreOp, IdleOp
  <2> QED BY <1>2, <2>1, IdleOp DEF SourcesInv
<1>3. CASE op' = [op EXCEPT !.pc = "reset"]
  <2>1. op = [pc |-> op.pc, why |-> op.why, cursor |-> op.cursor]
    BY <1>1 DEF SourcesInv, Rebaselining
  <2>2. op' = [pc |-> "reset", why |-> op.why, cursor |-> op.cursor] BY <1>3, <2>1
  <2>3. CoreInv' BY <1>1, <2>2, CoreOp
  <2>4. Rebaselining' BY <1>1, <2>2 DEF SourcesInv, Rebaselining
  <2> QED BY <1>1, <2>2, <2>3, <2>4 DEF SourcesInv, Operating, Acknowledging
<1> QED BY <1>1, <1>2, <1>3

LEMMA BeginAcknowledgeInv == SourcesInv /\ BeginAcknowledge => SourcesInv'
<1> SUFFICES ASSUME SourcesInv, BeginAcknowledge PROVE SourcesInv'
  OBVIOUS
<1>1. PICK disp \in Dispositions, ref \in 1..record :
        LET bind == <<disp, ref>>
            moved == sources.rev # ckpt.pending.rev
        IN /\ op = Idle /\ ckpt # NoFile /\ ckpt.pending # Nothing
           /\ moved => ~OtherReceiptPrepared(bind)
           /\ op' = IF moved /\ Recovered(bind)
                      THEN [pc |-> "checkpoint", bind |-> bind, rev |-> commit.after]
                      ELSE [pc |-> "prepare", bind |-> bind, rev |-> sources.rev]
           /\ UNCHANGED <<source, store, ckpt, commit, sources, events, nextRev, receipts, waived>>
  BY DEF BeginAcknowledge, world, vault, history
<1>2. PICK bind : bind = <<disp, ref>> OBVIOUS
<1>3. bind = <<bind[1], bind[2]>> /\ bind[1] # "gap" BY <1>2, DeliveryAssumption
<1>4. Kept = sources /\ sources.rev \in Nat /\ ckpt.pending.rev \in Nat
  BY <1>1 DEF Kept, Idle, SourcesInv, CoreInv, SourcesTyped, SnapshotIn, PendingOK
<1>5. \A p \in Acked : /\ commit # NoFile /\ commit.token = ckpt.pending
                       /\ commit.bind = bind /\ sources.rev # ckpt.pending.rev
  <2> SUFFICES ASSUME NEW p \in Acked
               PROVE  /\ commit # NoFile /\ commit.token = ckpt.pending
                      /\ commit.bind = bind /\ sources.rev # ckpt.pending.rev
    OBVIOUS
  <2>1. /\ commit # NoFile /\ commit.token = ckpt.pending /\ ckpt.pending.rev < p.rev
        /\ p.rev <= Kept.rev
    BY <1>1 DEF SourcesInv, CoreInv, Attempts, Idle
  <2>2. p.rev \in Nat BY DEF SourcesInv, CoreInv, SourcesTyped, Acked
  <2>3. sources.rev # ckpt.pending.rev BY <1>4, <2>1, <2>2
  <2> QED BY <1>1, <1>2, <2>1, <2>3 DEF OtherReceiptPrepared
<1>6. CASE op' = [pc |-> "checkpoint", bind |-> bind, rev |-> commit.after] /\ Recovered(bind)
  <2>1. /\ commit # NoFile /\ commit.token = ckpt.pending /\ MarkerAudited
    BY <1>6 DEF Recovered, HasExactSourceEvent, MarkerAudited
  <2>2. \E p \in receipts : p.token = ckpt.pending /\ p.rev = commit.after
    BY <2>1 DEF SourcesInv, CoreInv, MarkerOK
  <2>3. \E b \in 1..MaxRev : <<b, commit.after>> \in events
    <3>1. commit.before \in 1..nextRev /\ nextRev \in 1..MaxRev
      BY <2>1 DEF SourcesInv, CoreInv, SourcesTyped
    <3>2. commit.before \in 1..MaxRev BY <3>1, DeliveryAssumption
    <3> QED BY <2>1, <3>2 DEF MarkerAudited
  <2>4. Acknowledging' BY <1>1, <1>3, <1>6, <2>2, <2>3 DEF Acknowledging
  <2>5. CoreInv' BY <1>1, <1>6, CoreOp
  <2> QED BY <1>1, <1>6, <2>4, <2>5 DEF SourcesInv, Operating, Rebaselining
<1>7. CASE /\ op' = [pc |-> "prepare", bind |-> bind, rev |-> sources.rev]
           /\ ~(sources.rev # ckpt.pending.rev /\ Recovered(bind))
  <2>1. \A p \in Acked : ~Audited(p)
    <3> SUFFICES ASSUME NEW p \in Acked, Audited(p) PROVE FALSE
      OBVIOUS
    <3>1. p.rev = commit.after /\ commit # NoFile
      BY <1>1, <1>5 DEF SourcesInv, CoreInv, Attempts
    <3>2. PICK b \in 1..MaxRev : <<b, commit.after>> \in events BY <3>1 DEF Audited
    <3>3. b = commit.before
      <4>1. \A e \in events : e[2] = commit.after => e[1] = commit.before
        BY <3>1 DEF SourcesInv, CoreInv, MarkerOK
      <4> QED BY <3>2, <4>1
    <3>4. /\ MarkerAudited /\ commit.before < commit.after /\ commit.after <= sources.rev
          /\ commit.before \in Nat /\ commit.after \in Nat
      <4>1. MarkerAudited BY <3>2, <3>3 DEF MarkerAudited
      <4> QED BY <1>4, <3>1, <4>1 DEF SourcesInv, CoreInv, MarkerOK, SourcesTyped
    <3>5. Recovered(bind) BY <1>4, <1>5, <3>4 DEF Recovered, HasExactSourceEvent, MarkerAudited
    <3> QED BY <1>5, <1>7, <3>5
  <2>2. Acknowledging' BY <1>1, <1>3, <1>5, <1>7, <2>1 DEF Acknowledging, Acked, Audited
  <2>3. CoreInv' BY <1>1, <1>7, CoreOp
  <2> QED BY <1>1, <1>7, <2>2, <2>3 DEF SourcesInv, Operating, Rebaselining
<1> QED BY <1>1, <1>2, <1>6, <1>7

----------------------------------------
(* The local sources: steps of the checkpoint *)

\* A checkpoint that gives up what it starts behind.
LEMMA FreshCheckpoint ==
  ASSUME SourcesInv, op = Idle, ckpt = NoFile, NEW c, PlaceIn(store, c), c.generation[1] = store.file,
         NEW from, waived' = waived \cup RowsThrough(c.rowid),
         ckpt' = [seq |-> 0, cursor |-> c, pending |-> Nothing, last |-> Nothing, reset |-> Nothing,
                  adopted |-> from],
         UNCHANGED <<source, store, commit, sources, events, nextRev, op, receipts>>
  PROVE  SourcesInv'
<1>1. receipts = {} /\ Kept' = Kept /\ op.pc = "idle"
  BY DEF SourcesInv, CoreInv, ReceiptsPlaced, Kept, Idle
<1>2. SourcesTyped' BY <1>1 DEF SourcesInv, CoreInv, SourcesTyped
<1>3. NothingLeft'
  <2> SUFFICES ASSUME NEW r \in Live(store), r <= c.rowid PROVE <<store.file, r>> \in waived'
    BY DEF NothingLeft, Behind
  <2>1. Live(store) \in SUBSET (1..Len(store.rows)) /\ c.rowid \in Nat
    BY LiveFacts DEF SourcesInv, CoreInv, SourcesTyped, PlaceIn, Cursors
  <2>2. r \in 1..c.rowid BY <2>1
  <2> QED BY <2>2 DEF RowsThrough
<1>4. PendingOK' /\ ReceiptsPlaced' /\ Attempts' /\ GapNoted(sources, receipts)' /\ LastOK'
  BY <1>1 DEF SourcesInv, CoreInv, PendingOK, ReceiptsPlaced, Attempts, GapNoted, LastOK
<1>5. MarkerOK' BY <1>1 DEF SourcesInv, CoreInv, MarkerOK, MarkerAudited
<1>6. OneReceipt' /\ CheckpointBacked' BY <1>1 DEF OneReceipt, CheckpointBacked
<1>7. CoreInv' BY <1>2, <1>3, <1>4, <1>5, <1>6 DEF CoreInv
<1>8. op' = Idle OBVIOUS
<1> QED BY <1>7, <1>8, IdleOp DEF SourcesInv

LEMMA BaselineInv == SourcesInv /\ Baseline => SourcesInv'
<1> SUFFICES ASSUME SourcesInv, Baseline PROVE SourcesInv'
  OBVIOUS
<1>1. PlaceIn(store, Inspected.cursor) /\ Inspected.cursor.generation[1] = store.file
  BY InspectedIs DEF SourcesInv, CoreInv, SourcesTyped
<1>2. /\ op = Idle /\ ckpt = NoFile /\ waived' = waived \cup RowsThrough(Inspected.cursor.rowid)
      /\ ckpt' = [seq |-> 0, cursor |-> Inspected.cursor, pending |-> Nothing,
                  last |-> Nothing, reset |-> Nothing, adopted |-> Nothing]
      /\ UNCHANGED <<source, store, commit, sources, events, nextRev, op, receipts>>
  BY DEF Baseline, world, vault
<1> QED BY <1>1, <1>2, FreshCheckpoint

LEMMA AdoptCheckpointInv == SourcesInv /\ AdoptCheckpoint => SourcesInv'
<1> SUFFICES ASSUME SourcesInv, AdoptCheckpoint PROVE SourcesInv'
  OBVIOUS
<1>1. PICK n \in 0..Len(store.rows) :
        LET imported == CursorAtPrefix(store, n)
        IN /\ op = Idle /\ ckpt = NoFile
           /\ imported # Refused /\ Verified(imported) # Refused
           /\ ckpt' = [seq |-> 0, cursor |-> Verified(imported), pending |-> Nothing,
                       last |-> Nothing, reset |-> Nothing, adopted |-> imported]
           /\ waived' = waived \cup RowsThrough(n)
           /\ UNCHANGED <<source, store, commit, sources, events, nextRev, op, receipts>>
  BY DEF AdoptCheckpoint, world, vault
<1>2. PICK imported, c : imported = CursorAtPrefix(store, n) /\ c = Verified(imported) OBVIOUS
<1>3. store \in Stores /\ n \in Nat BY LiveFacts DEF SourcesInv, CoreInv, SourcesTyped
<1>4. PlaceIn(store, c) /\ c.generation[1] = store.file /\ c.rowid = n
  BY <1>1, <1>2, <1>3, VerifiedIs
<1> QED BY <1>1, <1>2, <1>4, FreshCheckpoint

LEMMA PollInv == SourcesInv /\ Poll => SourcesInv'
<1> SUFFICES ASSUME SourcesInv, Poll PROVE SourcesInv'
  OBVIOUS
<1>1. PICK d : d = Read(ckpt.cursor) OBVIOUS
<1>2. PICK t : t = PrepareToken(d) OBVIOUS
<1>3. /\ op = Idle /\ ckpt # NoFile /\ ckpt.pending = Nothing /\ d # Refused
      /\ ckpt' = [ckpt EXCEPT !.pending = t]
      /\ UNCHANGED <<source, store, commit, sources, events, nextRev, op, receipts, waived>>
  BY <1>1, <1>2 DEF Poll, world, vault, history
<1>4. /\ ckpt = [seq |-> ckpt.seq, cursor |-> ckpt.cursor, pending |-> ckpt.pending,
                 last |-> ckpt.last, reset |-> ckpt.reset, adopted |-> ckpt.adopted]
      /\ ckpt.seq \in Nat /\ PlaceIn(store, ckpt.cursor) /\ ckpt.cursor \in Cursors
      /\ store \in Stores /\ source \in {"apple_messages", "whatsapp"} /\ sources.rev \in Nat
  BY <1>3 DEF SourcesInv, CoreInv, SourcesTyped, PlaceIn, SnapshotIn
<1>5. ckpt' = [seq |-> ckpt.seq, cursor |-> ckpt.cursor, pending |-> t,
               last |-> ckpt.last, reset |-> ckpt.reset, adopted |-> ckpt.adopted]
  BY <1>3, <1>4
<1>6. /\ PlaceIn(store, d.cursor) /\ d.cursor.generation[1] = store.file
      /\ ckpt.cursor.generation[1] = store.file
      /\ \A r \in Live(store) : ckpt.cursor.rowid < r /\ r <= d.cursor.rowid /\ store.rows[r].shown =>
           \E i \in DOMAIN d.items : d.items[i][1] = r
  BY <1>1, <1>3, <1>4, ReadIs
<1>7. t.seq = ckpt.seq /\ t.rev = sources.rev /\ t.target = d.cursor /\ t.items = d.items
  BY <1>2 DEF PrepareToken
<1>8. \A p \in receipts : p.token.seq # ckpt.seq /\ p.token.seq <= ckpt.seq
  <2>1. SourcesTyped /\ ReceiptsPlaced BY DEF SourcesInv, CoreInv
  <2>2. \A p \in receipts : p.token # Nothing BY <2>1 DEF SourcesTyped
  <2> QED BY <1>3, <2>1, <2>2 DEF ReceiptsPlaced
<1>9. op.pc = "idle" /\ Kept' = Kept /\ Kept = sources /\ Acked' = {}
  <2>1. op.pc = "idle" BY <1>3 DEF Idle
  <2>2. \A p \in receipts : p.token # t BY <1>7, <1>8
  <2> QED BY <1>3, <1>5, <2>1, <2>2 DEF Kept, Acked
<1>10. SourcesTyped' BY <1>3, <1>4, <1>5 DEF SourcesInv, CoreInv, SourcesTyped
<1>11. PendingOK'
  <2>1. Brings(store, ckpt.cursor.rowid, t) BY <1>6, <1>7 DEF Brings
  <2> QED BY <1>3, <1>4, <1>5, <1>6, <1>7, <2>1 DEF PendingOK
<1>12. NothingLeft' BY <1>3, <1>5 DEF SourcesInv, CoreInv, NothingLeft, Behind, Delivered
<1>13. ReceiptsPlaced'
  <2>1. ckpt' # NoFile /\ ckpt'.seq = ckpt.seq BY <1>5 DEF NoFile
  <2> QED BY <1>3, <1>8, <2>1 DEF ReceiptsPlaced
<1>14. Attempts' BY <1>3, <1>4, <1>5, <1>7, <1>9 DEF Attempts
<1>15. MarkerOK' BY <1>3, <1>9 DEF SourcesInv, CoreInv, MarkerOK, MarkerAudited
<1>16. GapNoted(sources, receipts)' /\ LastOK'
  BY <1>3, <1>5 DEF SourcesInv, CoreInv, GapNoted, LastOK
<1>17. OneReceipt' /\ CheckpointBacked'
  <2>1. OneReceipt /\ CheckpointBacked BY DEF SourcesInv, CoreInv
  <2>2. OneReceipt'
    <3>1. receipts' = receipts /\ events' = events BY <1>3
    <3> QED BY <2>1, <3>1 DEF OneReceipt
  <2> QED BY <1>3, <1>5, <2>1, <2>2 DEF CheckpointBacked
<1>18. CoreInv' BY <1>10, <1>11, <1>12, <1>13, <1>14, <1>15, <1>16, <1>17 DEF CoreInv
<1>19. op' = Idle BY <1>3
<1> QED BY <1>18, <1>19, IdleOp DEF SourcesInv

LEMMA ResetCheckpointInv == SourcesInv /\ ResetCheckpoint => SourcesInv'
<1> SUFFICES ASSUME SourcesInv, ResetCheckpoint PROVE SourcesInv'
  OBVIOUS
<1>1. /\ op.pc = "reset" /\ op' = Idle
      /\ UNCHANGED <<source, store, commit, sources, events, nextRev, receipts>>
  BY DEF ResetCheckpoint, world, vault
<1>2. /\ ckpt # NoFile /\ PlaceIn(store, op.cursor)
      /\ op.why \in {"forward_only_reset", "discard_stale_delivery"}
      /\ op.why = "discard_stale_delivery" => \E p \in receipts : p.token = ckpt.pending /\ p.disp = "gap"
  BY <1>1 DEF SourcesInv, Operating, Rebaselining
<1>3. PICK reset : reset = [seq |-> ckpt.seq, cursor |-> ckpt.cursor, why |-> op.why] OBVIOUS
<1>4. ckpt' = [ckpt EXCEPT !.seq = @ + 1, !.cursor = op.cursor, !.pending = Nothing, !.reset = reset]
  BY <1>3 DEF ResetCheckpoint
<1>5. waived' = waived \cup {<<op.cursor.generation[1], r>> : r \in 1..op.cursor.rowid}
  BY <1>2 DEF ResetCheckpoint
<1>6. /\ ckpt = [seq |-> ckpt.seq, cursor |-> ckpt.cursor, pending |-> ckpt.pending,
                 last |-> ckpt.last, reset |-> ckpt.reset, adopted |-> ckpt.adopted]
      /\ ckpt.seq \in Nat /\ ckpt.cursor \in Cursors /\ store \in Stores
  BY <1>2 DEF SourcesInv, CoreInv, SourcesTyped, PlaceIn
<1>7. reset # Nothing BY <1>2, <1>3, <1>6, DeliveryAssumption
<1>8. ckpt' = [seq |-> ckpt.seq + 1, cursor |-> op.cursor, pending |-> Nothing,
               last |-> ckpt.last, reset |-> reset, adopted |-> ckpt.adopted]
  BY <1>4, <1>6
<1>9. Kept = sources /\ Kept' = sources /\ op'.pc = "idle" BY <1>1 DEF Kept, Idle
<1>10. SourcesTyped' BY <1>1, <1>2, <1>6, <1>8 DEF SourcesInv, CoreInv, SourcesTyped
<1>11. NothingLeft'
  <2> SUFFICES ASSUME op.cursor.generation[1] = store.file, NEW r \in Live(store), r <= op.cursor.rowid
               PROVE  <<store.file, r>> \in waived'
    BY <1>1, <1>8 DEF NothingLeft, Behind
  <2>1. r \in 1..op.cursor.rowid BY <1>2, <1>6, LiveFacts DEF PlaceIn, Cursors
  <2> QED BY <1>5, <2>1
<1>12. ReceiptsPlaced'
  <2>1. \A p \in receipts : p.token.seq \in Nat /\ p.token.seq <= ckpt.seq
    <3>1. SourcesTyped /\ ReceiptsPlaced BY DEF SourcesInv, CoreInv
    <3>2. \A p \in receipts : p.token.seq \in Nat BY <3>1 DEF SourcesTyped
    <3> QED BY <1>2, <3>1, <3>2 DEF ReceiptsPlaced
  <2>2. \A p \in receipts : p.token.seq <= ckpt.seq + 1 /\ p.token.seq # ckpt.seq + 1
    BY <1>6, <2>1
  <2>3. ckpt' # NoFile /\ ckpt'.seq = ckpt.seq + 1 BY <1>8 DEF NoFile
  <2> QED BY <1>1, <2>2, <2>3 DEF ReceiptsPlaced
<1>13. PendingOK' /\ Attempts' BY <1>8 DEF PendingOK, Attempts
<1>14. MarkerOK' BY <1>1, <1>9 DEF SourcesInv, CoreInv, MarkerOK, MarkerAudited
<1>15. GapNoted(sources, receipts)' BY <1>1 DEF SourcesInv, CoreInv, GapNoted
<1>16. LastOK'
  <2> SUFFICES ASSUME ckpt.last # Nothing
               PROVE  ckpt.last.token.seq \in Nat /\ ckpt.last.token.seq < ckpt.seq + 1
    BY <1>8 DEF LastOK
  <2>1. ckpt.last.token.seq \in Nat /\ ckpt.last.token.seq < ckpt.seq
    BY <1>2 DEF SourcesInv, CoreInv, LastOK
  <2> QED BY <1>6, <2>1
<1>17. OneReceipt' /\ CheckpointBacked'
  <2>1. OneReceipt /\ CheckpointBacked BY DEF SourcesInv, CoreInv
  <2>2. OneReceipt' BY <1>1, <2>1 DEF OneReceipt
  <2> QED BY <1>1, <1>2, <1>7, <1>8, <2>1, <2>2 DEF CheckpointBacked
<1>18. CoreInv' BY <1>10, <1>11, <1>12, <1>13, <1>14, <1>15, <1>16, <1>17 DEF CoreInv
<1> QED BY <1>1, <1>18, IdleOp DEF SourcesInv

LEMMA CompleteCheckpointInv == SourcesInv /\ CompleteCheckpoint => SourcesInv'
<1> SUFFICES ASSUME SourcesInv, CompleteCheckpoint PROVE SourcesInv'
  OBVIOUS
<1>1. PICK t, last : t = ckpt.pending /\ last = [token |-> t, bind |-> op.bind, rev |-> op.rev]
  OBVIOUS
<1>2. /\ op.pc = "checkpoint" /\ op' = Idle
      /\ ckpt' = [ckpt EXCEPT !.seq = @ + 1, !.cursor = t.target, !.pending = Nothing, !.last = last]
      /\ UNCHANGED <<source, store, commit, sources, events, nextRev, receipts, waived>>
  BY <1>1 DEF CompleteCheckpoint, world, vault, history
<1>3. /\ ckpt # NoFile /\ t # Nothing
      /\ \E p \in receipts : p.token = t /\ p.rev = op.rev
      /\ \E b \in 1..MaxRev : <<b, op.rev>> \in events
  BY <1>1, <1>2 DEF SourcesInv, Operating, Acknowledging
<1>4. /\ ckpt = [seq |-> ckpt.seq, cursor |-> ckpt.cursor, pending |-> ckpt.pending,
                 last |-> ckpt.last, reset |-> ckpt.reset, adopted |-> ckpt.adopted]
      /\ ckpt.seq \in Nat /\ PlaceIn(store, ckpt.cursor) /\ ckpt.cursor \in Cursors /\ store \in Stores
  BY <1>3 DEF SourcesInv, CoreInv, SourcesTyped, PlaceIn
<1>5. ckpt' = [seq |-> ckpt.seq + 1, cursor |-> t.target, pending |-> Nothing,
               last |-> last, reset |-> ckpt.reset, adopted |-> ckpt.adopted]
  BY <1>2, <1>4
<1>6. /\ t.seq = ckpt.seq /\ PlaceIn(store, t.target)
      /\ t.target.generation[1] = ckpt.cursor.generation[1]
      /\ Brings(store, ckpt.cursor.rowid, t)
  BY <1>1, <1>3 DEF SourcesInv, CoreInv, PendingOK
<1>7. Kept = sources /\ Kept' = sources /\ op'.pc = "idle" BY <1>2 DEF Kept, Idle
<1>8. SourcesTyped'
  <2>1. /\ ckpt' = [seq |-> ckpt'.seq, cursor |-> ckpt'.cursor, pending |-> ckpt'.pending,
                    last |-> ckpt'.last, reset |-> ckpt'.reset, adopted |-> ckpt'.adopted]
        /\ ckpt'.seq \in Nat /\ PlaceIn(store, ckpt'.cursor)
    BY <1>4, <1>5, <1>6
  <2>2. SourcesTyped BY DEF SourcesInv, CoreInv
  <2> QED BY <1>2, <2>1, <2>2 DEF SourcesTyped
<1>9. NothingLeft'
  <2> SUFFICES ASSUME t.target.generation[1] = store.file, NEW r \in Live(store),
                      r <= t.target.rowid, store.rows[r].shown
               PROVE  <<store.file, r>> \in Behind(ckpt.seq + 1)
    BY <1>2, <1>5 DEF NothingLeft, Behind, Delivered
  <2>1. r \in Nat /\ ckpt.cursor.rowid \in Nat BY <1>4, LiveFacts DEF Cursors
  <2>2. \A p \in receipts : p.token.seq \in Nat BY DEF SourcesInv, CoreInv, SourcesTyped
  <2>3. CASE r <= ckpt.cursor.rowid
    <3>1. <<store.file, r>> \in Behind(ckpt.seq)
      BY <1>3, <1>6, <2>3 DEF SourcesInv, CoreInv, NothingLeft
    <3>2. \A p \in receipts : p.token.seq < ckpt.seq => p.token.seq < ckpt.seq + 1 BY <1>4, <2>2
    <3> QED BY <3>1, <3>2 DEF Behind
  <2>4. CASE ckpt.cursor.rowid < r
    <3>1. PICK i \in DOMAIN t.items : t.items[i][1] = r BY <1>6, <2>4 DEF Brings
    <3>2. PICK p \in receipts : p.token = t BY <1>3
    <3>3. <<store.file, r>> \in Delivered(p) BY <3>1, <3>2 DEF Delivered
    <3>4. p.token.seq < ckpt.seq + 1 BY <1>4, <1>6, <3>2
    <3> QED BY <3>3, <3>4 DEF Behind
  <2> QED BY <2>1, <2>3, <2>4
<1>10. ReceiptsPlaced'
  <2>1. \A p \in receipts : p.token.seq \in Nat /\ p.token.seq <= ckpt.seq
    <3>1. SourcesTyped /\ ReceiptsPlaced BY DEF SourcesInv, CoreInv
    <3>2. \A p \in receipts : p.token.seq \in Nat BY <3>1 DEF SourcesTyped
    <3> QED BY <1>3, <3>1, <3>2 DEF ReceiptsPlaced
  <2>2. \A p \in receipts : p.token.seq <= ckpt.seq + 1 /\ p.token.seq # ckpt.seq + 1
    BY <1>4, <2>1
  <2>3. ckpt' # NoFile /\ ckpt'.seq = ckpt.seq + 1 BY <1>5 DEF NoFile
  <2> QED BY <1>2, <2>2, <2>3 DEF ReceiptsPlaced
<1>11. PendingOK' /\ Attempts' BY <1>5 DEF PendingOK, Attempts
<1>12. MarkerOK' BY <1>2, <1>7 DEF SourcesInv, CoreInv, MarkerOK, MarkerAudited
<1>13. GapNoted(sources, receipts)' BY <1>2 DEF SourcesInv, CoreInv, GapNoted
<1>14. LastOK'
  <2>1. ckpt'.last.token.seq = ckpt.seq /\ ckpt'.seq = ckpt.seq + 1 BY <1>1, <1>5, <1>6
  <2> QED BY <1>4, <2>1 DEF LastOK
<1>15. OneReceipt'
  <2>1. receipts' = receipts /\ events' = events /\ OneReceipt BY <1>2 DEF SourcesInv, CoreInv
  <2> QED BY <2>1 DEF OneReceipt
<1>16. CheckpointBacked' BY <1>1, <1>2, <1>3, <1>5 DEF CheckpointBacked
<1>17. CoreInv' BY <1>8, <1>9, <1>10, <1>11, <1>12, <1>13, <1>14, <1>15, <1>16 DEF CoreInv
<1> QED BY <1>2, <1>17, IdleOp DEF SourcesInv

----------------------------------------
(* The local sources: steps of SOURCES.md *)

\* A new revision of SOURCES.md, perhaps with the gap that gives the pending
\* delivery up, while no receipt is being published.
LEMMA VaultMoves ==
  ASSUME SourcesInv, op.pc \notin {"publish", "event"}, op'.pc \notin {"publish", "event"},
         UNCHANGED <<source, store, ckpt, commit, waived>>,
         nextRev < MaxRev, nextRev' = nextRev + 1,
         SnapshotIn(sources', nextRev'), sources'.rev = nextRev + 1,
         events \subseteq events', events' \subseteq events \cup {<<sources.rev, nextRev + 1>>},
         receipts \subseteq receipts', GapNoted(sources, receipts)',
         \A g \in receipts' : g \notin receipts =>
           /\ ReceiptRecord(g) /\ g.token = ckpt.pending /\ g.disp = "gap" /\ g.rev = nextRev + 1
           /\ ckpt # NoFile /\ ckpt.pending # Nothing
  PROVE  CoreInv' /\ Acked' = Acked /\ \A p \in receipts : Audited(p)' = Audited(p)
<1>1. /\ nextRev \in 1..MaxRev /\ MaxRev \in Nat /\ nextRev' = nextRev + 1 /\ nextRev' \in 1..MaxRev
      /\ sources.rev \in 1..nextRev /\ SourcesTyped
  BY DeliveryAssumption DEF SourcesInv, CoreInv, SourcesTyped, SnapshotIn
<1>2. Kept = sources /\ Kept' = sources' /\ Kept.rev <= Kept'.rev
  <2>1. Kept = sources /\ Kept' = sources' BY DEF Kept
  <2> QED BY <1>1, <2>1
<1>3. \A e \in events' : e \in events \/ e[2] = nextRev + 1 OBVIOUS
<1>4. \A r \in 1..nextRev : \A b : <<b, r>> \in events' <=> <<b, r>> \in events BY <1>1
<1>5. \A p \in receipts : Audited(p)' = Audited(p)
  <2>1. \A p \in receipts : p.rev \in 1..nextRev BY <1>1 DEF SourcesTyped
  <2> QED BY <1>4, <2>1 DEF Audited
<1>6. Acked' = Acked BY DEF Acked
<1>7. SourcesTyped'
  <2>1. events' \subseteq (1..nextRev') \X (1..nextRev')
    <3>1. \A e \in events : e \in (1..nextRev') \X (1..nextRev') BY <1>1 DEF SourcesTyped
    <3>2. <<sources.rev, nextRev + 1>> \in (1..nextRev') \X (1..nextRev') BY <1>1
    <3> QED BY <3>1, <3>2
  <2>2. \A p \in receipts' : /\ ReceiptRecord(p) /\ p.rev \in 1..nextRev'
                             /\ p.token # Nothing /\ p.token.seq \in Nat
    <3> SUFFICES ASSUME NEW p \in receipts'
                 PROVE  /\ ReceiptRecord(p) /\ p.rev \in 1..nextRev'
                        /\ p.token # Nothing /\ p.token.seq \in Nat
      OBVIOUS
    <3>1. CASE p \in receipts BY <1>1, <3>1 DEF SourcesTyped
    <3>2. CASE p \notin receipts
      <4>1. p.token.seq \in Nat BY <1>1, <3>2 DEF SourcesInv, CoreInv, SourcesTyped, PendingOK
      <4> QED BY <1>1, <3>2, <4>1
    <3> QED BY <3>1, <3>2
  <2>3. commit # NoFile => commit.before \in 1..nextRev' /\ commit.after \in 1..nextRev'
    BY <1>1 DEF SourcesTyped
  <2> QED BY <1>1, <2>1, <2>2, <2>3 DEF SourcesTyped
<1>8. PendingOK' /\ LastOK' BY DEF SourcesInv, CoreInv, PendingOK, LastOK
<1>9. NothingLeft'
  <2>1. \A seq : Behind(seq) \subseteq Behind(seq)' BY DEF Behind, Delivered
  <2> QED BY <2>1 DEF SourcesInv, CoreInv, NothingLeft
<1>10. ReceiptsPlaced'
  <2>1. ReceiptsPlaced /\ PendingOK BY DEF SourcesInv, CoreInv
  <2>2. \A g \in receipts' : g \notin receipts =>
          g.token = ckpt.pending /\ ckpt # NoFile /\ ckpt.pending.seq = ckpt.seq /\ ckpt.seq \in Nat
    BY <1>1, <2>1 DEF PendingOK, SourcesTyped
  <2> QED BY <2>1, <2>2 DEF ReceiptsPlaced
<1>11. MarkerOK'
  <2> SUFFICES ASSUME commit # NoFile
               PROVE  /\ commit.before < commit.after
                      /\ \A e \in events' : e[2] = commit.after => e[1] = commit.before
                      /\ \A p \in receipts' : p.rev = commit.after =>
                           p.token = commit.token /\ p.disp # "gap" /\ commit.bind = <<p.disp, p.ref>>
                      /\ MarkerAudited' => /\ \E p \in receipts' : p.rev = commit.after
                                           /\ commit.after <= Kept'.rev
    BY DEF MarkerOK
  <2>1. commit.after \in 1..nextRev /\ commit.after # nextRev + 1 /\ MarkerOK
    BY <1>1 DEF SourcesInv, CoreInv, SourcesTyped
  <2>2. commit.before < commit.after BY <2>1 DEF MarkerOK
  <2>3. \A e \in events' : e[2] = commit.after => e[1] = commit.before
    BY <1>3, <2>1 DEF MarkerOK
  <2>4. \A p \in receipts' : p.rev = commit.after =>
          p.token = commit.token /\ p.disp # "gap" /\ commit.bind = <<p.disp, p.ref>>
    BY <2>1 DEF MarkerOK
  <2>5. MarkerAudited' => MarkerAudited BY <1>4, <2>1 DEF MarkerAudited
  <2>6. MarkerAudited => /\ \E p \in receipts' : p.rev = commit.after
                         /\ commit.after <= Kept'.rev
    BY <1>1, <1>2, <2>1 DEF MarkerOK
  <2> QED BY <2>2, <2>3, <2>4, <2>5, <2>6
<1>12. Attempts'
  <2> SUFFICES ASSUME ckpt # NoFile, ckpt.pending # Nothing
               PROVE  /\ ckpt.pending.rev <= Kept'.rev
                      /\ \A p \in Acked :
                           /\ commit # NoFile /\ commit.token = ckpt.pending
                           /\ commit.bind = <<p.disp, p.ref>> /\ ckpt.pending.rev < p.rev
                           /\ p.rev <= Kept'.rev /\ (Audited(p) => p.rev = commit.after)
    BY <1>5, <1>6 DEF Attempts, Acked
  <2>1. Attempts /\ ckpt.pending.rev \in Nat BY DEF SourcesInv, CoreInv, PendingOK
  <2>2. ckpt.pending.rev <= Kept'.rev BY <1>1, <1>2, <2>1 DEF Attempts
  <2>3. \A p \in Acked : p.rev \in Nat BY <1>1 DEF Acked, SourcesTyped
  <2>4. \A p \in Acked : p.rev <= Kept'.rev BY <1>1, <1>2, <2>1, <2>3 DEF Attempts
  <2> QED BY <2>1, <2>2, <2>4 DEF Attempts
<1>13. OneReceipt'
  <2> SUFFICES ASSUME NEW p \in receipts', NEW q \in receipts',
                      p.token = q.token, p.disp # "gap", q.disp # "gap"
               PROVE  p.disp = q.disp /\ (Audited(p)' /\ Audited(q)' => p = q)
    BY DEF OneReceipt, Audited
  <2>1. p \in receipts /\ q \in receipts OBVIOUS
  <2>2. p.disp = q.disp /\ (Audited(p) /\ Audited(q) => p = q)
    BY <2>1 DEF SourcesInv, CoreInv, OneReceipt, Audited
  <2> QED BY <1>5, <2>1, <2>2
<1>14. CheckpointBacked' BY DEF SourcesInv, CoreInv, CheckpointBacked
<1>15. CoreInv' BY <1>7, <1>8, <1>9, <1>10, <1>11, <1>12, <1>13, <1>14 DEF CoreInv
<1> QED BY <1>5, <1>6, <1>15

\* When an operation keeps its place, what it holds stays true.
LEMMA VaultMovesInv ==
  ASSUME SourcesInv, CoreInv', UNCHANGED <<store, ckpt, commit, op>>,
         op.pc \notin {"publish", "event"}, events \subseteq events', receipts \subseteq receipts',
         Acked' = Acked, \A p \in receipts : Audited(p)' = Audited(p)
  PROVE  SourcesInv'
<1>1. Operating' /\ Rebaselining' BY DEF SourcesInv, Operating, Rebaselining, Idle
<1>2. Acknowledging'
  <2>1. Acknowledging /\ \A p \in Acked' : p \in Acked /\ Audited(p)' = Audited(p)
    BY DEF SourcesInv, Acked
  <2>2. op.pc \in {"prepare", "checkpoint"} =>
          ckpt.pending # Nothing /\ op.bind = <<op.bind[1], op.bind[2]>> /\ op.bind[1] # "gap"
    BY <2>1 DEF Acknowledging
  <2>3. op.pc = "prepare" => /\ op = [pc |-> op.pc, bind |-> op.bind, rev |-> op.rev]
                             /\ \A p \in Acked' : commit.bind = op.bind /\ ~Audited(p)'
    BY <2>1 DEF Acknowledging
  <2>4. op.pc = "checkpoint" => /\ \E p \in receipts' : p.token = ckpt.pending /\ p.rev = op.rev
                                /\ \E b \in 1..MaxRev : <<b, op.rev>> \in events'
    BY <2>1 DEF Acknowledging
  <2> QED BY <2>2, <2>3, <2>4 DEF Acknowledging
<1> QED BY <1>1, <1>2 DEF SourcesInv

LEMMA SelectSourcesInv == SourcesInv /\ SelectSources => SourcesInv'
<1> SUFFICES ASSUME SourcesInv, SelectSources PROVE SourcesInv'
  OBVIOUS
<1>1. /\ op.pc \notin {"publish", "event"} /\ nextRev < MaxRev /\ nextRev' = nextRev + 1
      /\ sources' = [rev |-> nextRev + 1, selected |-> ~sources.selected,
                     obs |-> IF ~sources.selected THEN sources.obs ELSE Nothing]
      /\ UNCHANGED <<source, store, ckpt, commit, events, op, receipts, waived>>
  BY DEF SelectSources, VaultFree, Idle, Ledger!Selected, world, history
<1>2. SnapshotIn(sources, nextRev) /\ nextRev \in 1..MaxRev /\ GapNoted(sources, receipts)
  BY DEF SourcesInv, CoreInv, SourcesTyped
<1>3. sources'.rev = nextRev + 1 /\ (sources'.obs = sources.obs \/ sources'.obs = Nothing)
  BY <1>1
<1>4. SnapshotIn(sources', nextRev') BY <1>1, <1>2, <1>3 DEF SnapshotIn
<1>5. GapNoted(sources, receipts)' BY <1>1, <1>2, <1>3 DEF GapNoted
<1>6. CoreInv' /\ Acked' = Acked /\ \A p \in receipts : Audited(p)' = Audited(p)
  <2>1. /\ op'.pc \notin {"publish", "event"} /\ events \subseteq events' /\ receipts \subseteq receipts'
        /\ events' \subseteq events \cup {<<sources.rev, nextRev + 1>>}
        /\ \A g \in receipts' : g \in receipts
    BY <1>1
  <2> QED BY <1>1, <1>3, <1>4, <1>5, <2>1, VaultMoves
<1> QED BY <1>1, <1>6, VaultMovesInv

LEMMA RecordFailureInv == SourcesInv /\ RecordFailure => SourcesInv'
<1> SUFFICES ASSUME SourcesInv, RecordFailure PROVE SourcesInv'
  OBVIOUS
<1>1. PICK obs : obs = IF sources.obs = Nothing
                         THEN [result |-> "failure", account |-> Nothing, covered |-> 0,
                               complete |-> Nothing, evidence |-> <<>>]
                         ELSE [sources.obs EXCEPT !.result = "failure"]
  OBVIOUS
<1>2. /\ op.pc \notin {"publish", "event"} /\ nextRev < MaxRev /\ nextRev' = nextRev + 1
      /\ sources' = [sources EXCEPT !.rev = nextRev + 1, !.obs = obs]
      /\ events' = events \cup {<<sources.rev, nextRev + 1>>}
      /\ UNCHANGED <<source, store, ckpt, commit, op, receipts, waived>>
  BY <1>1 DEF RecordFailure, VaultFree, Idle, Ledger!FailureRecorded, world, history
<1>3. SnapshotIn(sources, nextRev) /\ nextRev \in 1..MaxRev /\ GapNoted(sources, receipts)
  BY DEF SourcesInv, CoreInv, SourcesTyped
<1>4. sources' = [rev |-> nextRev + 1, selected |-> sources.selected, obs |-> obs]
  BY <1>2, <1>3 DEF SnapshotIn
<1>5. /\ obs = [result |-> obs.result, account |-> obs.account, covered |-> obs.covered,
                complete |-> obs.complete, evidence |-> obs.evidence]
      /\ obs.evidence = <<>> \/ (sources.obs # Nothing /\ obs.evidence = sources.obs.evidence)
  <2>1. CASE sources.obs = Nothing BY <1>1, <2>1
  <2>2. CASE sources.obs # Nothing
    <3>1. sources.obs = [result |-> sources.obs.result, account |-> sources.obs.account,
                         covered |-> sources.obs.covered, complete |-> sources.obs.complete,
                         evidence |-> sources.obs.evidence]
      BY <1>3, <2>2 DEF SnapshotIn
    <3>2. obs = [result |-> "failure", account |-> sources.obs.account,
                 covered |-> sources.obs.covered, complete |-> sources.obs.complete,
                 evidence |-> sources.obs.evidence]
      BY <1>1, <2>2, <3>1
    <3> QED BY <2>2, <3>2
  <2> QED BY <2>1, <2>2
<1>6. SnapshotIn(sources', nextRev')
  <2>1. sources'.rev = nextRev + 1 /\ sources'.selected = sources.selected /\ sources'.obs = obs
    BY <1>4
  <2>2. nextRev + 1 \in 1..(nextRev + 1) BY <1>3
  <2> QED BY <1>2, <1>4, <1>5, <2>1, <2>2 DEF SnapshotIn
<1>7. GapNoted(sources, receipts)' BY <1>2, <1>3, <1>4, <1>5 DEF GapNoted
<1>8. CoreInv' /\ Acked' = Acked /\ \A p \in receipts : Audited(p)' = Audited(p)
  <2>1. /\ op'.pc \notin {"publish", "event"} /\ events \subseteq events' /\ receipts \subseteq receipts'
        /\ events' \subseteq events \cup {<<sources.rev, nextRev + 1>>}
        /\ \A g \in receipts' : g \in receipts /\ sources'.rev = nextRev + 1
    BY <1>2, <1>4
  <2> QED BY <1>2, <1>4, <1>6, <1>7, <2>1, VaultMoves
<1> QED BY <1>2, <1>8, VaultMovesInv

\* A receipt SOURCES.md can take is one at any revision.
LEMMA SuccessIs ==
  ASSUME NEW snap, NEW n, SnapshotIn(snap, n), NEW o, NEW any, Ledger!SuccessRecorded(snap, o, any) # Refused,
         NEW m, NEW rev \in 1..m
  PROVE  LET next == Ledger!SuccessRecorded(snap, o, rev)
         IN SnapshotIn(next, m) /\ next.rev = rev /\ next.obs.evidence = o.evidence
<1>1. PICK obs : obs = [result |-> "success", account |-> o.account, covered |-> o.covered,
                        complete |-> o.complete, evidence |-> o.evidence]
  OBVIOUS
<1>2. Ledger!SuccessRecorded(snap, o, rev) = [snap EXCEPT !.rev = rev, !.obs = obs]
  BY <1>1 DEF Ledger!SuccessRecorded
<1>3. Ledger!SuccessRecorded(snap, o, rev) = [rev |-> rev, selected |-> snap.selected, obs |-> obs]
  BY <1>2 DEF SnapshotIn
<1> QED BY <1>1, <1>3 DEF SnapshotIn

LEMMA RebaselineDiscardInv == SourcesInv /\ RebaselineDiscard => SourcesInv'
<1> SUFFICES ASSUME SourcesInv, RebaselineDiscard PROVE SourcesInv'
  OBVIOUS
<1>1. PICK t, o : /\ t = ckpt.pending
                  /\ o = [account |-> account, complete |-> FALSE, evidence |-> <<"gap", t>>,
                          covered |-> IF Inspected.newest # 0 THEN Inspected.newest ELSE Now]
  OBVIOUS
<1>2. /\ op.pc = "idle" /\ ckpt # NoFile /\ t # Nothing
      /\ op' = [pc |-> "archive", why |-> "discard_stale_delivery", cursor |-> Inspected.cursor]
      /\ UNCHANGED <<source, store, ckpt, commit, waived>>
  BY <1>1 DEF RebaselineDiscard, StaleDelivery, Idle, world
<1>3. \/ GapRecorded(t) /\ UNCHANGED <<sources, events, nextRev, receipts>>
      \/ /\ Ledger!SuccessRecorded(sources, o, nextRev + 1) # Refused /\ nextRev < MaxRev
         /\ sources' = Ledger!SuccessRecorded(sources, o, nextRev + 1)
         /\ nextRev' = nextRev + 1
         /\ events' = events \cup {<<sources.rev, nextRev + 1>>}
         /\ receipts' = receipts \cup {[token |-> t, disp |-> "gap", ref |-> Nothing, rev |-> nextRev + 1]}
  BY <1>1 DEF RebaselineDiscard, vault
<1>4. CoreInv' /\ \E p \in receipts' : p.token = t /\ p.disp = "gap"
  <2>1. CASE GapRecorded(t) /\ UNCHANGED <<sources, events, nextRev, receipts>>
    <3>1. CoreInv' BY <1>2, <2>1, CoreOp
    <3>2. GapNoted(sources, receipts) BY DEF SourcesInv, CoreInv
    <3>3. sources.obs # Nothing /\ sources.obs.evidence = <<"gap", t>> BY <2>1 DEF GapRecorded
    <3>4. sources.obs.evidence # <<>> /\ sources.obs.evidence[1] = "gap" /\ sources.obs.evidence[2] = t
      BY <3>3
    <3> QED BY <2>1, <3>1, <3>2, <3>3, <3>4 DEF GapNoted
  <2>2. CASE /\ Ledger!SuccessRecorded(sources, o, nextRev + 1) # Refused /\ nextRev < MaxRev
             /\ sources' = Ledger!SuccessRecorded(sources, o, nextRev + 1)
             /\ nextRev' = nextRev + 1
             /\ events' = events \cup {<<sources.rev, nextRev + 1>>}
             /\ receipts' = receipts \cup {[token |-> t, disp |-> "gap", ref |-> Nothing,
                                            rev |-> nextRev + 1]}
    <3>1. PICK g : g = [token |-> t, disp |-> "gap", ref |-> Nothing, rev |-> nextRev + 1]
      OBVIOUS
    <3>2. /\ g.token = t /\ g.disp = "gap" /\ g.rev = nextRev + 1 /\ ReceiptRecord(g)
          /\ receipts' = receipts \cup {g}
      BY <2>2, <3>1 DEF ReceiptRecord
    <3>3. SnapshotIn(sources, nextRev) /\ nextRev + 1 \in 1..(nextRev + 1)
      BY DEF SourcesInv, CoreInv, SourcesTyped
    <3>4. /\ SnapshotIn(sources', nextRev + 1) /\ sources'.rev = nextRev + 1
          /\ sources'.obs.evidence = o.evidence
      BY <2>2, <3>3, SuccessIs
    <3>5. GapNoted(sources, receipts)'
      <4>1. sources'.obs.evidence[2] = t BY <1>1, <3>4
      <4> QED BY <3>2, <4>1 DEF GapNoted
    <3>6. /\ op.pc \notin {"publish", "event"} /\ op'.pc \notin {"publish", "event"}
          /\ SnapshotIn(sources', nextRev')
      BY <1>2, <2>2, <3>4
    <3>7. /\ events \subseteq events' /\ receipts \subseteq receipts'
          /\ events' \subseteq events \cup {<<sources.rev, nextRev + 1>>}
      BY <2>2
    <3>8. \A h \in receipts' : h \notin receipts =>
            /\ ReceiptRecord(h) /\ h.token = ckpt.pending /\ h.disp = "gap" /\ h.rev = nextRev + 1
            /\ ckpt # NoFile /\ ckpt.pending # Nothing
      BY <1>1, <1>2, <3>2
    <3>9. CoreInv' BY <1>2, <2>2, <3>4, <3>5, <3>6, <3>7, <3>8, VaultMoves
    <3> QED BY <3>2, <3>9
  <2> QED BY <1>3, <2>1, <2>2
<1>5. PlaceIn(store, Inspected.cursor) BY InspectedIs DEF SourcesInv, CoreInv, SourcesTyped
<1>6. Rebaselining' BY <1>1, <1>2, <1>4, <1>5 DEF Rebaselining
<1> QED BY <1>2, <1>4, <1>6 DEF SourcesInv, Operating, Acknowledging

----------------------------------------
(* The local sources: steps of a receipt *)

LEMMA PrepareCommitMarkerInv == SourcesInv /\ PrepareCommitMarker => SourcesInv'
<1> SUFFICES ASSUME SourcesInv, PrepareCommitMarker PROVE SourcesInv'
  OBVIOUS
<1> DEFINE reuse == /\ commit # NoFile
                    /\ commit.token = ckpt.pending
                    /\ commit.before = op.rev
<1>1. /\ op.pc = "prepare" /\ sources.rev = op.rev /\ ReceiptAt(0) # Refused
      /\ reuse => commit.bind = op.bind
      /\ nextRev < MaxRev \/ reuse
      /\ commit' = IF reuse THEN commit
                   ELSE [token |-> ckpt.pending, bind |-> op.bind, before |-> op.rev, after |-> nextRev + 1]
      /\ nextRev' = IF reuse THEN nextRev ELSE nextRev + 1
      /\ op' = [op EXCEPT !.pc = "publish", !.rev = commit'.after]
      /\ UNCHANGED <<source, store, ckpt, sources, events, receipts, waived>>
  BY DEF PrepareCommitMarker, world, history
<1>2. /\ ckpt # NoFile /\ ckpt.pending # Nothing /\ op.bind = <<op.bind[1], op.bind[2]>> /\ op.bind[1] # "gap"
      /\ op = [pc |-> op.pc, bind |-> op.bind, rev |-> op.rev]
      /\ \A p \in Acked : commit.bind = op.bind /\ ~Audited(p)
  BY <1>1 DEF SourcesInv, Operating, Acknowledging
<1>3. op' = [pc |-> "publish", bind |-> op.bind, rev |-> commit'.after] BY <1>1, <1>2
<1>4. /\ nextRev \in 1..MaxRev /\ MaxRev \in Nat /\ sources.rev \in 1..nextRev
      /\ SnapshotIn(sources, nextRev) /\ SourcesTyped /\ MarkerOK /\ Attempts
  BY DeliveryAssumption DEF SourcesInv, CoreInv, SourcesTyped, SnapshotIn
<1>5. Kept = sources /\ Kept' = sources BY <1>1, <1>3 DEF Kept
<1>6. /\ commit' # NoFile /\ commit'.token = ckpt.pending /\ commit'.bind = op.bind
      /\ commit'.before = sources.rev /\ commit'.after \in 1..nextRev' /\ commit'.before < commit'.after
      /\ nextRev' \in 1..MaxRev /\ nextRev <= nextRev' /\ ~MarkerAudited'
      /\ \A e \in events : e[2] = commit'.after => e[1] = commit'.before
      /\ \A p \in receipts : p.rev = commit'.after =>
           p.token = commit'.token /\ p.disp # "gap" /\ commit'.bind = <<p.disp, p.ref>>
  <2>1. CASE reuse
    <3>1. commit' = commit /\ nextRev' = nextRev /\ commit # NoFile BY <1>1, <2>1
    <3>2. commit.before < commit.after /\ commit.after \in 1..nextRev /\ commit.before = sources.rev
      BY <1>1, <1>4, <2>1 DEF MarkerOK, SourcesTyped
    <3>3. ~MarkerAudited BY <1>4, <1>5, <3>1, <3>2 DEF MarkerOK
    <3>4. ~MarkerAudited' BY <1>1, <3>1, <3>3 DEF MarkerAudited
    <3>5. nextRev' \in 1..MaxRev /\ nextRev <= nextRev' /\ commit'.after \in 1..nextRev'
      BY <1>4, <3>1, <3>2
    <3>6. /\ \A e \in events : e[2] = commit.after => e[1] = commit.before
          /\ \A p \in receipts : p.rev = commit.after =>
               p.token = commit.token /\ p.disp # "gap" /\ commit.bind = <<p.disp, p.ref>>
      BY <1>4, <3>1 DEF MarkerOK
    <3> QED BY <1>1, <2>1, <3>1, <3>2, <3>4, <3>5, <3>6
  <2>2. CASE ~reuse
    <3>1. /\ commit' = [token |-> ckpt.pending, bind |-> op.bind, before |-> op.rev, after |-> nextRev + 1]
          /\ nextRev' = nextRev + 1 /\ nextRev < MaxRev
      BY <1>1, <2>2
    <3>2. commit' # NoFile BY <3>1 DEF NoFile
    <3>3. \A e \in events : e[2] # nextRev + 1 BY <1>4 DEF SourcesTyped
    <3>4. \A p \in receipts : p.rev # nextRev + 1 BY <1>4 DEF SourcesTyped
    <3>5. commit'.before = sources.rev /\ commit'.after = nextRev + 1 BY <1>1, <3>1
    <3>6. ~MarkerAudited' BY <1>1, <3>3, <3>5 DEF MarkerAudited
    <3> QED BY <1>4, <3>1, <3>2, <3>3, <3>4, <3>5, <3>6
  <2> QED BY <2>1, <2>2
<1>7. SourcesTyped'
  <2>1. events' \subseteq (1..nextRev') \X (1..nextRev')
    <3>1. \A e \in events : e \in (1..nextRev) \X (1..nextRev) BY <1>4 DEF SourcesTyped
    <3>2. \A e \in (1..nextRev) \X (1..nextRev) : e \in (1..nextRev') \X (1..nextRev')
      BY <1>4, <1>6
    <3> QED BY <1>1, <3>1, <3>2
  <2>2. \A p \in receipts' : /\ ReceiptRecord(p) /\ p.rev \in 1..nextRev'
                             /\ p.token # Nothing /\ p.token.seq \in Nat
    BY <1>1, <1>4, <1>6 DEF SourcesTyped
  <2>3. SnapshotIn(sources, nextRev') BY <1>4, <1>6 DEF SnapshotIn
  <2>4. commit'.before \in 1..nextRev' BY <1>4, <1>6
  <2> QED BY <1>1, <1>4, <1>6, <2>1, <2>2, <2>3, <2>4 DEF SourcesTyped
<1>8. PendingOK' /\ NothingLeft' /\ ReceiptsPlaced' /\ GapNoted(sources, receipts)' /\ LastOK'
  BY <1>1 DEF SourcesInv, CoreInv, PendingOK, NothingLeft, ReceiptsPlaced, GapNoted, LastOK, Behind, Delivered
<1>9. MarkerOK' BY <1>1, <1>6 DEF MarkerOK
<1>10. Acked' = Acked /\ \A p \in receipts : Audited(p)' = Audited(p) BY <1>1 DEF Acked, Audited
<1>11. Attempts'
  <2>1. \A p \in Acked : /\ commit.bind = <<p.disp, p.ref>> /\ ckpt.pending.rev < p.rev /\ p.rev <= Kept.rev
    BY <1>1, <1>2, <1>4 DEF Attempts
  <2>2. ckpt.pending.rev <= Kept.rev BY <1>2, <1>4 DEF Attempts
  <2>3. \A p \in Acked : Audited(p)' = Audited(p) BY <1>10 DEF Acked
  <2>4. \A p \in Acked : commit'.bind = <<p.disp, p.ref>> /\ ~Audited(p)'
    BY <1>2, <1>6, <2>1, <2>3
  <2> QED BY <1>1, <1>5, <1>6, <1>10, <2>1, <2>2, <2>4 DEF Attempts
<1>12. OneReceipt' /\ CheckpointBacked'
  <2>1. OneReceipt /\ CheckpointBacked /\ receipts' = receipts /\ events' = events
    BY <1>1 DEF SourcesInv, CoreInv
  <2>2. OneReceipt' BY <2>1 DEF OneReceipt
  <2> QED BY <1>1, <2>1, <2>2 DEF CheckpointBacked
<1>13. CoreInv' BY <1>7, <1>8, <1>9, <1>11, <1>12 DEF CoreInv
<1>14. ReceiptTaken'
  <2>1. PICK o : o = [account |-> ckpt.pending.account, covered |-> ckpt.pending.covered,
                      complete |-> ckpt.pending.complete, evidence |-> <<"ack", ckpt.pending, op.bind>>]
    OBVIOUS
  <2>2. Ledger!SuccessRecorded(sources, o, 0) # Refused BY <1>1, <2>1 DEF ReceiptAt
  <2>3. PICK rev : rev = commit'.after OBVIOUS
  <2>4. rev \in 1..nextRev' BY <1>6, <2>3
  <2>5. /\ SnapshotIn(Ledger!SuccessRecorded(sources, o, rev), nextRev')
        /\ Ledger!SuccessRecorded(sources, o, rev).rev = rev
        /\ Ledger!SuccessRecorded(sources, o, rev).obs.evidence = o.evidence
    BY <1>4, <2>2, <2>4, SuccessIs
  <2>6. ReceiptAt(op.rev)' = Ledger!SuccessRecorded(sources, o, rev) /\ op'.rev = rev /\ op'.bind = op.bind
    <3>1. op'.rev = rev /\ op'.bind = op.bind /\ ckpt' = ckpt /\ sources' = sources
      BY <1>1, <1>3, <2>3
    <3> QED BY <2>1, <3>1 DEF ReceiptAt
  <2> QED BY <1>1, <2>1, <2>5, <2>6 DEF ReceiptTaken
<1>15. OwnMarker' BY <1>1, <1>3, <1>6 DEF OwnMarker
<1>16. Acknowledging'
  <2>1. \A p \in Acked' : ~Audited(p)' BY <1>2, <1>10 DEF Acked
  <2> QED BY <1>1, <1>2, <1>3, <1>6, <1>14, <1>15, <2>1 DEF Acknowledging
<1> QED BY <1>1, <1>2, <1>3, <1>13, <1>16 DEF SourcesInv, Operating, Rebaselining

LEMMA PublishReceiptInv == SourcesInv /\ PublishReceipt => SourcesInv'
<1> SUFFICES ASSUME SourcesInv, PublishReceipt PROVE SourcesInv'
  OBVIOUS
<1>1. PICK new : new = [token |-> ckpt.pending, disp |-> op.bind[1], ref |-> op.bind[2], rev |-> op.rev]
  OBVIOUS
<1>2. /\ op.pc = "publish" /\ sources' = ReceiptAt(op.rev) /\ receipts' = receipts \cup {new}
      /\ op' = [pc |-> "event", bind |-> op.bind, rev |-> op.rev, was |-> sources]
      /\ UNCHANGED <<source, store, ckpt, commit, events, nextRev, waived>>
  BY <1>1 DEF PublishReceipt, world
<1>3. /\ ckpt # NoFile /\ ckpt.pending # Nothing /\ op.bind = <<op.bind[1], op.bind[2]>> /\ op.bind[1] # "gap"
      /\ OwnMarker /\ sources.rev = commit.before /\ ReceiptTaken
      /\ \A p \in Acked : ~Audited(p)
  BY <1>2 DEF SourcesInv, Operating, Acknowledging
<1>4. /\ commit # NoFile /\ commit.token = ckpt.pending /\ commit.bind = op.bind /\ commit.after = op.rev
  BY <1>3 DEF OwnMarker
<1>5. SourcesTyped /\ MarkerOK /\ Attempts /\ PendingOK /\ NothingLeft /\ ReceiptsPlaced /\ LastOK
      /\ GapNoted(sources, receipts) /\ OneReceipt /\ CheckpointBacked
  BY DEF SourcesInv, CoreInv
<1>6. /\ new.token = ckpt.pending /\ new.disp = op.bind[1] /\ new.ref = op.bind[2] /\ new.rev = op.rev
      /\ ReceiptRecord(new)
  BY <1>1 DEF ReceiptRecord
<1>7. /\ commit.before \in 1..nextRev /\ commit.after \in 1..nextRev /\ commit.before < commit.after
      /\ nextRev \in 1..MaxRev /\ SnapshotIn(sources, nextRev) /\ ckpt.pending.seq = ckpt.seq
      /\ ckpt.seq \in Nat /\ ckpt.pending.rev \in Nat
  BY <1>3, <1>4, <1>5 DEF MarkerOK, SourcesTyped, PendingOK
<1>8. ~MarkerAudited /\ Kept = sources /\ Kept' = sources BY <1>2, <1>4, <1>5 DEF MarkerOK, Kept
<1>9. /\ SnapshotIn(sources', nextRev) /\ sources'.rev = op.rev
      /\ sources'.obs.evidence = <<"ack", ckpt.pending, op.bind>>
  BY <1>2, <1>3 DEF ReceiptTaken
<1>10. \A p : Audited(p)' = Audited(p) BY <1>2 DEF Audited
<1>11. ~Audited(new)
  <2> SUFFICES ASSUME NEW b \in 1..MaxRev, <<b, commit.after>> \in events PROVE FALSE
    BY <1>4, <1>6 DEF Audited
  <2>1. b = commit.before BY <1>4, <1>5 DEF MarkerOK
  <2> QED BY <1>8, <2>1 DEF MarkerAudited
<1>12. Acked' = Acked \cup {new} BY <1>2, <1>3, <1>6 DEF Acked
<1>13. SourcesTyped'
  <2>1. \A p \in receipts' : /\ ReceiptRecord(p) /\ p.rev \in 1..nextRev
                             /\ p.token # Nothing /\ p.token.seq \in Nat
    <3> SUFFICES ASSUME NEW p \in receipts'
                 PROVE  /\ ReceiptRecord(p) /\ p.rev \in 1..nextRev
                        /\ p.token # Nothing /\ p.token.seq \in Nat
      OBVIOUS
    <3>1. CASE p \in receipts BY <1>5, <3>1 DEF SourcesTyped
    <3>2. CASE p = new BY <1>3, <1>4, <1>6, <1>7, <3>2
    <3> QED BY <1>2, <3>1, <3>2
  <2> QED BY <1>2, <1>5, <1>9, <2>1 DEF SourcesTyped
<1>14. PendingOK' /\ LastOK' BY <1>2, <1>5 DEF PendingOK, LastOK
<1>15. NothingLeft'
  <2>1. \A seq : Behind(seq) \subseteq Behind(seq)' BY <1>2 DEF Behind, Delivered
  <2> QED BY <1>2, <1>5, <2>1 DEF NothingLeft
<1>16. ReceiptsPlaced'
  <2>1. new.token.seq = ckpt.seq /\ new.token = ckpt.pending BY <1>6, <1>7
  <2> QED BY <1>2, <1>3, <1>5, <1>7, <2>1 DEF ReceiptsPlaced
<1>17. MarkerOK'
  <2>1. ~MarkerAudited' BY <1>2, <1>8 DEF MarkerAudited
  <2>2. \A p \in receipts' : p.rev = commit.after =>
          p.token = commit.token /\ p.disp # "gap" /\ commit.bind = <<p.disp, p.ref>>
    <3>1. new.token = commit.token /\ new.disp # "gap" /\ commit.bind = <<new.disp, new.ref>>
      BY <1>3, <1>4, <1>6
    <3>2. \A p \in receipts : p.rev = commit.after =>
            p.token = commit.token /\ p.disp # "gap" /\ commit.bind = <<p.disp, p.ref>>
      BY <1>4, <1>5 DEF MarkerOK
    <3> QED BY <1>2, <3>1, <3>2
  <2> QED BY <1>2, <1>4, <1>5, <2>1, <2>2 DEF MarkerOK
<1>18. Attempts'
  <2> SUFFICES ASSUME NEW p \in Acked \cup {new}
               PROVE  /\ commit.bind = <<p.disp, p.ref>> /\ ckpt.pending.rev < p.rev
                      /\ p.rev <= sources.rev \/ p.rev = op'.rev
                      /\ ~Audited(p)
    <3>1. ckpt.pending.rev <= sources.rev BY <1>3, <1>5, <1>8 DEF Attempts
    <3>2. op'.pc = "event" BY <1>2
    <3> QED BY <1>2, <1>4, <1>8, <1>10, <1>12, <3>1, <3>2 DEF Attempts
  <2>1. CASE p \in Acked BY <1>2, <1>3, <1>5, <1>8, <2>1 DEF Attempts
  <2>2. CASE p = new
    <3>1. ckpt.pending.rev <= sources.rev BY <1>3, <1>5, <1>8 DEF Attempts
    <3>2. ckpt.pending.rev < new.rev BY <1>3, <1>4, <1>6, <1>7, <3>1
    <3>3. commit.bind = <<new.disp, new.ref>> /\ new.rev = op'.rev BY <1>2, <1>3, <1>4, <1>6
    <3> QED BY <1>11, <2>2, <3>2, <3>3
  <2> QED BY <2>1, <2>2
<1>19. GapNoted(sources, receipts)'
  <2>1. sources'.obs.evidence[1] = "ack" BY <1>9
  <2> QED BY <2>1 DEF GapNoted
<1>20. OneReceipt'
  <2> SUFFICES ASSUME NEW p \in receipts', NEW q \in receipts',
                      p.token = q.token, p.disp # "gap", q.disp # "gap"
               PROVE  p.disp = q.disp /\ (Audited(p) /\ Audited(q) => p = q)
    BY <1>10 DEF OneReceipt, Audited
  <2>1. CASE p \in receipts /\ q \in receipts BY <1>5, <2>1 DEF OneReceipt, Audited
  <2>2. ASSUME NEW r \in receipts, r.token = ckpt.pending, r.disp # "gap"
        PROVE  r.disp = new.disp
    <3>1. commit.bind = <<r.disp, r.ref>> BY <1>3, <1>5, <2>2 DEF Acked, Attempts
    <3> QED BY <1>4, <1>6, <3>1
  <2> QED BY <1>2, <1>6, <1>11, <2>1, <2>2
<1>21. CheckpointBacked' BY <1>2, <1>5 DEF CheckpointBacked
<1>22. CoreInv' BY <1>13, <1>14, <1>15, <1>16, <1>17, <1>18, <1>19, <1>20, <1>21 DEF CoreInv
<1>23. Acknowledging'
  <2>1. \A p \in Acked' : ~Audited(p)' BY <1>3, <1>10, <1>11, <1>12
  <2>2. op'.pc = "event" /\ op'.bind = op.bind /\ op'.rev = op.rev /\ op'.was = sources BY <1>2
  <2>3. OwnMarker' BY <1>2, <1>4, <2>2 DEF OwnMarker
  <2>4. SnapshotIn(op'.was, nextRev) /\ op'.was.rev = commit.before /\ GapNoted(op'.was, receipts')
    BY <1>2, <1>3, <1>5, <1>7, <2>2 DEF GapNoted
  <2>5. \E p \in receipts' : p.token = ckpt.pending /\ p.rev = op'.rev BY <1>2, <1>6, <2>2
  <2> QED BY <1>2, <1>3, <1>9, <2>1, <2>2, <2>3, <2>4, <2>5 DEF Acknowledging
<1> QED BY <1>2, <1>3, <1>22, <1>23 DEF SourcesInv, Operating, Rebaselining

\* Where a receipt waits for its event.
LEMMA AtEvent ==
  ASSUME SourcesInv, op.pc = "event"
  PROVE  /\ ckpt # NoFile /\ ckpt.pending # Nothing /\ op.bind = <<op.bind[1], op.bind[2]>>
         /\ op.bind[1] # "gap"
         /\ commit # NoFile /\ commit.token = ckpt.pending /\ commit.bind = op.bind /\ commit.after = op.rev
         /\ commit.before \in 1..nextRev /\ commit.after \in 1..nextRev /\ commit.before < commit.after
         /\ nextRev \in 1..MaxRev /\ MaxRev \in Nat /\ ~MarkerAudited /\ Kept = op.was
         /\ ckpt.pending.seq = ckpt.seq /\ ckpt.seq \in Nat /\ ckpt.pending.rev \in Nat
         /\ sources.rev = op.rev /\ SnapshotIn(op.was, nextRev) /\ op.was.rev = commit.before
         /\ GapNoted(op.was, receipts)
         /\ \A p \in Acked : ~Audited(p)
         /\ \E p \in receipts : p.token = ckpt.pending /\ p.rev = op.rev
<1>1. /\ ckpt # NoFile /\ ckpt.pending # Nothing /\ op.bind = <<op.bind[1], op.bind[2]>>
      /\ op.bind[1] # "gap" /\ OwnMarker
      /\ sources.rev = op.rev /\ SnapshotIn(op.was, nextRev) /\ op.was.rev = commit.before
      /\ GapNoted(op.was, receipts)
      /\ \A p \in Acked : ~Audited(p)
      /\ \E p \in receipts : p.token = ckpt.pending /\ p.rev = op.rev
  BY DEF SourcesInv, Operating, Acknowledging
<1>2. commit # NoFile /\ commit.token = ckpt.pending /\ commit.bind = op.bind /\ commit.after = op.rev
  BY <1>1 DEF OwnMarker
<1>3. SourcesTyped /\ MarkerOK /\ PendingOK BY DEF SourcesInv, CoreInv
<1>4. /\ commit.before \in 1..nextRev /\ commit.after \in 1..nextRev /\ commit.before < commit.after
      /\ nextRev \in 1..MaxRev /\ MaxRev \in Nat /\ ckpt.pending.seq = ckpt.seq
      /\ ckpt.seq \in Nat /\ ckpt.pending.rev \in Nat
  BY <1>1, <1>2, <1>3, DeliveryAssumption DEF MarkerOK, SourcesTyped, PendingOK
<1>5. ~MarkerAudited /\ Kept = op.was BY <1>2, <1>3 DEF MarkerOK, Kept
<1> QED BY <1>1, <1>2, <1>4, <1>5

LEMMA AppendEventInv == SourcesInv /\ AppendEvent => SourcesInv'
<1> SUFFICES ASSUME SourcesInv, AppendEvent PROVE SourcesInv'
  OBVIOUS
<1>1. PICK e : e = <<op.was.rev, op.rev>> OBVIOUS
<1>2. /\ op.pc = "event" /\ events' = events \cup {e}
      /\ op' = [pc |-> "checkpoint", bind |-> op.bind, rev |-> op.rev]
      /\ UNCHANGED <<source, store, ckpt, commit, sources, nextRev, receipts, waived>>
  BY <1>1 DEF AppendEvent, world, history
<1>3. /\ ckpt # NoFile /\ ckpt.pending # Nothing /\ op.bind = <<op.bind[1], op.bind[2]>>
      /\ op.bind[1] # "gap"
      /\ commit # NoFile /\ commit.token = ckpt.pending /\ commit.bind = op.bind /\ commit.after = op.rev
      /\ commit.before \in 1..nextRev /\ commit.after \in 1..nextRev /\ commit.before < commit.after
      /\ nextRev \in 1..MaxRev /\ MaxRev \in Nat /\ Kept = op.was /\ ckpt.pending.rev \in Nat
      /\ sources.rev = op.rev /\ op.was.rev = commit.before
      /\ \A p \in Acked : ~Audited(p)
      /\ \E p \in receipts : p.token = ckpt.pending /\ p.rev = op.rev
  BY <1>2, AtEvent
<1>4. SourcesTyped /\ MarkerOK /\ Attempts /\ PendingOK /\ NothingLeft /\ ReceiptsPlaced /\ LastOK
      /\ GapNoted(sources, receipts) /\ OneReceipt /\ CheckpointBacked
  BY DEF SourcesInv, CoreInv
<1>5. e = <<commit.before, commit.after>> /\ e[1] = commit.before /\ e[2] = commit.after
  BY <1>1, <1>3
<1>6. Kept' = sources /\ op'.pc = "checkpoint" /\ op'.bind = op.bind /\ op'.rev = op.rev
  BY <1>2 DEF Kept
<1>7. \A p : Audited(p)' => Audited(p) \/ p.rev = commit.after
  <2> SUFFICES ASSUME NEW p, Audited(p)' PROVE Audited(p) \/ p.rev = commit.after
    OBVIOUS
  <2>1. PICK b \in 1..MaxRev : <<b, p.rev>> \in events' BY DEF Audited
  <2>2. <<b, p.rev>> \in events \/ <<b, p.rev>> = e BY <1>2, <2>1
  <2> QED BY <1>5, <2>1, <2>2 DEF Audited
<1>8. SourcesTyped'
  <2>1. e \in (1..nextRev) \X (1..nextRev) BY <1>3, <1>5
  <2>2. events' \subseteq (1..nextRev) \X (1..nextRev) BY <1>2, <1>4, <2>1 DEF SourcesTyped
  <2> QED BY <1>2, <1>4, <2>2 DEF SourcesTyped
<1>9. PendingOK' /\ NothingLeft' /\ ReceiptsPlaced' /\ LastOK' /\ GapNoted(sources, receipts)'
  BY <1>2, <1>4 DEF PendingOK, NothingLeft, ReceiptsPlaced, LastOK, GapNoted, Behind, Delivered
<1>10. MarkerOK'
  <2>1. \A f \in events' : f[2] = commit.after => f[1] = commit.before
    BY <1>2, <1>3, <1>4, <1>5 DEF MarkerOK
  <2>2. /\ \E p \in receipts : p.rev = commit.after
        /\ commit.after <= sources.rev
    BY <1>3
  <2>3. \A p \in receipts : p.rev = commit.after =>
          p.token = commit.token /\ p.disp # "gap" /\ commit.bind = <<p.disp, p.ref>>
    BY <1>3, <1>4 DEF MarkerOK
  <2> QED BY <1>2, <1>3, <1>6, <2>1, <2>2, <2>3 DEF MarkerOK
<1>11. Attempts'
  <2>1. ckpt.pending.rev <= op.was.rev /\ ckpt.pending.rev <= sources.rev
    <3>1. ckpt.pending.rev <= op.was.rev BY <1>3, <1>4 DEF Attempts
    <3> QED BY <1>3, <3>1
  <2>2. ASSUME NEW p \in Acked
        PROVE  /\ commit.bind = <<p.disp, p.ref>> /\ ckpt.pending.rev < p.rev /\ p.rev <= sources.rev
               /\ Audited(p)' => p.rev = commit.after
    <3>1. /\ commit.bind = <<p.disp, p.ref>> /\ ckpt.pending.rev < p.rev
          /\ p.rev <= op.was.rev \/ p.rev = op.rev
      BY <1>3, <1>4 DEF Attempts
    <3>2. p.rev \in Nat BY <1>4 DEF SourcesTyped, Acked
    <3> QED BY <1>3, <1>7, <3>1, <3>2
  <2>3. Acked' = Acked BY <1>2 DEF Acked
  <2> QED BY <1>2, <1>3, <1>6, <2>1, <2>2, <2>3 DEF Attempts
<1>12. OneReceipt'
  <2> SUFFICES ASSUME NEW p \in receipts, NEW q \in receipts,
                      p.token = q.token, p.disp # "gap", q.disp # "gap"
               PROVE  p.disp = q.disp /\ (Audited(p)' /\ Audited(q)' => p = q)
    <3>1. receipts' = receipts BY <1>2
    <3> QED BY <3>1 DEF OneReceipt, Audited
  <2>1. p.disp = q.disp /\ (Audited(p) /\ Audited(q) => p = q) BY <1>4 DEF OneReceipt, Audited
  <2>2. CASE p.token = ckpt.pending
    <3>1. p \in Acked /\ q \in Acked BY <2>2 DEF Acked
    <3>2. commit.bind = <<p.disp, p.ref>> /\ commit.bind = <<q.disp, q.ref>>
      BY <1>3, <1>4, <3>1 DEF Attempts
    <3>3. Audited(p)' /\ Audited(q)' => p.rev = q.rev BY <1>3, <1>7, <3>1
    <3>4. p = [token |-> p.token, disp |-> p.disp, ref |-> p.ref, rev |-> p.rev]
          /\ q = [token |-> q.token, disp |-> q.disp, ref |-> q.ref, rev |-> q.rev]
      BY <1>4 DEF SourcesTyped, ReceiptRecord
    <3>5. p.ref = q.ref BY <3>2
    <3> QED BY <2>1, <3>3, <3>4, <3>5
  <2>3. CASE p.token # ckpt.pending
    <3>1. p.rev # commit.after /\ q.rev # commit.after BY <1>3, <1>4, <2>3 DEF MarkerOK
    <3> QED BY <1>7, <2>1, <3>1
  <2> QED BY <2>2, <2>3
<1>13. CheckpointBacked' BY <1>2, <1>4 DEF CheckpointBacked
<1>14. CoreInv' BY <1>8, <1>9, <1>10, <1>11, <1>12, <1>13 DEF CoreInv
<1>15. Acknowledging'
  <2>1. e \in events' /\ e = <<commit.before, op.rev>> /\ commit.before \in 1..MaxRev
    BY <1>2, <1>3, <1>5
  <2>2. \E b \in 1..MaxRev : <<b, op.rev>> \in events' BY <2>1
  <2> QED BY <1>2, <1>3, <1>6, <2>2 DEF Acknowledging
<1> QED BY <1>2, <1>3, <1>6, <1>14, <1>15 DEF SourcesInv, Operating, Rebaselining

LEMMA AppendFailsInv == SourcesInv /\ AppendFails => SourcesInv'
<1> SUFFICES ASSUME SourcesInv, AppendFails PROVE SourcesInv'
  OBVIOUS
<1>1. /\ op.pc = "event" /\ sources' = op.was /\ op' = Idle
      /\ receipts' = {p \in receipts : p.rev # op.rev}
      /\ UNCHANGED <<source, store, ckpt, commit, events, nextRev, waived>>
  BY DEF AppendFails, world
<1>2. /\ ckpt # NoFile /\ ckpt.pending # Nothing
      /\ commit # NoFile /\ commit.token = ckpt.pending /\ commit.after = op.rev
      /\ ~MarkerAudited /\ Kept = op.was /\ ckpt.pending.seq = ckpt.seq /\ ckpt.seq \in Nat
      /\ SnapshotIn(op.was, nextRev) /\ GapNoted(op.was, receipts)
  BY <1>1, AtEvent
<1>3. SourcesTyped /\ MarkerOK /\ Attempts /\ PendingOK /\ NothingLeft /\ ReceiptsPlaced /\ LastOK
      /\ OneReceipt /\ CheckpointBacked
  BY DEF SourcesInv, CoreInv
<1>4. Kept' = op.was /\ op'.pc = "idle" BY <1>1 DEF Kept, Idle
<1>5. \A p \in receipts : p \notin receipts' => p.token = ckpt.pending /\ p.disp # "gap"
  BY <1>1, <1>2, <1>3 DEF MarkerOK
<1>6. receipts' \subseteq receipts BY <1>1
<1>7. SourcesTyped' BY <1>1, <1>2, <1>3, <1>6 DEF SourcesTyped
<1>8. PendingOK' /\ LastOK' BY <1>1, <1>3 DEF PendingOK, LastOK
<1>9. NothingLeft'
  <2>1. Behind(ckpt.seq) \subseteq Behind(ckpt.seq)'
    <3>1. \A p \in receipts : p.token.seq < ckpt.seq => p \in receipts' BY <1>2, <1>5
    <3> QED BY <1>1, <3>1 DEF Behind, Delivered
  <2> QED BY <1>1, <1>3, <2>1 DEF NothingLeft
<1>10. ReceiptsPlaced' BY <1>1, <1>2, <1>3, <1>6 DEF ReceiptsPlaced
<1>11. MarkerOK'
  <2>1. ~MarkerAudited' BY <1>1, <1>2 DEF MarkerAudited
  <2> QED BY <1>1, <1>2, <1>3, <1>6, <2>1 DEF MarkerOK
<1>12. Attempts'
  <2>1. \A p \in Acked' : p \in Acked /\ p.rev # op.rev BY <1>1 DEF Acked
  <2>2. \A p \in Acked : /\ commit.bind = <<p.disp, p.ref>> /\ ckpt.pending.rev < p.rev
                         /\ p.rev <= op.was.rev \/ p.rev = op.rev
                         /\ Audited(p) => p.rev = commit.after
    BY <1>1, <1>2, <1>3 DEF Attempts
  <2>3. ckpt.pending.rev <= op.was.rev /\ \A p : Audited(p)' = Audited(p)
    BY <1>1, <1>2, <1>3 DEF Attempts, Audited
  <2> QED BY <1>1, <1>2, <1>4, <2>1, <2>2, <2>3 DEF Attempts
<1>13. GapNoted(sources, receipts)'
  <2> SUFFICES ASSUME op.was.obs # Nothing, op.was.obs.evidence # <<>>, op.was.obs.evidence[1] = "gap"
               PROVE  \E p \in receipts' : p.token = op.was.obs.evidence[2] /\ p.disp = "gap"
    BY <1>1 DEF GapNoted
  <2>1. PICK p \in receipts : p.token = op.was.obs.evidence[2] /\ p.disp = "gap"
    BY <1>2 DEF GapNoted
  <2> QED BY <1>5, <2>1
<1>14. OneReceipt'
  <2>1. events' = events /\ OneReceipt BY <1>1, <1>3
  <2> QED BY <1>6, <2>1 DEF OneReceipt
<1>15. CheckpointBacked'
  <2> SUFFICES ASSUME ckpt.last # Nothing
               PROVE  /\ \E p \in receipts' : p.token = ckpt.last.token /\ p.rev = ckpt.last.rev
                      /\ \E b \in 1..MaxRev : <<b, ckpt.last.rev>> \in events
                      /\ ckpt.reset = Nothing => ckpt.cursor = ckpt.last.token.target
    BY <1>1 DEF CheckpointBacked
  <2>1. PICK p \in receipts : p.token = ckpt.last.token /\ p.rev = ckpt.last.rev
    BY <1>2, <1>3 DEF CheckpointBacked
  <2>2. p.token.seq < ckpt.seq /\ p.token.seq \in Nat BY <1>2, <1>3, <2>1 DEF LastOK
  <2>3. p.token # ckpt.pending BY <1>2, <2>2
  <2>4. p \in receipts' BY <1>5, <2>3
  <2> QED BY <1>2, <1>3, <2>1, <2>4 DEF CheckpointBacked
<1>16. CoreInv' BY <1>7, <1>8, <1>9, <1>10, <1>11, <1>12, <1>13, <1>14, <1>15 DEF CoreInv
<1> QED BY <1>1, <1>16, IdleOp DEF SourcesInv

----------------------------------------
(* The local sources: the theorem *)

LEMMA SourcesNextInv == SourcesInv /\ [SourcesNext]_sourceVars => SourcesInv'
<1> SUFFICES ASSUME SourcesInv, [SourcesNext]_sourceVars PROVE SourcesInv'
  OBVIOUS
<1>1. CASE Baseline \/ AdoptCheckpoint \/ Poll BY <1>1, BaselineInv, AdoptCheckpointInv, PollInv
<1>2. CASE RebaselineForward \/ RebaselineDiscard \/ ArchiveCheckpoint \/ ResetCheckpoint
  BY <1>2, RebaselineForwardInv, RebaselineDiscardInv, ArchiveCheckpointInv, ResetCheckpointInv
<1>3. CASE BeginAcknowledge \/ PrepareCommitMarker \/ AcknowledgeRefused \/ PublishReceipt
  BY <1>3, BeginAcknowledgeInv, PrepareCommitMarkerInv, AcknowledgeRefusedInv, PublishReceiptInv
<1>4. CASE AppendEvent \/ AppendFails \/ CompleteCheckpoint \/ OperationDies
  BY <1>4, AppendEventInv, AppendFailsInv, CompleteCheckpointInv, OperationDiesInv
<1>5. CASE Receive \/ ChangeRow \/ ReplaceStore \/ MigrateSchema
  BY <1>5, ReceiveInv, ChangeRowInv, ReplaceStoreInv, MigrateSchemaInv
<1>6. CASE SwitchAccount \/ EditRecord BY <1>6, ElsewhereInv
<1>7. CASE SelectSources \/ RecordFailure BY <1>7, SelectSourcesInv, RecordFailureInv
<1>8. CASE UNCHANGED sourceVars
  <2>1. UNCHANGED <<source, store, ckpt, commit, sources, events, nextRev, op, receipts, waived>>
    BY <1>8 DEF sourceVars
  <2>2. store \in Stores /\ store.file \in Nat /\ Len(store.rows) \in Nat
    BY LiveFacts DEF SourcesInv, CoreInv, SourcesTyped
  <2>3. Evolves(store, store') BY <2>1, <2>2 DEF Evolves, Live
  <2> QED BY <2>1, <2>3, StoreMoves
<1> QED BY <1>1, <1>2, <1>3, <1>4, <1>5, <1>6, <1>7, <1>8 DEF SourcesNext

\* What poll, acknowledge and rebaseline promise together, for any store, batch
\* limits and disturbances: no message at or below the checkpoint was skipped,
\* a delivery has one receipt, and the receipt that moved the checkpoint stands.
THEOREM SourcesAreHonest == SourcesSpec => []SourcesHonest
<1>1. SourcesInit => SourcesInv BY SourcesInitInv
<1>2. SourcesInv /\ [SourcesNext]_sourceVars => SourcesInv' BY SourcesNextInv
<1>3. SourcesInv => SourcesHonest
  <2> SUFFICES ASSUME SourcesInv PROVE SourcesHonest
    OBVIOUS
  <2>1. NothingLeft /\ OneReceipt /\ CheckpointBacked BY DEF SourcesInv, CoreInv
  <2>2. \A seq : Behind(seq) \subseteq waived \cup UNION {Delivered(p) : p \in receipts}
    BY DEF Behind
  <2>3. NothingSkipped BY <2>1, <2>2 DEF NothingSkipped, NothingLeft
  <2> QED BY <2>1, <2>3 DEF SourcesHonest
<1> QED BY <1>1, <1>2, <1>3, PTL DEF SourcesSpec
=============================================================================
