---------------------------- MODULE DiscordSource ---------------------------
(* Discord as a source (discord_source.py).  A companion process that Seld
   binds by the exact bytes of its runtime reads the channels and keeps the
   checkpoint; Seld lends it one connection's credential for the length of a
   call.  A delivery is acknowledged only against the receipt of it in the
   vault. *)
EXTENDS HostFaults

CONSTANTS MaxPosts,      \* bound on messages in the channels
          MaxBindings,   \* bound on bindings, runtimes, credentials and revisions
          Unbound        \* no binding, no delivery, no observation

VARIABLES posts,         \* how many messages the channels hold
          companion,     \* its checkpoint: [cursor, pending, last]
          runtime,       \* the bytes at the runtime's path
          binding,       \* [rev, runtime, connection]
          credential,    \* [connection]: the Discord connection and its stored secret
          observed,      \* the vault's source record: [rev, selected, obs]
          lent,         \* the call that holds the locks: [pc, kind, seen, cred, token]
          handed,        \* the deliveries that callers were given
          receipted      \* ghost: every observation ever recorded

dvars == <<posts, companion, runtime, binding, credential, observed, lent, handed, receipted>>
discordVars == <<dvars, odds, meddled>>

Deliveries == [from : Nat, to : Nat]
Observations == [delivery : Deliveries, tool : Nat, account : Nat]

ASSUME DiscordConstants == Unbound \notin Deliveries \cup Observations

\* A delivery of the companion: the messages after one cursor through another.
Delivery(from, to) == [from |-> from, to |-> to]
\* What a receipt binds: the delivery, the tool and the account it came from.
Observation(d, b, c) == [delivery |-> d, tool |-> b, account |-> c]

NotLent == [pc |-> "idle", kind |-> "none", seen |-> Unbound, cred |-> Unbound, token |-> Unbound]
EndCall == lent' = NotLent
Calling(pc) == lent' = [lent EXCEPT !.pc = pc]

(* bind: a fresh runtime is inventoried with a synthetic credential, and is
   bound to one verified connection. *)
BindRuntime ==
  /\ lent.pc = "idle" /\ (binding # Unbound => binding.rev < MaxBindings)
  /\ binding' = [rev |-> IF binding = Unbound THEN 1 ELSE binding.rev + 1,
                 runtime |-> runtime, connection |-> credential.connection]
  /\ UNCHANGED <<posts, companion, runtime, credential, observed, lent, handed, receipted,
                 odds, meddled>>

(* _invocation: the binding read before the connection's lock is the one
   found under all three locks, and its runtime is byte for byte the same. *)
Invocable == binding # Unbound /\ runtime = binding.runtime
               /\ credential.connection = binding.connection /\ observed.selected

BeginDiscord ==
  /\ lent.pc = "idle" /\ Invocable
  /\ \/ lent' = [NotLent EXCEPT !.pc = "poll", !.kind = "poll", !.seen = observed, !.cred = credential]
     \/ \E d \in handed :
          /\ observed.obs # Unbound
          /\ lent' = [NotLent EXCEPT !.pc = "status", !.kind = "ack", !.seen = observed,
                                      !.cred = credential, !.token = d]
  /\ UNCHANGED <<posts, companion, runtime, binding, credential, observed, handed, receipted,
                 odds, meddled>>

(* The companion answers a poll with the delivery that waits, or a new one. *)
PollCompanion ==
  /\ lent.pc = "poll"
  /\ companion' = IF companion.pending # Unbound \/ companion.cursor = posts THEN companion
                  ELSE [companion EXCEPT !.pending = Delivery(companion.cursor, posts)]
  /\ Calling("answered")
  /\ UNCHANGED <<posts, runtime, binding, credential, observed, handed, receipted, odds, meddled>>

\* The credential and the source record are those the call started with; a
\* poll whose credential or sources changed is discarded.
Unmoved == credential = lent.cred /\ observed.rev = lent.seen.rev

PollAnswers ==
  /\ lent.pc = "answered" /\ EndCall
  /\ handed' = IF Unmoved /\ companion.pending # Unbound
               THEN handed \cup {companion.pending} ELSE handed
  /\ UNCHANGED <<posts, companion, runtime, binding, credential, observed, receipted, odds, meddled>>

(* The person records the delivery in the vault, or leaves it. *)
RecordReceipt ==
  /\ observed.selected /\ binding # Unbound /\ observed.rev < MaxBindings + 2
  /\ lent.pc = "idle"
  /\ \E d \in handed :
       LET o == Observation(d, binding.rev, binding.connection) IN
       /\ observed' = [observed EXCEPT !.rev = @ + 1, !.obs = o]
       /\ receipted' = receipted \cup {o}
  /\ UNCHANGED <<posts, companion, runtime, binding, credential, lent, handed, odds, meddled>>

\* Mutant: a delivery is acknowledged on any receipt there is.
ReceiptMatchesAny == TRUE
(* _verify_receipt: against the delivery that waits, or against the
   committed checkpoint when none does. *)
ReceiptMatches ==
  LET o == lent.seen.obs IN
  /\ o.tool = binding.rev /\ o.account = binding.connection
  /\ IF companion.pending # Unbound THEN o.delivery = companion.pending
     ELSE o.delivery.to = companion.cursor

ReadCompanionStatus ==
  /\ lent.pc = "status"
  /\ IF Unmoved /\ ReceiptMatches THEN Calling("ack") ELSE EndCall
  /\ UNCHANGED <<posts, companion, runtime, binding, credential, observed, handed, receipted,
                 odds, meddled>>

(* The companion takes the token of the delivery that waits, or of the last
   one it took.  The caller hears of it, or dies before it does. *)
AckCompanion ==
  /\ lent.pc = "ack"
  /\ companion' = IF Unmoved /\ lent.token = companion.pending
                  THEN [cursor |-> lent.token.to, pending |-> Unbound, last |-> lent.token]
                  ELSE companion
  /\ EndCall
  /\ UNCHANGED <<posts, runtime, binding, credential, observed, handed, receipted, odds, meddled>>

CallDies ==
  /\ lent.pc # "idle" /\ Odd /\ EndCall
  /\ UNCHANGED <<posts, companion, runtime, binding, credential, observed, handed, receipted, meddled>>

Unbind ==
  /\ lent.pc = "idle" /\ binding # Unbound /\ Odd /\ binding' = Unbound
  /\ UNCHANGED <<posts, companion, runtime, credential, observed, lent, handed, receipted, meddled>>

(* Messages arrive; the person selects sources, changes the credential or
   reinstalls the companion.  The vault's own writers are locked out of a
   poll and an acknowledgement; the credential's are held out by its lock,
   but the companion's files are not. *)
Meanwhile ==
  /\ UNCHANGED <<companion, binding, lent, handed, receipted, meddled>>
  /\ \/ posts < MaxPosts /\ posts' = posts + 1 /\ UNCHANGED <<runtime, credential, observed, odds>>
     \/ /\ runtime < MaxBindings /\ Odd /\ runtime' = runtime + 1
        /\ UNCHANGED <<posts, credential, observed>>
     \/ /\ lent.pc = "idle" /\ credential.connection < MaxBindings /\ Odd
        /\ credential' = [credential EXCEPT !.connection = @ + 1]
        /\ UNCHANGED <<posts, runtime, observed>>
     \/ /\ lent.pc = "idle" /\ observed.rev < MaxBindings + 2 /\ Odd
        /\ observed' = [observed EXCEPT !.rev = @ + 1, !.selected = ~@]
        /\ UNCHANGED <<posts, runtime, credential>>

DiscordInit ==
  /\ posts = 0 /\ companion = [cursor |-> 0, pending |-> Unbound, last |-> Unbound]
  /\ runtime = 1 /\ binding = Unbound /\ credential = [connection |-> 1]
  /\ observed = [rev |-> 1, selected |-> TRUE, obs |-> Unbound]
  /\ lent = NotLent /\ handed = {} /\ receipted = {} /\ FaultsInit

DiscordNext ==
  \/ BindRuntime \/ BeginDiscord \/ PollCompanion \/ PollAnswers \/ RecordReceipt
  \/ ReadCompanionStatus \/ AckCompanion \/ CallDies \/ Unbind \/ Meanwhile

DiscordSpec == DiscordInit /\ [][DiscordNext]_discordVars

-----------------------------------------------------------------------------
\* The companion's checkpoint moves only past messages whose delivery the
\* vault has a receipt of: lost answers, old tokens, rebinding, another
\* credential and changed sources skip none
\* (DiscordSourceBridge.acknowledge, _verify_receipt).
DiscordReceipted ==
  companion.cursor > 0 =>
    \A m \in 1..companion.cursor :
      \E o \in receipted : o.delivery.from < m /\ m <= o.delivery.to
=============================================================================
