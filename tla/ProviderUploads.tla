-------------------------- MODULE ProviderUploads --------------------------
(* How one confirmed upload reaches a provider (connector_adapter_google.py,
   connector_adapter_microsoft.py, connector_adapter_collaboration.py over
   connector_transport.py): Drive's resumable session with probes and a
   bounded restart, Gmail's session written in one request, Outlook's
   session written range by range, and Slack's three requests.

   The provider is external: a request it received may take effect although
   its answer is lost or an error, and a session may expire at any time.  It
   is assumed to answer truthfully and not to act on a request any more once
   it answered a later one. *)
EXTENDS Naturals

CONSTANTS Sizes,           \* lengths of the uploaded content
          MaxAttempts,     \* _DRIVE_RESUMABLE_MAX_ATTEMPTS
          MaxNoProgress,   \* _DRIVE_RESUMABLE_MAX_NO_PROGRESS
          MaxRestarts      \* _DRIVE_RESUMABLE_MAX_RESTARTS

ASSUME UploadAssumption == Sizes \subseteq Nat

VARIABLES up,        \* the adapter: protocol, place, counters, outcome
          session,   \* the provider's upload session
          made       \* how often the provider created the file or message

upvars == <<up, session, made>>

Protocols == {"drive", "driveInline", "gmailMessage", "gmailRaw", "outlook", "slack"}

Drive == {"drive", "driveInline"}

UploadIdle == [proto |-> "none", pc |-> "idle", size |-> 0, offset |-> 0, attempts |-> 0,
               stalls |-> 0, restarts |-> 0, unresolved |-> FALSE, outcome |-> "none"]

NoSession == [st |-> "none", got |-> 0]

Ends(outcome) == up' = [up EXCEPT !.pc = "end", !.outcome = outcome]

Creates == made' = made + 1

-----------------------------------------------------------------------------
StartUpload(proto, size) ==
    /\ up = UploadIdle
    /\ up' = [UploadIdle EXCEPT !.proto = proto, !.size = size, !.pc = "initiate"]
    /\ UNCHANGED <<session, made>>

\* The request that opens the session. It carries no content, so whatever
\* becomes of it nothing is created.
Initiate ==
    /\ up.pc = "initiate"
    /\ \/ /\ session' = [st |-> "open", got |-> 0]
          /\ up' = [up EXCEPT !.pc = "put", !.offset = 0, !.stalls = 0]
       \/ Ends("failed") /\ UNCHANGED session        \* the provider refuses
       \/ Ends("unknown") /\ UNCHANGED session       \* a POST whose answer is lost
    /\ UNCHANGED made

\* What the provider does with the bytes of one PUT: it stores some of them, and
\* completes the session with the last one, now or after its answer.
Takes(last) ==
    IF session.st # "open" THEN UNCHANGED <<session, made>>
    ELSE \E n \in session.got .. last :
            \/ session' = [session EXCEPT !.got = n] /\ UNCHANGED made
            \/ n = up.size /\ session' = [st |-> "final", got |-> n] /\ Creates

\* A session that has all its bytes completes, and any session may expire.
Finalise ==
    /\ session.st = "open" /\ up.size > 0 /\ session.got = up.size /\ up.proto \in Drive
    /\ session' = [session EXCEPT !.st = "final"] /\ Creates
    /\ UNCHANGED up

Expire404 ==
    /\ session.st \in {"open", "final"} /\ up.pc # "end"
    /\ session' = [session EXCEPT !.st = "gone"]
    /\ UNCHANGED <<up, made>>

-----------------------------------------------------------------------------
\* _drive_resumable_attempt
Attempts == up.attempts < MaxAttempts

Attempted(u) == [u EXCEPT !.attempts = @ + 1]

\* An answered acknowledgement of n bytes: on to the next PUT, or to a probe when
\* all bytes are there; no progress twice, or a regression, is given up.
Acknowledged(u, n) ==
    LET moved == n # u.offset
        next  == [u EXCEPT !.offset = n, !.stalls = IF moved THEN 0 ELSE @ + 1]
    IN  IF \/ n < u.offset
           \/ u.proto = "driveInline" /\ 0 < n /\ n < u.size
           \/ next.stalls >= MaxNoProgress
          THEN [next EXCEPT !.pc = "end", !.outcome = "unknown"]
          ELSE IF n < u.size \/ u.size = 0
                 THEN [next EXCEPT !.pc = "put", !.unresolved = FALSE]
                 ELSE [next EXCEPT !.pc = "probe", !.unresolved = TRUE]

\* _drive_resumable_restart
Restarted(u) ==
    IF u.unresolved \/ u.restarts >= MaxRestarts
      THEN [u EXCEPT !.pc = "end", !.outcome = "unknown"]
      ELSE [u EXCEPT !.pc = "initiate", !.restarts = @ + 1]

\* The answer to a PUT or a probe as the session stands after it.
Answered(u, s) ==
    CASE s.st = "final" -> {[u EXCEPT !.pc = "end", !.outcome = o] : o \in {"done", "unknown"}}
      [] s.st = "open"  -> {Acknowledged(u, s.got)}
      [] OTHER          -> {}

\* One PUT of _drive_resumable_upload, from the offset to the end. An answer
\* that is lost, or a server error, leads to a probe.
DrivePut ==
    LET u == [Attempted(up) EXCEPT !.unresolved = FALSE] IN
    /\ up.pc = "put" /\ up.proto \in Drive
    /\ \/ ~Attempts /\ Ends("unknown") /\ UNCHANGED <<session, made>>
       \/ Attempts /\ Takes(up.size) /\ up' \in Answered(u, session')
       \/ Attempts /\ Takes(up.size) /\ up' = [Attempted(up) EXCEPT !.pc = "probe", !.unresolved = TRUE]
       \/ Attempts /\ session.st = "gone" /\ up' = Restarted(Attempted(up))
                   /\ UNCHANGED <<session, made>>
       \/ Attempts /\ session.st = "open" /\ Ends("failed")  \* another 4xx
                   /\ UNCHANGED <<session, made>>

\* A probe that finds the session gone settles nothing: it may have completed.
ProbeGone(u) == [u EXCEPT !.pc = "end", !.outcome = "unknown"]

\* _drive_resumable_probe
DriveProbe ==
    /\ up.pc = "probe"
    /\ IF ~Attempts THEN Ends("unknown")
       ELSE \/ up' \in Answered(Attempted(up), session)
            \/ session.st = "gone" /\ up' = ProbeGone(Attempted(up))
            \/ Ends("unknown")
    /\ UNCHANGED <<session, made>>

-----------------------------------------------------------------------------
\* Gmail: the whole message in one PUT. A receipt that cannot be read is an
\* unknown outcome for a message, and an error for a draft.
GmailPut ==
    /\ up.pc = "put" /\ up.proto \in {"gmailMessage", "gmailRaw"}
    /\ Takes(up.size)
    /\ \/ session'.st = "final" /\ Ends("done")
       \/ session'.st = "final" /\ Ends("unknown")
       \/ session'.st = "final" /\ up.proto = "gmailMessage" /\ Ends("failed")
       \/ session'.st = "open" /\ Ends("failed")
       \/ session'.st = "gone" /\ Ends("failed")
       \/ Ends("unknown")

\* Outlook: one range after the other, never again. 201 answers the last range.
OutlookPut ==
    LET last == up.offset + 1 IN
    /\ up.pc = "put" /\ up.proto = "outlook"
    /\ \/ /\ up.size = 0 /\ Ends("failed") /\ UNCHANGED <<session, made>>
       \/ /\ up.size > 0 /\ Takes(last)
          /\ \/ session' = [st |-> "open", got |-> last] /\ last < up.size
                /\ up' = [up EXCEPT !.offset = last]
             \/ session'.st = "final" /\ Ends("done")
             \/ session'.st = "final" /\ Ends("unknown")     \* no trusted location
             \/ session'.st # "final" /\ Ends("failed")      \* error or divergent range
             \/ session'.st = "final" /\ Ends("failed")      \* a server error after the effect
             \/ Ends("unknown")

\* Slack: the bytes first, which share nothing yet.
SlackPut ==
    /\ up.pc = "put" /\ up.proto = "slack"
    /\ \/ session.st = "open" /\ session' = [session EXCEPT !.got = up.size]
          /\ up' = [up EXCEPT !.pc = "complete"]
       \/ Ends("failed") /\ UNCHANGED session
       \/ Ends("unknown") /\ UNCHANGED session
    /\ UNCHANGED made

\* Then the completion that shares the file; a lost or mismatched answer is
\* reconciled by one read of the file.
SlackComplete ==
    /\ up.pc = "complete"
    /\ \/ session.st = "open" /\ session' = [session EXCEPT !.st = "final"] /\ Creates
       \/ UNCHANGED <<session, made>>
    /\ \/ session'.st = "final" /\ Ends("done")
       \/ Ends("failed")
       \/ up' = [up EXCEPT !.pc = "reconcile"]

SlackReconcile ==
    /\ up.pc = "reconcile"
    /\ \/ made > 0 /\ Ends("done")
       \/ Ends("unknown")
    /\ UNCHANGED <<session, made>>

-----------------------------------------------------------------------------
UploadInit == up = UploadIdle /\ session = NoSession /\ made = 0

UploadNext ==
    \/ \E proto \in Protocols, size \in Sizes : StartUpload(proto, size)
    \/ Initiate \/ Finalise \/ Expire404
    \/ DrivePut \/ DriveProbe \/ GmailPut \/ OutlookPut
    \/ SlackPut \/ SlackComplete \/ SlackReconcile

\* Whatever answers are lost and whenever the session expires, one confirmed
\* upload creates at most one file or message, "done" is said only of one that
\* exists, and Drive's errors are said only of uploads that created nothing
\* (the probe before every repetition and the refusal to restart after one).
UploadHonest ==
    /\ made <= 1
    /\ up.outcome = "done" => made = 1
    /\ up.outcome = "failed" /\ up.proto \in Drive => made = 0
=============================================================================
