--------------------------- MODULE GuardedWrites ---------------------------
(* Writes whose consequence depends on what they meet at the provider
   (connector_adapter_google.py, connector_adapter_microsoft.py,
   connector_adapter_collaboration.py).  A client reads an item, asks for a
   change of what it read, and the adapter reads the item again when it
   classifies the change, when the confirmation comes back, and before it
   sends.  Between any two of these others change the item.

   An item is what the effect of a change depends on: who is invited or can
   see it, what hangs on it (attachments, preferences), whether it has a
   conference and whether it is in the trash.  The provider is external; it
   honours If-Match. *)
EXTENDS Naturals

CONSTANTS People,       \* other people an item can be shared with
          Parts,        \* attachments, reminders, preferences of an item
          MaxMeddling   \* bound on the changes made by others

VARIABLES item,      \* the item at the provider
          write,     \* the write in flight
          applied,   \* the writes the provider applied, with what they met
          meddled    \* changes made by others

wvars == <<item, write, applied, meddled>>

Items == [ver : Nat, guests : SUBSET People, parts : SUBSET Parts,
          conf : BOOLEAN, trashed : BOOLEAN]

NoChange == [kind |-> "none", op |-> "none", guests |-> {}, parts |-> {}]

\* What a client can ask for: a change of Google or Outlook events, of an entry of
\* the calendar list, of a Drive file, a Gmail label or filter, a Discord message.
Changes ==
    LET Of(kinds, ops, gs, ps) == [kind : kinds, op : ops, guests : gs, parts : ps] IN
    Of({"gevent"}, {"title", "reminders", "recurrence", "meet", "delete", "respond"}, {{}}, {{}})
        \cup Of({"gevent", "oevent"}, {"guests"}, SUBSET People, {{}})
        \cup Of({"gevent"}, {"attachments"}, {{}}, SUBSET Parts)
        \cup Of({"entry"}, {"preferences"}, {{}}, SUBSET Parts)
        \cup Of({"entry"}, {"delete"}, {{}}, {{}})
        \cup Of({"oevent"}, {"title", "delete", "purge"}, {{}}, {{}})
        \cup Of({"drive"}, {"trash", "restore", "purge", "move"}, {{}}, {{}})
        \cup Of({"gmail"}, {"delete"}, {{}}, {{}})
        \cup Of({"discord"}, {"attach", "detach"}, {{}}, {{p} : p \in Parts})

\* The item after a change of it. A Discord message gets the whole list of its
\* attachments, put together from the one read before.
After(ch, it, read) ==
    LET next == [it EXCEPT !.ver = @ + 1] IN
    CASE ch.op = "guests"                       -> [next EXCEPT !.guests = ch.guests]
      [] ch.op \in {"attachments", "preferences"} -> [next EXCEPT !.parts = ch.parts]
      [] ch.op = "meet"                         -> [next EXCEPT !.conf = TRUE]
      [] ch.op \in {"delete", "trash", "purge"} -> [next EXCEPT !.trashed = TRUE]
      [] ch.op = "restore"                      -> [next EXCEPT !.trashed = FALSE]
      [] ch.op = "attach"                       -> [next EXCEPT !.parts = read.parts \cup ch.parts]
      [] ch.op = "detach"                       -> [next EXCEPT !.parts = read.parts \ ch.parts]
      [] OTHER                                  -> next

-----------------------------------------------------------------------------
\* _calendar_event_is_shared
IsShared(it) == it.guests # {}

\* The attendees, and the attachments, a replacement would drop.
DropsAttendees(ch, it) == ~(it.guests \subseteq ch.guests)

DropsAttachments(ch, it) == ~(it.parts \subseteq ch.parts)

\* _calendar_event_update_effect, in its order
EventUpdateEffect(ch, it) ==
    IF \/ ch.op = "recurrence"
       \/ ch.op = "attachments" /\ DropsAttachments(ch, it)
       \/ ch.op = "meet" /\ it.conf
       \/ ch.op = "guests" /\ DropsAttendees(ch, it)
    THEN "destructive"
    ELSE IF ch.op = "guests" \/ (ch.op # "reminders" /\ IsShared(it)) THEN "outward" ELSE "safe"

\* _calendar_event_effect
EventEffect(ch, it) ==
    CASE ch.op = "respond" -> "outward"
      [] ch.op = "delete"  -> "destructive"
      [] OTHER             -> EventUpdateEffect(ch, it)

\* _calendar_list_update_effect
ListUpdateEffect(ch, it) ==
    IF ~(it.parts \subseteq ch.parts) THEN "destructive" ELSE "safe"

\* _existing_event_effect of Outlook
ExistingEventEffect(ch, it) ==
    IF it.guests # {} \/ ch.guests # {} THEN "outward" ELSE "safe"

\* classify_effect of the Google adapter
ClassifyGoogle(ch, it) ==
    CASE ch.kind = "gevent"                           -> EventEffect(ch, it)
      [] ch.kind = "entry" /\ ch.op = "preferences"   -> ListUpdateEffect(ch, it)
      [] OTHER                                        -> "destructive"

\* classify_effect of the Microsoft adapter
ClassifyMicrosoft(ch, it) ==
    IF ch.op \in {"delete", "purge"} THEN "destructive" ELSE ExistingEventEffect(ch, it)

Effect(ch, it) ==
    CASE ch.kind = "oevent"  -> ClassifyMicrosoft(ch, it)
      [] ch.kind = "discord" -> "outward"
      [] OTHER               -> ClassifyGoogle(ch, it)

\* The ETag, or the change key, must be the one the client read.
EventPreflight == item.ver = write.seen.ver

OutlookPreflight == item.ver = write.seen.ver

\* A calendar list entry is compared by its ETag, and as a whole before it is
\* removed.
EntryPreflight ==
    /\ item.ver = write.seen.ver
    /\ write.ch.op = "delete" => item = write.seen

\* _drive_lifecycle_preflight compares the whole snapshot, and the lifecycle
\* operation must fit the state of the file.
DrivePreflight ==
    /\ item = write.seen
    /\ item.trashed <=> write.ch.op \in {"restore", "purge"}

\* The snapshot comparisons before a label is purged or a filter deleted.
GmailPreflight == item = write.seen

\* _discord_owned_message checks the author only.
Preflight ==
    CASE write.ch.kind = "drive"   -> DrivePreflight
      [] write.ch.kind = "gmail"   -> GmailPreflight
      [] write.ch.kind = "discord" -> TRUE
      [] write.ch.kind = "entry"   -> EntryPreflight
      [] write.ch.kind = "oevent"  -> OutlookPreflight
      [] OTHER                     -> EventPreflight

-----------------------------------------------------------------------------
NoWrite(it) == [pc |-> "idle", ch |-> NoChange, seen |-> it, effect |-> "none",
                key |-> FALSE, read |-> it]

\* The client reads the item and asks for a change of what it read.
Ask(ch) ==
    /\ write.pc = "idle"
    /\ write' = [NoWrite(item) EXCEPT !.pc = "classify", !.ch = ch]
    /\ UNCHANGED <<item, applied, meddled>>

Refuse == write' = NoWrite(item) /\ UNCHANGED <<item, applied, meddled>>

\* The preview: a safe change goes on by itself, any other waits for a person.
Classify ==
    /\ write.pc = "classify" /\ Preflight
    /\ LET e == Effect(write.ch, item) IN
       write' = [write EXCEPT !.effect = e, !.pc = IF e = "safe" THEN "execute" ELSE "confirm"]
    /\ UNCHANGED <<item, applied, meddled>>

\* The confirmation comes back: classified again, and spent if the effect is the
\* one the person saw.
Confirm ==
    /\ write.pc = "confirm" /\ Preflight
    /\ Effect(write.ch, item) = write.effect
    /\ write' = [write EXCEPT !.pc = "execute", !.key = TRUE]
    /\ UNCHANGED <<item, applied, meddled>>

\* execute reads the item once more and refuses a change that became
\* consequential and has no confirmation.
Recheck ==
    /\ write.pc = "execute" /\ Preflight
    /\ Effect(write.ch, item) = "safe" \/ write.key
    /\ write' = [write EXCEPT !.pc = "send", !.read = item]
    /\ UNCHANGED <<item, applied, meddled>>

\* Any of the steps may fail, also because the item changed.
Fail == write.pc \notin {"idle"} /\ Refuse

Apply ==
    /\ applied' = applied \cup {[ch |-> write.ch, key |-> write.key, seen |-> write.seen,
                                 read |-> write.read, met |-> item]}
    /\ item' = After(write.ch, item, write.read)
    /\ write' = NoWrite(item')
    /\ UNCHANGED meddled

\* Mutant: the calendar request carries no If-Match header.
IfMatchNever == TRUE

\* _etag_headers and _headers: the provider answers 412 to a stale version.
IfMatch == item.ver = write.seen.ver

\* _execute_calendar
SendCalendar == write.pc = "send" /\ write.ch.kind \in {"gevent", "entry"} /\ IfMatch /\ Apply

\* execute and _execute_permanent_delete of the Microsoft adapter
SendOutlook == write.pc = "send" /\ write.ch.kind = "oevent" /\ IfMatch /\ Apply

\* _execute_drive and _execute_gmail have no version to bind the request to.
SendDrive == write.pc = "send" /\ write.ch.kind = "drive" /\ Apply

SendGmail == write.pc = "send" /\ write.ch.kind = "gmail" /\ Apply

\* _execute_discord sends the list of attachments built from the message it read.
SendDiscord == write.pc = "send" /\ write.ch.kind = "discord" /\ Apply

\* Someone else changes the item at the provider.
Meddle ==
    /\ meddled < MaxMeddling /\ meddled' = meddled + 1
    /\ \E it \in [ver : {item.ver + 1}, guests : SUBSET People, parts : SUBSET Parts,
                  conf : BOOLEAN, trashed : BOOLEAN] : item' = it
    /\ UNCHANGED <<write, applied>>

WriteInit ==
    /\ item \in [ver : {0}, guests : SUBSET People, parts : SUBSET Parts,
                 conf : BOOLEAN, trashed : BOOLEAN]
    /\ write = NoWrite(item)
    /\ applied = {} /\ meddled = 0

\* One write at a time, and the first applied one ends the run: applied remembers it.
WriteNext ==
    \/ applied = {} /\ \E ch \in Changes : Ask(ch)
    \/ Classify \/ Confirm \/ Recheck \/ Fail
    \/ SendCalendar \/ SendOutlook \/ SendDrive \/ SendGmail \/ SendDiscord
    \/ Meddle

-----------------------------------------------------------------------------
\* What a change did to the item it met: something or someone is gone that was
\* there, or other people see it happen.
TakesAway(a) ==
    LET then == After(a.ch, a.met, a.read) IN
    \/ ~(a.met.guests \subseteq then.guests)
    \/ ~(a.met.parts \subseteq then.parts)
    \/ a.ch.op = "meet" /\ a.met.conf
    \/ then.trashed /\ ~a.met.trashed

ReachesOthers(a) ==
    /\ a.ch.op \notin {"reminders", "preferences"}     \* seen by the owner only
    /\ a.met.guests \cup After(a.ch, a.met, a.read).guests # {}

\* Nothing that takes something away or reaches other people happens without a
\* confirmation, and a change of an event or a calendar entry meets exactly the
\* item its author saw, whatever others did between the reads: the effect is
\* computed on the item the request is bound to (classify_effect, execute, and
\* the If-Match of the request).
OnlyAsReviewed ==
    \A a \in applied :
        /\ TakesAway(a) \/ ReachesOthers(a) => a.key
        /\ a.ch.kind \in {"gevent", "entry", "oevent"} => a.met = a.seen
=============================================================================
