-------------------------- MODULE CorpusProviders ---------------------------
(* app_corpus_providers.py, app_corpus_microsoft_delta.py: one source of the
   app corpus read page by page over many sync calls, each resumed from the
   checkpoint the one before it returned, while the account changes. *)
EXTENDS HostFaults, Sequences, FiniteSets, FiniteSetsExt

CONSTANTS Objects,     \* messages, files or events of the account
          MaxChanges,  \* bound on the changes of the account
          Overlap,     \* the two days an incremental calendar pass goes back
          Absent       \* no checkpoint, cursor, continuation or page

ASSUME ProviderAssumption ==
    /\ Overlap \in Nat
    /\ Absent \notin Nat \cup Objects \cup {"list", "changes"}
                      \cup [seen : SUBSET Objects, from : Nat]

VARIABLES source,      \* the one source the adapter was made for
          changes,     \* the account's changes, oldest first
          horizon,     \* changes up to here have left the provider's history
          documents,   \* the revision the corpus holds of each object, 0: none
          saved,       \* the checkpoint the corpus holds
          call,        \* the sync call in progress
          slow         \* a calendar pass took longer than the overlap

providerState == <<source, changes, horizon, documents, saved, call, slow>>
pvars == <<source, changes, horizon, documents, saved, call, slow, odds, meddled>>

Sources == {"gmail", "google_drive", "google_calendar", "outlook_mail"}
Folders == {1, 2}

--------------------------------------------------------------------------------
(* The account. A revision is the place of a change in its history. *)
Clock == Len(changes)
Revision(o) == Max({0} \cup {i \in DOMAIN changes : changes[i].object = o})
Alive(o) == Revision(o) > 0 /\ changes[Revision(o)].put
InFolder(o, f) == Alive(o) /\ changes[Revision(o)].folder = f
Entry(o, f, p) == [object |-> o, folder |-> f, put |-> p]

(* A new object, or an edit of one that can be edited; an identifier is
   never used again. *)
Arrives(o) ==
    /\ Clock < MaxChanges
    /\ Revision(o) = 0 \/ (Alive(o) /\ source \in {"google_drive", "google_calendar"})
    /\ \E f \in Folders :
           /\ source # "outlook_mail" => f = 1
           /\ changes' = Append(changes, Entry(o, f, TRUE))
    /\ UNCHANGED <<source, horizon, documents, saved, call, slow, odds, meddled>>

Disappears(o) ==
    /\ Clock < MaxChanges /\ Alive(o)
    /\ changes' = Append(changes, Entry(o, changes[Revision(o)].folder, FALSE))
    /\ UNCHANGED <<source, horizon, documents, saved, call, slow, odds, meddled>>

(* To a mailbox a move is a removal from one folder and an arrival in another *)
Moves(o, f) ==
    /\ source = "outlook_mail" /\ Clock + 1 < MaxChanges
    /\ Alive(o) /\ ~InFolder(o, f)
    /\ changes' = changes \o <<Entry(o, changes[Revision(o)].folder, FALSE), Entry(o, f, TRUE)>>
    /\ UNCHANGED <<source, horizon, documents, saved, call, slow, odds, meddled>>

(* Gmail forgets its oldest history. *)
Forgets ==
    /\ source = "gmail" /\ horizon < Clock /\ Odd
    /\ horizon' = Clock
    /\ UNCHANGED <<source, changes, documents, saved, call, slow, meddled>>

--------------------------------------------------------------------------------
(* The decoded checkpoint. anchor: the cursor a pass under way started from;
   cursor: the one the last complete pass ended with; links: one per folder. *)
InitialState ==
    [complete |-> FALSE, since |-> Absent, anchor |-> Absent, cursor |-> Absent,
     phase |-> Absent, continuation |-> Absent, folder |-> 0,
     links |-> [f \in Folders |-> 0], candidates |-> {}]

(* A complete checkpoint becomes a bounded pass over recent changes. *)
Resumed ==
    IF saved = Absent THEN InitialState
    ELSE IF saved.complete
         THEN [InitialState EXCEPT !.since = saved.since, !.cursor = saved.cursor,
                                   !.links = saved.links]
         ELSE saved

NoCall == [state |-> Absent, began |-> 0, page |-> Absent, confirm |-> {}, fetched |-> {}]

(* fetched: the revisions this call will hand to the corpus. *)
BeginCall ==
    /\ call = NoCall
    /\ call' = [NoCall EXCEPT !.state = Resumed, !.began = Clock]
    /\ UNCHANGED <<source, changes, horizon, documents, saved, slow, odds, meddled>>

Waiting == call # NoCall /\ call.page = Absent /\ call.confirm = {}

(* An incremental pass reads changes from the cursor the last one left; the
   anchor outlives the continuation, which may be rejected. *)
Incremental ==
    /\ source \in {"gmail", "google_drive"}
    /\ call.state.phase = Absent /\ call.state.anchor = Absent
    /\ call.state.cursor # Absent
    /\ source = "gmail" => call.state.since # Absent

FollowCursor ==
    /\ Waiting /\ Incremental
    /\ call' = [call EXCEPT !.state.anchor = call.state.cursor, !.state.phase = "changes"]
    /\ UNCHANGED <<source, changes, horizon, documents, saved, slow, odds, meddled>>

(* Mutant: every call of a full pass asks for a new cursor. *)
NeedsAnchorAgain ==
    /\ source \in {"gmail", "google_drive"} /\ ~Incremental
    /\ call.state.phase \in {Absent, "list"} /\ call.state.anchor # Clock

(* A full pass first asks for the cursor its changes will be read from, and
   only then for the first page of the listing. *)
NeedsAnchor ==
    /\ source \in {"gmail", "google_drive"} /\ ~Incremental
    /\ call.state.anchor = Absent /\ call.state.phase = Absent

CaptureAnchor ==
    /\ Waiting /\ NeedsAnchor
    /\ call' = [call EXCEPT !.state.anchor = Clock, !.state.phase = "list"]
    /\ UNCHANGED <<source, changes, horizon, documents, saved, slow, odds, meddled>>

(* The folders of the mailbox, then each folder's messages in turn; the
   calendars of the account, then their events. *)
ListFolders ==
    /\ Waiting /\ source \in {"outlook_mail", "google_calendar"}
    /\ call.state.phase = Absent
    /\ saved' = [call.state EXCEPT
                     !.phase = IF source = "outlook_mail" THEN "changes" ELSE "list",
                     !.folder = 1]
    /\ call' = NoCall
    /\ UNCHANGED <<source, changes, horizon, documents, slow, odds, meddled>>

--------------------------------------------------------------------------------
(* Pages of one item. What was there when a listing began and has not
   changed since is on one of its pages; the rest may or may not be. *)
Page(o, i, gone, next) ==
    [object |-> o, revision |-> i, gone |-> gone, next |-> next, at |-> Clock]

Since == IF source = "google_calendar" /\ call.state.since # Absent
         THEN call.state.since - Overlap ELSE 0

(* Cancelled events are listed as events; trashed files and messages that
   were purged are not listed. *)
Listed(o) == /\ Revision(o) > 0 /\ Revision(o) >= Since
             /\ Alive(o) \/ source = "google_calendar"

Seen == IF call.state.continuation = Absent THEN {} ELSE call.state.continuation.seen
From == IF call.state.continuation = Absent THEN Clock ELSE call.state.continuation.from
Unseen == {o \in Objects \ Seen : Listed(o) /\ Revision(o) <= From}

ListPage ==
    /\ Waiting /\ call.state.phase = "list"
    /\ \/ \E o \in {x \in Objects \ Seen : Listed(x)} :
              call' = [call EXCEPT !.page =
                  Page(o, Revision(o), FALSE,
                       IF Unseen \subseteq {o} THEN Absent
                       ELSE [seen |-> Seen \cup {o}, from |-> From])]
       \/ /\ Unseen = {}
          /\ call' = [call EXCEPT !.page = Page(Absent, From, FALSE, Absent)]
    /\ UNCHANGED <<source, changes, horizon, documents, saved, slow, odds, meddled>>

(* The change after the one a continuation names, or after the anchor, or
   after the folder's link. Gmail's history tells what happened, Drive's
   changes and a folder's delta what the object is now. *)
Position ==
    IF call.state.continuation # Absent THEN call.state.continuation.from
    ELSE IF source = "outlook_mail" THEN call.state.links[call.state.folder]
         ELSE call.state.anchor

Later == {i \in DOMAIN changes : i > Position /\ (source = "outlook_mail" =>
                                                      changes[i].folder = call.state.folder)}
RemovedBy(i) == CASE source = "gmail" -> ~changes[i].put
             [] source = "google_drive" -> ~Alive(changes[i].object)
             [] OTHER -> ~InFolder(changes[i].object, call.state.folder)

ChangePage ==
    /\ Waiting /\ call.state.phase = "changes"
    /\ Position >= horizon
    /\ LET i == Min(Later) IN
       call' = [call EXCEPT !.page =
           IF Later = {} THEN Page(Absent, 0, FALSE, Absent)
           ELSE Page(changes[i].object, Revision(changes[i].object), RemovedBy(i),
                     IF Cardinality(Later) = 1 THEN Absent ELSE [seen |-> {}, from |-> i])]
    /\ UNCHANGED <<source, changes, horizon, documents, saved, slow, odds, meddled>>

(* Expired history: the cursor is dropped and the next call scans everything *)
HistoryExpired ==
    /\ Waiting /\ call.state.phase = "changes" /\ Position < horizon
    /\ saved' = InitialState
    /\ call' = NoCall
    /\ UNCHANGED <<source, changes, horizon, documents, slow, odds, meddled>>

--------------------------------------------------------------------------------
(* The state a call returns once every item of its page was read. *)
Completed(st, cursor) ==
    [InitialState EXCEPT !.complete = TRUE, !.since = call.began,
                         !.cursor = cursor, !.links = st.links]

AfterList(st) ==
    IF call.page.next # Absent THEN [st EXCEPT !.continuation = call.page.next]
    ELSE CASE source = "google_drive" -> [st EXCEPT !.continuation = Absent, !.phase = "changes"]
           [] source = "gmail" -> Completed(st, st.anchor)
           [] OTHER -> Completed(st, Absent)

AfterChanges(st) ==
    IF call.page.next # Absent THEN [st EXCEPT !.continuation = call.page.next]
    ELSE IF source # "outlook_mail" THEN Completed(st, call.page.at)
    ELSE LET linked == [st EXCEPT !.continuation = Absent,
                                  !.links[st.folder] = call.page.at, !.folder = @ + 1]
         IN IF st.folder = Cardinality(Folders) THEN Completed(linked, Absent) ELSE linked

Advanced == IF call.state.phase = "list" THEN AfterList(call.state) ELSE AfterChanges(call.state)

(* A removal from a folder is a candidate until the mailbox was read. *)
Candidates == call.state.candidates \cup
    (IF source = "outlook_mail" /\ call.page.object # Absent /\ call.page.gone
     THEN {call.page.object} ELSE {})

Doc(o, r) == <<o, r>>

(* What the corpus takes for an item: its text, its deletion (0), or nothing
   when the mailbox lost the message between the page and the read. *)
Fetched(o) == {Doc(o, Revision(o))}
GmailItem(o) == IF call.page.gone THEN {Doc(o, 0)} ELSE IF Alive(o) THEN Fetched(o) ELSE {}
DriveItem(o) == {Doc(o, IF call.page.gone THEN 0 ELSE call.page.revision)}
CalendarItem(o) == {Doc(o, call.page.revision)}
MailItem(o) == IF call.page.gone THEN {} ELSE IF Alive(o) THEN Fetched(o) ELSE {Doc(o, 0)}

Item ==
    LET o == call.page.object
    IN CASE o = Absent -> {}
         [] o # Absent /\ source = "gmail" -> GmailItem(o)
         [] o # Absent /\ source = "google_drive" -> DriveItem(o)
         [] o # Absent /\ source = "google_calendar" -> CalendarItem(o)
         [] o # Absent /\ source = "outlook_mail" -> MailItem(o)

Stored(set) ==
    [o \in Objects |-> IF \E d \in set : d[1] = o
                       THEN (CHOOSE d \in set : d[1] = o)[2] ELSE documents[o]]

(* The calendar's next pass goes back from when its last call began, not
   from when its listing did. *)
Slow == source = "google_calendar" /\ Advanced.complete /\ call.began > From + Overlap

(* The corpus commits the documents and the checkpoint of a call together. *)
FinishPage ==
    /\ call.page # Absent
    /\ IF Advanced.complete /\ Candidates # {}
       THEN /\ call' = [call EXCEPT !.state = Advanced, !.page = Absent,
                                    !.confirm = Candidates, !.fetched = Item]
            /\ UNCHANGED <<documents, saved, slow>>
       ELSE /\ documents' = Stored(Item)
            /\ saved' = [Advanced EXCEPT !.candidates = IF Advanced.complete THEN {}
                                                        ELSE Candidates]
            /\ slow' = (slow \/ Slow)
            /\ call' = NoCall
    /\ UNCHANGED <<source, changes, horizon, odds, meddled>>

(* A removed message is deleted from the corpus only when a read of the
   mailbox no longer finds it. *)
Confirmed(o) == {Doc(o, IF Alive(o) THEN Revision(o) ELSE 0)}

(* A message that arrived on the same page was read already; a candidate
   whose read fails keeps its record. *)
ConfirmRemoval(o) ==
    /\ o \in call.confirm
    /\ \E answer \in {"read", "failed"} :
           LET got == IF answer = "read"
                      THEN {d \in call.fetched : d[1] # o} \cup Confirmed(o) ELSE call.fetched
           IN
           /\ answer = "failed" => Odd
           /\ answer = "read" => UNCHANGED odds
           /\ IF call.confirm = {o}
              THEN documents' = Stored(got) /\ saved' = call.state /\ call' = NoCall
              ELSE /\ call' = [call EXCEPT !.confirm = @ \ {o}, !.fetched = got]
                   /\ UNCHANGED <<documents, saved>>
    /\ UNCHANGED <<source, changes, horizon, slow, meddled>>

(* A read of a page or of one of its items fails: nothing is stored, and the
   checkpoint keeps what the call had settled before. A rejected
   continuation is dropped, except the one of Gmail's history. *)
CallFails ==
    /\ call # NoCall /\ call.confirm = {} /\ Odd
    /\ \E rejected \in BOOLEAN :
           /\ rejected => call.page = Absent /\ call.state.continuation # Absent
           /\ saved' = IF rejected /\ ~(source = "gmail" /\ call.state.phase = "changes")
                       THEN [call.state EXCEPT !.continuation = Absent] ELSE call.state
    /\ call' = NoCall
    /\ UNCHANGED <<source, changes, horizon, documents, slow, meddled>>

(* The process dies, or the corpus refuses the result as too late. *)
CallLost ==
    /\ call # NoCall /\ Odd
    /\ call' = NoCall
    /\ UNCHANGED <<source, changes, horizon, documents, saved, slow, meddled>>

--------------------------------------------------------------------------------
ProviderInit ==
    /\ FaultsInit
    /\ source \in Sources
    /\ changes = <<>> /\ horizon = 0
    /\ documents = [o \in Objects |-> 0]
    /\ saved = Absent /\ call = NoCall /\ slow = FALSE

ProviderNext ==
    \/ \E o \in Objects : Arrives(o) \/ Disappears(o) \/ ConfirmRemoval(o)
    \/ \E o \in Objects, f \in Folders : Moves(o, f)
    \/ Forgets \/ BeginCall \/ FollowCursor \/ CaptureAnchor \/ ListFolders
    \/ ListPage \/ ChangePage \/ HistoryExpired \/ FinishPage \/ CallFails \/ CallLost

(* How far a complete checkpoint vouches for an object: the next pass reads
   only what changed after it. *)
Vouched(o) ==
    CASE source = "outlook_mail" -> saved.links[changes[Revision(o)].folder]
      [] source = "google_calendar" -> IF slow THEN 0 ELSE saved.since - Overlap
      [] OTHER -> saved.cursor

(* No change falls between a listing and the changes read after it, or
   between two passes: once a checkpoint is complete, an object that has not
   changed after the cursor it carries is in the corpus as it is. *)
NothingMissed ==
    saved # Absent /\ saved.complete =>
        \A o \in Objects : Alive(o) /\ Revision(o) <= Vouched(o) => documents[o] = Revision(o)
=============================================================================
