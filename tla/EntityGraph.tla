---------------------------- MODULE EntityGraph ----------------------------
(* The entity records of the vault and the links that name them: current
   relationships between entities, entity links of tasks, and entity links
   of WorkThreads with a role.  A duplicate is folded into its canonical
   entity by a merge of two record writes, target first; a death between
   them leaves the target's absorption of the exact source version, and the
   same merge called again finishes it.  Every operation holds the
   vault-wide lock, so one action is one call, but for the merge, whose two
   writes are two actions: what happens between them happens after a death.
   One predicate and one entity type stand for all of them. *)
EXTENDS Naturals, FiniteSets

CONSTANTS
    Entities,       \* identifiers
    LinkTasks,      \* tasks that carry entity links
    LinkThreads,    \* WorkThreads that carry entity links
    Roles,          \* roles of a WorkThread link
    MaxRedirects,   \* max_redirects of resolve_entity (16)
    MaxGraphEdits,  \* bound: edits by callers, first writes of merges included
    NoEntity

ASSUME GraphAssumption ==
    IsFiniteSet(Entities) /\ MaxRedirects \in Nat /\ MaxGraphEdits \in Nat

VARIABLES
    status,     \* entity -> "absent", "current", "superseded" or "merged"
    into,       \* entity -> merged_into or NoEntity
    version,    \* entity -> its updated_at, as a count of its versions
    rel,        \* entity -> targets of its current relationships, as stored
    absorbed,   \* entity -> merge_absorptions: <<source, version, first target>>
    tlinks,     \* task -> entities it links
    wlinks,     \* WorkThread -> <<role, entity>> links
    told,       \* history: <<a, b>> linked by a caller and not unlinked since
    graphEdits  \* bound counter

graphVars == <<status, into, version, rel, absorbed, tlinks, wlinks, told, graphEdits>>

\* Where the redirect of an entity leads; one that is not merged stays.
Onward == [e \in Entities |-> IF status[e] = "merged" THEN into[e] ELSE e]

Along(e, far) == LET at[n \in 0..far] == IF n = 0 THEN e ELSE Onward[at[n - 1]] IN at

\* resolve_entity: the record its redirects reach, and a refusal where they
\* go on for longer than it follows them.
Reach(e) == Along(e, MaxRedirects)[MaxRedirects]
Resolves(e) == status[Reach(e)] \notin {"merged", "absent"}

\* _entity_redirect_path_contains
PathContains(e, wanted) == \E n \in 0..MaxRedirects : Along(e, MaxRedirects)[n] = wanted

\* What has taken the place of e, and what it passed on its way there, however far
\* away: for the properties and for what is remembered of the callers.
Far == MaxRedirects + Cardinality(Entities)
Heir(e) == Along(e, Far)[Far]
Passes(e, x) == \E n \in 0..Far : Along(e, Far)[n] = x

\* _assert_entity_writable
Writable(e) == status[e] = "current"

\* The current relationship of e whose target resolves to t.
RelationTo(e, t) == {r \in rel[e] : Resolves(r) /\ Reach(r) = t}

GraphEdit == graphEdits < MaxGraphEdits /\ graphEdits' = graphEdits + 1

Bump(e) == GraphEdit /\ version' = [version EXCEPT ![e] = @ + 1]

\* new_entity validates its relationships against the graph it joins.
CreateEntity(e) ==
    /\ status[e] = "absent"
    /\ status' = [status EXCEPT ![e] = "current"]
    /\ UNCHANGED <<into, version, rel, absorbed, tlinks, wlinks, told, graphEdits>>

\* update_entity: prose, aliases or references, and the move to or from
\* superseded, which only its own current relationships refuse.
UpdateEntity(e, target) ==
    /\ Bump(e) /\ status[e] \in {"current", "superseded"}
    /\ target = "superseded" => rel[e] = {}
    /\ status' = [status EXCEPT ![e] = target]
    /\ UNCHANGED <<into, rel, absorbed, tlinks, wlinks, told>>

\* link_entity: a new relationship, or an existing one to the same canonical
\* target rewritten to name it.  A second stored name of that target would
\* repeat the key, which entity_relationships refuses.
LinkEntity(e, x) ==
    LET t == Reach(x) IN
    /\ Bump(e) /\ Writable(e) /\ Resolves(x)
    /\ status[t] = "current" /\ t # e
    /\ \A r \in rel[e] : Resolves(r)
    /\ \/ RelationTo(e, t) = {} /\ rel' = [rel EXCEPT ![e] = @ \cup {t}]
       \/ \E r \in RelationTo(e, t) :
            /\ t \notin rel[e] \ {r}
            /\ rel' = [rel EXCEPT ![e] = (@ \ {r}) \cup {t}]
    /\ told' = told \cup {<<e, t>>}
    /\ UNCHANGED <<status, into, absorbed, tlinks, wlinks>>

\* Everyone whose relationships the record of e speaks for: e itself and the
\* sources whose exact version it absorbed.
SpeaksFor(e) == {e} \cup {x \in Entities : \E m \in absorbed[e] : m[1] = x /\ m[2] = version[x]}

\* unlink_entity: one current relationship becomes historical.
UnlinkEntity(e, x) ==
    LET t == Reach(x) IN
    /\ Bump(e) /\ Writable(e) /\ Resolves(x)
    /\ \A r \in rel[e] : Resolves(r)
    /\ \E r \in RelationTo(e, t) : rel' = [rel EXCEPT ![e] = @ \ {r}]
    /\ told' = {p \in told : ~(Heir(p[1]) \in SpeaksFor(e) /\ Heir(p[2]) = t)}
    /\ UNCHANGED <<status, into, absorbed, tlinks, wlinks>>

\* _assert_entity_merge_role_safe: no WorkThread would name the merged
\* identity in two roles.
RoleSafe(s, t) ==
    \A w \in LinkThreads :
        /\ \A l \in wlinks[w] : Resolves(l[2])
        /\ \A l, m \in wlinks[w] :
             Reach(l[2]) = s /\ Reach(m[2]) = t => l[1] = m[1]

\* _merge_absorptions: the source's own absorptions travel with it.
Inherited(s, t, direct) == absorbed[t] \cup absorbed[s] \cup {direct}

AbsorptionsAgree(s, t, direct) ==
    LET all == Inherited(s, t, direct) IN
    /\ \A m \in absorbed[s] \cup {direct} : m[1] # t
    /\ \A m, n \in all : m[1] = n[1] => m = n

\* The absorption the target already records of this source, if any.
Recorded(s, t) == {m \in absorbed[t] : m[1] = s}

\* Mutant: a retry finishes whatever the source has become.
AnySource(s, m) == m[2] <= version[s]

\* The recorded absorption must be of the source as it is now.
SameSource(s, m) == m[2] = version[s]

\* _relationships_after_entity_merge: the target's own relationships to the
\* source end, the source's join under canonical names, none to the target.
MergedRelationships(s, t) ==
    LET kept == {r \in rel[t] : ~PathContains(r, s)}
    IN  kept \cup {x \in {Reach(r) : r \in rel[s]} :
                     x # t /\ ~\E k \in kept : Reach(k) = x}

\* What every merge_entity asks before it writes.
Mergeable(s, t) ==
    /\ s # t /\ status[s] \in {"current", "superseded"} /\ Writable(t)
    /\ RoleSafe(s, t)

\* merge_entity, its first write: the target absorbs this exact source.
MergeAbsorb(s, x) ==
    LET t == Reach(x)
        direct == <<s, version[s], t>>
    IN
    /\ Bump(t) /\ s # x /\ Resolves(x) /\ Mergeable(s, t)
    /\ Recorded(s, t) = {} /\ AbsorptionsAgree(s, t, direct)
    /\ \A r \in rel[s] : Resolves(r) /\ status[Reach(r)] # "superseded"
    /\ \A r \in rel[t] : Resolves(r)
    /\ absorbed' = [absorbed EXCEPT ![t] = Inherited(s, t, direct)]
    /\ rel' = [rel EXCEPT ![t] = MergedRelationships(s, t)]
    /\ UNCHANGED <<status, into, tlinks, wlinks, told>>

\* merge_entity, its second write: the source becomes a redirect and keeps no
\* current relationship.  In a call that lives it follows the first at once; in
\* the retry of one that died it finds the absorption recorded.
MergeRedirect(s, x) ==
    LET t == Reach(x) IN
    /\ s # x /\ Resolves(x) /\ Mergeable(s, t)
    /\ \E m \in Recorded(s, t) :
         SameSource(s, m) /\ AbsorptionsAgree(s, t, m) /\ Inherited(s, t, m) = absorbed[t]
    /\ rel' = [rel EXCEPT ![s] = {}]
    /\ status' = [status EXCEPT ![s] = "merged"]
    /\ into' = [into EXCEPT ![s] = t]
    /\ UNCHANGED <<version, absorbed, tlinks, wlinks, told, graphEdits>>

\* A stored link read again: the canonical entity, or the stored name when it
\* does not resolve; a superseded one is refused.
Stored(e) == IF Resolves(e) THEN Reach(e) ELSE e
Refused(e) == Resolves(e) /\ status[Reach(e)] = "superseded"

\* _resolved_task_entity_links, in update_task: the links it holds are read
\* again with the ones added and removed.
UpdateTaskLinks(t, add, remove) ==
    /\ GraphEdit
    /\ \A e \in tlinks[t] \cup add \cup remove : ~Refused(e)
    /\ \A e \in add : Resolves(e)
    /\ {Reach(e) : e \in add} \cap {Stored(e) : e \in remove} = {}
    /\ tlinks' = [tlinks EXCEPT ![t] =
         ({Stored(e) : e \in tlinks[t]} \ {Stored(e) : e \in remove})
           \cup {Reach(e) : e \in add}]
    /\ UNCHANGED <<status, into, version, rel, absorbed, wlinks, told>>

StoredLink(l) == <<l[1], Stored(l[2])>>

\* _resolved_thread_entity_links: no two roles for one canonical entity.
OneRoleEach(links) == \A l, m \in links : l[2] = m[2] => l[1] = m[1]

\* _updated_thread_entity_links: an added link replaces the entity's old role.
UpdateThreadLinks(w, add, remove) ==
    LET base == {StoredLink(l) : l \in wlinks[w]}
        adds == {StoredLink(l) : l \in add}
        rems == {StoredLink(l) : l \in remove}
    IN
    /\ GraphEdit
    /\ \A l \in wlinks[w] \cup add \cup remove : ~Refused(l[2])
    /\ \A l \in add : Resolves(l[2])
    /\ OneRoleEach(base) /\ OneRoleEach(adds) /\ OneRoleEach(rems)
    /\ adds \cap rems = {}
    /\ wlinks' = [wlinks EXCEPT ![w] =
         {l \in base \ rems : \A a \in adds : a[2] # l[2]} \cup adds]
    /\ UNCHANGED <<status, into, version, rel, absorbed, tlinks, told>>

\* _merge_thread_entity_links, in merge_thread absorbing the source's links.
MergeThreadLinks(s, t) ==
    LET both == {StoredLink(l) : l \in wlinks[s] \cup wlinks[t]} IN
    /\ GraphEdit
    /\ s # t /\ \A l \in wlinks[s] \cup wlinks[t] : Resolves(l[2]) /\ ~Refused(l[2])
    /\ OneRoleEach(both)
    /\ wlinks' = [wlinks EXCEPT ![t] = both]
    /\ UNCHANGED <<status, into, version, rel, absorbed, tlinks, told>>

GraphInit ==
    /\ status = [e \in Entities |-> "absent"]
    /\ into = [e \in Entities |-> NoEntity]
    /\ version = [e \in Entities |-> 0]
    /\ rel = [e \in Entities |-> {}]
    /\ absorbed = [e \in Entities |-> {}]
    /\ tlinks = [t \in LinkTasks |-> {}]
    /\ wlinks = [w \in LinkThreads |-> {}]
    /\ told = {}
    /\ graphEdits = 0

GraphNext ==
    \/ \E e \in Entities :
         \/ CreateEntity(e)
         \/ \E s \in {"current", "superseded"} : UpdateEntity(e, s)
         \/ \E x \in Entities :
              \/ LinkEntity(e, x) \/ UnlinkEntity(e, x)
              \/ MergeAbsorb(e, x) \/ MergeRedirect(e, x)
    \/ \E t \in LinkTasks, e \in Entities :
         UpdateTaskLinks(t, {e}, {}) \/ UpdateTaskLinks(t, {}, {e})
    \/ \E w \in LinkThreads, r \in Roles, e \in Entities :
         UpdateThreadLinks(w, {<<r, e>>}, {}) \/ UpdateThreadLinks(w, {}, {<<r, e>>})
    \/ \E s, t \in LinkThreads : MergeThreadLinks(s, t)

GraphSpec == GraphInit /\ [][GraphNext]_graphVars

GraphTyped ==
    /\ status \in [Entities -> {"absent", "current", "superseded", "merged"}]
    /\ into \in [Entities -> Entities \cup {NoEntity}]
    /\ version \in [Entities -> 0..MaxGraphEdits]
    /\ rel \in [Entities -> SUBSET Entities]
    /\ absorbed \in [Entities -> SUBSET (Entities \X (0..MaxGraphEdits) \X Entities)]
    /\ tlinks \in [LinkTasks -> SUBSET Entities]
    /\ wlinks \in [LinkThreads -> SUBSET (Roles \X Entities)]
    /\ told \subseteq Entities \X Entities
    /\ graphEdits \in 0..MaxGraphEdits

(* Every relationship a caller recorded and nobody ended is still stored as
   a current one between what the two stand for today, however many merges,
   deaths between the two writes of one, retries and later edits lie
   between, and also where its target is by now too many redirects away for
   resolve_entity: it is then refused, not lost.  Only a relationship
   between a merge's own two entities ends with its first write. *)
NoRelationLost ==
    \A p \in told :
        LET a == Heir(p[1])
            b == Heir(p[2])
        IN  \/ a = b \/ \E r \in rel[a] : Heir(r) = b
            \/ \E x \in Entities : Passes(p[2], x) /\ Recorded(x, a) # {}

(* No WorkThread names one entity in two roles by names that resolve,
   whichever order its links and the merges of those entities came in: a
   merge looks at the WorkThreads, a WorkThread update at the redirects. *)
OneRolePerEntity ==
    \A w \in LinkThreads : \A l, m \in wlinks[w] :
        Resolves(l[2]) /\ Resolves(m[2]) /\ Reach(l[2]) = Reach(m[2]) => l[1] = m[1]

(* The links between records survive the merging of what they name. *)
GraphHonest == GraphTyped /\ NoRelationLost /\ OneRolePerEntity
============================================================================
