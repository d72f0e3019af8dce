---------------------------- MODULE NativeBridge ----------------------------
(* bridge_launcher.py: the native app of the Bridge. An install swaps a new
   bundle into place and an uninstall moves it away; both are announced in a
   lifecycle receipt, decided by the host's ownership receipt, and finished
   or undone by whoever next takes the lock. *)
EXTENDS HostFaults

CONSTANTS Nobody,      \* no bundle, no operation
          MaxBundles   \* bound on bundles built

(* What can be at a path, in a receipt and under way. *)
Ids == Nat \ {0}
Bundles == [id : Nat, whole : BOOLEAN]
Authorities == [state : {"none", "removed", "installed", "removing"}, id : Ids \cup {Nobody}]
Lifecycles == [kind : {"install", "uninstall"}, was : Authorities, next : Authorities,
               prior : Ids \cup {Nobody}, candidate : Ids \cup {Nobody}]
LauncherSteps == {"recover", "ready", "rollback", "put back", "restore", "unquarantine", "check",
                  "discard", "remove failed", "finish", "aside", "publish", "authorize",
                  "quarantine", "clean", "tombstone", "done", "failed"}
Launchers == [op : {"install", "uninstall", "status"}, at : LauncherSteps, closing : BOOLEAN]

ASSUME NativeConstants == Nobody \notin Nat \cup Bundles \cup Lifecycles \cup Launchers

VARIABLES bundles,     \* what is at each path: Nobody or a bundle
          authority,   \* the ownership receipt
          lifecycle,   \* the lifecycle receipt, Nobody when idle
          launcher,    \* the command that holds the lock
          built,       \* bundles built so far
          refused      \* a command gave up on what it found

nvars == <<bundles, authority, lifecycle, launcher, built, refused, odds, meddled>>

Places == {"app", "staged", "backup", "quarantine", "failed"}

(* A bundle is known by its directory identity; a removal that stops half
   way leaves the identity and not the contents. *)
Bundle(i) == [id |-> i, whole |-> TRUE]
Intact(p) == bundles[p] # Nobody /\ bundles[p].whole
Is(p, i) == bundles[p] # Nobody /\ bundles[p].id = i
Gone(p) == bundles[p] = Nobody

(* "none" and "removed" own nothing; "installed" names the app and
   "removing" the quarantined one. *)
Authority(state, i) == [state |-> state, id |-> i]

(* The authority owns exactly what is at the app's path. *)
AuthorityMatches(a) == a.state = "installed" /\ Is("app", a.id)

Lifecycle(kind, replacement, prior, candidate) ==
    [kind |-> kind, was |-> authority, next |-> replacement, prior |-> prior,
     candidate |-> candidate]

At(x) == launcher # Nobody /\ launcher.at = x
Goes(x) == launcher' = [launcher EXCEPT !.at = x]
Leaves == launcher' = Nobody
MovedBundle(from, to) == [bundles EXCEPT ![to] = bundles[from], ![from] = Nobody]

(* A command takes the lock and recovers what the last one left. *)
EnterLauncher(op) ==
    /\ launcher = Nobody
    /\ launcher' = [op |-> op, at |-> "recover", closing |-> FALSE]
    /\ UNCHANGED <<bundles, authority, lifecycle, built, refused, odds, meddled>>

GivesUp == Leaves /\ refused' = TRUE

--------------------------------------------------------------------------
(* Recovery: committed when the ownership receipt is the replacement, rolled
   back while it is still the prior one. *)

Decision ==
    LET l == lifecycle
    IN  IF l = Nobody THEN "settled"
        ELSE IF authority = l.next
        THEN IF l.kind = "install"
             THEN IF ~Is("app", l.candidate) \/ ~Intact("app") THEN "refuse"
                  ELSE IF Gone("backup") THEN "finish"
                  ELSE IF Is("backup", l.prior) THEN "discard" ELSE "refuse"
             ELSE IF Gone("app") /\ (Gone("quarantine") \/ Is("quarantine", l.prior))
                  THEN "finish" ELSE "refuse"
        ELSE IF authority # l.was THEN "refuse"
        ELSE IF l.kind = "uninstall"
        THEN IF Is("app", l.prior) /\ Gone("quarantine") THEN "check"
             ELSE IF Gone("app") /\ Is("quarantine", l.prior) THEN "unquarantine" ELSE "refuse"
        ELSE IF l.prior = Nobody
        THEN IF ~Gone("backup") THEN "refuse"
             ELSE IF Is("app", l.candidate) /\ Intact("app") THEN "rollback"
             ELSE IF Gone("app") THEN "finish" ELSE "refuse"
        ELSE IF Is("app", l.prior) /\ Gone("backup") THEN "check"
        ELSE IF Is("app", l.candidate) /\ Intact("app") /\ Is("backup", l.prior) THEN "rollback"
        ELSE IF Gone("app") /\ Is("backup", l.prior) THEN "restore"
        ELSE "refuse"

RecoverNative ==
    /\ At("recover")
    /\ IF Decision = "refuse" THEN GivesUp
       ELSE /\ Goes(IF Decision = "settled" THEN "ready" ELSE Decision)
            /\ UNCHANGED refused
    /\ UNCHANGED <<bundles, authority, lifecycle, built, odds, meddled>>

(* The bundle that failed moves out of the way, the prior one comes back, and
   then the failed one is removed. *)
RollbackMoves ==
    /\ At("rollback")
    /\ IF Is("app", lifecycle.candidate)
       THEN /\ bundles' = MovedBundle("app", "failed")
            /\ Goes(IF lifecycle.prior = Nobody THEN "remove failed" ELSE "put back")
            /\ UNCHANGED refused
       ELSE GivesUp /\ UNCHANGED bundles
    /\ UNCHANGED <<authority, lifecycle, built, odds, meddled>>

(* The prior app returns to its path, which must be free. *)
RestoreApp ==
    /\ launcher # Nobody /\ launcher.at \in {"put back", "restore", "unquarantine"}
    /\ LET from == IF At("unquarantine") THEN "quarantine" ELSE "backup"
       IN  IF Gone("app") /\ Is(from, lifecycle.prior)
           THEN /\ bundles' = MovedBundle(from, "app")
                /\ Goes(IF At("put back") THEN "remove failed" ELSE "check")
                /\ UNCHANGED refused
           ELSE GivesUp /\ UNCHANGED bundles
    /\ UNCHANGED <<authority, lifecycle, built, odds, meddled>>

(* What came back must be the app the prior receipt owns. *)
CheckRestored ==
    /\ At("check")
    /\ IF Intact("app") /\ AuthorityMatches(lifecycle.was)
       THEN Goes("finish") /\ UNCHANGED refused
       ELSE GivesUp
    /\ UNCHANGED <<bundles, authority, lifecycle, built, odds, meddled>>

(* A removal empties the directory and then unlinks it, and only the one it
   was asked for. *)
Removals ==
    {[at |-> "clean", place |-> "quarantine", id |-> authority.id, then |-> "tombstone"]}
    \cup IF lifecycle = Nobody THEN {}
         ELSE {[at |-> "discard", place |-> "backup", id |-> lifecycle.prior, then |-> "finish"],
               [at |-> "remove failed", place |-> "failed", id |-> lifecycle.candidate,
                then |-> IF lifecycle.prior = Nobody THEN "finish" ELSE "check"]}

RemoveTree ==
    /\ \E r \in Removals :
          /\ At(r.at)
          /\ IF Gone(r.place) THEN Goes(r.then) /\ UNCHANGED <<bundles, refused>>
             ELSE IF ~Is(r.place, r.id) THEN GivesUp /\ UNCHANGED bundles
             ELSE /\ bundles' = IF Intact(r.place) THEN [bundles EXCEPT ![r.place].whole = FALSE]
                                ELSE [bundles EXCEPT ![r.place] = Nobody]
                  /\ UNCHANGED <<launcher, refused>>
    /\ UNCHANGED <<authority, lifecycle, built, odds, meddled>>

(* The lifecycle receipt becomes idle. A failed write leaves either. *)
FinishLifecycle ==
    /\ At("finish")
    /\ \/ /\ lifecycle' = Nobody
          /\ IF launcher.closing
             THEN Goes(IF authority # lifecycle.next THEN "failed"
                       ELSE IF launcher.op = "uninstall" THEN "clean" ELSE "done")
             ELSE Goes("ready")
          /\ UNCHANGED odds
       \/ Odd /\ lifecycle' \in {lifecycle, Nobody} /\ Leaves
    /\ UNCHANGED <<bundles, authority, built, refused, meddled>>

--------------------------------------------------------------------------
(* Install. *)

(* Refused over a foreign or a changed app, over a receipt without its app,
   and while a removal is pending. Otherwise a bundle is built and checked,
   and announced before anything moves. *)
InstallAllowed ==
    IF Gone("app") THEN authority.state \in {"none", "removed"}
    ELSE AuthorityMatches(authority) /\ Intact("app")

BeginSwap ==
    /\ At("ready") /\ launcher.op = "install"
    /\ IF ~InstallAllowed
       THEN /\ Leaves
            /\ refused' = (refused \/ authority.state # "removing")
            /\ UNCHANGED <<bundles, lifecycle, built, odds>>
       ELSE /\ built < MaxBundles /\ built' = built + 1
            /\ bundles' = [bundles EXCEPT !["staged"] = Bundle(built + 1)]
            /\ LET prior == IF Gone("app") THEN Nobody ELSE bundles["app"].id
                   op == Lifecycle("install", Authority("installed", built + 1), prior, built + 1)
               IN  \/ lifecycle' = op /\ Goes("aside") /\ UNCHANGED odds
                   \/ Odd /\ lifecycle' \in {lifecycle, op} /\ Leaves
            /\ UNCHANGED refused
    /\ UNCHANGED <<authority, meddled>>

(* The installed app is the one wanted already. *)
InstallUnchanged ==
    /\ At("ready") /\ launcher.op = "install" /\ ~Gone("app") /\ InstallAllowed
    /\ Leaves
    /\ UNCHANGED <<bundles, authority, lifecycle, built, refused, odds, meddled>>

Closes == launcher' = [launcher EXCEPT !.at = "recover", !.closing = TRUE]

(* The prior app moves aside when it is still the one that was seen. *)
SwapAside ==
    /\ At("aside")
    /\ IF (IF lifecycle.prior = Nobody THEN Gone("app") ELSE Is("app", lifecycle.prior))
       THEN /\ bundles' = IF Gone("app") THEN bundles ELSE MovedBundle("app", "backup")
            /\ Goes("publish")
       ELSE Closes /\ UNCHANGED bundles
    /\ UNCHANGED <<authority, lifecycle, built, refused, odds, meddled>>

(* Mutant: the prior app is discarded as soon as the new one is in place. *)
SwapDiscards ==
    /\ At("publish") /\ Gone("app")
    /\ bundles' = [MovedBundle("staged", "app") EXCEPT !["backup"] = Nobody]
    /\ Goes("authorize")
    /\ UNCHANGED <<authority, lifecycle, built, refused, odds, meddled>>

(* The new one takes its place, unless something else did; when the rename
   fails the prior app goes back. *)
SwapPublish ==
    /\ At("publish")
    /\ \/ /\ Gone("app")
          /\ bundles' = MovedBundle("staged", "app") /\ Goes("authorize") /\ UNCHANGED odds
       \/ /\ IF Gone("app") THEN Odd ELSE UNCHANGED odds
          /\ bundles' = IF Gone("app") /\ lifecycle.prior # Nobody
                        THEN MovedBundle("backup", "app") ELSE bundles
          /\ Closes
    /\ UNCHANGED <<authority, lifecycle, built, refused, meddled>>

(* The ownership receipt is replaced; a write that fails may have happened. *)
Authorize ==
    /\ At("authorize")
    /\ \/ authority' = lifecycle.next /\ UNCHANGED odds
       \/ Odd /\ UNCHANGED authority
    /\ Closes
    /\ UNCHANGED <<bundles, lifecycle, built, refused, meddled>>

(* The closing recovery decided: done, or the failure is told. *)
EndInstall ==
    /\ At("done") \/ At("failed")
    /\ Leaves
    /\ UNCHANGED <<bundles, authority, lifecycle, built, refused, odds, meddled>>

--------------------------------------------------------------------------
(* Uninstall. *)

BeginRemoval ==
    /\ At("ready") /\ launcher.op = "uninstall"
    /\ IF Gone("app")
       THEN IF authority.state = "removing" THEN Goes("clean") /\ UNCHANGED <<lifecycle, refused, odds>>
            ELSE /\ Leaves /\ refused' = (refused \/ authority.state = "installed")
                 /\ UNCHANGED <<lifecycle, odds>>
       ELSE IF ~AuthorityMatches(authority) \/ ~Intact("app")
       THEN GivesUp /\ UNCHANGED <<lifecycle, odds>>
       ELSE LET i == bundles["app"].id
                op == Lifecycle("uninstall", Authority("removing", i), i, Nobody)
            IN  /\ \/ lifecycle' = op /\ Goes("quarantine") /\ UNCHANGED odds
                   \/ Odd /\ lifecycle' \in {lifecycle, op} /\ Leaves
                /\ UNCHANGED refused
    /\ UNCHANGED <<bundles, authority, built, meddled>>

QuarantineApp ==
    /\ At("quarantine")
    /\ IF Is("app", lifecycle.prior)
       THEN bundles' = MovedBundle("app", "quarantine") /\ Goes("authorize")
       ELSE Closes /\ UNCHANGED bundles
    /\ UNCHANGED <<authority, lifecycle, built, refused, odds, meddled>>

(* With the quarantined bundle removed, the receipt becomes a tombstone. *)
Tombstone ==
    /\ At("tombstone")
    /\ \/ authority' = Authority("removed", Nobody) /\ UNCHANGED odds
       \/ Odd /\ UNCHANGED authority
    /\ Leaves
    /\ UNCHANGED <<bundles, lifecycle, built, refused, meddled>>

(* Status and open only look, after their recovery; open starts a current
   and healthy app. *)
StatusNative ==
    /\ At("ready") /\ launcher.op = "status"
    /\ Leaves
    /\ UNCHANGED <<bundles, authority, lifecycle, built, refused, odds, meddled>>

--------------------------------------------------------------------------
(* Any step of the file system may fail, which a swap hands to its closing
   recovery and everything else to the next command; or the process dies. *)
LauncherFails ==
    /\ launcher # Nobody /\ Odd
    /\ \/ launcher.at \in {"aside", "quarantine", "authorize"} /\ Closes
       \/ Leaves
    /\ UNCHANGED <<bundles, authority, lifecycle, built, refused, meddled>>

(* The temporary directory of the build goes with a command that ends, and
   stays, unused, when it died. *)
BuildDiscarded ==
    /\ launcher = Nobody /\ ~Gone("staged")
    /\ bundles' = [bundles EXCEPT !["staged"] = Nobody]
    /\ UNCHANGED <<authority, lifecycle, launcher, built, refused, odds, meddled>>

(* Somebody removes the app, or puts one of their own in its place. *)
MeddleApp ==
    /\ Odd /\ meddled' = TRUE
    /\ bundles' = [bundles EXCEPT !["app"] = IF Gone("app") THEN Bundle(0) ELSE Nobody]
    /\ bundles["app"] # Bundle(0)
    /\ UNCHANGED <<authority, lifecycle, launcher, built, refused>>

NativeInit ==
    /\ FaultsInit
    /\ bundles = [p \in Places |-> Nobody]
    /\ authority = Authority("none", Nobody)
    /\ lifecycle = Nobody /\ launcher = Nobody
    /\ built = 0 /\ refused = FALSE

NativeNext ==
    \/ \E op \in {"install", "uninstall", "status"} : EnterLauncher(op)
    \/ RecoverNative \/ RollbackMoves \/ RestoreApp \/ CheckRestored \/ RemoveTree
    \/ FinishLifecycle
    \/ BeginSwap \/ InstallUnchanged \/ SwapAside \/ SwapPublish \/ Authorize \/ EndInstall
    \/ BeginRemoval \/ QuarantineApp \/ Tombstone \/ StatusNative
    \/ LauncherFails \/ BuildDiscarded \/ MeddleApp

NativeSpec == NativeInit /\ [][NativeNext]_nvars

(* However a command ends, and wherever one dies, the app that the host's
   receipt owns is whole at its own path or beside it, the next command can
   always go on, and an app that is not Seld's is never removed
   (bridge_launcher.py, _recover_native_install, _recover_native_uninstall,
   _swap_application, _rmtree_exact). *)
AppRecoverable ==
    /\ ~meddled =>
         /\ ~refused
         /\ authority.state = "installed" =>
              \E p \in {"app", "backup", "quarantine"} : Is(p, authority.id) /\ Intact(p)
    /\ \A p \in Places : Is(p, 0) => bundles[p].whole
=============================================================================
