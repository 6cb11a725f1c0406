--------------------------- MODULE StoreRecovery ---------------------------
(***************************************************************************)
(* The R1DB container supervisor (entrypoint.sh): start-up order, child    *)
(* supervision, and the bounded one-time recovery from a corrupt store.    *)
(*                                                                         *)
(* Two processes take steps: "sup", the supervising shell, and "hnd", the  *)
(* setsid worker that classifies the exit of the database and records a    *)
(* recovery.  A step is one shell command, so that a signal, a SIGKILL or  *)
(* a power loss can fall between any two of them.                          *)
(*                                                                         *)
(* fs is the recovery directory as processes see it; images holds every    *)
(* directory image since the last successful fsync of it, any of which a   *)
(* power loss may leave on disk (ordered metadata journalling).            *)
(***************************************************************************)
EXTENDS Naturals, FiniteSets

CONSTANTS
    Original,   \* the configured store, CRDB_STORE
    FreshStore, \* names mktemp may give to a fresh store
    Config,     \* environments the container may be started with
    MaxRun,     \* bound: run-log directories ever created
    Retention   \* CRDB_RECOVERY_LOG_RETENTION_RUNS

NoTopo == [node |-> 0, count |-> 0, hosts |-> 0]

\* A topology is what the node's fingerprints cover: its id, the node count
\* and (abstracted to a number) host names, ports and CA certificate.
Topo == [node : Nat, count : Nat, hosts : Nat]

ASSUME OriginalAssumption == Original \notin FreshStore
ASSUME ConfigAssumption ==
    Config \subseteq [topo : Topo, auto : BOOLEAN]
ASSUME BoundAssumption == MaxRun \in Nat /\ Retention \in Nat \ {0}

VARIABLES
    fs,        \* the recovery directory
    images,    \* directory images a power loss may leave
    runLog,    \* per run-log directory: its classifier-visible content
    runStore,  \* per run-log directory: the store it belongs to
    nextRun,   \* next run-log directory to create
    sup,       \* program point of the supervisor
    ret,       \* where fail_closed / mark_recovery_exhausted return to in sup
    hnd,       \* program point of the recovery handler
    hndFate,   \* "doomed": killed, but inside an unkillable system call
    polling,   \* what check_required_processes looks at next
    db,        \* the cockroach process
    tunnels,   \* the cloudflared processes: all alive, or not
    env,       \* environment of this container start
    active,    \* CRDB_ACTIVE_STORE
    curRun,    \* CRDB_CURRENT_RUN_LOG_DIR, 0 when unset
    newStore,  \* recovery_store of prepare_corrupt_store_recovery
    \* history
    recorded,  \* a recovery was recorded and synchronised
    sealed,    \* exhaustion was recorded and synchronised
    tainted,   \* stores in which the database reported corruption
    startedOn, \* stores the database was ever started on
    prunes     \* prunings since the marker last named a run

recoveryVars == <<fs, images>>
logVars == <<runLog, runStore, nextRun>>
procVars == <<sup, ret, hnd, hndFate, polling>>
childVars == <<db, tunnels>>
shellVars == <<env, active, curRun, newStore>>
historyVars == <<recorded, sealed, tainted, startedOn, prunes>>
vars == <<recoveryVars, logVars, procVars, childVars, shellVars, historyVars>>

Runs == 1 .. MaxRun
Stores == FreshStore \cup {Original}

Absent == [state |-> "absent", topo |-> NoTopo, store |-> Original, run |-> 0]
Invalid == [state |-> "invalid", topo |-> NoTopo, store |-> Original, run |-> 0]
Marker == [state : {"absent", "invalid", "active", "started"},
           topo : Topo, store : Stores, run : 0 .. MaxRun]
Image == [dir : BOOLEAN, tmp : BOOLEAN, stores : SUBSET FreshStore,
          marker : Marker, exhausted : Marker]

\* CRDB_RECOVERY_ACTIVE is set exactly where CRDB_ACTIVE_STORE becomes a
\* fresh store.
RecoveryActive == active # Original

\* load_recovery_marker succeeds: a well-formed file, with a run if and only
\* if it is "started".
Loadable(m) == \/ m.state = "active" /\ m.run = 0
               \/ m.state = "started" /\ m.run # 0

-----------------------------------------------------------------------------
(* Shell building blocks.                                                  *)

\* The recovery directory with one entry changed.
Directory(dir, tmp, stores, marker, exhausted) ==
    [dir |-> dir, tmp |-> tmp, stores |-> stores,
     marker |-> marker, exhausted |-> exhausted]
WithTmp(tmp) == Directory(fs.dir, tmp, fs.stores, fs.marker, fs.exhausted)
WithMarker(m) == Directory(fs.dir, fs.tmp, fs.stores, m, fs.exhausted)
WithExhausted(e) == Directory(fs.dir, fs.tmp, fs.stores, fs.marker, e)

Mutate(image) == fs' = image /\ images' = images \cup {image}
SyncDir == images' = {fs} /\ UNCHANGED fs

\* A doomed handler finishes the system call it is in and dies.
HndStep(next) == hnd' = (IF hndFate = "doomed" THEN "none" ELSE next)

At(p, label) == IF p = "sup" THEN sup = label ELSE hnd = label
Goto(p, next) == IF p = "sup" THEN sup' = next /\ UNCHANGED hnd
                              ELSE HndStep(next) /\ UNCHANGED sup

\* Where a failed or finished subroutine of each process leads.
SupExit(p) == IF p = "sup" THEN "cleanup" ELSE "exited"
ExhaustReturn(p) == IF p = "sup" THEN ret ELSE "exited"

-----------------------------------------------------------------------------
(* write_recovery_marker, run by sup (mark_recovery_started) and by hnd    *)
(* (prepare_corrupt_store_recovery).                                       *)

NewMarker(p) ==
    IF p = "sup"
    THEN [state |-> "started", topo |-> env.topo, store |-> active, run |-> curRun]
    ELSE [state |-> "active", topo |-> env.topo, store |-> newStore, run |-> 0]

\* mktemp state.tmp.XXXXXXXX
WriteMarkerTemp(p) ==
    /\ At(p, "wm_temp")
    /\ \/ Mutate(WithTmp(TRUE)) /\ Goto(p, "wm_fill")
       \/ UNCHANGED recoveryVars /\ Goto(p, SupExit(p))
    /\ UNCHANGED <<logVars, ret, hndFate, polling, childVars, shellVars, historyVars>>

\* printf, chmod and sync of the temporary file; on failure it is removed,
\* unless that fails as well.
WriteMarkerFill(p) ==
    /\ At(p, "wm_fill")
    /\ \/ UNCHANGED recoveryVars /\ Goto(p, "wm_replace")
       \/ \E left \in BOOLEAN :
            Mutate(WithTmp(left)) /\ Goto(p, SupExit(p))
    /\ UNCHANGED <<logVars, ret, hndFate, polling, childVars, shellVars, historyVars>>

\* r1-atomic-replace state.tmp state
WriteMarkerReplace(p) ==
    /\ At(p, "wm_replace")
    /\ \/ /\ fs.tmp
          /\ Mutate(Directory(fs.dir, FALSE, fs.stores, NewMarker(p), fs.exhausted))
          /\ Goto(p, "wm_sync")
       \/ \E left \in BOOLEAN :
            Mutate(WithTmp(left)) /\ Goto(p, SupExit(p))
    /\ UNCHANGED <<logVars, ret, hndFate, polling, childVars, shellVars, historyVars>>

\* Mutant: the directory is not synchronised after the marker is replaced.
WriteMarkerNoSync(p) ==
    /\ At(p, "wm_sync")
    /\ Goto(p, IF p = "sup" THEN "start" ELSE "exited")
    /\ recorded' = TRUE
    /\ prunes' = IF p = "sup" THEN 0 ELSE prunes
    /\ UNCHANGED <<recoveryVars, logVars, ret, hndFate, polling, childVars, shellVars,
                   sealed, tainted, startedOn>>

\* sync of the directory; when it fails the marker is removed again and the
\* removal synchronised, both best effort.
WriteMarkerSync(p) ==
    /\ At(p, "wm_sync")
    /\ \/ /\ SyncDir
          /\ Goto(p, IF p = "sup" THEN "start" ELSE "exited")
          /\ recorded' = TRUE
          /\ prunes' = IF p = "sup" THEN 0 ELSE prunes
       \/ \E m \in {fs.marker, Absent} :
            /\ Mutate(WithMarker(m))
            /\ Goto(p, SupExit(p))
            /\ UNCHANGED <<recorded, prunes>>
    /\ UNCHANGED <<logVars, ret, hndFate, polling, childVars, shellVars,
                   sealed, tainted, startedOn>>

-----------------------------------------------------------------------------
(* mark_recovery_exhausted, run by hnd and by sup.                         *)

\* r1-atomic-replace state exhausted
ExhaustReplace(p) ==
    /\ At(p, "ex_replace")
    /\ \/ /\ fs.marker.state # "absent"
          /\ Mutate(Directory(fs.dir, fs.tmp, fs.stores, Absent, fs.marker))
          /\ Goto(p, "ex_sync")
       \/ UNCHANGED recoveryVars /\ Goto(p, "ex_invalidate")
    /\ UNCHANGED <<logVars, ret, hndFate, polling, childVars, shellVars, historyVars>>

ExhaustSync(p) ==
    /\ At(p, "ex_sync")
    /\ \/ SyncDir /\ sealed' = TRUE
       \/ UNCHANGED recoveryVars /\ UNCHANGED sealed
    /\ Goto(p, ExhaustReturn(p))
    /\ UNCHANGED <<logVars, ret, hndFate, polling, childVars, shellVars,
                   recorded, tainted, startedOn, prunes>>

\* Overwrite the marker with garbage and drop its permissions, else remove
\* it, else drop its permissions; every one of these may fail.
ExhaustInvalidate(p) ==
    /\ At(p, "ex_invalidate")
    /\ \E m \in {fs.marker, Invalid, Absent} : Mutate(WithMarker(m))
    /\ Goto(p, ExhaustReturn(p))
    /\ UNCHANGED <<logVars, ret, hndFate, polling, childVars, shellVars, historyVars>>

-----------------------------------------------------------------------------
(* Container start and select_recovery_store.                              *)

Boot(c) ==
    /\ sup = "down"
    /\ env' = c /\ active' = Original /\ curRun' = 0
    /\ sup' = "select"
    /\ UNCHANGED <<recoveryVars, logVars, ret, hnd, hndFate, polling, childVars,
                   newStore, historyVars>>

\* The marker that counts: the sentinel if there is one.
SelectedMarker == IF fs.exhausted.state # "absent" THEN fs.exhausted ELSE fs.marker

\* Mutant: the sentinel is loaded like a marker and not checked again.
ExhaustedIgnored == Loadable(SelectedMarker) \/ fs.exhausted.state = "absent"

NotExhausted == fs.exhausted.state = "absent"

\* Every check of the recovery directory that precedes the log scan: no
\* leftover temporary file, a loadable marker of this topology, and exactly
\* the two entries "marker, its store" in the directory.
SelectableState ==
    /\ ~fs.tmp
    /\ Loadable(SelectedMarker)
    /\ SelectedMarker.topo = env.topo
    /\ SelectedMarker.store \in fs.stores
    /\ Cardinality(fs.stores) = 1
    /\ fs.exhausted.state = "absent" \/ fs.marker.state = "absent"

\* The tunnels are started; a node with peers waits for their listeners.
AfterSelect == IF env.topo.count > 1 THEN "peers" ELSE "enumerate"

\* Mutant: unusable recovery state falls back to the original store.
SelectOriginalFallback ==
    /\ sup = "select" /\ (~fs.dir \/ ~SelectableState)
    /\ sup' = AfterSelect /\ tunnels' = "up"
    /\ UNCHANGED <<recoveryVars, logVars, ret, hnd, hndFate, polling, db,
                   shellVars, historyVars>>

SelectOriginal ==
    /\ sup = "select" /\ ~fs.dir
    /\ sup' = AfterSelect /\ tunnels' = "up"
    /\ UNCHANGED <<recoveryVars, logVars, ret, hnd, hndFate, polling, db,
                   shellVars, historyVars>>

SelectReject ==
    /\ sup = "select" /\ fs.dir
    /\ ~SelectableState \/ ~NotExhausted
    /\ sup' = "cleanup"
    /\ UNCHANGED <<recoveryVars, logVars, ret, hnd, hndFate, polling, childVars,
                   shellVars, historyVars>>

UseFreshStore ==
    /\ active' = SelectedMarker.store
    /\ sup' = AfterSelect /\ tunnels' = "up"
    /\ UNCHANGED <<recoveryVars, logVars, ret, hnd, hndFate, polling, db,
                   env, curRun, newStore, historyVars>>

\* Mutant: a started fresh store is used again without a scan.
SelectFreshUnscanned ==
    /\ sup = "select" /\ fs.dir
    /\ SelectableState /\ NotExhausted
    /\ UseFreshStore

SelectFresh ==
    /\ sup = "select" /\ fs.dir
    /\ SelectableState /\ NotExhausted
    /\ SelectedMarker.state = "active"
    /\ UseFreshStore

SelectScan ==
    /\ sup = "select" /\ fs.dir
    /\ SelectableState /\ NotExhausted
    /\ SelectedMarker.state = "started"
    /\ sup' = "scan"
    /\ UNCHANGED <<recoveryVars, logVars, ret, hnd, hndFate, polling, childVars,
                   shellVars, historyVars>>

\* What the selected store holds under logs/ for the recorded run.
ScannedLog == IF runStore[SelectedMarker.run] = SelectedMarker.store
              THEN runLog[SelectedMarker.run] ELSE "absent"

\* run_recovery_log_scan_bounded returns 1: log files, none with corruption.
ScanClean ==
    /\ sup = "scan"
    /\ ScannedLog = "clean"
    /\ UseFreshStore

\* It returns 0: the recorded run reported corruption.
ScanCorrupt ==
    /\ sup = "scan"
    /\ ScannedLog = "corrupt"
    /\ sup' = "ex_replace" /\ ret' = "cleanup"
    /\ UNCHANGED <<recoveryVars, logVars, hnd, hndFate, polling, childVars,
                   shellVars, historyVars>>

\* It returns 2 (no run directory, no log file, unreadable) or 124 (timeout),
\* which can happen whatever the logs hold.
ScanUnsafe ==
    /\ sup = "scan"
    /\ sup' = "cleanup"
    /\ UNCHANGED <<recoveryVars, logVars, ret, hnd, hndFate, polling, childVars,
                   shellVars, historyVars>>

-----------------------------------------------------------------------------
(* The start-up sequence after the store is chosen.                        *)

RunsOf(s) == {r \in Runs : runStore[r] = s /\ runLog[r] # "absent"}

\* Mutant: one run too few is kept.
ExcessOffByOne ==
    {r \in RunsOf(active) :
       Cardinality({q \in RunsOf(active) : q > r}) + 1 >= Retention - 1}

\* prune_old_run_logs keeps the Retention - 1 newest runs of the active store.
Excess == {r \in RunsOf(active) :
             Cardinality({q \in RunsOf(active) : q > r}) >= Retention - 1}

\* find | sort | mapfile of the run directories.
EnumerateRuns ==
    /\ sup = "enumerate" /\ sup' = "prune"
    /\ prunes' = IF prunes < Retention THEN prunes + 1 ELSE prunes
    /\ UNCHANGED <<recoveryVars, logVars, ret, hnd, hndFate, polling, childVars,
                   shellVars, recorded, sealed, tainted, startedOn>>

\* One rm -rf, newest excess run first.
PruneOne ==
    /\ sup = "prune"
    /\ \E r \in Excess :
         /\ \A q \in Excess : q <= r
         /\ runLog' = [runLog EXCEPT ![r] = "absent"]
    /\ UNCHANGED <<recoveryVars, runStore, nextRun, procVars, childVars,
                   shellVars, historyVars>>

PruneDone ==
    /\ sup = "prune" /\ Excess = {}
    /\ sup' = "mkrun"
    /\ UNCHANGED <<recoveryVars, logVars, ret, hnd, hndFate, polling, childVars,
                   shellVars, historyVars>>

\* mktemp -d deeploy-run.XXXXXXXX
MakeRunDir ==
    /\ sup = "mkrun" /\ nextRun <= MaxRun
    /\ runLog' = [runLog EXCEPT ![nextRun] = "empty"]
    /\ runStore' = [runStore EXCEPT ![nextRun] = active]
    /\ curRun' = nextRun /\ nextRun' = nextRun + 1
    /\ sup' = IF RecoveryActive THEN "wm_temp" ELSE "start"
    /\ UNCHANGED <<recoveryVars, ret, hnd, hndFate, polling, childVars,
                   env, active, newStore, historyVars>>

\* A check or command of the start-up outside a guarded operation fails.
StartupFails ==
    /\ sup \in {"select", "enumerate", "prune", "mkrun"}
    /\ sup' = "cleanup"
    /\ UNCHANGED <<recoveryVars, logVars, ret, hnd, hndFate, polling, childVars,
                   shellVars, historyVars>>

StartDb ==
    /\ sup = "start"
    /\ db' = "up" /\ startedOn' = startedOn \cup {active}
    /\ sup' = "listen"
    /\ UNCHANGED <<recoveryVars, logVars, ret, hnd, hndFate, polling, tunnels,
                   shellVars, recorded, sealed, tainted, prunes>>

-----------------------------------------------------------------------------
(* Guarded operations and supervision (check_required_processes).          *)

Guarded == {"peers", "listen", "init", "ready", "sql", "watch"}

\* Mutant: node 1 initialises a cluster on the fresh store too.
OperationSucceededInit ==
    \/ sup = "peers" /\ sup' = "enumerate"
    \/ sup = "listen" /\ env.topo.node # 1 /\ sup' = "watch"
    \/ sup = "listen" /\ env.topo.node = 1 /\ sup' = "init"
    \/ sup = "init" /\ sup' = "ready"
    \/ sup = "ready" /\ sup' = "sql"
    \/ sup = "sql" /\ sup' = "watch"

\* The guarded operation succeeded.  Cluster initialisation and SQL bootstrap
\* are node 1's, and a recovering node 1 must not initialise a cluster.
OperationSucceeded ==
    \/ sup = "peers" /\ sup' = "enumerate"
    \/ sup = "listen" /\ env.topo.node # 1 /\ sup' = "watch"
    \/ sup = "listen" /\ env.topo.node = 1 /\ ~RecoveryActive /\ sup' = "init"
    \/ sup = "listen" /\ env.topo.node = 1 /\ RecoveryActive /\ sup' = "ready"
    \/ sup = "init" /\ sup' = "ready"
    \/ sup = "ready" /\ sup' = "sql"
    \/ sup = "sql" /\ sup' = "watch"

\* The database is checked first ...
PollDbAlive ==
    /\ sup \in Guarded /\ polling = "db"
    /\ db # "exited"
    /\ polling' = "tunnels"
    /\ UNCHANGED <<recoveryVars, logVars, sup, ret, hnd, hndFate, childVars,
                   shellVars, historyVars>>

\* ... and its exit starts the recovery handler.
PollDbExited ==
    /\ sup \in Guarded /\ polling = "db"
    /\ db = "exited"
    /\ sup' = "classify" /\ hnd' = "check" /\ hndFate' = "free"
    /\ UNCHANGED <<recoveryVars, logVars, ret, polling, childVars, shellVars,
                   historyVars>>

\* ... then the tunnels, whose exit ends the container without classifying.
PollTunnelExited ==
    /\ sup \in Guarded /\ polling = "tunnels" /\ tunnels = "down"
    /\ sup' = "cleanup" /\ polling' = "db"
    /\ UNCHANGED <<recoveryVars, logVars, ret, hnd, hndFate, childVars, shellVars,
                   historyVars>>

\* All alive: the guarded operation is still running, has succeeded, or has
\* failed or timed out (runtime supervision itself never ends that way).
PollAllAlive ==
    /\ sup \in Guarded /\ polling = "tunnels" /\ tunnels = "up"
    /\ polling' = "db"
    /\ \/ UNCHANGED sup
       \/ OperationSucceeded
       \/ sup # "watch" /\ sup' = "cleanup"
    /\ UNCHANGED <<recoveryVars, logVars, ret, hnd, hndFate, childVars, shellVars,
                   historyVars>>

-----------------------------------------------------------------------------
(* The supervised children (cockroach and cloudflared).                    *)

DbLogs ==
    /\ db = "up" /\ runLog[curRun] = "empty"
    /\ runLog' = [runLog EXCEPT ![curRun] = "clean"]
    /\ UNCHANGED <<recoveryVars, runStore, nextRun, procVars, childVars,
                   shellVars, historyVars>>

\* "local corruption detected: ... checksum mismatch" in the scanned tail.
DbReportsCorruption ==
    /\ db = "up"
    /\ runLog' = [runLog EXCEPT ![curRun] = "corrupt"]
    /\ tainted' = tainted \cup {active}
    /\ UNCHANGED <<recoveryVars, runStore, nextRun, procVars, childVars,
                   shellVars, recorded, sealed, startedOn, prunes>>

DbExits ==
    /\ db = "up" /\ db' = "exited"
    /\ UNCHANGED <<recoveryVars, logVars, procVars, tunnels, shellVars, historyVars>>

TunnelExits ==
    /\ tunnels = "up" /\ tunnels' = "down"
    /\ UNCHANGED <<recoveryVars, logVars, procVars, db, shellVars, historyVars>>

-----------------------------------------------------------------------------
(* The recovery handler: corrupt_store_recovery_handler and                *)
(* prepare_corrupt_store_recovery.                                         *)

\* Only a readable log with corruption in it makes the handler go on.
HndClassify ==
    /\ hnd = "check"
    /\ \/ runLog[curRun] = "corrupt" /\ HndStep("prepare")
       \/ HndStep("exited")
    /\ UNCHANGED <<recoveryVars, logVars, sup, ret, hndFate, polling, childVars,
                   shellVars, historyVars>>

\* The one recovery was consumed already: exhaust it, or leave it alone when
\* there is no loadable marker.
HndConsumed ==
    /\ hnd = "prepare" /\ fs.dir
    /\ HndStep(IF Loadable(fs.marker) THEN "ex_replace" ELSE "exited")
    /\ UNCHANGED <<recoveryVars, logVars, sup, ret, hndFate, polling, childVars,
                   shellVars, historyVars>>

\* Disabled, too few nodes, or too little free space: preserve the original.
HndPreserve ==
    /\ hnd = "prepare" /\ ~fs.dir
    /\ HndStep("exited")
    /\ UNCHANGED <<recoveryVars, logVars, sup, ret, hndFate, polling, childVars,
                   shellVars, historyVars>>

HndMayRecover == env.auto /\ env.topo.count >= 3

HndMakeDir ==
    /\ hnd = "prepare" /\ ~fs.dir /\ HndMayRecover
    /\ Mutate(Directory(TRUE, fs.tmp, fs.stores, fs.marker, fs.exhausted)) /\ HndStep("mkstore")
    /\ UNCHANGED <<logVars, sup, ret, hndFate, polling, childVars, shellVars,
                   historyVars>>

HndMakeStore ==
    /\ hnd = "mkstore"
    /\ \/ \E s \in FreshStore \ fs.stores :
            /\ Mutate(Directory(fs.dir, fs.tmp, fs.stores \cup {s}, fs.marker, fs.exhausted))
            /\ newStore' = s /\ HndStep("wm_temp")
       \/ UNCHANGED <<recoveryVars, newStore>> /\ HndStep("exited")
    /\ UNCHANGED <<logVars, sup, ret, hndFate, polling, childVars, env, active,
                   curRun, historyVars>>

-----------------------------------------------------------------------------
(* run_corrupt_store_recovery_bounded: waiting for, or killing, hnd.       *)

HandlerCollected ==
    /\ sup = "classify" /\ hnd = "exited"
    /\ sup' = "cleanup" /\ hnd' = "none"
    /\ UNCHANGED <<recoveryVars, logVars, ret, hndFate, polling, childVars,
                   shellVars, historyVars>>

\* Mutant: the wait for the handler has no deadline.
HandlerNeverTimesOut ==
    /\ sup = "classify" /\ hnd = "none"
    /\ sup' = "timedout"
    /\ UNCHANGED <<recoveryVars, logVars, ret, hnd, hndFate, polling, childVars,
                   shellVars, historyVars>>

HandlerTimeout ==
    /\ sup = "classify" /\ hnd # "exited"
    /\ sup' = "timedout"
    /\ UNCHANGED <<recoveryVars, logVars, ret, hnd, hndFate, polling, childVars,
                   shellVars, historyVars>>

\* terminate_recovery_handler: the group dies, or a member is stuck in the
\* kernel past TERM and KILL and the supervisor goes on without it.
Terminated == \/ hnd' = "none" /\ UNCHANGED hndFate
              \/ hnd \notin {"none", "exited"} /\ hndFate' = "doomed" /\ UNCHANGED hnd

TerminateAfterTimeout ==
    /\ sup = "timedout" /\ Terminated
    /\ sup' = "failclosed" /\ ret' = "cleanup"
    /\ UNCHANGED <<recoveryVars, logVars, polling, childVars, shellVars, historyVars>>

DoomedHandlerDies ==
    /\ hndFate = "doomed" /\ hnd # "none" /\ hnd' = "none"
    /\ UNCHANGED <<recoveryVars, logVars, sup, ret, hndFate, polling, childVars,
                   shellVars, historyVars>>

\* fail_closed_interrupted_recovery
FailClosedNothing ==
    /\ sup = "failclosed"
    /\ ~RecoveryActive \/ ~NotExhausted
    /\ sup' = ret
    /\ UNCHANGED <<recoveryVars, logVars, ret, hnd, hndFate, polling, childVars,
                   shellVars, historyVars>>

FailClosedExhaust ==
    /\ sup = "failclosed" /\ RecoveryActive
    /\ NotExhausted /\ fs.marker.state # "absent"
    /\ sup' = "ex_replace"
    /\ UNCHANGED <<recoveryVars, logVars, ret, hnd, hndFate, polling, childVars,
                   shellVars, historyVars>>

FailClosedSentinel ==
    /\ sup = "failclosed" /\ RecoveryActive
    /\ NotExhausted /\ fs.marker.state = "absent"
    /\ \E e \in {Absent, Invalid} : Mutate(WithExhausted(e))
    /\ sup' = ret
    /\ UNCHANGED <<logVars, ret, hnd, hndFate, polling, childVars, shellVars,
                   historyVars>>

-----------------------------------------------------------------------------
(* cleanup, signals and crashes.                                           *)

\* Program points of cleanup, in which the traps are reset.
InCleanup == sup \in {"cleanup", "cleanup_hnd", "cleanup_kill"} \/ ret = "exit"

\* SIGTERM or SIGINT: the trap runs cleanup before the next command.
Signal ==
    /\ sup # "down" /\ ~InCleanup
    /\ sup' = IF sup \in {"classify", "timedout"} THEN "cleanup_hnd" ELSE "cleanup"
    /\ polling' = "db"
    /\ UNCHANGED <<recoveryVars, logVars, ret, hnd, hndFate, childVars, shellVars,
                   historyVars>>

CleanupHandler ==
    /\ sup = "cleanup_hnd" /\ Terminated
    /\ sup' = "cleanup_kill"
    /\ UNCHANGED <<recoveryVars, logVars, ret, polling, childVars, shellVars,
                   historyVars>>

\* terminate_processes with a handler that had been active: fail closed last.
CleanupThenFailClosed ==
    /\ sup = "cleanup_kill"
    /\ db' = "none" /\ tunnels' = "down"
    /\ sup' = "failclosed" /\ ret' = "exit"
    /\ UNCHANGED <<recoveryVars, logVars, hnd, hndFate, polling, shellVars,
                   historyVars>>

\* The container is gone, and with it every process.
ContainerGone ==
    /\ sup' = "down" /\ ret' = "cleanup" /\ hnd' = "none" /\ hndFate' = "free"
    /\ polling' = "db" /\ db' = "none" /\ tunnels' = "down"
    /\ env' = env /\ active' = Original /\ curRun' = 0 /\ newStore' = Original

\* terminate_processes and the exit of the supervisor.
CleanupExit ==
    /\ sup \in {"cleanup", "exit"}
    /\ ContainerGone
    /\ UNCHANGED <<recoveryVars, logVars, historyVars>>

\* SIGKILL of the container at any time: the page cache survives.
Kill ==
    /\ sup # "down"
    /\ ContainerGone
    /\ UNCHANGED <<recoveryVars, logVars, historyVars>>

\* Power loss at any time: unsynchronised directory changes may be lost.
PowerLoss ==
    /\ \E image \in images : fs' = image /\ images' = {image}
    /\ ContainerGone
    /\ UNCHANGED <<logVars, historyVars>>

-----------------------------------------------------------------------------
Init ==
    /\ fs = [dir |-> FALSE, tmp |-> FALSE, stores |-> {},
             marker |-> Absent, exhausted |-> Absent]
    /\ images = {fs}
    /\ runLog = [r \in Runs |-> "absent"]
    /\ runStore = [r \in Runs |-> Original]
    /\ nextRun = 1
    /\ sup = "down" /\ ret = "cleanup" /\ hnd = "none"
    /\ hndFate = "free" /\ polling = "db"
    /\ db = "none" /\ tunnels = "down"
    /\ env \in Config /\ active = Original /\ curRun = 0 /\ newStore = Original
    /\ recorded = FALSE /\ sealed = FALSE
    /\ tainted = {} /\ startedOn = {} /\ prunes = 0

WriteRecoveryMarker(p) ==
    WriteMarkerTemp(p) \/ WriteMarkerFill(p) \/ WriteMarkerReplace(p) \/ WriteMarkerSync(p)

MarkRecoveryExhausted(p) == ExhaustReplace(p) \/ ExhaustSync(p) \/ ExhaustInvalidate(p)

SelectRecoveryStore ==
    \/ SelectOriginal \/ SelectReject \/ SelectFresh \/ SelectScan
    \/ ScanClean \/ ScanCorrupt \/ ScanUnsafe

Supervise ==
    \/ EnumerateRuns \/ PruneOne \/ PruneDone \/ MakeRunDir \/ StartupFails \/ StartDb
    \/ PollDbAlive \/ PollDbExited \/ PollTunnelExited \/ PollAllAlive

Children == DbLogs \/ DbReportsCorruption \/ DbExits \/ TunnelExits

Handler ==
    \/ HndClassify \/ HndConsumed \/ HndPreserve \/ HndMakeDir \/ HndMakeStore
    \/ WriteRecoveryMarker("hnd") \/ MarkRecoveryExhausted("hnd")

BoundedWait == HandlerCollected \/ HandlerTimeout \/ TerminateAfterTimeout

FailClosed == FailClosedNothing \/ FailClosedExhaust \/ FailClosedSentinel

Cleanup == CleanupHandler \/ CleanupThenFailClosed \/ CleanupExit

Next ==
    \/ \E c \in Config : Boot(c)
    \/ SelectRecoveryStore
    \/ Supervise
    \/ WriteRecoveryMarker("sup") \/ MarkRecoveryExhausted("sup")
    \/ Children
    \/ Handler \/ DoomedHandlerDies
    \/ BoundedWait \/ FailClosed
    \/ Cleanup \/ Signal \/ Kill \/ PowerLoss

\* The supervisor's own loop makes progress: its waits are bounded by a
\* deadline on a monotonic clock.  Nothing is assumed of the handler.
Fairness ==
    WF_vars(BoundedWait \/ FailClosed \/ Cleanup \/ MarkRecoveryExhausted("sup"))

Spec == Init /\ [][Next]_vars /\ Fairness
-----------------------------------------------------------------------------
(* Properties.                                                             *)

SupLabels ==
    {"down", "select", "scan", "peers", "enumerate", "prune", "mkrun", "start",
     "listen", "init", "ready", "sql", "watch", "classify", "timedout",
     "failclosed", "cleanup", "cleanup_hnd", "cleanup_kill", "exit",
     "wm_temp", "wm_fill", "wm_replace", "wm_sync",
     "ex_replace", "ex_sync", "ex_invalidate"}
HndLabels ==
    {"none", "check", "prepare", "mkstore", "exited",
     "wm_temp", "wm_fill", "wm_replace", "wm_sync",
     "ex_replace", "ex_sync", "ex_invalidate"}

\* Every variable of the supervisor, its handler and the recovery directory
\* stays in its range.
TypeOK ==
    /\ fs \in Image /\ images \subseteq Image /\ fs \in images
    /\ runLog \in [Runs -> {"absent", "empty", "clean", "corrupt"}]
    /\ runStore \in [Runs -> Stores]
    /\ nextRun \in 1 .. MaxRun + 1
    /\ sup \in SupLabels /\ ret \in {"cleanup", "exit"}
    /\ hnd \in HndLabels /\ hndFate \in {"free", "doomed"} /\ polling \in {"db", "tunnels"}
    /\ db \in {"none", "up", "exited"} /\ tunnels \in {"up", "down"}
    /\ env \in Config /\ active \in Stores /\ newStore \in Stores
    /\ curRun \in 0 .. MaxRun
    /\ recorded \in BOOLEAN /\ sealed \in BOOLEAN
    /\ tainted \subseteq Stores /\ startedOn \subseteq Stores
    /\ prunes \in 0 .. Retention

DbStarts == db # "up" /\ db' = "up"

\* Once a recovery has been recorded and synchronised, no later start, crash
\* or power loss lets the database run on the preserved original store again.
OriginalRetired == [][DbStarts /\ recorded => active # Original]_vars

\* Corruption is recovered from at most once: all starts on fresh stores, over
\* every restart, are on the same one.
OneFreshStore == \A s, t \in startedOn \ {Original} : s = t

\* A fresh store in which the database reported corruption is never started
\* again, even when the handler never ran, was killed, or could not write: the
\* marker names the run before the database starts, and the scan finds it.
TaintedFreshRetired == [][DbStarts /\ active # Original => active \notin tainted]_vars

\* Once exhaustion is recorded and synchronised the node never starts again.
ExhaustedIsFinal == [][DbStarts => ~sealed]_vars

\* cockroach init is never run by a node that has given up its data: it would
\* create a second cluster.
NoInitAfterRecovery == sup = "init" => ~recorded /\ startedOn \subseteq {Original}

\* The database runs on a fresh store only under a topology of three or more
\* nodes, however the operator changed the environment since the recovery.
FreshStoreNeedsPeers == db = "up" /\ active # Original => env.topo.count >= 3

\* The log of the run a loadable marker names survives fewer than Retention
\* prunings, so that the next start can inspect it.
RecordedRunRetained ==
    /\ fs.marker.state = "started" /\ prunes < Retention
    => runLog[fs.marker.run] # "absent"

\* An exited database ends the container even when the handler hangs.
DbExitEndsContainer == sup = "classify" ~> sup = "down"
=============================================================================
