------------------------ MODULE StoreRecoveryProofs ------------------------
(***************************************************************************)
(* The safety properties of StoreRecovery, proved for every set of         *)
(* configurations, every retention and any number of runs and restarts.    *)
(*                                                                         *)
(* None of them is inductive.  IInv adds what every directory image that a *)
(* power loss may leave has in common (GoodImage), where the two processes *)
(* and the database may be together (ControlOK), and what the recording    *)
(* handler and a boot on the fresh store have established so far.          *)
(***************************************************************************)
EXTENDS StoreRecovery, FiniteSetTheorems, TLAPS


Recording == {"mkstore", "wm_temp", "wm_fill", "wm_replace", "wm_sync"}
Exhausting == {"ex_replace", "ex_sync", "ex_invalidate"}

\* Program points between the choice of the store and the database's start.
Starting == {"peers", "enumerate", "prune", "mkrun", "wm_temp", "wm_fill",
             "wm_replace", "wm_sync", "start"}
Serving == {"listen", "init", "ready", "sql", "watch"}
\* Program points at which a handler may be alive.
Ending == {"classify", "timedout", "failclosed", "cleanup", "cleanup_hnd",
           "cleanup_kill", "exit"}

\* A marker that names a store: it is of a topology of three or more nodes,
\* and a run it names is a run of that store.
MarkerOK(m, stores) ==
    m.state \in {"active", "started"} =>
        /\ m.store \in stores /\ m.topo.count >= 3
        /\ m.state = "active" => m.run = 0
        /\ m.state = "started" =>
             m.run \in 1 .. (nextRun - 1) /\ runStore[m.run] = m.store

\* What every directory image a power loss may leave satisfies.
ImageOK(im) ==
    /\ ~im.dir => /\ ~im.tmp /\ im.stores = {}
                  /\ im.marker.state = "absent" /\ im.exhausted.state = "absent"
    /\ \A s, t \in im.stores : s = t
    /\ MarkerOK(im.marker, im.stores) /\ MarkerOK(im.exhausted, im.stores)

\* An image that lets no later boot use its store without finding corruption.
Condemned(im) ==
    im.exhausted.state = "absent" =>
        /\ im.marker.state # "active"
        /\ im.marker.state = "started" => runLog[im.marker.run] = "corrupt"

\* An image that is well formed and remembers what the history requires.
GoodImage(im) ==
    /\ im \in Image /\ ImageOK(im)
    /\ recorded => im.dir
    /\ \A s \in startedOn \ {Original} : s \in im.stores
    /\ tainted \subseteq {Original} \/ Condemned(im)
    /\ sealed => im.exhausted.state # "absent"

ImagesOK == fs \in images /\ \A im \in images : GoodImage(im)

HistoryOK ==
    /\ startedOn \subseteq {Original} \/ recorded
    /\ tainted \subseteq startedOn

\* Where each process may be, given where the others are.
ControlOK ==
    /\ hnd # "none" => sup \in Ending \cup Exhausting
    /\ db = "up" => /\ hnd = "none" /\ sup \in Serving \cup {"cleanup"}
                    /\ active \in startedOn
    /\ sup \in Starting \cup {"down", "select", "scan"} => db = "none"
    /\ sup \in Serving => db # "none"
    /\ ret = "exit" => sup \in {"failclosed", "exit"} \cup Exhausting
    /\ active # Original => fs.dir /\ env.topo.count >= 3
    /\ sup \in {"down", "select", "scan", "init"} => active = Original
    /\ sup \in Exhausting \cup {"scan"} => fs.dir
    /\ sup = "ex_sync" \/ hnd = "ex_sync" => fs.exhausted.state # "absent"
    /\ sup \in {"wm_temp", "wm_fill", "wm_replace", "wm_sync"} => active # Original
    /\ hnd \in Exhausting => fs.dir /\ active # Original
    /\ active = Original /\ sup \in Starting \cup Serving => ~fs.dir
    /\ active = Original /\ hnd \in {"check", "prepare"} => ~fs.dir

\* The handler that records a recovery works in a directory it has just made.
RecordingOK ==
    hnd \in Recording =>
        /\ active = Original /\ sup \in Ending
        /\ fs.dir /\ env.topo.count >= 3
        /\ ~recorded /\ fs.exhausted.state = "absent"
        /\ hnd = "mkstore" => fs.stores = {}
        /\ hnd # "mkstore" => newStore \in fs.stores

\* A boot that chose the fresh store, up to and after the database's start.
FreshBootOK ==
    active # Original =>
        /\ sup \in Starting =>
             /\ active \in fs.stores /\ active \notin tainted
             /\ fs.exhausted.state = "absent"
        /\ sup \in {"wm_temp", "wm_fill", "wm_replace", "wm_sync", "start"} =>
             curRun \in 1 .. (nextRun - 1) /\ runStore[curRun] = active
        /\ sup = "wm_sync" =>
             fs.marker.state = "started" /\ fs.marker.run = curRun
        /\ sup = "start" \/ db = "up" =>
             /\ images = {fs} /\ recorded /\ active \in fs.stores
             /\ fs.exhausted.state = "absent"
             /\ fs.marker.state = "started" /\ fs.marker.run = curRun

\* The scanned marker is the one the select checks accepted.
ScanOK == sup = "scan" => /\ SelectableState /\ fs.exhausted.state = "absent"
                          /\ fs.marker.state = "started"

IInv == /\ TypeOK /\ ImagesOK /\ HistoryOK /\ ControlOK
        /\ RecordingOK /\ FreshBootOK /\ ScanOK
-----------------------------------------------------------------------------
\* Steps that leave the recovery directory, the logs and the history alone
\* keep every image good.
LEMMA Frame ==
  ASSUME IInv,
         UNCHANGED <<fs, images, runLog, runStore, nextRun,
                     recorded, sealed, tainted, startedOn>>
  PROVE  ImagesOK' /\ HistoryOK'
  BY DEF IInv, ImagesOK, HistoryOK, GoodImage, ImageOK, MarkerOK, Condemned

\* A change of the directory keeps every image good if the new one is.
LEMMA NewImage ==
  ASSUME IInv, NEW im, GoodImage(im), fs' = im, images' = images \cup {im},
         UNCHANGED <<runLog, runStore, nextRun, recorded, sealed, tainted, startedOn>>
  PROVE  ImagesOK' /\ HistoryOK'
  BY DEF IInv, ImagesOK, HistoryOK, GoodImage, ImageOK, MarkerOK, Condemned

\* The two markers that name no store are markers.
LEMMA NoStoreMarkers == Absent \in Marker /\ Invalid \in Marker
  BY BoundAssumption DEF Absent, Invalid, Marker, Topo, NoTopo, Stores

USE OriginalAssumption, ConfigAssumption, BoundAssumption
USE DEF recoveryVars, logVars, procVars, childVars, shellVars, historyVars

-----------------------------------------------------------------------------
\* Container start and the choice of the store keep the invariant.
LEMMA SelectStep ==
  ASSUME IInv, (\E c \in Config : Boot(c)) \/ SelectRecoveryStore PROVE IInv'
<1>1. ImagesOK' /\ HistoryOK'
  BY Frame DEF SelectRecoveryStore, Boot, SelectOriginal, SelectReject, SelectFresh,
               SelectScan, ScanClean, ScanCorrupt, ScanUnsafe, UseFreshStore
<1>2. ASSUME SelectableState, NotExhausted
      PROVE  /\ fs.dir /\ fs.marker.store \in fs.stores /\ fs.marker.topo.count >= 3
             /\ fs.marker.store \in FreshStore /\ env.topo = fs.marker.topo
  BY <1>2 DEF SelectableState, NotExhausted, SelectedMarker, Loadable, IInv, ImagesOK,
              GoodImage, ImageOK, MarkerOK, Image, Marker
<1>3. ASSUME SelectableState, NotExhausted, ~ Condemned(fs)
      PROVE  fs.marker.store \notin tainted
  BY <1>2, <1>3 DEF IInv, ImagesOK, GoodImage
<1> USE DEF IInv, TypeOK, ControlOK, RecordingOK, FreshBootOK, ScanOK, Recording,
            Exhausting, Starting, Serving, Ending, SupLabels, HndLabels, Stores
<1>4. CASE \E c \in Config : Boot(c)
  BY <1>1, <1>4 DEF Boot
<1>5. CASE SelectOriginal
  BY <1>1, <1>5 DEF SelectOriginal, AfterSelect
<1>6. CASE SelectReject \/ SelectScan \/ ScanUnsafe
  BY <1>1, <1>6 DEF SelectReject, SelectScan, ScanUnsafe, SelectableState,
                    SelectedMarker, NotExhausted, Loadable
<1>7. CASE ScanCorrupt
  BY <1>1, <1>7 DEF ScanCorrupt
<1>8. CASE SelectFresh
  <2>1. SelectableState /\ NotExhausted /\ ~Condemned(fs) /\ active' = fs.marker.store
    BY <1>8 DEF SelectFresh, UseFreshStore, SelectedMarker, NotExhausted, Condemned
  <2> QED BY <1>1, <1>2, <1>3, <1>8, <2>1 DEF SelectFresh, UseFreshStore, AfterSelect, NotExhausted
<1>9. CASE ScanClean
  <2>1. SelectableState /\ NotExhausted /\ ~Condemned(fs) /\ active' = fs.marker.store
    BY <1>9 DEF ScanClean, UseFreshStore, SelectedMarker, NotExhausted, Condemned, ScannedLog
  <2> QED BY <1>1, <1>2, <1>3, <1>9, <2>1 DEF ScanClean, UseFreshStore, AfterSelect, NotExhausted
<1> QED BY <1>4, <1>5, <1>6, <1>7, <1>8, <1>9 DEF SelectRecoveryStore

\* Start-up after the choice, up to the start of the database.
LEMMA StartupStep ==
  ASSUME IInv, EnumerateRuns \/ PruneDone \/ StartupFails PROVE IInv'
<1>1. ImagesOK' /\ HistoryOK'
  BY Frame DEF EnumerateRuns, PruneDone, StartupFails
<1> QED
  BY <1>1 DEF EnumerateRuns, PruneDone, StartupFails, IInv, TypeOK, ControlOK, RecordingOK,
       FreshBootOK, ScanOK, Recording, Exhausting, Starting, Serving, Ending, SupLabels,
       HndLabels, Stores

\* Supervision, exits of children and signals.
LEMMA SuperviseStep ==
  ASSUME IInv,
         \/ PollDbAlive \/ PollDbExited \/ PollTunnelExited \/ PollAllAlive
         \/ DbExits \/ TunnelExits \/ Signal
  PROVE  IInv'
<1>1. ImagesOK' /\ HistoryOK'
  BY Frame DEF PollDbAlive, PollDbExited, PollTunnelExited, PollAllAlive, DbExits,
               TunnelExits, Signal
<1> USE DEF IInv, TypeOK, ControlOK, RecordingOK, FreshBootOK, ScanOK, Recording,
            Exhausting, Starting, Serving, Ending, SupLabels, HndLabels, Stores
<1>2. CASE PollDbAlive \/ PollDbExited \/ PollTunnelExited
  BY <1>1, <1>2 DEF PollDbAlive, PollDbExited, PollTunnelExited, Guarded
<1>3. CASE PollAllAlive
  BY <1>1, <1>3 DEF PollAllAlive, Guarded, OperationSucceeded, RecoveryActive
<1>4. CASE DbExits \/ TunnelExits
  BY <1>1, <1>4 DEF DbExits, TunnelExits, SelectableState, SelectedMarker, Loadable
<1>5. CASE Signal
  BY <1>1, <1>5 DEF Signal, InCleanup
<1> QED BY <1>2, <1>3, <1>4, <1>5

\* The steps of the handler, of the supervisor waiting for it, and of
\* cleanup that do not touch the directory.
LEMMA EndingStep ==
  ASSUME IInv,
         \/ HndClassify \/ HndConsumed \/ HndPreserve \/ DoomedHandlerDies
         \/ BoundedWait \/ FailClosedNothing \/ FailClosedExhaust \/ Cleanup \/ Kill
  PROVE  IInv'
<1>1. ImagesOK' /\ HistoryOK'
  BY Frame DEF HndClassify, HndConsumed, HndPreserve, DoomedHandlerDies, BoundedWait,
       HandlerCollected, HandlerTimeout, TerminateAfterTimeout, FailClosedNothing,
       FailClosedExhaust, Cleanup, CleanupHandler, CleanupThenFailClosed, CleanupExit,
       Kill
<1> USE DEF IInv, TypeOK, ControlOK, RecordingOK, FreshBootOK, ScanOK, Recording,
            Exhausting, Starting, Serving, Ending, SupLabels, HndLabels, Stores
<1>2. CASE HndClassify \/ HndConsumed \/ HndPreserve \/ DoomedHandlerDies
  BY <1>1, <1>2 DEF HndClassify, HndConsumed, HndPreserve, DoomedHandlerDies, HndStep
<1>3. CASE BoundedWait
  BY <1>1, <1>3 DEF BoundedWait, HandlerCollected, HandlerTimeout,
                    TerminateAfterTimeout, Terminated
<1>4. CASE FailClosedNothing \/ FailClosedExhaust
  BY <1>1, <1>4 DEF FailClosedNothing, FailClosedExhaust, RecoveryActive
<1>5. CASE Cleanup
  BY <1>1, <1>5 DEF Cleanup, CleanupHandler, CleanupThenFailClosed, CleanupExit,
                    Terminated, ContainerGone
<1>6. CASE Kill
  BY <1>1, <1>6 DEF Kill, ContainerGone
<1> QED BY <1>2, <1>3, <1>4, <1>5, <1>6

-----------------------------------------------------------------------------
\* Pruning removes no log that condemns a store: the boot that prunes found
\* its store clean, or runs on the original store.
LEMMA PruneStep == ASSUME IInv, PruneOne PROVE IInv'
<1>1. PICK r \in Excess : runLog' = [runLog EXCEPT ![r] = "absent"]
  BY DEF PruneOne
<1>2. r \in Runs /\ runStore[r] = active
  BY <1>1 DEF Excess, RunsOf
<1>3. ASSUME NEW im \in images PROVE GoodImage(im)'
  <2>1. GoodImage(im) /\ GoodImage(fs)
    BY <1>3 DEF IInv, ImagesOK
  <2>2. ~(tainted \subseteq {Original}) => active = Original
    BY <2>1 DEF PruneOne, IInv, FreshBootOK, Starting, HistoryOK, GoodImage, ImageOK
  <2>3. Condemned(im) /\ ~(tainted \subseteq {Original}) => Condemned(im)'
    BY <1>1, <1>2, <2>1, <2>2
       DEF Condemned, GoodImage, ImageOK, MarkerOK, IInv, TypeOK, Runs, Image, Marker
  <2> QED BY <2>1, <2>3 DEF GoodImage, ImageOK, MarkerOK, PruneOne
<1>4. ImagesOK' /\ HistoryOK'
  BY <1>3 DEF PruneOne, IInv, ImagesOK, HistoryOK
<1> QED
  BY <1>1, <1>4 DEF PruneOne, IInv, TypeOK, ControlOK, RecordingOK, FreshBootOK, ScanOK,
       Recording, Exhausting, Starting, Serving, Ending

\* A new run directory is one no marker names yet.
LEMMA MakeRunDirStep == ASSUME IInv, MakeRunDir PROVE IInv'
<1>1. ASSUME NEW im \in images PROVE GoodImage(im)'
  <2>1. GoodImage(im)
    BY <1>1 DEF IInv, ImagesOK
  <2>2. ASSUME NEW m \in Marker, MarkerOK(m, im.stores)
        PROVE  MarkerOK(m, im.stores)'
    BY <2>2 DEF MarkerOK, MakeRunDir, IInv, TypeOK, Marker, Runs
  <2>3. Condemned(im) => Condemned(im)'
    BY <2>1 DEF Condemned, MakeRunDir, GoodImage, ImageOK, MarkerOK, IInv, TypeOK, Runs,
                Image, Marker
  <2>4. im.marker \in Marker /\ im.exhausted \in Marker
    BY <2>1 DEF GoodImage, Image
  <2>5. ImageOK(im)'
    BY <2>1, <2>2, <2>4 DEF GoodImage, ImageOK
  <2> QED BY <2>1, <2>3, <2>5 DEF GoodImage, MakeRunDir
<1>2. ImagesOK' /\ HistoryOK'
  BY <1>1 DEF MakeRunDir, IInv, ImagesOK, HistoryOK
<1> QED
  BY <1>2 DEF MakeRunDir, RecoveryActive, IInv, TypeOK, ControlOK, RecordingOK,
       FreshBootOK, ScanOK, Recording, Exhausting, Starting, Serving, Ending, SupLabels,
       Runs

\* The database's own log entries: a corruption report on the fresh store
\* condemns every image, because the marker already names the current run.
LEMMA LogStep == ASSUME IInv, DbLogs \/ DbReportsCorruption PROVE IInv'
<1>1. ASSUME NEW im \in images PROVE GoodImage(im)'
  <2>1. GoodImage(im) /\ GoodImage(fs)
    BY <1>1 DEF IInv, ImagesOK
  <2>2. Condemned(im) => Condemned(im)'
    BY <2>1 DEF DbLogs, DbReportsCorruption, Condemned, GoodImage, ImageOK, MarkerOK,
                Image, Marker, IInv, TypeOK, Runs
  <2>3. ASSUME DbReportsCorruption, active # Original PROVE Condemned(im)'
    <3>1. im = fs /\ fs.marker.state = "started" /\ fs.marker.run = curRun
      BY <1>1, <2>3 DEF DbReportsCorruption, IInv, FreshBootOK
    <3> QED
      BY <2>1, <2>3, <3>1 DEF DbReportsCorruption, Condemned, GoodImage, ImageOK, MarkerOK,
                              Image, Marker, IInv, TypeOK, Runs
  <2> QED
    BY <2>1, <2>2, <2>3 DEF DbLogs, DbReportsCorruption, GoodImage, ImageOK, MarkerOK
<1>2. ImagesOK' /\ HistoryOK'
  BY <1>1 DEF DbLogs, DbReportsCorruption, IInv, ImagesOK, HistoryOK, ControlOK
<1> QED
  BY <1>2 DEF DbLogs, DbReportsCorruption, IInv, TypeOK, ControlOK, RecordingOK,
       FreshBootOK, ScanOK, Recording, Exhausting, Starting, Serving, Ending, Stores

\* The database is started on the original store before any recovery, or on
\* the one fresh store that every image knows.
LEMMA StartDbStep == ASSUME IInv, StartDb PROVE IInv'
<1>1. GoodImage(fs)
  BY DEF IInv, ImagesOK
<1>2. ASSUME NEW im \in images PROVE GoodImage(im)'
  BY <1>1, <1>2 DEF StartDb, IInv, ImagesOK, GoodImage, ImageOK, MarkerOK, Condemned,
                    FreshBootOK
<1>3. ImagesOK' /\ HistoryOK'
  BY <1>2 DEF StartDb, IInv, ImagesOK, HistoryOK, FreshBootOK
<1> QED
  BY <1>3 DEF StartDb, IInv, TypeOK, ControlOK, RecordingOK, FreshBootOK, ScanOK,
       Recording, Exhausting, Starting, Serving, Ending, SupLabels

-----------------------------------------------------------------------------
\* Changes of the recovery directory by the recording handler.
LEMMA RecordStep == ASSUME IInv, HndMakeDir \/ HndMakeStore PROVE IInv'
<1>1. GoodImage(fs)
  BY DEF IInv, ImagesOK
<1> USE DEF IInv, TypeOK, ControlOK, RecordingOK, FreshBootOK, ScanOK, Recording,
            Exhausting, Starting, Serving, Ending, SupLabels, HndLabels, Stores
<1>2. CASE HndMakeDir
  <2> DEFINE im == Directory(TRUE, fs.tmp, fs.stores, fs.marker, fs.exhausted)
  <2>1. GoodImage(im)
    BY <1>1, <1>2 DEF GoodImage, ImageOK, MarkerOK, Condemned, Image, Marker, Directory
  <2>2. ImagesOK' /\ HistoryOK'
    BY <1>2, <2>1, NewImage DEF HndMakeDir, Mutate
  <2>3. active = Original /\ env.topo.count >= 3 /\ ~recorded /\ fs.stores = {}
        /\ fs.exhausted.state = "absent"
    BY <1>1, <1>2 DEF HndMakeDir, HndMayRecover, GoodImage, ImageOK
  <2>4. fs' \in Image /\ images' \subseteq Image /\ fs' \in images'
    BY <2>2 DEF ImagesOK, GoodImage
  <2> QED
    BY <1>2, <2>2, <2>3, <2>4 DEF HndMakeDir, Mutate, HndStep, Directory
<1>3. CASE HndMakeStore
  <2>1. ImagesOK' /\ HistoryOK'
    <3>1. CASE UNCHANGED recoveryVars
      BY <1>3, <3>1, Frame DEF HndMakeStore
    <3>2. ASSUME NEW s \in FreshStore,
                 Mutate(Directory(fs.dir, fs.tmp, fs.stores \cup {s}, fs.marker, fs.exhausted))
          PROVE  ImagesOK' /\ HistoryOK'
      <4> DEFINE im == Directory(fs.dir, fs.tmp, fs.stores \cup {s}, fs.marker, fs.exhausted)
      <4>1. GoodImage(im)
        BY <1>1, <1>3 DEF HndMakeStore, GoodImage, ImageOK, MarkerOK, Condemned, Image,
                          Marker, Directory
      <4> QED BY <1>3, <3>2, <4>1, NewImage DEF HndMakeStore, Mutate
    <3> QED BY <1>3, <3>1, <3>2 DEF HndMakeStore
  <2>2. fs' \in Image /\ images' \subseteq Image /\ fs' \in images'
    BY <2>1 DEF ImagesOK, GoodImage
  <2> QED
    BY <1>3, <2>1, <2>2 DEF HndMakeStore, Mutate, HndStep, Directory
<1> QED BY <1>2, <1>3

\* While a marker is being written, no fresh store has reported corruption,
\* and the marker to be written is a good one.
LEMMA WritingMarker ==
  ASSUME IInv, NEW p \in {"sup", "hnd"},
         \E l \in {"wm_temp", "wm_fill", "wm_replace", "wm_sync"} : At(p, l)
  PROVE  /\ fs.dir /\ tainted \subseteq {Original} /\ GoodImage(fs)
         /\ NewMarker(p) \in Marker /\ MarkerOK(NewMarker(p), fs.stores)
<1>1. GoodImage(fs)
  BY DEF IInv, ImagesOK
<1>2. env.topo \in Topo
  BY DEF IInv, TypeOK
<1>3. CASE p = "sup"
  <2>1. active # Original /\ active \in fs.stores /\ active \notin tainted /\ fs.dir
    BY <1>3 DEF At, IInv, ControlOK, FreshBootOK, Starting
  <2>2. tainted \subseteq {Original}
    BY <1>1, <2>1 DEF IInv, HistoryOK, GoodImage, ImageOK
  <2>3. /\ curRun \in 1 .. (nextRun - 1) /\ runStore[curRun] = active
        /\ env.topo.count >= 3
    BY <1>3, <2>1 DEF At, IInv, FreshBootOK, ControlOK
  <2> QED
    BY <1>1, <1>2, <1>3, <2>1, <2>2, <2>3 DEF NewMarker, Marker, MarkerOK, IInv, TypeOK
<1>4. CASE p = "hnd"
  <2>1. /\ fs.dir /\ ~recorded /\ newStore \in fs.stores /\ env.topo.count >= 3
    BY <1>4 DEF At, IInv, RecordingOK, Recording
  <2>2. tainted \subseteq {Original}
    BY <2>1 DEF IInv, HistoryOK
  <2> QED
    BY <1>1, <1>2, <1>4, <2>1, <2>2 DEF NewMarker, Marker, MarkerOK, IInv, TypeOK
<1> QED BY <1>3, <1>4

\* Writing the marker, by either process.
LEMMA WriteMarkerStep ==
  ASSUME IInv, NEW p \in {"sup", "hnd"}, WriteRecoveryMarker(p) PROVE IInv'
<1>1. /\ fs.dir /\ tainted \subseteq {Original} /\ GoodImage(fs)
      /\ NewMarker(p) \in Marker /\ MarkerOK(NewMarker(p), fs.stores)
  BY WritingMarker DEF WriteRecoveryMarker, WriteMarkerTemp, WriteMarkerFill,
                       WriteMarkerReplace, WriteMarkerSync
<1>2. ASSUME NEW b \in BOOLEAN PROVE GoodImage(WithTmp(b))
  BY <1>1 DEF GoodImage, ImageOK, MarkerOK, Condemned, Image, WithTmp, Directory
<1>3. GoodImage(Directory(fs.dir, FALSE, fs.stores, NewMarker(p), fs.exhausted))
  BY <1>1 DEF GoodImage, ImageOK, Image, Directory
<1>4. GoodImage(WithMarker(fs.marker)) /\ GoodImage(WithMarker(Absent))
  BY <1>1, NoStoreMarkers DEF GoodImage, ImageOK, Image, Directory, WithMarker, MarkerOK,
                              Absent
<1>5. CASE WriteMarkerTemp(p) \/ WriteMarkerFill(p) \/ WriteMarkerReplace(p)
  <2>1. ImagesOK' /\ HistoryOK'
    BY <1>2, <1>3, <1>5, Frame, NewImage
       DEF WriteMarkerTemp, WriteMarkerFill, WriteMarkerReplace, Mutate
  <2>2. fs' \in Image /\ images' \subseteq Image /\ fs' \in images'
    BY <2>1 DEF ImagesOK, GoodImage
  <2> QED
    BY <1>1, <1>5, <2>1, <2>2
       DEF WriteMarkerTemp, WriteMarkerFill, WriteMarkerReplace, Mutate, WithTmp, Directory,
           NewMarker, At, Goto, HndStep, SupExit, IInv, TypeOK, ControlOK, RecordingOK,
           FreshBootOK, ScanOK, Recording, Exhausting, Starting, Serving, Ending, SupLabels,
           HndLabels
<1>6. CASE /\ WriteMarkerSync(p) /\ Goto(p, SupExit(p)) /\ UNCHANGED <<recorded, prunes>>
           /\ \E m \in {fs.marker, Absent} : Mutate(WithMarker(m))
  <2>1. ImagesOK' /\ HistoryOK'
    BY <1>4, <1>6, NewImage DEF WriteMarkerSync, Mutate
  <2>2. fs' \in Image /\ images' \subseteq Image /\ fs' \in images'
    BY <2>1 DEF ImagesOK, GoodImage
  <2> QED
    BY <1>1, <1>6, <2>1, <2>2
       DEF WriteMarkerSync, Mutate, WithMarker, Directory, At, Goto, HndStep, SupExit, IInv,
           TypeOK, ControlOK, RecordingOK, FreshBootOK, ScanOK, Recording, Exhausting,
           Starting, Serving, Ending, SupLabels, HndLabels
<1>7. CASE /\ WriteMarkerSync(p) /\ SyncDir /\ recorded' = TRUE
           /\ Goto(p, IF p = "sup" THEN "start" ELSE "exited")
           /\ prunes' = IF p = "sup" THEN 0 ELSE prunes
  <2>1. GoodImage(fs)'
    BY <1>1, <1>7 DEF WriteMarkerSync, SyncDir, GoodImage, ImageOK, MarkerOK, Condemned
  <2>2. ImagesOK' /\ HistoryOK'
    BY <1>7, <2>1 DEF WriteMarkerSync, SyncDir, ImagesOK, HistoryOK, IInv
  <2>3. fs' \in Image /\ images' \subseteq Image /\ fs' \in images'
    BY <2>2 DEF ImagesOK, GoodImage
  <2>4. recorded' \in BOOLEAN /\ sealed' \in BOOLEAN
    BY <1>7 DEF WriteMarkerSync, IInv, TypeOK
  <2> QED
    BY <1>1, <1>7, <2>2, <2>3, <2>4
       DEF WriteMarkerSync, SyncDir, Mutate, WithMarker, Directory, At, Goto, HndStep,
           SupExit, IInv, TypeOK, ControlOK, RecordingOK, FreshBootOK, ScanOK, Recording,
           Exhausting, Starting, Serving, Ending, SupLabels, HndLabels
<1> QED BY <1>5, <1>6, <1>7 DEF WriteRecoveryMarker, WriteMarkerSync

\* Exhausting the recovery, by either process, possibly by both at once.
LEMMA ExhaustStep ==
  ASSUME IInv, NEW p \in {"sup", "hnd"}, MarkRecoveryExhausted(p) PROVE IInv'
<1>1. GoodImage(fs) /\ fs.dir
  BY DEF IInv, ImagesOK, ControlOK, Exhausting, MarkRecoveryExhausted, ExhaustReplace,
         ExhaustSync, ExhaustInvalidate, At
<1>2. fs.marker.state # "absent" =>
        GoodImage(Directory(fs.dir, fs.tmp, fs.stores, Absent, fs.marker))
  BY <1>1, NoStoreMarkers DEF GoodImage, ImageOK, Image, Directory, MarkerOK, Absent, Condemned
<1>3. ASSUME NEW m \in {fs.marker, Invalid, Absent} PROVE GoodImage(WithMarker(m))
  BY <1>1, NoStoreMarkers DEF GoodImage, ImageOK, Image, Directory, WithMarker, MarkerOK,
                              Absent, Invalid, Condemned
<1>4. CASE ExhaustReplace(p) \/ ExhaustInvalidate(p)
  <2>1. ImagesOK' /\ HistoryOK'
    BY <1>2, <1>3, <1>4, Frame, NewImage DEF ExhaustReplace, ExhaustInvalidate, Mutate
  <2>2. fs' \in Image /\ images' \subseteq Image /\ fs' \in images'
    BY <2>1 DEF ImagesOK, GoodImage
  <2> QED
    BY <1>1, <1>4, <2>1, <2>2
       DEF ExhaustReplace, ExhaustInvalidate, Mutate, WithMarker, Directory, At, Goto,
           HndStep, ExhaustReturn, IInv, TypeOK, ControlOK, RecordingOK, FreshBootOK,
           ScanOK, Recording, Exhausting, Starting, Serving, Ending, SupLabels, HndLabels
<1>5. CASE ExhaustSync(p)
  <2>1. fs.exhausted.state # "absent"
    BY <1>5 DEF ExhaustSync, At, IInv, ControlOK
  <2>2. ImagesOK' /\ HistoryOK'
    <3>1. CASE UNCHANGED <<recoveryVars, sealed>>
      BY <1>5, <3>1, Frame DEF ExhaustSync
    <3>2. CASE SyncDir
      <4>1. GoodImage(fs)'
        BY <1>1, <1>5, <2>1, <3>2
           DEF ExhaustSync, SyncDir, GoodImage, ImageOK, MarkerOK, Condemned
      <4> QED BY <1>5, <3>2, <4>1 DEF ExhaustSync, SyncDir, ImagesOK, HistoryOK, IInv
    <3> QED BY <1>5, <3>1, <3>2 DEF ExhaustSync
  <2>3. fs' \in Image /\ images' \subseteq Image /\ fs' \in images'
    BY <2>2 DEF ImagesOK, GoodImage
  <2>4. recorded' \in BOOLEAN /\ sealed' \in BOOLEAN
    BY <1>5 DEF ExhaustSync, IInv, TypeOK
  <2> QED
    BY <1>1, <1>5, <2>1, <2>2, <2>3, <2>4
       DEF ExhaustSync, SyncDir, At, Goto, HndStep, ExhaustReturn, IInv, TypeOK, ControlOK,
           RecordingOK, FreshBootOK, ScanOK, Recording, Exhausting, Starting, Serving,
           Ending, SupLabels, HndLabels
<1> QED BY <1>4, <1>5 DEF MarkRecoveryExhausted

\* The sentinel written when the interrupted handler left neither file.
LEMMA SentinelStep == ASSUME IInv, FailClosedSentinel PROVE IInv'
<1>1. GoodImage(fs) /\ fs.dir
  BY DEF IInv, ImagesOK, ControlOK, FailClosedSentinel, RecoveryActive
<1>2. ASSUME NEW e \in {Absent, Invalid} PROVE GoodImage(WithExhausted(e))
  BY <1>1, NoStoreMarkers DEF FailClosedSentinel, NotExhausted, GoodImage, ImageOK, Image,
       Directory, WithExhausted, MarkerOK, Absent, Invalid, Condemned
<1>3. ImagesOK' /\ HistoryOK'
  BY <1>2, NewImage DEF FailClosedSentinel, Mutate
<1>4. fs' \in Image /\ images' \subseteq Image /\ fs' \in images'
  BY <1>3 DEF ImagesOK, GoodImage
<1> QED
  BY <1>1, <1>3, <1>4
     DEF FailClosedSentinel, RecoveryActive, NotExhausted, Mutate, WithExhausted, Directory,
         IInv, TypeOK, ControlOK, RecordingOK, FreshBootOK, ScanOK, Recording, Exhausting,
         Starting, Serving, Ending, SupLabels, HndLabels

\* A power loss leaves one of the good images.
LEMMA PowerLossStep == ASSUME IInv, PowerLoss PROVE IInv'
<1>1. PICK im \in images : fs' = im /\ images' = {im}
  BY DEF PowerLoss
<1>2. GoodImage(im)
  BY DEF IInv, ImagesOK
<1>3. GoodImage(im)'
  BY <1>2 DEF PowerLoss, GoodImage, ImageOK, MarkerOK, Condemned
<1>4. ImagesOK' /\ HistoryOK'
  BY <1>1, <1>3 DEF PowerLoss, IInv, ImagesOK, HistoryOK
<1>5. fs' \in Image /\ images' \subseteq Image /\ fs' \in images'
  BY <1>4 DEF ImagesOK, GoodImage
<1> QED
  BY <1>4, <1>5
     DEF PowerLoss, ContainerGone, IInv, TypeOK, ControlOK, RecordingOK, FreshBootOK,
         ScanOK, Recording, Exhausting, Starting, Serving, Ending, SupLabels, HndLabels,
         Stores

-----------------------------------------------------------------------------
\* The initial state, before the first start of the container.
LEMMA InitInv == Init => IInv
<1> SUFFICES ASSUME Init PROVE IInv
  OBVIOUS
<1>1. GoodImage(fs)
  BY NoStoreMarkers DEF Init, GoodImage, ImageOK, MarkerOK, Image, Absent
<1>2. ImagesOK /\ HistoryOK
  BY <1>1 DEF Init, ImagesOK, HistoryOK
<1>3. recorded \in BOOLEAN /\ sealed \in BOOLEAN
  BY DEF Init
<1> QED
  BY <1>1, <1>2, <1>3 DEF Init, GoodImage, IInv, TypeOK, ControlOK, RecordingOK, FreshBootOK,
       ScanOK, Recording, Exhausting, Starting, Serving, Ending, SupLabels, HndLabels,
       Stores, Runs

\* Every step of the supervisor, its handler, its children and the
\* environment keeps the invariant.
LEMMA NextInv == IInv /\ [Next]_vars => IInv'
<1> SUFFICES ASSUME IInv, [Next]_vars PROVE IInv'
  OBVIOUS
<1>1. CASE UNCHANGED vars
  <2>1. ImagesOK' /\ HistoryOK'
    BY <1>1, Frame DEF vars
  <2> QED
    BY <1>1, <2>1 DEF vars, IInv, TypeOK, ControlOK, RecordingOK, FreshBootOK, ScanOK,
                      SelectableState, SelectedMarker
<1>2. CASE Next
  BY <1>2, SelectStep, StartupStep, SuperviseStep, EndingStep, PruneStep, MakeRunDirStep,
     LogStep, StartDbStep, RecordStep, WriteMarkerStep, ExhaustStep, SentinelStep,
     PowerLossStep
     DEF Next, Supervise, Children, Handler, FailClosed
<1> QED BY <1>1, <1>2

\* IInv is an invariant of every behaviour.
THEOREM Invariance == Spec => []IInv
  BY InitInv, NextInv, PTL DEF Spec

\* The variables of the supervisor keep their types.
THEOREM TypeCorrect == Spec => []TypeOK
<1>1. IInv => TypeOK
  BY DEF IInv
<1> QED BY <1>1, Invariance, PTL

\* All starts on a fresh store, over any number of restarts, crashes and power
\* losses, are on the same one: corruption is recovered from at most once.
THEOREM SingleFreshStore == Spec => []OneFreshStore
<1>1. IInv => OneFreshStore
  BY DEF IInv, ImagesOK, GoodImage, ImageOK, OneFreshStore
<1> QED BY <1>1, Invariance, PTL

\* cockroach init is never run once a recovery is recorded.
THEOREM InitOnlyBeforeRecovery == Spec => []NoInitAfterRecovery
<1>1. IInv => NoInitAfterRecovery
  BY DEF IInv, ControlOK, Serving, ImagesOK, GoodImage, HistoryOK, NoInitAfterRecovery
<1> QED BY <1>1, Invariance, PTL

\* The database runs on a fresh store only in a topology of three nodes.
THEOREM FreshStoreHasPeers == Spec => []FreshStoreNeedsPeers
<1>1. IInv => FreshStoreNeedsPeers
  BY DEF IInv, ControlOK, FreshStoreNeedsPeers
<1> QED BY <1>1, Invariance, PTL

\* Only StartDb starts the database.
LEMMA OnlyStartDb == ASSUME IInv, Next, DbStarts PROVE StartDb
  BY DEF Next, DbStarts, Boot, SelectRecoveryStore, SelectOriginal, SelectReject,
     SelectFresh, SelectScan, ScanClean, ScanCorrupt, ScanUnsafe, UseFreshStore, Supervise,
     EnumerateRuns, PruneOne, PruneDone, MakeRunDir, StartupFails, PollDbAlive,
     PollDbExited, PollTunnelExited, PollAllAlive, WriteRecoveryMarker, WriteMarkerTemp,
     WriteMarkerFill, WriteMarkerReplace, WriteMarkerSync, MarkRecoveryExhausted,
     ExhaustReplace, ExhaustSync, ExhaustInvalidate, Children, DbLogs,
     DbReportsCorruption, DbExits, TunnelExits, Handler, HndClassify, HndConsumed,
     HndPreserve, HndMakeDir, HndMakeStore, DoomedHandlerDies, BoundedWait,
     HandlerCollected, HandlerTimeout, TerminateAfterTimeout, FailClosed,
     FailClosedNothing, FailClosedExhaust, FailClosedSentinel, Cleanup, CleanupHandler,
     CleanupThenFailClosed, CleanupExit, Signal, Kill, PowerLoss, ContainerGone

\* The original store is never started again once a recovery is recorded.
THEOREM OriginalStaysRetired == Spec => OriginalRetired
<1>1. IInv /\ [Next]_vars => [DbStarts /\ recorded => active # Original]_vars
  BY OnlyStartDb DEF StartDb, IInv, ControlOK, Starting, ImagesOK, GoodImage
<1> QED BY <1>1, Invariance, PTL DEF Spec, OriginalRetired

\* A fresh store that reported corruption is never started again.
THEOREM TaintedStaysRetired == Spec => TaintedFreshRetired
<1>1. IInv /\ [Next]_vars => [DbStarts /\ active # Original => active \notin tainted]_vars
  BY OnlyStartDb DEF StartDb, IInv, FreshBootOK, Starting
<1> QED BY <1>1, Invariance, PTL DEF Spec, TaintedFreshRetired

\* Once exhaustion is recorded the database is never started again.
THEOREM ExhaustedStaysFinal == Spec => ExhaustedIsFinal
<1>1. IInv /\ [Next]_vars => [DbStarts => ~sealed]_vars
  BY OnlyStartDb DEF StartDb, IInv, ControlOK, FreshBootOK, Starting, ImagesOK, GoodImage,
                     ImageOK
<1> QED BY <1>1, Invariance, PTL DEF Spec, ExhaustedIsFinal

-----------------------------------------------------------------------------
(* The recorded run is retained.  Each start prunes once and makes one run *)
(* directory, so that as long as no start got so far as to name its run,   *)
(* there are at most as many newer runs as there were prunings.            *)

NewerRuns(r) == {q \in Runs : q > r /\ runStore[q] = runStore[r] /\ runLog[q] # "absent"}
\* A pruning that has begun will make room for one run.
RunsDue == IF sup \in {"prune", "mkrun"} THEN 1 ELSE 0
Retained(m) ==
    m.state = "started" /\ prunes < Retention =>
        runLog[m.run] # "absent" /\ Cardinality(NewerRuns(m.run)) + RunsDue <= prunes

\* The run of this start is the newest there is, and is there.
OwnRun == sup \in {"wm_temp", "wm_fill", "wm_replace", "wm_sync", "start"} \cup Serving \/ db = "up"
NewestRun ==
    /\ \A r \in Runs : r >= nextRun => runLog[r] = "absent"
    /\ OwnRun => nextRun > 1 /\ curRun = nextRun - 1 /\ runLog[curRun] # "absent"

RInv == NewestRun /\ \A im \in images : Retained(im.marker)

\* The runs newer than a given one are finitely many.
LEMMA NewerFinite ==
  ASSUME NEW r PROVE IsFiniteSet(NewerRuns(r)) /\ Cardinality(NewerRuns(r)) \in Nat
<1>1. IsFiniteSet(Runs)
  BY FS_Interval DEF Runs
<1>2. NewerRuns(r) \subseteq Runs
  BY DEF NewerRuns
<1> QED BY <1>1, <1>2, FS_Subset, FS_CardinalityType

\* A marker that names a run names one that was made.
LEMMA RunMade ==
  ASSUME IInv, NEW im \in images, im.marker.state = "started"
  PROVE  im.marker.run \in Runs /\ im.marker.run < nextRun
  BY DEF IInv, ImagesOK, GoodImage, ImageOK, MarkerOK, TypeOK, Runs

\* Steps that leave the logs alone, name no new run and start no pruning keep
\* every recorded run.
LEMMA RetainedFrame ==
  ASSUME IInv, RInv, UNCHANGED <<runLog, runStore, nextRun, prunes>>,
         \A im \in images' : im.marker.state = "started" => \E old \in images : old.marker = im.marker,
         sup' \in {"prune", "mkrun"} => sup \in {"prune", "mkrun"},
         OwnRun' => OwnRun /\ curRun' = curRun
  PROVE  RInv'
<1>1. NewestRun'
  BY DEF RInv, NewestRun
<1>2. ASSUME NEW m, Retained(m) PROVE Retained(m)'
  <2>1. NewerRuns(m.run)' = NewerRuns(m.run)
    BY DEF NewerRuns
  <2>2. RunsDue \in 0 .. 1 /\ RunsDue' \in 0 .. 1 /\ RunsDue' <= RunsDue
    BY DEF RunsDue
  <2> QED BY <1>2, <2>1, <2>2, NewerFinite DEF Retained, IInv, TypeOK
<1>3. ASSUME NEW im \in images' PROVE Retained(im.marker)'
  <2>1. CASE im.marker.state = "started"
    BY <1>2, <1>3, <2>1 DEF RInv
  <2>2. CASE im.marker.state # "started"
    BY <2>2 DEF Retained
  <2> QED BY <2>1, <2>2
<1> QED BY <1>1, <1>3 DEF RInv

\* The recovery directory after a change that names no run.
LEMMA RetainedMutate ==
  ASSUME IInv, NEW im, Mutate(im), im.marker = fs.marker \/ im.marker.state # "started"
  PROVE  \A i \in images' : i.marker.state = "started" => \E old \in images : old.marker = i.marker
  BY DEF Mutate, IInv, ImagesOK

\* Boots, the choice of a store, and the handler's wait change no log.
LEMMA QuietRetained ==
  ASSUME IInv, RInv,
         \/ \E c \in Config : Boot(c)
         \/ SelectRecoveryStore \/ PruneDone \/ StartupFails \/ StartDb
         \/ PollDbAlive \/ PollDbExited \/ PollTunnelExited \/ PollAllAlive
         \/ DbExits \/ TunnelExits \/ Signal \/ HndClassify \/ HndConsumed \/ HndPreserve
         \/ DoomedHandlerDies \/ BoundedWait \/ FailClosedNothing \/ FailClosedExhaust
         \/ Cleanup \/ Kill \/ PowerLoss
  PROVE  RInv'
<1> USE DEF OwnRun, Serving
<1>1. CASE (\E c \in Config : Boot(c)) \/ SelectRecoveryStore
  <2>1. db = "none" /\ db' = db
    BY <1>1 DEF IInv, ControlOK, SelectRecoveryStore, Boot, SelectOriginal, SelectReject,
       SelectFresh, SelectScan, ScanClean, ScanCorrupt, ScanUnsafe, UseFreshStore
  <2> QED BY <1>1, <2>1, RetainedFrame DEF SelectRecoveryStore, Boot, SelectOriginal,
       SelectReject, SelectFresh, SelectScan, ScanClean, ScanCorrupt, ScanUnsafe,
       UseFreshStore, AfterSelect
<1>2. CASE PruneDone \/ StartupFails \/ StartDb
  BY <1>2, RetainedFrame DEF PruneDone, StartupFails, StartDb
<1>3. CASE PollDbAlive \/ PollDbExited \/ PollTunnelExited \/ PollAllAlive
  BY <1>3, RetainedFrame DEF PollDbAlive, PollDbExited, PollTunnelExited, PollAllAlive,
     OperationSucceeded, Guarded
<1>4. CASE DbExits \/ TunnelExits \/ Signal
  BY <1>4, RetainedFrame DEF DbExits, TunnelExits, Signal
<1>5. CASE HndClassify \/ HndConsumed \/ HndPreserve \/ DoomedHandlerDies
  BY <1>5, RetainedFrame DEF HndClassify, HndConsumed, HndPreserve, DoomedHandlerDies
<1>6. CASE BoundedWait \/ FailClosedNothing \/ FailClosedExhaust
  BY <1>6, RetainedFrame DEF BoundedWait, HandlerCollected, HandlerTimeout,
     TerminateAfterTimeout, FailClosedNothing, FailClosedExhaust, IInv, TypeOK
<1>7. CASE Cleanup \/ Kill
  BY <1>7, RetainedFrame DEF Cleanup, CleanupHandler, CleanupThenFailClosed, CleanupExit,
     Kill, ContainerGone
<1>8. CASE PowerLoss
  BY <1>8, RetainedFrame DEF PowerLoss, ContainerGone
<1> QED BY <1>1, <1>2, <1>3, <1>4, <1>5, <1>6, <1>7, <1>8

\* Changes of the recovery directory that name no run.
LEMMA DirectoryRetained ==
  ASSUME IInv, RInv,
         \/ HndMakeDir \/ HndMakeStore \/ FailClosedSentinel
         \/ \E p \in {"sup", "hnd"} :
              WriteMarkerTemp(p) \/ WriteMarkerFill(p) \/ MarkRecoveryExhausted(p)
         \/ WriteMarkerReplace("hnd") \/ WriteMarkerSync("hnd")
  PROVE  RInv'
<1> USE DEF OwnRun, Serving, Directory, WithTmp, WithMarker, WithExhausted, Absent, Invalid
<1>0. fs \in images
  BY DEF IInv, ImagesOK
<1>1. CASE HndMakeDir \/ HndMakeStore
  <2>1. \A i \in images' : i.marker.state = "started" => \E old \in images : old.marker = i.marker
    BY <1>1, RetainedMutate DEF HndMakeDir, HndMakeStore
  <2> QED BY <1>1, <2>1, RetainedFrame DEF HndMakeDir, HndMakeStore
<1>2. CASE FailClosedSentinel
  <2>1. \A i \in images' : i.marker.state = "started" => \E old \in images : old.marker = i.marker
    BY <1>2, RetainedMutate DEF FailClosedSentinel
  <2> QED BY <1>2, <2>1, RetainedFrame DEF FailClosedSentinel, IInv, TypeOK
<1>3. ASSUME NEW p \in {"sup", "hnd"}, WriteMarkerTemp(p) \/ WriteMarkerFill(p)
      PROVE  RInv'
  <2>1. \A i \in images' : i.marker.state = "started" => \E old \in images : old.marker = i.marker
    BY <1>3, RetainedMutate DEF WriteMarkerTemp, WriteMarkerFill
  <2> QED BY <1>3, <2>1, RetainedFrame DEF WriteMarkerTemp, WriteMarkerFill, At, Goto, SupExit
<1>4. ASSUME NEW p \in {"sup", "hnd"}, MarkRecoveryExhausted(p)
      PROVE  RInv'
  <2>1. \A i \in images' : i.marker.state = "started" => \E old \in images : old.marker = i.marker
    BY <1>0, <1>4, RetainedMutate DEF MarkRecoveryExhausted, ExhaustReplace, ExhaustSync,
       ExhaustInvalidate, SyncDir
  <2> QED BY <1>4, <2>1, RetainedFrame DEF MarkRecoveryExhausted, ExhaustReplace,
       ExhaustSync, ExhaustInvalidate, At, Goto, ExhaustReturn, IInv, TypeOK
<1>5. CASE WriteMarkerReplace("hnd")
  <2>1. \A i \in images' : i.marker.state = "started" => \E old \in images : old.marker = i.marker
    BY <1>5, RetainedMutate DEF WriteMarkerReplace, NewMarker
  <2> QED BY <1>5, <2>1, RetainedFrame DEF WriteMarkerReplace, At, Goto, SupExit
<1>6. CASE WriteMarkerSync("hnd")
  <2>1. \A i \in images' : i.marker.state = "started" => \E old \in images : old.marker = i.marker
    BY <1>0, <1>6, RetainedMutate DEF WriteMarkerSync, SyncDir
  <2> QED BY <1>6, <2>1, RetainedFrame DEF WriteMarkerSync, At, Goto, SupExit
<1> QED BY <1>1, <1>2, <1>3, <1>4, <1>5, <1>6

\* The supervisor names the newest run, of which no start has seen the end.
LEMMA NamingRetained ==
  ASSUME IInv, RInv, WriteMarkerReplace("sup") \/ WriteMarkerSync("sup")
  PROVE  RInv'
<1> USE DEF At, Goto, SupExit
<1>1. /\ UNCHANGED <<runLog, runStore, nextRun, curRun, db>> /\ OwnRun
      /\ sup \in {"wm_replace", "wm_sync"} /\ sup' \in {"wm_sync", "start", "cleanup"}
  BY DEF WriteMarkerReplace, WriteMarkerSync, OwnRun
<1>2. NewestRun'
  BY <1>1 DEF NewestRun, RInv
<1>3. curRun \in Runs /\ runLog[curRun] # "absent" /\ Cardinality(NewerRuns(curRun)) = 0
  <2>1. curRun \in Runs /\ runLog[curRun] # "absent" /\ curRun = nextRun - 1 /\ nextRun \in Nat
    BY <1>1 DEF RInv, NewestRun, IInv, TypeOK, Runs
  <2>2. NewerRuns(curRun) = {}
    BY <2>1 DEF NewerRuns, RInv, NewestRun, Runs
  <2> QED BY <2>1, <2>2, FS_EmptySet
<1>4. RunsDue = 0 /\ RunsDue' = 0
  BY <1>1 DEF RunsDue
<1>5. ASSUME NEW m PROVE NewerRuns(m.run)' = NewerRuns(m.run)
  BY <1>1 DEF NewerRuns
<1>6. CASE prunes' = prunes /\ \A i \in images' : i.marker.state = "started" =>
             i.marker.run = curRun \/ \E old \in images : old.marker = i.marker
  <2>1. ASSUME NEW i \in images' PROVE Retained(i.marker)'
    BY <1>1, <1>3, <1>4, <1>5, <1>6, <2>1 DEF Retained, RInv, IInv, TypeOK
  <2> QED BY <1>2, <2>1 DEF RInv
<1>7. CASE prunes' = 0 /\ images' = {fs} /\ sup = "wm_sync"
  <2>1. fs.marker.run = curRun
    BY <1>7 DEF IInv, FreshBootOK, ControlOK
  <2> QED BY <1>1, <1>2, <1>3, <1>4, <1>5, <1>7, <2>1 DEF RInv, Retained
<1>8. CASE WriteMarkerReplace("sup")
  <2> DEFINE named == Directory(fs.dir, FALSE, fs.stores, NewMarker("sup"), fs.exhausted)
  <2>1. prunes' = prunes
    BY <1>8 DEF WriteMarkerReplace
  <2>2. CASE Mutate(named)
    <3>1. named.marker.run = curRun
      BY DEF NewMarker, Directory
    <3> QED BY <1>6, <2>1, <2>2, <3>1 DEF Mutate
  <2>3. ASSUME NEW left \in BOOLEAN, Mutate(WithTmp(left)) PROVE RInv'
    <3>1. WithTmp(left).marker = fs.marker
      BY DEF WithTmp, Directory
    <3> QED BY <1>6, <2>1, <2>3, <3>1, RetainedMutate
  <2> QED BY <1>8, <2>2, <2>3 DEF WriteMarkerReplace
<1>9. CASE WriteMarkerSync("sup")
  <2>1. CASE SyncDir /\ prunes' = 0
    BY <1>7, <1>9, <2>1 DEF WriteMarkerSync, SyncDir
  <2>2. CASE prunes' = prunes /\ \E m \in {fs.marker, Absent} : Mutate(WithMarker(m))
    BY <1>6, <2>2, RetainedMutate DEF WithMarker, Directory, Absent
  <2> QED BY <1>9, <2>1, <2>2 DEF WriteMarkerSync
<1> QED BY <1>8, <1>9

\* One more pruning.
LEMMA EnumerateRetained == ASSUME IInv, RInv, EnumerateRuns PROVE RInv'
<1>1. NewestRun'
  BY DEF EnumerateRuns, RInv, NewestRun, OwnRun, Serving
<1>2. ASSUME NEW m, Retained(m) PROVE Retained(m)'
  <2>1. NewerRuns(m.run)' = NewerRuns(m.run) /\ RunsDue = 0 /\ RunsDue' = 1
    BY DEF NewerRuns, EnumerateRuns, RunsDue
  <2> QED BY <1>2, <2>1, NewerFinite DEF Retained, EnumerateRuns, IInv, TypeOK
<1> QED BY <1>1, <1>2 DEF RInv, EnumerateRuns

\* What is pruned has at least Retention - 1 newer runs, which a recorded run has
\* not.
LEMMA PruneRetained == ASSUME IInv, RInv, PruneOne PROVE RInv'
<1>1. PICK x \in Excess : runLog' = [runLog EXCEPT ![x] = "absent"]
  BY DEF PruneOne
<1>2. x \in Runs /\ runStore[x] = active /\ Cardinality(NewerRuns(x)) >= Retention - 1
  <2>1. {q \in RunsOf(active) : q > x} = NewerRuns(x)
    BY <1>1 DEF Excess, RunsOf, NewerRuns
  <2> QED BY <1>1, <2>1 DEF Excess, RunsOf
<1>3. NewestRun'
  BY <1>1, <1>2 DEF PruneOne, RInv, NewestRun, OwnRun, Serving, IInv, TypeOK, ControlOK, Starting
<1>4. ASSUME NEW im \in images PROVE Retained(im.marker)'
  <2> SUFFICES ASSUME im.marker.state = "started", prunes < Retention
               PROVE  runLog'[im.marker.run] # "absent"
                      /\ Cardinality(NewerRuns(im.marker.run)') + RunsDue' <= prunes
    BY DEF Retained, PruneOne
  <2> DEFINE r == im.marker.run
  <2>1. runLog[r] # "absent" /\ Cardinality(NewerRuns(r)) + 1 <= prunes /\ r \in Runs
    BY RunMade DEF RInv, Retained, RunsDue, PruneOne
  <2>2. r # x
    BY <1>2, <2>1, NewerFinite DEF IInv, TypeOK
  <2>3. NewerRuns(r)' \subseteq NewerRuns(r)
    BY <1>1, <1>2 DEF NewerRuns, PruneOne, IInv, TypeOK
  <2>4. Cardinality(NewerRuns(r)') <= Cardinality(NewerRuns(r)) /\ Cardinality(NewerRuns(r)') \in Nat
    BY <2>3, NewerFinite, FS_Subset, FS_CardinalityType
  <2>5. RunsDue' = 1
    BY DEF RunsDue, PruneOne
  <2> QED BY <1>1, <1>2, <2>1, <2>2, <2>4, <2>5, NewerFinite DEF IInv, TypeOK
<1> QED BY <1>3, <1>4 DEF RInv, PruneOne

\* The run directory of this start is one more newer run, the one there is room for.
LEMMA MakeRunRetained == ASSUME IInv, RInv, MakeRunDir PROVE RInv'
<1>1. /\ runLog' = [runLog EXCEPT ![nextRun] = "empty"] /\ runStore' = [runStore EXCEPT ![nextRun] = active]
      /\ nextRun \in Runs /\ curRun' = nextRun /\ nextRun' = nextRun + 1
  BY DEF MakeRunDir, IInv, TypeOK, Runs
<1>2. NewestRun'
  BY <1>1 DEF RInv, NewestRun, IInv, TypeOK, Runs
<1>3. ASSUME NEW im \in images PROVE Retained(im.marker)'
  <2> SUFFICES ASSUME im.marker.state = "started", prunes < Retention
               PROVE  runLog'[im.marker.run] # "absent"
                      /\ Cardinality(NewerRuns(im.marker.run)') + RunsDue' <= prunes
    BY DEF Retained, MakeRunDir
  <2> DEFINE r == im.marker.run
  <2>1. /\ runLog[r] # "absent" /\ Cardinality(NewerRuns(r)) + 1 <= prunes
        /\ r \in Runs /\ r < nextRun
    BY RunMade DEF RInv, Retained, RunsDue, MakeRunDir
  <2>2. NewerRuns(r)' \subseteq NewerRuns(r) \cup {nextRun}
    BY <1>1, <2>1 DEF NewerRuns, IInv, TypeOK, Runs
  <2>3. /\ IsFiniteSet(NewerRuns(r) \cup {nextRun})
        /\ Cardinality(NewerRuns(r) \cup {nextRun}) <= Cardinality(NewerRuns(r)) + 1
        /\ Cardinality(NewerRuns(r) \cup {nextRun}) \in Nat
    <3>1. IsFiniteSet(NewerRuns(r)) /\ Cardinality(NewerRuns(r)) \in Nat
      BY NewerFinite
    <3>2. /\ IsFiniteSet(NewerRuns(r) \cup {nextRun})
          /\ Cardinality(NewerRuns(r) \cup {nextRun}) \in {Cardinality(NewerRuns(r)), Cardinality(NewerRuns(r)) + 1}
      BY <3>1, FS_AddElement
    <3> QED BY <3>1, <3>2
  <2>4. Cardinality(NewerRuns(r)') <= Cardinality(NewerRuns(r) \cup {nextRun}) /\ Cardinality(NewerRuns(r)') \in Nat
    BY <2>2, <2>3, FS_Subset, FS_CardinalityType
  <2>5. RunsDue' = 0
    BY DEF RunsDue, MakeRunDir
  <2>6. Cardinality(NewerRuns(r)') + RunsDue' <= prunes
    BY <2>1, <2>3, <2>4, <2>5, NewerFinite DEF IInv, TypeOK
  <2>7. runLog'[r] # "absent"
    BY <1>1, <2>1 DEF IInv, TypeOK
  <2> QED BY <2>6, <2>7
<1> QED BY <1>2, <1>3 DEF RInv, MakeRunDir

\* The database writes into the run of this start, which is there already.
LEMMA LogRetained == ASSUME IInv, RInv, DbLogs \/ DbReportsCorruption PROVE RInv'
<1>1. /\ db = "up" /\ UNCHANGED <<runStore, nextRun, prunes, images, sup, db, curRun>>
      /\ \E c \in {"clean", "corrupt"} : runLog' = [runLog EXCEPT ![curRun] = c]
  BY DEF DbLogs, DbReportsCorruption
<1>2. curRun \in Runs /\ runLog[curRun] # "absent"
  BY <1>1 DEF RInv, NewestRun, OwnRun, IInv, TypeOK, Runs
<1>3. \A r \in Runs : runLog'[r] = "absent" <=> runLog[r] = "absent"
  BY <1>1, <1>2 DEF IInv, TypeOK
<1>4. NewestRun'
  BY <1>1, <1>2, <1>3 DEF RInv, NewestRun, OwnRun
<1>5. ASSUME NEW im \in images PROVE Retained(im.marker)'
  <2>1. NewerRuns(im.marker.run)' = NewerRuns(im.marker.run)
    BY <1>1, <1>3 DEF NewerRuns
  <2>2. im.marker.state = "started" => im.marker.run \in Runs
    BY RunMade
  <2> QED BY <1>1, <1>3, <2>1, <2>2 DEF Retained, RInv, RunsDue
<1> QED BY <1>1, <1>4, <1>5 DEF RInv

LEMMA RetainedNext == IInv /\ RInv /\ [Next]_vars => RInv'
<1> SUFFICES ASSUME IInv, RInv, [Next]_vars PROVE RInv'
  OBVIOUS
<1>1. CASE UNCHANGED vars
  BY <1>1, RetainedFrame DEF vars, OwnRun
<1>2. CASE Next
  BY <1>2, QuietRetained, DirectoryRetained, NamingRetained, EnumerateRetained,
     PruneRetained, MakeRunRetained, LogRetained
     DEF Next, Supervise, Children, Handler, FailClosed, WriteRecoveryMarker
<1> QED BY <1>1, <1>2

\* The log of the run a marker names is not pruned by the next Retention - 1 starts,
\* wherever those were cut short and whatever a power loss undid.
THEOREM RecordedRunIsRetained == Spec => []RecordedRunRetained
<1>1. Init => RInv
  BY DEF Init, RInv, NewestRun, OwnRun, Serving, Retained, Absent
<1>2. IInv /\ RInv => RecordedRunRetained
  BY DEF IInv, ImagesOK, RInv, Retained, RecordedRunRetained
<1> QED BY <1>1, <1>2, RetainedNext, Invariance, PTL DEF Spec

=============================================================================
