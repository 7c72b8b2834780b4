---------------------------- MODULE SnapshotStore ----------------------------
(***************************************************************************)
(* SnapshotManager and the Heartbeat that asks it for snapshots: a         *)
(* snapshot is written to a temporary directory, renamed, published by the *)
(* "current" symlink, and old directories are pruned.                      *)
(*                                                                         *)
(* take_snapshot never awaits, so no beat and no second take falls between *)
(* its steps; the process can die between any two of them and the disk     *)
(* keeps what they did.  Every step that touches the disk may fail.        *)
(***************************************************************************)
EXTENDS Integers, FiniteSets

CONSTANTS
    Components,      \* the names of the registered components
    Period,          \* Heartbeat.snapshot_period_beats
    RollingKeep,     \* SnapshotManager.rolling_keep
    DailyKeep,       \* SnapshotManager.daily_keep_days, in clock units
    StartBeat,       \* Heartbeat.beat_no when the model starts
    MaxTicks,        \* bound on beats
    MaxPause,        \* bound on beats paused
    MaxDemand,       \* bound on takes that are not the heartbeat's
    MaxCrash,        \* bound on crashes
    MaxFail,         \* bound on failed disk operations
    MaxPerSecond     \* bound on takes that start in one clock second

ASSUME SnapshotAssumption ==
    /\ IsFiniteSet(Components)
    /\ Period \in Nat \ {0}
    /\ RollingKeep \in Nat \ {0}
    /\ DailyKeep \in Nat
    /\ StartBeat \in Nat
    /\ {MaxTicks, MaxPause, MaxDemand, MaxCrash, MaxFail, MaxPerSecond}
         \subseteq Nat

VARIABLES
    up,          \* the process runs
    clock,       \* datetime.now, in whole seconds
    beat,        \* Heartbeat.beat_no
    pauseBeats,  \* Heartbeat._pause_beats_remaining
    tasks,       \* snapshot tasks created and not yet started
    pc,          \* the next step of the take in progress, or "idle"
    job,         \* the name and the resume beat of that take
    written,     \* the components it has written
    toPrune,     \* the directories it has yet to prune
    dirs,        \* the directories under root
    link         \* the directory "current" names, or NoLink

VARIABLES        \* observers and bounds
    ticks, pauses, demands, crashes, fails,
    perSecond,   \* takes started in the current second
    takes,       \* takes started
    returned     \* the last take that returned its target, or 0

processVars == <<beat, pauseBeats, tasks>>
takeVars == <<pc, job, written, toPrune>>
diskVars == <<dirs, link>>
boundVars == <<ticks, pauses, demands, crashes, perSecond, takes>>
vars == <<up, clock, processVars, takeVars, diskVars, boundVars, fails, returned>>

-----------------------------------------------------------------------------
Manifest == "manifest"
Files == Components \cup {Manifest}
NoFile == -1

\* A directory's name, with the take it belongs to as an observer.  take is
\* left out where the code compares names.
NoLink == [time |-> -1, label |-> 0, daily |-> FALSE, take |-> 0]

\* parts[f] is the beat count at which file f was written.
Directory(name, tmp, parts, resume) ==
    [name |-> name, tmp |-> tmp, parts |-> parts, resume |-> resume]

Complete(d) == ~d.tmp /\ \A f \in Files : d.parts[f] # NoFile

SameName(m, n) == m.time = n.time /\ m.label = n.label /\ m.daily = n.daily

\* "_beat_" and the decimal digits of the label: names of one second compare
\* label strings, and "10" is before "9".  Labels of one or two digits.
LabelKey(n) == IF n < 10 THEN 11 * n ELSE 11 * (n \div 10) + 1 + (n % 10)

NameKey(d) == 2 * LabelKey(d.name.label) + (IF d.tmp THEN 1 ELSE 0)

Before(d, e) ==
    \/ d.name.time < e.name.time
    \/ d.name.time = e.name.time /\ NameKey(d) < NameKey(e)

\* _prune_rolling counts every directory whose name has "_beat_" in it and no
\* daily prefix: temporary directories left by a crash are counted too.
Rolling == {d \in dirs : ~d.name.daily}

\* Variant: one directory too many is pruned.
RollingExcess_OffByOne ==
    {d \in Rolling : Cardinality({e \in Rolling : Before(d, e)}) >= RollingKeep - 1}

\* All but the last RollingKeep in name order.
RollingExcess ==
    {d \in Rolling : Cardinality({e \in Rolling : Before(d, e)}) >= RollingKeep}

DailyExpired == {d \in dirs : d.name.daily /\ d.name.time < clock - DailyKeep}

Init ==
    /\ up = TRUE
    /\ clock = 0
    /\ beat = StartBeat
    /\ pauseBeats = 0
    /\ tasks = 0
    /\ pc = "idle"
    /\ job = [name |-> NoLink, resume |-> 0]
    /\ written = {}
    /\ toPrune = {}
    /\ dirs = {}
    /\ link = NoLink
    /\ ticks = 0
    /\ pauses = 0
    /\ demands = 0
    /\ crashes = 0
    /\ fails = 0
    /\ perSecond = 0
    /\ takes = 0
    /\ returned = 0

-----------------------------------------------------------------------------
(***************************************************************************)
(* The heartbeat                                                           *)
(***************************************************************************)

TimePasses ==
    \/ UNCHANGED <<clock, perSecond>>
    \/ clock' = clock + 1 /\ perSecond' = 0

\* A beat of the run loop.  Behind schedule the loop does not sleep, so any
\* number of beats may pass before a snapshot task runs.
Tick ==
    /\ up
    /\ pc = "idle"
    /\ ticks < MaxTicks
    /\ pauseBeats = 0
    /\ tasks' = IF beat > 0 /\ beat % Period = 0 THEN tasks + 1 ELSE tasks
    /\ beat' = beat + 1
    /\ ticks' = ticks + 1
    /\ TimePasses
    /\ UNCHANGED <<up, pauseBeats, takeVars, diskVars, pauses, demands, crashes,
                   takes, fails, returned>>

\* A paused beat returns before the persistence step.
PausedTick ==
    /\ up
    /\ pc = "idle"
    /\ ticks < MaxTicks
    /\ pauseBeats > 0
    /\ pauseBeats' = pauseBeats - 1
    /\ beat' = beat + 1
    /\ ticks' = ticks + 1
    /\ TimePasses
    /\ UNCHANGED <<up, tasks, takeVars, diskVars, pauses, demands, crashes,
                   takes, fails, returned>>

\* Heartbeat.pause, from a Stage-4 recovery or the operator.
Pause ==
    /\ up
    /\ pc = "idle"
    /\ pauses < MaxPause
    /\ pauses' = pauses + 1
    /\ pauseBeats' = pauseBeats + 1
    /\ UNCHANGED <<up, clock, beat, tasks, takeVars, diskVars, ticks, demands,
                   crashes, perSecond, takes, fails, returned>>

-----------------------------------------------------------------------------
(***************************************************************************)
(* take_snapshot                                                           *)
(***************************************************************************)

\* Variant: a stale temporary directory of the same name is taken over.
Begin_StaleKept(label, daily) ==
    LET name == [time |-> clock, label |-> label, daily |-> daily,
                 take |-> takes + 1]
        stale == {d \in dirs : d.tmp /\ SameName(d.name, name)}
    IN /\ up
       /\ pc = "idle"
       /\ perSecond < MaxPerSecond
       /\ job' = [name |-> name, resume |-> beat]
       /\ dirs' = (dirs \ stale) \cup
            IF stale = {}
            THEN {Directory(name, TRUE, [f \in Files |-> NoFile], beat)}
            ELSE {Directory(name, TRUE, d.parts, beat) : d \in stale}
       /\ written' = {}
       /\ toPrune' = {}
       /\ pc' = "write"
       /\ takes' = takes + 1
       /\ perSecond' = perSecond + 1
       /\ UNCHANGED <<up, clock, beat, pauseBeats, link, ticks, pauses, crashes,
                      fails, returned>>

\* A stale temporary directory of the same name is removed first.
Begin(label, daily) ==
    LET name == [time |-> clock, label |-> label, daily |-> daily,
                 take |-> takes + 1]
    IN /\ up
       /\ pc = "idle"
       /\ perSecond < MaxPerSecond
       /\ job' = [name |-> name, resume |-> beat]
       /\ dirs' = {d \in dirs : ~(d.tmp /\ SameName(d.name, name))}
                  \cup {Directory(name, TRUE, [f \in Files |-> NoFile], beat)}
       /\ written' = {}
       /\ toPrune' = {}
       /\ pc' = "write"
       /\ takes' = takes + 1
       /\ perSecond' = perSecond + 1
       /\ UNCHANGED <<up, clock, beat, pauseBeats, link, ticks, pauses, crashes,
                      fails, returned>>

\* The task reads beat_no when it runs, not when it was created.
HeartbeatTake ==
    /\ tasks > 0
    /\ tasks' = tasks - 1
    /\ Begin(beat - 1, FALSE)
    /\ UNCHANGED demands

\* AxiomaApp.take_snapshot, or a caller that wants a daily snapshot.
DemandTake ==
    /\ demands < MaxDemand
    /\ demands' = demands + 1
    /\ \E daily \in BOOLEAN : Begin(beat, daily)
    /\ UNCHANGED tasks

JobDir == CHOOSE d \in dirs : d.tmp /\ d.name = job.name

Step(from) == up /\ pc = from

Quiet == UNCHANGED <<up, clock, processVars, boundVars>>

WriteFile(f) ==
    dirs' = (dirs \ {JobDir}) \cup {[JobDir EXCEPT !.parts[f] = ticks]}

WriteComponent ==
    /\ Step("write")
    /\ \E c \in Components \ written :
         /\ WriteFile(c)
         /\ written' = written \cup {c}
    /\ UNCHANGED <<pc, job, toPrune, link, fails, returned>>
    /\ Quiet

\* Variant: the link is swapped before the directory has its final name.
WriteManifest_NoRename ==
    /\ Step("write")
    /\ written = Components
    /\ WriteFile(Manifest)
    /\ pc' = "swap"
    /\ UNCHANGED <<job, written, toPrune, link, fails, returned>>
    /\ Quiet

\* The manifest is written last.
WriteManifest ==
    /\ Step("write")
    /\ written = Components
    /\ WriteFile(Manifest)
    /\ pc' = "rename"
    /\ UNCHANGED <<job, written, toPrune, link, fails, returned>>
    /\ Quiet

TargetExists == \E d \in dirs : ~d.tmp /\ SameName(d.name, job.name)

\* os.replace(tmp, target): a directory cannot replace one that is not empty.
Rename ==
    /\ Step("rename")
    /\ ~TargetExists
    /\ dirs' = (dirs \ {JobDir}) \cup {[JobDir EXCEPT !.tmp = FALSE]}
    /\ pc' = "swap"
    /\ UNCHANGED <<job, written, toPrune, link, fails, returned>>
    /\ Quiet

\* What is pruned after the current take: nothing else runs until it is done.
ToPrune == RollingExcess \cup (IF job.name.daily THEN DailyExpired ELSE {})

\* Variant: a daily snapshot is not published.
Swap_RollingOnly ==
    /\ Step("swap")
    /\ link' = IF job.name.daily THEN link ELSE job.name
    /\ toPrune' = ToPrune
    /\ pc' = "prune"
    /\ UNCHANGED <<job, written, dirs, fails, returned>>
    /\ Quiet

\* _swap_current_symlink: a new link replaces the old one in one step.
Swap ==
    /\ Step("swap")
    /\ link' = job.name
    /\ toPrune' = ToPrune
    /\ pc' = "prune"
    /\ UNCHANGED <<job, written, dirs, fails, returned>>
    /\ Quiet

\* A take that fails removes its temporary directory, or as much of it as it
\* can, and raises; what was renamed before the failure stays.
GiveUp ==
    /\ pc' = "idle"
    /\ UNCHANGED <<job, written, toPrune, link, returned>>
    /\ Quiet

WithoutTemporary == {d \in dirs : ~(d.tmp /\ d.name = job.name)}

RenameFails ==
    /\ Step("rename")
    /\ TargetExists
    /\ dirs' = WithoutTemporary
    /\ GiveUp
    /\ UNCHANGED fails

TakeFails ==
    /\ up
    /\ pc \in {"write", "rename", "swap"}
    /\ fails < MaxFail
    /\ fails' = fails + 1
    /\ dirs' \in {dirs, WithoutTemporary}
    /\ GiveUp

\* Rolling directories are removed in name order, the daily ones after them.
PruneNext ==
    LET rolling == {d \in toPrune : ~d.name.daily}
    IN IF rolling = {} THEN toPrune
       ELSE {d \in rolling : \A e \in rolling : ~Before(e, d)}

PruneOne ==
    /\ Step("prune")
    /\ \E d \in PruneNext :
         /\ dirs' = dirs \ {d}
         /\ toPrune' = toPrune \ {d}
    /\ UNCHANGED <<pc, job, written, link, fails, returned>>
    /\ Quiet

Remains(d, gone) ==
    [d EXCEPT !.parts = [f \in Files |-> IF f \in gone THEN NoFile
                                      ELSE d.parts[f]]]

\* rmtree stops with part of the directory gone: logged, and the next is tried.
PruneFails ==
    /\ Step("prune")
    /\ fails < MaxFail
    /\ fails' = fails + 1
    /\ \E d \in PruneNext, gone \in SUBSET Files :
         /\ dirs' = (dirs \ {d}) \cup {Remains(d, gone)}
         /\ toPrune' = toPrune \ {d}
    /\ UNCHANGED <<pc, job, written, link, returned>>
    /\ Quiet

Return ==
    /\ Step("prune")
    /\ toPrune = {}
    /\ pc' = "idle"
    /\ returned' = job.name.take
    /\ UNCHANGED <<job, written, toPrune, diskVars, fails>>
    /\ Quiet

-----------------------------------------------------------------------------
(***************************************************************************)
(* Crash and restart                                                       *)
(***************************************************************************)

Crash ==
    /\ up
    /\ crashes < MaxCrash
    /\ crashes' = crashes + 1
    /\ up' = FALSE
    /\ tasks' = 0
    /\ pauseBeats' = 0
    /\ pc' = "idle"
    /\ UNCHANGED <<clock, beat, job, written, toPrune, diskVars, ticks, pauses, demands,
                   perSecond, takes, fails, returned>>

\* load_latest: what "current" names, if it is there and has a manifest.
Loadable == {d \in dirs : ~d.tmp /\ SameName(d.name, link)
                          /\ d.parts[Manifest] # NoFile}

\* A boot loads the latest snapshot or, as AxiomaApp does, loads none; the
\* heartbeat resumes where the substrate's snapshot left it, if that loads.
Restart ==
    /\ ~up
    /\ up' = TRUE
    /\ clock' = clock + 1
    /\ perSecond' = 0
    /\ \/ beat' = 0
       \/ \E d \in Loadable : beat' = d.resume
    /\ UNCHANGED <<pauseBeats, tasks, takeVars, diskVars, ticks, pauses, demands,
                   crashes, takes, fails, returned>>

Next ==
    \/ Tick
    \/ PausedTick
    \/ Pause
    \/ HeartbeatTake
    \/ DemandTake
    \/ WriteComponent
    \/ WriteManifest
    \/ Rename
    \/ RenameFails
    \/ Swap
    \/ TakeFails
    \/ PruneOne
    \/ PruneFails
    \/ Return
    \/ Crash
    \/ Restart

Spec == Init /\ [][Next]_vars
-----------------------------------------------------------------------------
(***************************************************************************)
(* Properties                                                              *)
(***************************************************************************)

Names == [time : Int, label : Int, daily : BOOLEAN, take : Nat]

Directories ==
    [name : Names, tmp : BOOLEAN, parts : [Files -> Int], resume : Int]

\* The state has its types, and while the process runs the temporary directory
\* of the take in progress is there and holds exactly what the take has
\* written: no other take, failure clean-up or prune touches it.
TypeOK ==
    /\ up \in BOOLEAN
    /\ {clock, beat, pauseBeats, tasks, ticks, pauses, demands, crashes, fails,
        perSecond, takes, returned} \subseteq Nat
    /\ pc \in {"idle", "write", "rename", "swap", "prune"}
    /\ job \in [name : Names, resume : Int]
    /\ written \subseteq Components
    /\ dirs \subseteq Directories
    /\ toPrune \subseteq dirs
    /\ link \in Names
    /\ pc \in {"write", "rename"} =>
         \E d \in dirs : /\ d.tmp
                         /\ d.name = job.name
                         /\ {c \in Components : d.parts[c] # NoFile} = written

\* The files of a complete snapshot were all written in one beat: a snapshot is
\* one cut of the components, though it is written one component at a time.
OneCut == \A d \in dirs : Complete(d) => \A f, g \in Files : d.parts[f] = d.parts[g]

\* Whatever crash or failure happened between which steps, "current" names
\* nothing or a directory that exists, has its final name and every file, all of
\* one beat: the order write, rename, swap, prune never publishes a partial or a
\* torn snapshot and never prunes the published one.
CurrentComplete ==
    /\ link # NoLink => \E d \in dirs : d.name = link /\ Complete(d)
    /\ OneCut

\* What a boot would find, were the process to die now.
Latest ==
    IF Loadable = {} THEN [f \in Files |-> NoFile]
    ELSE (CHOOSE d \in Loadable : TRUE).parts

Promise == INSTANCE Archive WITH Parts <- Files, latest <- Latest, take <- link.take

\* Between any two of its many steps on the disk, and whichever of them fails or is
\* the last, a take is one step to whoever boots: it appears as a whole or not at
\* all, stays until a later one appears, and has appeared before it returns.
ImplementsArchive == Promise!Spec

\* Pruning removes no complete rolling snapshot unless RollingKeep rolling
\* directories come after it in name order: takes, retries and clean-ups of
\* failed takes never cost one of the last RollingKeep.
PruneSpares ==
    [][\A d \in dirs :
         (Complete(d) /\ ~d.name.daily /\ d \notin dirs')
            => Cardinality({e \in Rolling : Before(d, e)}) >= RollingKeep]_vars
=============================================================================
