------------------------ MODULE SnapshotStoreProofs ------------------------
(***************************************************************************)
(* TLAPS proofs about SnapshotStore, for any components, periods and        *)
(* limits and any number of beats, takes, failures and crashes: types, that *)
(* "current" names a complete snapshot of one beat, that a returned one     *)
(* survives, what pruning spares, and that it keeps up: how many rolling    *)
(* directories there are is bounded by what failed or crashed, not by how   *)
(* many takes there were; and that all this implements Archive.             *)
(*                                                                         *)
(* Names are ordered by the second and then by the digits of a label, so    *)
(* the take in progress is safe from its own pruning only while no more     *)
(* than RollingKeep takes start in one second: MaxPerSecond <= RollingKeep  *)
(* is a hypothesis where it is needed.                                      *)
(***************************************************************************)
EXTENDS SnapshotStore, FiniteSetTheorems, TLAPS

\* What TypeOK says of everything but the directories.
Plain ==
    /\ up \in BOOLEAN
    /\ {clock, beat, pauseBeats, tasks, ticks, pauses, demands, crashes, fails,
        perSecond, takes, returned} \subseteq Nat
    /\ pc \in {"idle", "write", "rename", "swap", "prune"}
    /\ job \in [name : Names, resume : Int]
    /\ written \subseteq Components
    /\ link \in Names

\* A directory belongs to a take there was, as old as its name says, and what it
\* holds was written in one beat.
Sound(d) ==
    /\ d \in Directories /\ d.resume \in Nat
    /\ d.name.take \in 1..takes
    /\ d.name.time <= clock
    /\ d.name.time = clock => d.name.take + perSecond > takes
    /\ \A f, g \in Files : d.parts[f] # NoFile /\ d.parts[g] # NoFile
                           => d.parts[f] = d.parts[g]

\* A take has one directory.
DirsInv ==
    /\ \A d \in dirs : Sound(d)
    /\ \A d, e \in dirs : d.name.take = e.name.take => d = e

\* The take in progress is the last one, and of this second; its directory is
\* where its place in the code says.
Writing(d) ==
    /\ d.tmp /\ d.name = job.name
    /\ {c \in Components : d.parts[c] # NoFile} = written
    /\ \A f \in Files : d.parts[f] \in {NoFile, ticks}
    /\ pc = "rename" => \A f \in Files : d.parts[f] # NoFile

JobInv ==
    /\ pc # "idle" => /\ up /\ takes >= 1 /\ job.name.take = takes
                      /\ job.name.time = clock
    /\ pc \in {"write", "rename"} => \E d \in dirs : Writing(d)
    /\ pc = "swap" => \E d \in dirs : d.name = job.name /\ Complete(d)

LinkInv ==
    /\ link # NoLink => \E d \in dirs : d.name = link /\ Complete(d)
    /\ returned <= link.take /\ link.take <= takes
    /\ pc = "prune" => link = job.name

\* What is to be pruned is not published, and enough comes after it.
PruneInv ==
    /\ toPrune \subseteq dirs
    /\ pc \in {"write", "rename", "swap"} => toPrune = {}
    /\ pc = "prune" => \A d \in toPrune :
        /\ d.name # link
        /\ ~d.name.daily => Cardinality({e \in Rolling : Before(d, e)}) >= RollingKeep

StoreInv ==
    Plain /\ DirsInv /\ JobInv /\ LinkInv /\ PruneInv /\ perSecond <= MaxPerSecond

-----------------------------------------------------------------------------
(***************************************************************************)
(* Directories                                                             *)
(***************************************************************************)

LEMMA Constants ==
    /\ Period \in Nat \ {0} /\ RollingKeep \in Nat \ {0} /\ DailyKeep \in Nat
    /\ StartBeat \in Nat /\ MaxPerSecond \in Nat
    /\ Manifest \in Files /\ Components \subseteq Files
    /\ NoLink \in Names
  <1>1. NoLink \in Names
    BY DEF NoLink, Names
  <1> QED
    BY <1>1, SnapshotAssumption DEF Files

\* One directory replaces another of the same take.
LEMMA Replaced ==
    ASSUME DirsInv, NEW d \in dirs, NEW e, e.name = d.name, Sound(e),
           dirs' = (dirs \ {d}) \cup {e}, UNCHANGED <<clock, takes, perSecond>>
    PROVE  DirsInv'
  <1>1. \A x : Sound(x)' <=> Sound(x)
    BY DEF Sound
  <1>2. \A x, y \in dirs' : x.name.take = y.name.take => x = y
    BY DEF DirsInv
  <1> QED
    BY <1>1, <1>2 DEF DirsInv

LEMMA Fewer ==
    ASSUME DirsInv, dirs' \subseteq dirs, UNCHANGED <<clock, takes, perSecond>>
    PROVE  DirsInv'
  BY DEF DirsInv, Sound

\* The take in progress has one directory, the one the code writes to.
LEMMA JobDirIs ==
    ASSUME StoreInv, pc \in {"write", "rename"}
    PROVE  /\ JobDir \in dirs /\ Writing(JobDir) /\ Sound(JobDir)
           /\ \A d \in dirs : d.name = job.name => d = JobDir
  <1>1. PICK d \in dirs : Writing(d)
    BY DEF StoreInv, JobInv
  <1>2. \A e \in dirs : e.name = job.name => e = d
    BY <1>1 DEF Writing, StoreInv, DirsInv
  <1>3. JobDir = d
    BY <1>1, <1>2 DEF JobDir, Writing
  <1> QED
    BY <1>1, <1>2, <1>3 DEF StoreInv, DirsInv

\* A file is written to it.
LEMMA WriteFileIs ==
    ASSUME StoreInv, pc = "write", NEW f \in Files, WriteFile(f)
    PROVE  \E e \in dirs' :
             /\ dirs' = (dirs \ {JobDir}) \cup {e}
             /\ Sound(e) /\ e.tmp /\ e.name = job.name
             /\ e.parts[f] = ticks
             /\ \A g \in Files : e.parts[g] \in {NoFile, ticks}
             /\ \A g \in Files \ {f} : e.parts[g] = JobDir.parts[g]
  <1> DEFINE d == JobDir
             e == [d EXCEPT !.parts[f] = ticks]
  <1>1. d \in dirs /\ Writing(d) /\ Sound(d)
    BY JobDirIs
  <1>2. ticks \in Nat /\ ticks \in Int /\ ticks # NoFile
    BY DEF StoreInv, Plain, NoFile
  <1> HIDE DEF d
  <1>3. d \in Directories /\ d.parts \in [Files -> Int]
    BY <1>1 DEF Sound, Directories
  <1>4. e = [d EXCEPT !.parts = [d.parts EXCEPT ![f] = ticks]]
    OBVIOUS
  <1>5. /\ e \in Directories /\ e.name = d.name /\ e.tmp = d.tmp /\ e.resume = d.resume
        /\ e.parts = [d.parts EXCEPT ![f] = ticks]
    BY <1>2, <1>3, <1>4 DEF Directories
  <1>6. /\ e.parts[f] = ticks
        /\ \A g \in Files \ {f} : e.parts[g] = d.parts[g]
        /\ \A g \in Files : e.parts[g] \in {NoFile, ticks}
    BY <1>1, <1>3, <1>5 DEF Writing
  <1>7. Sound(e)
    BY <1>1, <1>5, <1>6 DEF Sound
  <1>8. e.tmp /\ e.name = job.name
    BY <1>1, <1>5 DEF Writing
  <1>9. dirs' = (dirs \ {d}) \cup {e}
    BY DEF WriteFile, d
  <1> QED
    BY <1>6, <1>7, <1>8, <1>9 DEF d

-----------------------------------------------------------------------------
(***************************************************************************)
(* What the order of names says                                            *)
(***************************************************************************)

LEMMA NameKeyIsInt == ASSUME NEW d \in Directories PROVE NameKey(d) \in Int
  BY DEF NameKey, LabelKey, Directories, Names

LEMMA NotBeforeItself == ASSUME NEW d \in Directories PROVE ~Before(d, d)
  <1>1. NameKey(d) \in Int /\ d.name.time \in Int
    BY NameKeyIsInt DEF Directories, Names
  <1> QED
    BY <1>1 DEF Before

\* Only takes of the same second can come after the one in progress, and there
\* are too few of them for it to be pruned.
LEMMA JobSpared ==
    ASSUME StoreInv, MaxPerSecond <= RollingKeep, pc = "swap",
           NEW d \in dirs, d.name = job.name
    PROVE  d \notin ToPrune
  <1> DEFINE A == {e \in Rolling : Before(d, e)}
             T == (takes - perSecond + 1)..(takes - 1)
             f == [e \in A |-> e.name.take]
  <1>1. /\ takes \in Nat /\ perSecond \in Nat /\ clock \in Nat
        /\ perSecond <= MaxPerSecond
        /\ RollingKeep \in Nat /\ MaxPerSecond \in Nat /\ DailyKeep \in Nat
    BY Constants DEF StoreInv, Plain
  <1>2. /\ d.name.take = takes /\ d.name.time = clock
        /\ d \in Directories /\ perSecond >= 1
    BY <1>1 DEF StoreInv, JobInv, DirsInv, Sound
  <1>3. ASSUME NEW e \in A
        PROVE  e \in dirs /\ e.name.take \in T
    <2>1. e \in dirs /\ Before(d, e)
      BY DEF Rolling
    <2>2. /\ e \in Directories /\ e.name.take \in 1..takes
          /\ e.name.time \in Int /\ e.name.time <= clock
          /\ e.name.time = clock => e.name.take + perSecond > takes
      BY <2>1 DEF StoreInv, DirsInv, Sound, Directories, Names
    <2>3. e.name.time = clock
      BY <1>1, <1>2, <2>1, <2>2 DEF Before
    <2>4. e # d
      BY <1>2, <2>1, NotBeforeItself
    <2>5. e.name.take # takes
      BY <1>2, <2>1, <2>4 DEF StoreInv, DirsInv
    <2> QED
      BY <1>1, <2>1, <2>2, <2>3, <2>5
  <1>4. \A x, y \in A : f[x] = f[y] => x = y
    <2>1. \A x, y \in A : x.name.take = y.name.take => x = y
      BY <1>3 DEF StoreInv, DirsInv
    <2> QED
      BY <2>1
  <1>5. f \in Injection(A, T)
    <2>1. f \in [A -> T]
      BY <1>3
    <2>2. IsInjective(f)
      <3>1. DOMAIN f = A
        OBVIOUS
      <3> HIDE DEF f, A
      <3> QED
        BY <1>4, <3>1 DEF IsInjective
    <2> HIDE DEF f, A, T
    <2> QED
      BY <2>1, <2>2 DEF Injection
  <1>6. IsFiniteSet(T) /\ Cardinality(T) = perSecond - 1
    <2>1. takes - perSecond + 1 \in Int /\ takes - 1 \in Int
      BY <1>1
    <2>2. /\ IsFiniteSet(T)
          /\ Cardinality(T) = IF takes - perSecond + 1 > takes - 1 THEN 0
                              ELSE (takes - 1) - (takes - perSecond + 1) + 1
      <3> DEFINE a == takes - perSecond + 1
                 b == takes - 1
      <3>1. a \in Int /\ b \in Int
        BY <2>1
      <3> HIDE DEF a, b
      <3>2. /\ IsFiniteSet(a..b)
            /\ Cardinality(a..b) = IF a > b THEN 0 ELSE b - a + 1
        BY <3>1, FS_Interval
      <3> QED
        BY <3>2 DEF a, b
    <2> HIDE DEF T
    <2> QED
      BY <1>1, <1>2, <2>2
  <1>7. IsFiniteSet(A) /\ Cardinality(A) <= Cardinality(T)
    <2> HIDE DEF f, A, T
    <2> QED
      BY <1>5, <1>6, FS_Injection
  <1>8. ~(Cardinality(A) >= RollingKeep)
    <2>1. Cardinality(A) \in Nat
      BY <1>7, FS_CardinalityType
    <2> HIDE DEF A, T
    <2> QED
      BY <1>1, <1>6, <1>7, <2>1
  <1>9. d \notin RollingExcess
    BY <1>8 DEF RollingExcess
  <1>10. d \notin DailyExpired
    BY <1>1, <1>2 DEF DailyExpired
  <1> QED
    BY <1>9, <1>10 DEF ToPrune

-----------------------------------------------------------------------------
(***************************************************************************)
(* Steps between takes                                                     *)
(***************************************************************************)

LEMMA InitStore == Init => StoreInv
  <1> SUFFICES ASSUME Init PROVE StoreInv
    OBVIOUS
  <1>1. NoLink.take = 0
    BY DEF NoLink
  <1>2. Plain
    BY Constants DEF Init, Plain
  <1>3. DirsInv /\ JobInv
    BY DEF Init, DirsInv, JobInv
  <1>4. LinkInv
    BY <1>1 DEF Init, LinkInv
  <1>5. PruneInv
    BY DEF Init, PruneInv
  <1> QED
    BY <1>2, <1>3, <1>4, <1>5, Constants DEF Init, StoreInv

\* No take runs after the step and the disk is as it was.
LEMMA StepsBetween ==
    ASSUME StoreInv, Plain', pc' = "idle",
           UNCHANGED <<dirs, link, takes, returned, toPrune>>,
           \/ UNCHANGED <<clock, perSecond>>
           \/ clock' = clock + 1 /\ perSecond' = 0
    PROVE  StoreInv'
  <1>1. clock \in Nat /\ takes \in Nat /\ perSecond \in Nat /\ MaxPerSecond \in Nat
    BY Constants DEF StoreInv, Plain
  <1>2. ASSUME NEW d \in dirs
        PROVE  Sound(d)'
    <2>1. Sound(d) /\ d.name.time \in Int
      BY DEF StoreInv, DirsInv, Sound, Directories, Names
    <2>2. (d.name.time <= clock)' /\ (d.name.time = clock => d.name.take + perSecond > takes)'
      BY <1>1, <2>1 DEF Sound
    <2> QED
      BY <2>1, <2>2 DEF Sound
  <1>3. DirsInv'
    BY <1>2 DEF StoreInv, DirsInv
  <1>4. JobInv' /\ LinkInv' /\ PruneInv'
    BY DEF StoreInv, JobInv, LinkInv, PruneInv, Complete
  <1>5. (perSecond <= MaxPerSecond)'
    BY <1>1 DEF StoreInv
  <1> QED
    BY <1>3, <1>4, <1>5 DEF StoreInv

LEMMA BeatsStore ==
    ASSUME StoreInv, Tick \/ PausedTick \/ Pause
    PROVE  StoreInv'
  <1>1. pc' = "idle" /\ UNCHANGED <<dirs, link, takes, returned, toPrune>>
    BY DEF Tick, PausedTick, Pause, takeVars, diskVars
  <1>2. \/ UNCHANGED <<clock, perSecond>>
        \/ clock' = clock + 1 /\ perSecond' = 0
    BY DEF Tick, PausedTick, Pause, TimePasses
  <1>3. Plain'
    <2>1. clock' \in Nat /\ perSecond' \in Nat
      BY <1>2 DEF StoreInv, Plain
    <2>2. UNCHANGED <<up, pc, job, written, link, demands, crashes, fails, takes, returned>>
      BY DEF Tick, PausedTick, Pause, takeVars, diskVars
    <2>3. {beat', pauseBeats', tasks', ticks', pauses'} \subseteq Nat
      BY DEF Tick, PausedTick, Pause, StoreInv, Plain
    <2> QED
      BY <2>1, <2>2, <2>3 DEF StoreInv, Plain
  <1> QED
    BY <1>1, <1>2, <1>3, StepsBetween

LEMMA CrashStore == ASSUME StoreInv, Crash PROVE StoreInv'
  <1>1. Plain'
    <2>1. up' \in BOOLEAN
      BY DEF Crash
    <2>2. /\ tasks' \in Nat /\ pauseBeats' \in Nat /\ crashes' \in Nat
          /\ pc' \in {"idle", "write", "rename", "swap", "prune"}
      BY DEF Crash, StoreInv, Plain
    <2>3. UNCHANGED <<clock, beat, job, written, link, ticks, pauses, demands,
                      perSecond, takes, fails, returned>>
      BY DEF Crash, diskVars
    <2>4. /\ written \subseteq Components /\ link \in Names
          /\ job \in [name : Names, resume : Int]
          /\ {clock, beat, ticks, pauses, demands, perSecond, takes, fails, returned}
               \subseteq Nat
      BY DEF StoreInv, Plain
    <2> QED
      BY <2>1, <2>2, <2>3, <2>4 DEF Plain
  <1> QED
    BY <1>1, StepsBetween DEF Crash, diskVars

LEMMA RestartStore == ASSUME StoreInv, Restart PROVE StoreInv'
  <1>1. pc = "idle"
    BY DEF Restart, StoreInv, Plain, JobInv
  <1>2. beat' \in Nat
    BY DEF Restart, Loadable, StoreInv, DirsInv, Sound
  <1>3. Plain'
    <2>1. up' = TRUE /\ clock' \in Nat /\ perSecond' \in Nat
      BY DEF Restart, StoreInv, Plain
    <2>2. UNCHANGED <<pc, job, written, link, pauseBeats, tasks, ticks, pauses,
                      demands, crashes, fails, takes, returned>>
      BY DEF Restart, takeVars, diskVars
    <2> QED
      BY <1>2, <2>1, <2>2 DEF StoreInv, Plain
  <1> QED
    BY <1>1, <1>3, StepsBetween DEF Restart, takeVars, diskVars

-----------------------------------------------------------------------------
(***************************************************************************)
(* A take                                                                  *)
(***************************************************************************)

LEMMA BeginStore ==
    ASSUME StoreInv, NEW label \in Int, NEW daily \in BOOLEAN,
           Begin(label, daily), tasks' \in Nat, demands' \in Nat
    PROVE  StoreInv'
  <1> DEFINE name == [time |-> clock, label |-> label, daily |-> daily,
                      take |-> takes + 1]
             kept == {d \in dirs : ~(d.tmp /\ SameName(d.name, name))}
  <1>0. PICK new : new = Directory(name, TRUE, [f \in Files |-> NoFile], beat)
    OBVIOUS
  <1>1. /\ clock \in Nat /\ takes \in Nat /\ perSecond \in Nat /\ beat \in Nat
        /\ MaxPerSecond \in Nat
    BY Constants DEF StoreInv, Plain
  <1>2. /\ up /\ perSecond < MaxPerSecond
        /\ job' = [name |-> name, resume |-> beat]
        /\ dirs' = kept \cup {new}
        /\ written' = {} /\ toPrune' = {} /\ pc' = "write"
        /\ takes' = takes + 1 /\ perSecond' = perSecond + 1
    BY <1>0 DEF Begin
  <1>3. UNCHANGED <<up, clock, beat, pauseBeats, link, ticks, pauses, crashes,
                    fails, returned>>
    BY DEF Begin
  <1>4. name \in Names /\ name.take = takes + 1 /\ name.time = clock
    BY <1>1 DEF Names
  <1>5. /\ new.name = name /\ new.tmp /\ new.resume = beat
        /\ \A f \in Files : new.parts[f] = NoFile
        /\ new \in Directories
    BY <1>0, <1>1, <1>4 DEF Directory, Directories, NoFile
  <1> HIDE DEF kept, name
  <1>6. Plain'
    <2>1. job' \in [name : Names, resume : Int]
      BY <1>1, <1>2, <1>4
    <2>2. takes' \in Nat /\ perSecond' \in Nat
      BY <1>1, <1>2
    <2> QED
      BY <1>2, <1>3, <2>1, <2>2 DEF StoreInv, Plain
  <1>7. \A d \in kept : d \in dirs /\ Sound(d) /\ Sound(d)' /\ d.name.take <= takes
    <2> SUFFICES ASSUME NEW d \in kept
                 PROVE  d \in dirs /\ Sound(d) /\ Sound(d)' /\ d.name.take <= takes
      OBVIOUS
    <2>1. d \in dirs /\ Sound(d)
      BY DEF kept, StoreInv, DirsInv
    <2>2. d.name.take \in 1..takes'
      BY <1>1, <1>2, <2>1 DEF Sound
    <2>3. d.name.time = clock => d.name.take + perSecond' > takes'
      BY <1>1, <1>2, <2>1 DEF Sound
    <2> QED
      BY <1>1, <1>3, <2>1, <2>2, <2>3 DEF Sound
  <1>8. Sound(new)'
    <2>1. new.name.take \in 1..takes' /\ new.name.take + perSecond' > takes'
      BY <1>1, <1>2, <1>4, <1>5
    <2> QED
      BY <1>1, <1>3, <1>4, <1>5, <2>1 DEF Sound
  <1>9. DirsInv'
    <2>1. \A d \in dirs' : Sound(d)'
      BY <1>2, <1>7, <1>8
    <2>2. \A d, e \in dirs' : d.name.take = e.name.take => d = e
      <3>1. \A d \in kept : d.name.take # new.name.take
        BY <1>1, <1>4, <1>5, <1>7 DEF Sound
      <3>2. \A d, e \in kept : d.name.take = e.name.take => d = e
        BY <1>7 DEF StoreInv, DirsInv
      <3> QED
        BY <1>2, <3>1, <3>2
    <2> QED
      BY <2>1, <2>2 DEF DirsInv
  <1>10. JobInv'
    <2>1. Writing(new)'
      BY <1>2, <1>5 DEF Writing, Files
    <2> QED
      BY <1>1, <1>2, <1>3, <1>4, <2>1 DEF JobInv
  <1>11. LinkInv'
    <2>1. link # NoLink => \E d \in dirs' : d.name = link /\ Complete(d)
      BY <1>2 DEF StoreInv, LinkInv, Complete, kept
    <2>2. link.take <= takes' /\ returned <= link.take
      <3>1. link.take \in Nat
        BY DEF StoreInv, Plain, Names
      <3> QED
        BY <1>1, <1>2, <3>1 DEF StoreInv, LinkInv
    <2> QED
      BY <1>2, <1>3, <2>1, <2>2 DEF LinkInv, Complete
  <1>12. PruneInv'
    BY <1>2 DEF PruneInv
  <1> QED
    BY <1>1, <1>2, <1>6, <1>9, <1>10, <1>11, <1>12 DEF StoreInv

LEMMA TakesStore ==
    ASSUME StoreInv, HeartbeatTake \/ DemandTake
    PROVE  StoreInv'
  <1>1. beat \in Int /\ beat - 1 \in Int /\ tasks \in Nat /\ demands \in Nat
    BY DEF StoreInv, Plain
  <1>2. CASE HeartbeatTake
    <2>1. Begin(beat - 1, FALSE)
      BY <1>2 DEF HeartbeatTake
    <2>2. tasks > 0 /\ tasks' = tasks - 1 /\ demands' = demands
      BY <1>2 DEF HeartbeatTake
    <2>3. tasks' \in Nat /\ demands' \in Nat
      BY <1>1, <2>2
    <2> QED
      BY <1>1, <2>1, <2>3, BeginStore
  <1>3. CASE DemandTake
    <2>1. PICK daily \in BOOLEAN : Begin(beat, daily)
      BY <1>3 DEF DemandTake
    <2>2. tasks' \in Nat /\ demands' \in Nat
      BY <1>1, <1>3 DEF DemandTake
    <2> QED
      BY <1>1, <2>1, <2>2, BeginStore
  <1> QED
    BY <1>2, <1>3

\* What a step of a take leaves of the types.
LEMMA QuietPlain ==
    ASSUME Plain, Quiet, UNCHANGED job, written' \subseteq Components,
           pc' \in {"idle", "write", "rename", "swap", "prune"},
           fails' \in Nat, returned' \in Nat, link' \in Names
    PROVE  Plain'
  <1>1. UNCHANGED <<up, clock, beat, pauseBeats, tasks, ticks, pauses, demands,
                    crashes, perSecond, takes>>
    BY DEF Quiet, processVars, boundVars
  <1> QED
    BY <1>1 DEF Plain

\* The link is as good as it was when no complete directory goes.
LEMMA LinkKept ==
    ASSUME StoreInv, Quiet, UNCHANGED <<link, returned>>, pc' # "prune",
           \A d \in dirs : Complete(d) => d \in dirs'
    PROVE  LinkInv'
  <1>1. UNCHANGED takes
    BY DEF Quiet, boundVars
  <1> QED
    BY <1>1 DEF StoreInv, LinkInv, Complete

LEMMA WriteComponentStore == ASSUME StoreInv, WriteComponent PROVE StoreInv'
  <1>1. PICK c \in Components \ written : WriteFile(c) /\ written' = written \cup {c}
    BY DEF WriteComponent
  <1>2. /\ pc = "write" /\ up /\ Quiet
        /\ UNCHANGED <<pc, job, toPrune, link, fails, returned>>
    BY DEF WriteComponent, Step
  <1>3. UNCHANGED <<up, clock, takes, ticks, perSecond>>
    BY <1>2 DEF Quiet, boundVars
  <1>4. c \in Files /\ Components \subseteq Files
    BY DEF Files
  <1>5. PICK e \in dirs' :
             /\ dirs' = (dirs \ {JobDir}) \cup {e}
             /\ Sound(e) /\ e.tmp /\ e.name = job.name
             /\ e.parts[c] = ticks
             /\ \A g \in Files : e.parts[g] \in {NoFile, ticks}
             /\ \A g \in Files \ {c} : e.parts[g] = JobDir.parts[g]
    BY <1>1, <1>2, <1>4, WriteFileIs
  <1>6. JobDir \in dirs /\ Writing(JobDir) /\ JobDir.tmp /\ JobDir.name = job.name
    BY <1>2, JobDirIs DEF Writing
  <1>7. Plain'
    BY <1>1, <1>2, QuietPlain DEF StoreInv, Plain
  <1>8. DirsInv'
    BY <1>3, <1>5, <1>6, Replaced DEF StoreInv
  <1>9. JobInv'
    <2>1. {x \in Components : e.parts[x] # NoFile} = written \cup {c}
      <3>1. e.parts[c] # NoFile
        BY <1>5 DEF StoreInv, Plain, NoFile
      <3>2. \A x \in Components \ {c} : e.parts[x] # NoFile <=> x \in written
        BY <1>4, <1>5, <1>6 DEF Writing
      <3> QED
        BY <1>1, <3>1, <3>2 DEF StoreInv, Plain
    <2>2. Writing(e)'
      BY <1>1, <1>2, <1>3, <1>5, <2>1 DEF Writing
    <2> QED
      BY <1>2, <1>3, <1>5, <2>2 DEF StoreInv, JobInv
  <1>10. LinkInv'
    <2>1. \A d \in dirs : Complete(d) => d \in dirs'
      BY <1>5, <1>6 DEF Complete
    <2> QED
      BY <1>2, <2>1, LinkKept
  <1>11. PruneInv'
    BY <1>2 DEF StoreInv, PruneInv
  <1> QED
    BY <1>3, <1>7, <1>8, <1>9, <1>10, <1>11 DEF StoreInv

LEMMA WriteManifestStore == ASSUME StoreInv, WriteManifest PROVE StoreInv'
  <1>1. /\ pc = "write" /\ up /\ Quiet /\ written = Components /\ WriteFile(Manifest)
        /\ pc' = "rename"
        /\ UNCHANGED <<job, written, toPrune, link, fails, returned>>
    BY DEF WriteManifest, Step
  <1>2. UNCHANGED <<up, clock, takes, ticks, perSecond>>
    BY <1>1 DEF Quiet, boundVars
  <1>3. Manifest \in Files /\ Components \subseteq Files
    BY DEF Files
  <1>4. PICK e \in dirs' :
             /\ dirs' = (dirs \ {JobDir}) \cup {e}
             /\ Sound(e) /\ e.tmp /\ e.name = job.name
             /\ e.parts[Manifest] = ticks
             /\ \A g \in Files : e.parts[g] \in {NoFile, ticks}
             /\ \A g \in Files \ {Manifest} : e.parts[g] = JobDir.parts[g]
    BY <1>1, <1>3, WriteFileIs
  <1>5. JobDir \in dirs /\ Writing(JobDir) /\ JobDir.tmp /\ JobDir.name = job.name
    BY <1>1, JobDirIs DEF Writing
  <1>6. Plain'
    BY <1>1, QuietPlain DEF StoreInv, Plain
  <1>7. DirsInv'
    BY <1>2, <1>4, <1>5, Replaced DEF StoreInv
  <1>8. JobInv'
    <2>1. \A g \in Files : e.parts[g] # NoFile
      <3>1. e.parts[Manifest] # NoFile
        BY <1>4 DEF StoreInv, Plain, NoFile
      <3>2. \A g \in Components : JobDir.parts[g] # NoFile
        BY <1>1, <1>5 DEF Writing
      <3>3. \A g \in Files : g = Manifest \/ g \in Components
        BY DEF Files
      <3> QED
        BY <1>4, <3>1, <3>2, <3>3
    <2>2. {x \in Components : e.parts[x] # NoFile} = written
      BY <1>1, <1>3, <2>1
    <2>3. Writing(e)'
      BY <1>1, <1>2, <1>4, <2>1, <2>2 DEF Writing
    <2> QED
      BY <1>1, <1>2, <1>4, <2>3 DEF StoreInv, JobInv
  <1>9. LinkInv'
    <2>1. \A d \in dirs : Complete(d) => d \in dirs'
      BY <1>4, <1>5 DEF Complete
    <2> QED
      BY <1>1, <2>1, LinkKept
  <1>10. PruneInv'
    BY <1>1 DEF StoreInv, PruneInv
  <1> QED
    BY <1>2, <1>6, <1>7, <1>8, <1>9, <1>10 DEF StoreInv

LEMMA RenameStore == ASSUME StoreInv, Rename PROVE StoreInv'
  <1>0. PICK e : e = [JobDir EXCEPT !.tmp = FALSE]
    OBVIOUS
  <1>1. /\ pc = "rename" /\ up /\ Quiet /\ pc' = "swap"
        /\ dirs' = (dirs \ {JobDir}) \cup {e}
        /\ UNCHANGED <<job, written, toPrune, link, fails, returned>>
    BY <1>0 DEF Rename, Step
  <1>2. UNCHANGED <<up, clock, takes, ticks, perSecond>>
    BY <1>1 DEF Quiet, boundVars
  <1>3. JobDir \in dirs /\ Writing(JobDir) /\ Sound(JobDir)
    BY <1>1, JobDirIs
  <1>4. /\ e \in Directories /\ ~e.tmp /\ e.name = JobDir.name
        /\ e.parts = JobDir.parts /\ e.resume = JobDir.resume
    BY <1>0, <1>3 DEF Sound, Directories
  <1>5. Sound(e) /\ Complete(e) /\ e.name = job.name
    BY <1>1, <1>3, <1>4 DEF Sound, Writing, Complete
  <1>6. Plain'
    BY <1>1, QuietPlain DEF StoreInv, Plain
  <1>7. DirsInv'
    BY <1>1, <1>2, <1>3, <1>4, <1>5, Replaced DEF StoreInv
  <1>8. JobInv'
    <2>1. e \in dirs' /\ e.name = job'.name /\ Complete(e)'
      BY <1>1, <1>5 DEF Complete
    <2> QED
      BY <1>1, <1>2, <2>1 DEF StoreInv, JobInv
  <1>9. LinkInv'
    <2>1. \A d \in dirs : Complete(d) => d \in dirs'
      BY <1>1, <1>3 DEF Complete, Writing
    <2> QED
      BY <1>1, <2>1, LinkKept
  <1>10. PruneInv'
    BY <1>1 DEF StoreInv, PruneInv
  <1> QED
    BY <1>2, <1>6, <1>7, <1>8, <1>9, <1>10 DEF StoreInv

\* A take that gives up leaves every directory that has its final name.
LEMMA GiveUpStore ==
    ASSUME StoreInv, pc \in {"write", "rename", "swap"}, GiveUp,
           dirs' \in {dirs, WithoutTemporary}, fails' \in Nat
    PROVE  StoreInv'
  <1>1. /\ Quiet /\ pc' = "idle"
        /\ UNCHANGED <<job, written, toPrune, link, returned>>
    BY DEF GiveUp
  <1>2. UNCHANGED <<up, clock, takes, ticks, perSecond>>
    BY <1>1 DEF Quiet, boundVars
  <1>3. dirs' \subseteq dirs /\ \A d \in dirs : Complete(d) => d \in dirs'
    BY DEF WithoutTemporary, Complete
  <1>4. Plain'
    BY <1>1, QuietPlain DEF StoreInv, Plain
  <1>5. DirsInv'
    BY <1>2, <1>3, Fewer DEF StoreInv
  <1>6. JobInv'
    BY <1>1 DEF JobInv
  <1>7. LinkInv'
    BY <1>1, <1>3, LinkKept
  <1>8. PruneInv'
    BY <1>1 DEF StoreInv, PruneInv
  <1> QED
    BY <1>2, <1>4, <1>5, <1>6, <1>7, <1>8 DEF StoreInv

LEMMA FailuresStore ==
    ASSUME StoreInv, RenameFails \/ TakeFails
    PROVE  StoreInv'
  <1>1. CASE RenameFails
    <2>1. fails' \in Nat
      BY <1>1 DEF RenameFails, StoreInv, Plain
    <2> QED
      BY <1>1, <2>1, GiveUpStore DEF RenameFails, Step
  <1>2. CASE TakeFails
    <2>1. fails' \in Nat
      BY <1>2 DEF TakeFails, StoreInv, Plain
    <2> QED
      BY <1>2, <2>1, GiveUpStore DEF TakeFails
  <1> QED
    BY <1>1, <1>2

LEMMA SwapStore ==
    ASSUME StoreInv, MaxPerSecond <= RollingKeep, Swap
    PROVE  StoreInv'
  <1>1. /\ pc = "swap" /\ up /\ Quiet /\ pc' = "prune"
        /\ link' = job.name /\ toPrune' = ToPrune
        /\ UNCHANGED <<job, written, dirs, fails, returned>>
    BY DEF Swap, Step
  <1>2. UNCHANGED <<up, clock, takes, ticks, perSecond>>
    BY <1>1 DEF Quiet, boundVars
  <1>3. Plain'
    BY <1>1, QuietPlain DEF StoreInv, Plain
  <1>4. DirsInv'
    BY <1>1, <1>2, Fewer DEF StoreInv
  <1>5. JobInv'
    BY <1>1, <1>2 DEF StoreInv, JobInv
  <1>6. LinkInv'
    <2>1. \E d \in dirs : d.name = job.name /\ Complete(d)
      BY <1>1 DEF StoreInv, JobInv
    <2>2. job.name.take = takes /\ takes \in Nat /\ link.take \in Nat /\ returned \in Nat
      BY <1>1 DEF StoreInv, JobInv, Plain, Names
    <2>3. returned <= takes
      BY <2>2 DEF StoreInv, LinkInv
    <2> QED
      BY <1>1, <1>2, <2>1, <2>2, <2>3 DEF LinkInv, Complete
  <1>7. PruneInv'
    <2>1. ToPrune \subseteq dirs
      BY DEF ToPrune, RollingExcess, Rolling, DailyExpired
    <2>2. \A d \in ToPrune : d.name # job.name
      BY <1>1, <2>1, JobSpared
    <2>3. \A d \in ToPrune : ~d.name.daily
            => Cardinality({e \in Rolling : Before(d, e)}) >= RollingKeep
      BY DEF ToPrune, RollingExcess, DailyExpired
    <2>4. Rolling' = Rolling
      BY <1>1 DEF Rolling
    <2> QED
      BY <1>1, <2>1, <2>2, <2>3, <2>4 DEF PruneInv, Before, NameKey
  <1> QED
    BY <1>2, <1>3, <1>4, <1>5, <1>6, <1>7 DEF StoreInv

-----------------------------------------------------------------------------
(***************************************************************************)
(* Pruning                                                                 *)
(***************************************************************************)

\* The next directory to be removed comes after none of the others in name
\* order, so what comes after those is as it was, whatever is left of it.
LEMMA PruneStep ==
    ASSUME StoreInv, pc = "prune", Quiet, NEW d \in PruneNext,
           \/ dirs' = dirs \ {d}
           \/ \E gone \in SUBSET Files : dirs' = (dirs \ {d}) \cup {Remains(d, gone)},
           toPrune' = toPrune \ {d}, UNCHANGED <<pc, job, written, link, returned>>,
           fails' \in Nat
    PROVE  StoreInv'
  <1>1. UNCHANGED <<up, clock, takes, ticks, perSecond>>
    BY DEF Quiet, boundVars
  <1>2. /\ d \in toPrune /\ d \in dirs /\ Sound(d) /\ d.name # link
        /\ \A x \in toPrune \ {d} : ~x.name.daily => ~d.name.daily /\ ~Before(x, d)
    BY DEF PruneNext, StoreInv, PruneInv, DirsInv
  <1>3. ASSUME NEW gone \in SUBSET Files
        PROVE  /\ Remains(d, gone).name = d.name /\ Remains(d, gone).tmp = d.tmp
               /\ Sound(Remains(d, gone))
    <2>1. PICK e : e = Remains(d, gone)
      OBVIOUS
    <2>2. d \in Directories
      BY <1>2 DEF Sound
    <2>3. /\ e \in Directories /\ e.name = d.name /\ e.tmp = d.tmp
          /\ e.resume = d.resume
          /\ \A f \in Files : e.parts[f] = IF f \in gone THEN NoFile ELSE d.parts[f]
      BY <2>1, <2>2 DEF Remains, Directories, NoFile
    <2>4. Sound(e)
      BY <1>2, <2>3 DEF Sound
    <2> QED
      BY <2>1, <2>3, <2>4
  <1>4. PICK left \in SUBSET Directories :
             /\ dirs' = (dirs \ {d}) \cup left
             /\ \A e \in left : e.name = d.name /\ e.tmp = d.tmp /\ Sound(e)
             /\ \A e, x \in left : e = x
    <2>1. CASE dirs' = dirs \ {d}
      <3> WITNESS {} \in SUBSET Directories
      <3>1. dirs' = (dirs \ {d}) \cup {}
        BY <2>1
      <3> QED
        BY <3>1
    <2>2. ASSUME NEW gone \in SUBSET Files,
                 dirs' = (dirs \ {d}) \cup {Remains(d, gone)}
          PROVE  \E left \in SUBSET Directories :
                   /\ dirs' = (dirs \ {d}) \cup left
                   /\ \A e \in left : e.name = d.name /\ e.tmp = d.tmp /\ Sound(e)
                   /\ \A e, x \in left : e = x
      <3>1. PICK e : e = Remains(d, gone)
        OBVIOUS
      <3>2. e.name = d.name /\ e.tmp = d.tmp /\ Sound(e) /\ e \in Directories
        BY <1>3, <3>1 DEF Sound
      <3>3. {e} \in SUBSET Directories /\ dirs' = (dirs \ {d}) \cup {e}
        BY <2>2, <3>1, <3>2
      <3> QED
        BY <3>2, <3>3
    <2> QED
      BY <2>1, <2>2
  <1>5. Plain'
    BY QuietPlain DEF StoreInv, Plain
  <1>6. DirsInv'
    <2>1. \A x : Sound(x)' <=> Sound(x)
      BY <1>1 DEF Sound
    <2>2. \A x, y \in dirs' : x.name.take = y.name.take => x = y
      BY <1>2, <1>4 DEF StoreInv, DirsInv
    <2> QED
      BY <1>4, <2>1, <2>2 DEF StoreInv, DirsInv
  <1>7. JobInv'
    BY <1>1 DEF StoreInv, JobInv
  <1>8. LinkInv'
    <2>1. \A e \in dirs : e.name = link => e \in dirs'
      BY <1>2, <1>4
    <2> QED
      BY <1>1, <2>1 DEF StoreInv, LinkInv, Complete
  <1>9. PruneInv'
    <2>1. toPrune' \subseteq dirs'
      BY <1>4 DEF StoreInv, PruneInv
    <2>2. ASSUME NEW x \in toPrune', ~x.name.daily
          PROVE  Cardinality({e \in Rolling : Before(x, e)})' >= RollingKeep
      <3>1. x \in toPrune \ {d} /\ ~d.name.daily /\ ~Before(x, d)
        BY <1>2, <2>2
      <3>2. \A e \in left : ~Before(x, e)
        BY <1>4, <3>1 DEF Before, NameKey
      <3>3. {e \in Rolling : Before(x, e)}' = {e \in Rolling : Before(x, e)}
        <4>1. \A e : Before(x, e)' <=> Before(x, e)
          BY DEF Before
        <4>2. \A e : (e \in Rolling /\ Before(x, e))' <=> (e \in Rolling /\ Before(x, e))
          BY <1>4, <3>1, <3>2, <4>1 DEF Rolling
        <4> QED
          BY <4>2
      <3>4. Cardinality({e \in Rolling : Before(x, e)}) >= RollingKeep
        BY <2>2, <3>1 DEF StoreInv, PruneInv
      <3> QED
        BY <3>3, <3>4
    <2>3. \A x \in toPrune' : x.name # link
      BY DEF StoreInv, PruneInv
    <2> QED
      BY <2>1, <2>2, <2>3 DEF PruneInv, Before
  <1> QED
    BY <1>1, <1>5, <1>6, <1>7, <1>8, <1>9 DEF StoreInv

LEMMA PruneStore ==
    ASSUME StoreInv, PruneOne \/ PruneFails
    PROVE  StoreInv'
  <1>1. CASE PruneOne
    <2>1. PICK d \in PruneNext : dirs' = dirs \ {d} /\ toPrune' = toPrune \ {d}
      BY <1>1 DEF PruneOne
    <2>2. /\ pc = "prune" /\ Quiet /\ fails' \in Nat
          /\ UNCHANGED <<pc, job, written, link, returned>>
      BY <1>1 DEF PruneOne, Step, StoreInv, Plain
    <2> QED
      BY <2>1, <2>2, PruneStep
  <1>2. CASE PruneFails
    <2>1. PICK d \in PruneNext, gone \in SUBSET Files :
               /\ dirs' = (dirs \ {d}) \cup {Remains(d, gone)}
               /\ toPrune' = toPrune \ {d}
      BY <1>2 DEF PruneFails
    <2>2. /\ pc = "prune" /\ Quiet /\ fails' \in Nat
          /\ UNCHANGED <<pc, job, written, link, returned>>
      BY <1>2 DEF PruneFails, Step, StoreInv, Plain
    <2> QED
      BY <2>1, <2>2, PruneStep
  <1> QED
    BY <1>1, <1>2

LEMMA ReturnStore == ASSUME StoreInv, Return PROVE StoreInv'
  <1>1. /\ pc = "prune" /\ up /\ Quiet /\ pc' = "idle" /\ returned' = job.name.take
        /\ UNCHANGED <<job, written, toPrune, dirs, link, fails>>
    BY DEF Return, Step, diskVars
  <1>2. UNCHANGED <<up, clock, takes, ticks, perSecond>>
    BY <1>1 DEF Quiet, boundVars
  <1>3. returned' \in Nat /\ link = job.name
    BY <1>1 DEF StoreInv, Plain, Names, LinkInv
  <1>4. Plain'
    BY <1>1, <1>3, QuietPlain DEF StoreInv, Plain
  <1>5. DirsInv'
    BY <1>1, <1>2, Fewer DEF StoreInv
  <1>6. JobInv' /\ PruneInv'
    BY <1>1 DEF StoreInv, JobInv, PruneInv
  <1>7. LinkInv'
    <2>1. (returned <= link.take)'
      BY <1>1, <1>3 DEF StoreInv, Plain, Names
    <2> QED
      BY <1>1, <1>2, <2>1 DEF StoreInv, LinkInv, Complete
  <1> QED
    BY <1>2, <1>4, <1>5, <1>6, <1>7 DEF StoreInv

-----------------------------------------------------------------------------
(***************************************************************************)
(* Theorems                                                                *)
(***************************************************************************)

LEMMA NextStore ==
    ASSUME MaxPerSecond <= RollingKeep, StoreInv, [Next]_vars
    PROVE  StoreInv'
  <1>1. CASE Tick \/ PausedTick \/ Pause
    BY <1>1, BeatsStore
  <1>2. CASE HeartbeatTake \/ DemandTake
    BY <1>2, TakesStore
  <1>3. CASE WriteComponent
    BY <1>3, WriteComponentStore
  <1>4. CASE WriteManifest
    BY <1>4, WriteManifestStore
  <1>5. CASE Rename
    BY <1>5, RenameStore
  <1>6. CASE RenameFails \/ TakeFails
    BY <1>6, FailuresStore
  <1>7. CASE Swap
    BY <1>7, SwapStore
  <1>8. CASE PruneOne \/ PruneFails
    BY <1>8, PruneStore
  <1>9. CASE Return
    BY <1>9, ReturnStore
  <1>10. CASE Crash
    BY <1>10, CrashStore
  <1>11. CASE Restart
    BY <1>11, RestartStore
  <1>12. CASE UNCHANGED vars
    <2>1. UNCHANGED <<up, clock, beat, pauseBeats, tasks, pc, job, written, toPrune,
                      dirs, link, ticks, pauses, demands, crashes, perSecond, takes,
                      fails, returned>>
      BY <1>12 DEF vars, processVars, takeVars, diskVars, boundVars
    <2>2. Plain'
      BY <2>1 DEF StoreInv, Plain
    <2>3. DirsInv'
      BY <2>1, Fewer DEF StoreInv
    <2>4. JobInv' /\ LinkInv'
      BY <2>1 DEF StoreInv, JobInv, LinkInv, Complete, Writing
    <2>5. PruneInv'
      BY <2>1 DEF StoreInv, PruneInv, Rolling, Before
    <2> QED
      BY <2>1, <2>2, <2>3, <2>4, <2>5 DEF StoreInv
  <1> QED
    BY <1>1, <1>2, <1>3, <1>4, <1>5, <1>6, <1>7, <1>8, <1>9, <1>10, <1>11, <1>12
       DEF Next

LEMMA StoreInvariant ==
    ASSUME MaxPerSecond <= RollingKeep
    PROVE  Spec => []StoreInv
  <1>1. StoreInv /\ [Next]_vars => StoreInv'
    BY NextStore
  <1> QED
    BY <1>1, InitStore, PTL DEF Spec

\* The state has its types, and the temporary directory of the take in progress
\* is there and holds exactly what the take has written, when no more than
\* rolling_keep takes start in one second.
THEOREM TypeCorrect ==
    ASSUME MaxPerSecond <= RollingKeep
    PROVE  Spec => []TypeOK
  <1>1. StoreInv => TypeOK
    <2> SUFFICES ASSUME StoreInv PROVE TypeOK
      OBVIOUS
    <2>1. dirs \subseteq Directories /\ toPrune \subseteq dirs
      BY DEF StoreInv, DirsInv, Sound, PruneInv
    <2>2. pc \in {"write", "rename"} =>
            \E d \in dirs : /\ d.tmp
                            /\ d.name = job.name
                            /\ {c \in Components : d.parts[c] # NoFile} = written
      BY DEF StoreInv, JobInv, Writing
    <2> QED
      BY <2>1, <2>2 DEF StoreInv, Plain, TypeOK
  <1> QED
    BY <1>1, StoreInvariant, PTL

\* "current" names a complete snapshot of one beat whatever dies or fails
\* between the steps of a take, when no more than rolling_keep takes start in
\* one second.  With more, the order of label strings could put the take in
\* progress before rolling_keep others, and _prune_rolling would remove it.
THEOREM CurrentIsComplete ==
    ASSUME MaxPerSecond <= RollingKeep
    PROVE  Spec => []CurrentComplete
  <1>1. StoreInv => CurrentComplete
    BY DEF StoreInv, LinkInv, DirsInv, Sound, CurrentComplete, OneCut, Complete
  <1> QED
    BY <1>1, StoreInvariant, PTL

\* A snapshot whose take returned is the one a restart loads until a later take
\* is published: no crash, failure or prune brings back an older one.
ReturnedSurvives == link.take >= returned

\* A take that returned stays the published one until a later take is
\* (SnapshotManager.take).
THEOREM ReturnedStays ==
    ASSUME MaxPerSecond <= RollingKeep
    PROVE  Spec => []ReturnedSurvives
  <1>1. StoreInv => ReturnedSurvives
    BY DEF StoreInv, Plain, Names, LinkInv, ReturnedSurvives
  <1> QED
    BY <1>1, StoreInvariant, PTL

\* Only _prune_rolling removes a complete rolling snapshot, and only one that
\* rolling_keep rolling directories come after, whatever was removed before it
\* in the same pruning.
THEOREM PruningSpares ==
    ASSUME MaxPerSecond <= RollingKeep
    PROVE  Spec => PruneSpares
  <1> DEFINE Spared == \A d \in dirs :
                         (Complete(d) /\ ~d.name.daily /\ d \notin dirs')
                         => Cardinality({e \in Rolling : Before(d, e)}) >= RollingKeep
  <1>1. StoreInv /\ [Next]_vars => [Spared]_vars
    <2> SUFFICES ASSUME StoreInv, Next,
                        NEW d \in dirs, Complete(d), ~d.name.daily, d \notin dirs'
                 PROVE  Cardinality({e \in Rolling : Before(d, e)}) >= RollingKeep
      OBVIOUS
    <2>1. ~d.tmp
      BY DEF Complete
    <2>2. CASE PruneOne \/ PruneFails
      <3>1. d \in PruneNext
        BY <2>2 DEF PruneOne, PruneFails
      <3>2. pc = "prune" /\ d \in toPrune
        BY <2>2, <3>1 DEF PruneOne, PruneFails, Step, PruneNext
      <3> QED
        BY <3>2 DEF StoreInv, PruneInv
    <2>3. CASE HeartbeatTake \/ DemandTake
      BY <2>1, <2>3 DEF HeartbeatTake, DemandTake, Begin
    <2>4. CASE WriteComponent \/ WriteManifest \/ Rename
      <3>1. pc \in {"write", "rename"}
        BY <2>4 DEF WriteComponent, WriteManifest, Rename, Step
      <3>2. JobDir.tmp
        BY <3>1, JobDirIs DEF Writing
      <3> QED
        BY <2>1, <2>4, <3>2 DEF WriteComponent, WriteManifest, Rename, WriteFile
    <2>5. CASE RenameFails \/ TakeFails
      BY <2>1, <2>5 DEF RenameFails, TakeFails, WithoutTemporary
    <2>6. CASE \/ Tick \/ PausedTick \/ Pause \/ Swap \/ Return \/ Crash \/ Restart
      BY <2>6 DEF Tick, PausedTick, Pause, Swap, Return, Crash, Restart, diskVars
    <2> QED
      BY <2>2, <2>3, <2>4, <2>5, <2>6 DEF Next
  <1> QED
    BY <1>1, StoreInvariant, PTL DEF Spec, PruneSpares

-----------------------------------------------------------------------------
(***************************************************************************)
(* How many directories there can be                                       *)
(***************************************************************************)

\* No two directories of one kind share a name, and beyond those a pruning keeps
\* there is one for each failure, one for each crash, and that of the take in
\* progress.
OwnDir == IF pc # "idle" /\ ~job.name.daily THEN 1 ELSE 0

NamesInv == \A d, e \in dirs : SameName(d.name, e.name) /\ d.tmp = e.tmp => d = e

CountInv ==
    /\ Cardinality(Rolling) <= RollingKeep + fails + crashes + OwnDir
    /\ pc = "prune" => Cardinality(Rolling \ toPrune) <= RollingKeep + fails

DiskInv == StoreInv /\ NamesInv /\ CountInv

LEMMA DirsFinite ==
    ASSUME StoreInv, NEW S \in SUBSET dirs
    PROVE  IsFiniteSet(S) /\ Cardinality(S) \in Nat
  <1> DEFINE T == 1..takes
             f == [d \in dirs |-> d.name.take]
  <1>1. \A d \in dirs : d.name.take \in T
    BY DEF StoreInv, DirsInv, Sound
  <1>2. \A d, e \in dirs : f[d] = f[e] => d = e
    BY DEF StoreInv, DirsInv
  <1>3. f \in [dirs -> T] /\ DOMAIN f = dirs
    BY <1>1
  <1>4. IsFiniteSet(T)
    BY FS_Interval DEF StoreInv, Plain
  <1> HIDE DEF f, T
  <1>5. f \in Injection(dirs, T)
    BY <1>2, <1>3 DEF Injection, IsInjective
  <1>6. IsFiniteSet(dirs)
    BY <1>4, <1>5, FS_Injection
  <1> QED
    BY <1>6, FS_Subset, FS_CardinalityType

\* Labels are told apart by their keys, so names of one second are in order.
LEMMA LabelsApart ==
    ASSUME NEW m \in Int, NEW n \in Int, LabelKey(m) = LabelKey(n)
    PROVE  m = n
  <1>1. ASSUME NEW k \in Int, ~(k < 10)
        PROVE  \E q \in Int : \E r \in 0..9 : k = 10 * q + r /\ LabelKey(k) = 11 * q + 1 + r
    <2> DEFINE q == k \div 10
               r == k % 10
    <2>1. q \in Int /\ r \in 0..9 /\ k = 10 * q + r
      BY <1>1
    <2>2. LabelKey(k) = 11 * q + 1 + r
      BY <1>1 DEF LabelKey
    <2> QED
      BY <2>1, <2>2
  <1>2. ASSUME NEW k \in Int, k < 10
        PROVE  LabelKey(k) = 11 * k
    BY <1>2 DEF LabelKey
  <1>3. CASE m < 10 /\ n < 10
    BY <1>2, <1>3
  <1>4. CASE ~(m < 10) /\ ~(n < 10)
    <2>1. PICK q \in Int, r \in 0..9 : m = 10 * q + r /\ LabelKey(m) = 11 * q + 1 + r
      BY <1>1, <1>4
    <2>2. PICK p \in Int, s \in 0..9 : n = 10 * p + s /\ LabelKey(n) = 11 * p + 1 + s
      BY <1>1, <1>4
    <2> QED
      BY <2>1, <2>2
  <1>5. ASSUME NEW i \in Int, NEW j \in Int, i < 10, ~(j < 10)
        PROVE  LabelKey(i) # LabelKey(j)
    <2>1. PICK q \in Int, r \in 0..9 : j = 10 * q + r /\ LabelKey(j) = 11 * q + 1 + r
      BY <1>1, <1>5
    <2>2. LabelKey(i) = 11 * i
      BY <1>2, <1>5
    <2> QED
      BY <2>1, <2>2
  <1> QED
    BY <1>3, <1>4, <1>5

LEMMA InOrder ==
    ASSUME StoreInv, NamesInv, NEW d \in Rolling, NEW e \in Rolling
    PROVE  d = e \/ Before(d, e) \/ Before(e, d)
  <1>1. d \in dirs /\ e \in dirs /\ ~d.name.daily /\ ~e.name.daily
    BY DEF Rolling
  <1>2. d \in Directories /\ e \in Directories
    BY <1>1 DEF StoreInv, DirsInv, Sound
  <1>3. /\ d.name.time \in Int /\ e.name.time \in Int
        /\ d.name.label \in Int /\ e.name.label \in Int
        /\ d.tmp \in BOOLEAN /\ e.tmp \in BOOLEAN
        /\ d.name.daily \in BOOLEAN /\ e.name.daily \in BOOLEAN
        /\ NameKey(d) \in Int /\ NameKey(e) \in Int
    BY <1>2, NameKeyIsInt DEF Directories, Names
  <1>4. SUFFICES ASSUME d.name.time = e.name.time, NameKey(d) = NameKey(e)
                 PROVE  d = e
    BY <1>3 DEF Before
  <1>5. LabelKey(d.name.label) = LabelKey(e.name.label) /\ d.tmp = e.tmp
    <2> DEFINE a == LabelKey(d.name.label)
               b == LabelKey(e.name.label)
    <2>1. a \in Int /\ b \in Int
      BY <1>3 DEF LabelKey
    <2>2. 2 * a + (IF d.tmp THEN 1 ELSE 0) = 2 * b + (IF e.tmp THEN 1 ELSE 0)
      BY <1>4 DEF NameKey
    <2> HIDE DEF a, b
    <2>3. a = b
      BY <2>1, <2>2
    <2>4. (IF d.tmp THEN 1 ELSE 0) = (IF e.tmp THEN 1 ELSE 0)
      BY <2>1, <2>2, <2>3
    <2>5. d.tmp = e.tmp
      BY <1>3, <2>4
    <2> QED
      BY <2>3, <2>5 DEF a, b
  <1>6. d.name.label = e.name.label
    BY <1>3, <1>5, LabelsApart
  <1>7. SameName(d.name, e.name)
    BY <1>1, <1>3, <1>4, <1>6 DEF SameName
  <1> QED
    BY <1>1, <1>5, <1>7 DEF NamesInv

\* What a pruning keeps: each directory by the number of those after it, which are
\* different numbers below RollingKeep.
LEMMA FewAreKept ==
    ASSUME StoreInv, NamesInv
    PROVE  Cardinality(Rolling \ RollingExcess) <= RollingKeep
  <1> DEFINE after(d) == {e \in Rolling : Before(d, e)}
             S == Rolling \ RollingExcess
             T == 0..(RollingKeep - 1)
             f == [d \in S |-> Cardinality(after(d))]
  <1>1. \A d \in Rolling : after(d) \in SUBSET dirs
    BY DEF Rolling
  <1>2. \A d \in Rolling : IsFiniteSet(after(d)) /\ Cardinality(after(d)) \in Nat
    <2> HIDE DEF after
    <2> QED
      BY <1>1, DirsFinite
  <1>3. RollingKeep \in Nat /\ RollingKeep > 0
    BY Constants
  <1>4. \A d \in S : Cardinality(after(d)) \in T
    <2> SUFFICES ASSUME NEW d \in S
                 PROVE  Cardinality(after(d)) \in T
      OBVIOUS
    <2>1. d \in Rolling /\ ~(Cardinality(after(d)) >= RollingKeep)
      BY DEF RollingExcess
    <2> HIDE DEF after
    <2> QED
      BY <1>2, <1>3, <2>1
  <1>5. ASSUME NEW d \in Rolling, NEW e \in Rolling, Before(d, e)
        PROVE  Cardinality(after(e)) < Cardinality(after(d))
    <2>1. \A x \in Rolling : x \in Directories /\ x.name.time \in Int /\ NameKey(x) \in Int
      BY NameKeyIsInt DEF Rolling, StoreInv, DirsInv, Sound, Directories, Names
    <2>2. ~Before(e, e)
      BY <2>1, NotBeforeItself
    <2>3. \A x \in Rolling : Before(e, x) => Before(d, x)
      <3> SUFFICES ASSUME NEW x \in Rolling, Before(e, x)
                   PROVE  Before(d, x)
        OBVIOUS
      <3> QED
        BY <1>5, <2>1 DEF Before
    <2>4. e \in after(d) /\ after(e) \in SUBSET (after(d) \ {e})
      BY <1>5, <2>2, <2>3
    <2> HIDE DEF after
    <2>5. /\ IsFiniteSet(after(d) \ {e})
          /\ Cardinality(after(d) \ {e}) = Cardinality(after(d)) - 1
      BY <1>2, <2>4, FS_RemoveElement
    <2>6. Cardinality(after(e)) <= Cardinality(after(d) \ {e})
      BY <2>4, <2>5, FS_Subset
    <2> QED
      BY <1>2, <2>5, <2>6
  <1>6. \A d, e \in S : f[d] = f[e] => d = e
    <2> SUFFICES ASSUME NEW d \in S, NEW e \in S, f[d] = f[e]
                 PROVE  d = e
      BY Zenon
    <2>1. d \in Rolling /\ e \in Rolling
      OBVIOUS
    <2>2. Cardinality(after(d)) = Cardinality(after(e))
      OBVIOUS
    <2> HIDE DEF after, f
    <2>3. ~Before(d, e) /\ ~Before(e, d)
      BY <1>2, <1>5, <2>1, <2>2
    <2> QED
      BY <2>1, <2>3, InOrder
  <1>7. f \in [S -> T] /\ DOMAIN f = S
    <2> HIDE DEF S, T, after
    <2> QED
      BY <1>4
  <1>8. IsFiniteSet(T) /\ Cardinality(T) = RollingKeep
    <2> DEFINE b == RollingKeep - 1
    <2>1. b \in Int /\ b >= 0 /\ b - 0 + 1 = RollingKeep
      BY <1>3
    <2> HIDE DEF b
    <2>2. IsFiniteSet(0..b) /\ Cardinality(0..b) = RollingKeep
      BY <2>1, FS_Interval
    <2> QED
      BY <2>2 DEF b
  <1> HIDE DEF f, S, T
  <1>9. f \in Injection(S, T)
    BY <1>6, <1>7 DEF Injection, IsInjective
  <1>10. Cardinality(S) <= RollingKeep
    BY <1>8, <1>9, FS_Injection
  <1> QED
    BY <1>10 DEF S

\* One directory in place of another of the same name is one of the same kind.
LEMMA ReplacedCount ==
    ASSUME StoreInv, NEW d \in dirs, NEW e, e.name = d.name, dirs' = (dirs \ {d}) \cup {e}
    PROVE  Cardinality(Rolling') <= Cardinality(Rolling)
  <1>1. Rolling \in SUBSET dirs
    BY DEF Rolling
  <1>2. IsFiniteSet(Rolling) /\ Cardinality(Rolling) \in Nat
    BY <1>1, DirsFinite
  <1>3. /\ IsFiniteSet(Rolling \ {d})
        /\ Cardinality(Rolling \ {d}) =
             IF d \in Rolling THEN Cardinality(Rolling) - 1 ELSE Cardinality(Rolling)
    BY <1>2, FS_RemoveElement
  <1>4. CASE d \in Rolling
    <2>1. Rolling' \in SUBSET ((Rolling \ {d}) \cup {e})
      BY DEF Rolling
    <2>2. /\ IsFiniteSet((Rolling \ {d}) \cup {e})
          /\ Cardinality((Rolling \ {d}) \cup {e}) <= Cardinality(Rolling)
      <3>1. /\ IsFiniteSet((Rolling \ {d}) \cup {e})
            /\ Cardinality((Rolling \ {d}) \cup {e}) =
                 IF e \in Rolling \ {d} THEN Cardinality(Rolling \ {d})
                 ELSE Cardinality(Rolling \ {d}) + 1
        BY <1>3, FS_AddElement
      <3> QED
        BY <1>2, <1>3, <1>4, <3>1
    <2>3. IsFiniteSet(Rolling') /\ Cardinality(Rolling') <= Cardinality((Rolling \ {d}) \cup {e})
      BY <2>1, <2>2, FS_Subset
    <2>4. Cardinality(Rolling') \in Nat /\ Cardinality((Rolling \ {d}) \cup {e}) \in Nat
      BY <2>2, <2>3, FS_CardinalityType
    <2> QED
      BY <1>2, <2>2, <2>3, <2>4
  <1>5. CASE d \notin Rolling
    <2>1. Rolling' \in SUBSET Rolling
      BY <1>5 DEF Rolling
    <2> QED
      BY <1>2, <2>1, FS_Subset
  <1> QED
    BY <1>4, <1>5

\* Names stay apart when one directory replaces another that none shares a name with.
LEMMA ReplacedNames ==
    ASSUME NamesInv, NEW d \in dirs, NEW e, e.name = d.name, dirs' = (dirs \ {d}) \cup {e},
           e.tmp = d.tmp \/ \A x \in dirs : ~(x.tmp = e.tmp /\ SameName(x.name, e.name))
    PROVE  NamesInv'
  <1>1. \A x \in dirs \ {d} : SameName(x.name, e.name) => x.tmp # e.tmp
    BY DEF NamesInv
  <1>2. \A x, y : SameName(x, y) <=> SameName(y, x)
    BY DEF SameName
  <1>3. \A x, y \in dirs' : SameName(x.name, y.name) /\ x.tmp = y.tmp => x = y
    BY <1>1, <1>2 DEF NamesInv
  <1> QED
    BY <1>3 DEF NamesInv, SameName

LEMMA Counts ==
    ASSUME StoreInv
    PROVE  /\ fails \in Nat /\ crashes \in Nat /\ RollingKeep \in Nat /\ OwnDir \in {0, 1}
           /\ Rolling \in SUBSET dirs /\ IsFiniteSet(Rolling) /\ Cardinality(Rolling) \in Nat
           /\ IsFiniteSet(Rolling \ toPrune) /\ Cardinality(Rolling \ toPrune) \in Nat
  <1>1. Rolling \in SUBSET dirs /\ Rolling \ toPrune \in SUBSET dirs
    BY DEF Rolling
  <1> QED
    BY <1>1, DirsFinite, Constants DEF StoreInv, Plain, OwnDir

LEMMA DiskBegin ==
    ASSUME DiskInv, NEW label \in Int, NEW daily \in BOOLEAN, Begin(label, daily)
    PROVE  NamesInv' /\ CountInv'
  <1> DEFINE name == [time |-> clock, label |-> label, daily |-> daily, take |-> takes + 1]
             kept == {d \in dirs : ~(d.tmp /\ SameName(d.name, name))}
  <1>1. PICK new : new = Directory(name, TRUE, [f \in Files |-> NoFile], beat)
    OBVIOUS
  <1>2. /\ pc = "idle" /\ pc' = "write" /\ dirs' = kept \cup {new}
        /\ job' = [name |-> name, resume |-> beat] /\ UNCHANGED <<fails, crashes>>
    BY <1>1 DEF Begin
  <1>3. new.name = name /\ new.tmp /\ job'.name = name /\ name.daily = daily
    BY <1>1, <1>2 DEF Directory
  <1>4. StoreInv /\ NamesInv /\ CountInv
    BY DEF DiskInv
  <1> HIDE DEF name
  <1>5. NamesInv'
    <2>1. \A x \in kept : SameName(x.name, new.name) => ~x.tmp
      BY <1>3
    <2>2. \A x, y : SameName(x, y) <=> SameName(y, x)
      BY DEF SameName
    <2>3. \A x, y \in dirs' : SameName(x.name, y.name) /\ x.tmp = y.tmp => x = y
      BY <1>2, <1>3, <1>4, <2>1, <2>2 DEF NamesInv
    <2> QED
      BY <2>3 DEF NamesInv, SameName
  <1>6. OwnDir = 0 /\ OwnDir' = (IF daily THEN 0 ELSE 1)
    BY <1>2, <1>3 DEF OwnDir
  <1>7. Cardinality(Rolling') <= Cardinality(Rolling) + OwnDir'
    <2>1. CASE daily
      <3>1. Rolling' \in SUBSET Rolling
        BY <1>2, <1>3, <2>1 DEF Rolling
      <3>2. Cardinality(Rolling') <= Cardinality(Rolling)
        BY <1>4, <3>1, Counts, FS_Subset
      <3> QED
        BY <1>4, <1>6, <2>1, <3>2, Counts
    <2>2. CASE ~daily
      <3>1. Rolling' \in SUBSET (Rolling \cup {new})
        BY <1>2 DEF Rolling
      <3>2. /\ IsFiniteSet(Rolling \cup {new})
            /\ Cardinality(Rolling \cup {new}) <= Cardinality(Rolling) + 1
        <4>1. IsFiniteSet(Rolling) /\ Cardinality(Rolling) \in Nat
          BY <1>4, Counts
        <4>2. /\ IsFiniteSet(Rolling \cup {new})
              /\ Cardinality(Rolling \cup {new}) =
                   IF new \in Rolling THEN Cardinality(Rolling) ELSE Cardinality(Rolling) + 1
          BY <4>1, FS_AddElement
        <4> QED
          BY <4>1, <4>2
      <3>3. IsFiniteSet(Rolling') /\ Cardinality(Rolling') <= Cardinality(Rolling \cup {new})
        BY <3>1, <3>2, FS_Subset
      <3>4. Cardinality(Rolling') \in Nat /\ Cardinality(Rolling \cup {new}) \in Nat
        BY <3>2, <3>3, FS_CardinalityType
      <3> QED
        BY <1>4, <1>6, <2>2, <3>2, <3>3, <3>4, Counts
    <2> QED
      BY <2>1, <2>2
  <1>8. Cardinality(Rolling') \in Nat
    <2>1. Rolling' \in SUBSET (Rolling \cup {new})
      BY <1>2 DEF Rolling
    <2>2. IsFiniteSet(Rolling \cup {new})
      BY <1>4, Counts, FS_AddElement
    <2> QED
      BY <2>1, <2>2, FS_Subset, FS_CardinalityType
  <1>9. OwnDir' \in {0, 1}
    BY <1>6
  <1> QED
    BY <1>2, <1>4, <1>5, <1>6, <1>7, <1>8, <1>9, Counts DEF CountInv

\* A step of a take that writes to its directory or renames it.
LEMMA DiskWrites ==
    ASSUME DiskInv, WriteComponent \/ WriteManifest \/ Rename
    PROVE  NamesInv' /\ CountInv'
  <1>1. StoreInv /\ NamesInv /\ CountInv
    BY DEF DiskInv
  <1>2. /\ pc \in {"write", "rename"} /\ pc' \in {"write", "rename", "swap"}
        /\ UNCHANGED <<job, fails, crashes>>
    BY DEF WriteComponent, WriteManifest, Rename, Step, Quiet, boundVars
  <1>3. /\ JobDir \in dirs /\ JobDir \in Directories /\ JobDir.tmp /\ JobDir.name = job.name
    BY <1>1, <1>2, JobDirIs DEF Writing, Sound
  <1>4. \E e : /\ dirs' = (dirs \ {JobDir}) \cup {e} /\ e.name = JobDir.name
               /\ \/ e.tmp = JobDir.tmp
                  \/ \A x \in dirs : ~(x.tmp = e.tmp /\ SameName(x.name, e.name))
    <2>1. ASSUME NEW f \in Files, WriteFile(f), pc = "write"
          PROVE  \E e : /\ dirs' = (dirs \ {JobDir}) \cup {e} /\ e.name = JobDir.name
                        /\ e.tmp = JobDir.tmp
      <3>1. PICK e \in dirs' : /\ dirs' = (dirs \ {JobDir}) \cup {e}
                               /\ e.tmp /\ e.name = job.name
        BY <1>1, <2>1, WriteFileIs
      <3>2. PICK x : x = [JobDir EXCEPT !.parts[f] = ticks]
        OBVIOUS
      <3>3. x.name = JobDir.name /\ x.tmp = JobDir.tmp /\ dirs' = (dirs \ {JobDir}) \cup {x}
        <4>1. x = [JobDir EXCEPT !.parts = [JobDir.parts EXCEPT ![f] = ticks]]
          BY <3>2
        <4>2. dirs' = (dirs \ {JobDir}) \cup {x}
          BY <2>1, <3>2 DEF WriteFile
        <4> QED
          BY <1>3, <4>1, <4>2 DEF Directories
      <3> QED
        BY <3>3
    <2>2. CASE WriteComponent \/ WriteManifest
      <3>1. PICK f \in Files : WriteFile(f) /\ pc = "write"
        BY <2>2 DEF WriteComponent, WriteManifest, Step, Files
      <3> QED
        BY <2>1, <3>1
    <2>3. CASE Rename
      <3>1. PICK e : e = [JobDir EXCEPT !.tmp = FALSE]
        OBVIOUS
      <3>2. e.name = JobDir.name /\ ~e.tmp /\ e.tmp \in BOOLEAN
        BY <1>3, <3>1 DEF Directories
      <3>3. dirs' = (dirs \ {JobDir}) \cup {e} /\ ~TargetExists
        BY <2>3, <3>1 DEF Rename
      <3>4. \A x \in dirs : x.tmp \in BOOLEAN
        BY <1>1 DEF StoreInv, DirsInv, Sound, Directories
      <3>5. \A x \in dirs : ~(x.tmp = e.tmp /\ SameName(x.name, e.name))
        BY <1>3, <3>2, <3>3, <3>4 DEF TargetExists
      <3> QED
        BY <3>2, <3>3, <3>5
    <2> QED
      BY <2>2, <2>3
  <1>5. PICK e : /\ dirs' = (dirs \ {JobDir}) \cup {e} /\ e.name = JobDir.name
                 /\ \/ e.tmp = JobDir.tmp
                    \/ \A x \in dirs : ~(x.tmp = e.tmp /\ SameName(x.name, e.name))
    BY <1>4
  <1> DEFINE d == JobDir
  <1>6. d \in dirs /\ e.name = d.name /\ dirs' = (dirs \ {d}) \cup {e}
    BY <1>3, <1>5
  <1>7. NamesInv'
    <2>1. e.tmp = d.tmp \/ \A x \in dirs : ~(x.tmp = e.tmp /\ SameName(x.name, e.name))
      BY <1>5
    <2> HIDE DEF d
    <2> QED
      BY <1>1, <1>6, <2>1, ReplacedNames
  <1>8. Cardinality(Rolling') <= Cardinality(Rolling)
    <2> HIDE DEF d
    <2> QED
      BY <1>1, <1>6, ReplacedCount
  <1>9. Cardinality(Rolling') \in Nat
    <2>1. Rolling' \in SUBSET (Rolling \cup {e})
      BY <1>6 DEF Rolling
    <2>2. IsFiniteSet(Rolling \cup {e})
      BY <1>1, Counts, FS_AddElement
    <2> QED
      BY <2>1, <2>2, FS_Subset, FS_CardinalityType
  <1>10. OwnDir' = OwnDir /\ pc' # "prune"
    BY <1>2 DEF OwnDir
  <1> QED
    BY <1>1, <1>2, <1>7, <1>8, <1>9, <1>10, Counts DEF CountInv

\* The take in progress has a temporary directory, or has given it its name.
LEMMA OwnIsCounted ==
    ASSUME StoreInv, pc \in {"write", "rename"}
    PROVE  ~job.name.daily => JobDir \in Rolling
  BY JobDirIs DEF Writing, Rolling

\* A take that fails: the disk is as it was or without the take's directory.
LEMMA DiskGivesUp ==
    ASSUME DiskInv, RenameFails \/ TakeFails
    PROVE  NamesInv' /\ CountInv'
  <1>1. StoreInv /\ NamesInv /\ CountInv
    BY DEF DiskInv
  <1>2. /\ pc \in {"write", "rename", "swap"} /\ pc' = "idle" /\ dirs' \in SUBSET dirs
        /\ crashes' = crashes
    BY DEF RenameFails, TakeFails, GiveUp, WithoutTemporary, Step, Quiet, boundVars
  <1>3. NamesInv'
    BY <1>1, <1>2 DEF NamesInv
  <1>4. OwnDir' = 0 /\ OwnDir = (IF job.name.daily THEN 0 ELSE 1)
    BY <1>2 DEF OwnDir
  <1>5. Rolling' \in SUBSET Rolling
    BY <1>2 DEF Rolling
  <1>6. Cardinality(Rolling') <= Cardinality(Rolling) /\ Cardinality(Rolling') \in Nat
    BY <1>1, <1>5, Counts, FS_Subset, FS_CardinalityType
  <1>7. CASE TakeFails
    <2>1. fails' = fails + 1
      BY <1>7 DEF TakeFails
    <2> QED
      BY <1>1, <1>2, <1>3, <1>4, <1>6, <2>1, Counts DEF CountInv
  <1>8. CASE RenameFails
    <2>1. pc = "rename" /\ fails' = fails /\ dirs' = WithoutTemporary
      BY <1>8 DEF RenameFails, Step
    <2>2. CASE job.name.daily
      BY <1>1, <1>2, <1>3, <1>4, <1>6, <2>1, <2>2, Counts DEF CountInv
    <2>3. CASE ~job.name.daily
      <3>1. JobDir \in Rolling /\ JobDir \notin dirs'
        BY <1>1, <2>1, <2>3, JobDirIs, OwnIsCounted DEF Writing, WithoutTemporary
      <3>2. PICK d \in Rolling : d \notin dirs'
        BY <3>1
      <3>3. Rolling' \in SUBSET (Rolling \ {d})
        BY <1>5, <3>2 DEF Rolling
      <3>4. IsFiniteSet(Rolling) /\ Cardinality(Rolling) \in Nat
        BY <1>1, Counts
      <3>5. IsFiniteSet(Rolling \ {d}) /\ Cardinality(Rolling \ {d}) = Cardinality(Rolling) - 1
        BY <3>4, FS_RemoveElement
      <3>6. Cardinality(Rolling') <= Cardinality(Rolling) - 1
        BY <3>3, <3>5, FS_Subset
      <3> QED
        BY <1>1, <1>2, <1>3, <1>4, <1>6, <2>1, <2>3, <3>4, <3>6, Counts DEF CountInv
    <2> QED
      BY <2>2, <2>3
  <1> QED
    BY <1>7, <1>8

\* What a pruning has yet to remove is all that is too much.
LEMMA DiskPublished ==
    ASSUME DiskInv, Swap
    PROVE  NamesInv' /\ CountInv'
  <1>1. StoreInv /\ NamesInv /\ CountInv
    BY DEF DiskInv
  <1>2. /\ pc = "swap" /\ pc' = "prune" /\ toPrune' = ToPrune
        /\ UNCHANGED <<job, dirs, fails, crashes>>
    BY DEF Swap, Step, Quiet, boundVars
  <1>3. NamesInv'
    BY <1>1, <1>2 DEF NamesInv
  <1>4. Rolling' = Rolling /\ OwnDir' = OwnDir
    BY <1>2 DEF Rolling, OwnDir
  <1>5. Rolling \ ToPrune \in SUBSET (Rolling \ RollingExcess)
    BY DEF ToPrune
  <1>6. IsFiniteSet(Rolling \ RollingExcess) /\ Cardinality(Rolling \ RollingExcess) \in Nat
    <2>1. Rolling \ RollingExcess \in SUBSET dirs
      BY DEF Rolling
    <2> QED
      BY <1>1, <2>1, DirsFinite
  <1>7. /\ Cardinality(Rolling \ ToPrune) <= Cardinality(Rolling \ RollingExcess)
        /\ Cardinality(Rolling \ ToPrune) \in Nat
    BY <1>5, <1>6, FS_Subset, FS_CardinalityType
  <1>8. Cardinality(Rolling \ ToPrune) <= RollingKeep + fails
    BY <1>1, <1>6, <1>7, FewAreKept, Counts
  <1>9. Cardinality(Rolling' \ toPrune') <= RollingKeep + fails'
    BY <1>2, <1>4, <1>8
  <1> QED
    BY <1>1, <1>2, <1>3, <1>4, <1>9 DEF CountInv

LEMMA DiskPruned ==
    ASSUME DiskInv, PruneOne
    PROVE  NamesInv' /\ CountInv'
  <1>1. StoreInv /\ NamesInv /\ CountInv
    BY DEF DiskInv
  <1>2. PICK d : dirs' = dirs \ {d} /\ toPrune' = toPrune \ {d}
    BY DEF PruneOne
  <1>3. pc = "prune" /\ UNCHANGED <<pc, job, fails, crashes>>
    BY DEF PruneOne, Step, Quiet, boundVars
  <1>4. NamesInv'
    BY <1>1, <1>2 DEF NamesInv
  <1>5. Rolling' \in SUBSET Rolling /\ Rolling' \ toPrune' \in SUBSET (Rolling \ toPrune)
    BY <1>2 DEF Rolling
  <1>6. Cardinality(Rolling') <= Cardinality(Rolling) /\ Cardinality(Rolling') \in Nat
    BY <1>1, <1>5, Counts, FS_Subset, FS_CardinalityType
  <1>7. /\ Cardinality(Rolling' \ toPrune') <= Cardinality(Rolling \ toPrune)
        /\ Cardinality(Rolling' \ toPrune') \in Nat
    BY <1>1, <1>5, Counts, FS_Subset, FS_CardinalityType
  <1>8. OwnDir' = OwnDir
    BY <1>3 DEF OwnDir
  <1> QED
    BY <1>1, <1>3, <1>4, <1>6, <1>7, <1>8, Counts DEF CountInv

\* A directory that could not be removed stays, one more for one more failure.
LEMMA DiskNotPruned ==
    ASSUME DiskInv, PruneFails
    PROVE  NamesInv' /\ CountInv'
  <1>1. StoreInv /\ NamesInv /\ CountInv
    BY DEF DiskInv
  <1>2. pc = "prune" /\ fails' = fails + 1 /\ UNCHANGED <<pc, job, crashes>>
    BY DEF PruneFails, Step, Quiet, boundVars
  <1>3. PICK d \in PruneNext, gone \in SUBSET Files :
             dirs' = (dirs \ {d}) \cup {Remains(d, gone)} /\ toPrune' = toPrune \ {d}
    BY DEF PruneFails
  <1>4. d \in toPrune /\ d \in dirs /\ d \in Directories
    BY <1>1, <1>3 DEF PruneNext, StoreInv, PruneInv, DirsInv, Sound
  <1>5. PICK e : e = Remains(d, gone)
    OBVIOUS
  <1>6. e.name = d.name /\ e.tmp = d.tmp /\ dirs' = (dirs \ {d}) \cup {e}
    BY <1>3, <1>4, <1>5 DEF Remains, Directories
  <1>7. NamesInv'
    BY <1>1, <1>4, <1>6, ReplacedNames
  <1>8. Cardinality(Rolling') <= Cardinality(Rolling)
    BY <1>1, <1>4, <1>6, ReplacedCount
  <1>9. Rolling' \in SUBSET (Rolling \cup {e})
        /\ Rolling' \ toPrune' \in SUBSET ((Rolling \ toPrune) \cup {e})
    BY <1>3, <1>6 DEF Rolling
  <1>10. Cardinality(Rolling') \in Nat
    <2>1. IsFiniteSet(Rolling \cup {e})
      BY <1>1, Counts, FS_AddElement
    <2> QED
      BY <1>9, <2>1, FS_Subset, FS_CardinalityType
  <1>11. Cardinality(Rolling' \ toPrune') <= Cardinality(Rolling \ toPrune) + 1
         /\ Cardinality(Rolling' \ toPrune') \in Nat
    <2> DEFINE S == Rolling \ toPrune
    <2>1. IsFiniteSet(S) /\ Cardinality(S) \in Nat
      BY <1>1, Counts
    <2>2. Rolling' \ toPrune' \in SUBSET (S \cup {e})
      BY <1>9
    <2> HIDE DEF S
    <2>3. /\ IsFiniteSet(S \cup {e})
          /\ Cardinality(S \cup {e}) = IF e \in S THEN Cardinality(S) ELSE Cardinality(S) + 1
      BY <2>1, FS_AddElement
    <2>4. /\ IsFiniteSet(Rolling' \ toPrune')
          /\ Cardinality(Rolling' \ toPrune') <= Cardinality(S \cup {e})
      BY <2>2, <2>3, FS_Subset
    <2>5. Cardinality(Rolling' \ toPrune') \in Nat
      BY <2>4, FS_CardinalityType
    <2>6. Cardinality(Rolling' \ toPrune') <= Cardinality(S) + 1
      BY <2>1, <2>3, <2>4, <2>5
    <2> QED
      BY <2>5, <2>6 DEF S
  <1>12. OwnDir' = OwnDir
    BY <1>2 DEF OwnDir
  <1> QED
    BY <1>1, <1>2, <1>7, <1>8, <1>10, <1>11, <1>12, Counts DEF CountInv

\* A take that returns has nothing left to prune.
LEMMA DiskReturns ==
    ASSUME DiskInv, Return
    PROVE  /\ NamesInv' /\ CountInv'
           /\ Cardinality(Rolling') <= RollingKeep + fails
  <1>1. StoreInv /\ NamesInv /\ CountInv
    BY DEF DiskInv
  <1>2. /\ pc = "prune" /\ toPrune = {} /\ pc' = "idle"
        /\ UNCHANGED <<dirs, fails, crashes>>
    BY DEF Return, Step, diskVars, Quiet, boundVars
  <1>3. NamesInv'
    BY <1>1, <1>2 DEF NamesInv
  <1>4. Rolling' = Rolling /\ Rolling \ toPrune = Rolling
    BY <1>2 DEF Rolling
  <1>5. Cardinality(Rolling \ toPrune) <= RollingKeep + fails
    BY <1>1, <1>2 DEF CountInv
  <1>6. Cardinality(Rolling') <= RollingKeep + fails
    BY <1>4, <1>5
  <1>7. OwnDir' = 0
    BY <1>2 DEF OwnDir
  <1>8. CountInv'
    BY <1>1, <1>2, <1>4, <1>6, <1>7, Counts DEF CountInv
  <1> QED
    BY <1>3, <1>6, <1>8

\* A crash leaves the directory of the take it interrupts.
LEMMA DiskCrash ==
    ASSUME DiskInv, Crash
    PROVE  NamesInv' /\ CountInv'
  <1>1. StoreInv /\ NamesInv /\ CountInv
    BY DEF DiskInv
  <1>2. pc' = "idle" /\ crashes' = crashes + 1 /\ UNCHANGED <<dirs, fails>>
    BY DEF Crash, diskVars
  <1>3. NamesInv' /\ Rolling' = Rolling /\ OwnDir' = 0
    BY <1>1, <1>2 DEF NamesInv, Rolling, OwnDir
  <1> QED
    BY <1>1, <1>2, <1>3, Counts DEF CountInv

\* Beats, boots and steps of the environment leave the disk alone.
LEMMA DiskQuiet ==
    ASSUME DiskInv, Tick \/ PausedTick \/ Pause \/ Restart \/ UNCHANGED vars
    PROVE  NamesInv' /\ CountInv'
  <1>1. UNCHANGED <<pc, job, dirs, toPrune, fails, crashes>>
    BY DEF Tick, PausedTick, Pause, Restart, vars, takeVars, diskVars, boundVars
  <1>2. NamesInv' /\ Rolling' = Rolling /\ OwnDir' = OwnDir
    BY <1>1 DEF DiskInv, NamesInv, Rolling, OwnDir
  <1> QED
    BY <1>1, <1>2 DEF DiskInv, CountInv

LEMMA DiskInit == Init => DiskInv
  <1> SUFFICES ASSUME Init PROVE DiskInv
    OBVIOUS
  <1>1. StoreInv
    BY InitStore
  <1>2. NamesInv
    BY DEF Init, NamesInv
  <1>3. Rolling = {} /\ pc = "idle" /\ fails = 0 /\ crashes = 0 /\ OwnDir = 0
    BY DEF Init, Rolling, OwnDir
  <1>4. Cardinality(Rolling) = 0
    BY <1>3, FS_EmptySet
  <1>5. CountInv
    BY <1>3, <1>4, Constants DEF CountInv
  <1> QED
    BY <1>1, <1>2, <1>5 DEF DiskInv

LEMMA DiskNext ==
    ASSUME MaxPerSecond <= RollingKeep, DiskInv, [Next]_vars
    PROVE  DiskInv'
  <1>1. StoreInv /\ StoreInv'
    BY NextStore DEF DiskInv
  <1>2. CASE Tick \/ PausedTick \/ Pause \/ Restart \/ UNCHANGED vars
    BY <1>1, <1>2, DiskQuiet DEF DiskInv
  <1>3. CASE HeartbeatTake \/ DemandTake
    <2>1. beat \in Int /\ beat - 1 \in Int
      BY <1>1 DEF StoreInv, Plain
    <2>2. PICK label \in Int, daily \in BOOLEAN : Begin(label, daily)
      BY <1>3, <2>1 DEF HeartbeatTake, DemandTake
    <2> QED
      BY <1>1, <2>2, DiskBegin DEF DiskInv
  <1>4. CASE WriteComponent \/ WriteManifest \/ Rename
    BY <1>1, <1>4, DiskWrites DEF DiskInv
  <1>5. CASE RenameFails \/ TakeFails
    BY <1>1, <1>5, DiskGivesUp DEF DiskInv
  <1>6. CASE Swap
    BY <1>1, <1>6, DiskPublished DEF DiskInv
  <1>7. CASE PruneOne
    BY <1>1, <1>7, DiskPruned DEF DiskInv
  <1>8. CASE PruneFails
    BY <1>1, <1>8, DiskNotPruned DEF DiskInv
  <1>9. CASE Return
    BY <1>1, <1>9, DiskReturns DEF DiskInv
  <1>10. CASE Crash
    BY <1>1, <1>10, DiskCrash DEF DiskInv
  <1> QED
    BY <1>2, <1>3, <1>4, <1>5, <1>6, <1>7, <1>8, <1>9, <1>10 DEF Next

LEMMA DiskInvariant ==
    ASSUME MaxPerSecond <= RollingKeep
    PROVE  Spec => []DiskInv
  <1>1. DiskInv /\ [Next]_vars => DiskInv'
    BY DiskNext
  <1> QED
    BY <1>1, DiskInit, PTL DEF Spec

\* Pruning keeps up: there are never more rolling directories than rolling_keep,
\* one for each disk operation that failed, one for each crash, and that of the
\* take in progress, however many takes there were.
DiskBounded == Cardinality(Rolling) <= RollingKeep + fails + crashes + 1

\* The bound on the disk holds (SnapshotManager.take, _prune_rolling), when no more
\* than rolling_keep takes start in one second.
THEOREM DiskIsBounded ==
    ASSUME MaxPerSecond <= RollingKeep
    PROVE  Spec => []DiskBounded
  <1>1. DiskInv => DiskBounded
    <2> SUFFICES ASSUME DiskInv PROVE DiskBounded
      OBVIOUS
    <2>1. StoreInv /\ CountInv
      BY DEF DiskInv
    <2> QED
      BY <2>1, Counts DEF CountInv, DiskBounded
  <1> QED
    BY <1>1, DiskInvariant, PTL

\* A take that returns has pruned what crashes and earlier takes left behind: only
\* directories that a failed rmtree left, or a failed take could not clean up, are
\* beyond rolling_keep.
ReturnPrunes ==
    [][returned' # returned => Cardinality(Rolling') <= RollingKeep + fails]_vars

\* SnapshotManager.take prunes before it returns, under the same condition.
THEOREM PrunedOnReturn ==
    ASSUME MaxPerSecond <= RollingKeep
    PROVE  Spec => ReturnPrunes
  <1>1. DiskInv /\ [Next]_vars =>
          [returned' # returned => Cardinality(Rolling') <= RollingKeep + fails]_vars
    <2> SUFFICES ASSUME DiskInv, Next, returned' # returned
                 PROVE  Cardinality(Rolling') <= RollingKeep + fails
      OBVIOUS
    <2>1. CASE Return
      BY <2>1, DiskReturns
    <2>2. CASE ~Return
      BY <2>2 DEF Next, Tick, PausedTick, Pause, HeartbeatTake, DemandTake, Begin,
         WriteComponent, WriteManifest, Rename, RenameFails, Swap, TakeFails, GiveUp,
         PruneOne, PruneFails, Crash, Restart
    <2> QED
      BY <2>1, <2>2
  <1> QED
    BY <1>1, DiskInvariant, PTL DEF Spec, ReturnPrunes

-----------------------------------------------------------------------------
(***************************************************************************)
(* The store implements Archive                                            *)
(***************************************************************************)

\* Nothing on the disk is of a beat to come, and what is about to be published is of
\* this one and has not been published before.
AgeInv ==
    /\ \A d \in dirs : d.name.time \in Nat /\ \A f \in Files : d.parts[f] <= ticks
    /\ pc = "swap" =>
        /\ link.take < takes
        /\ \E d \in dirs : /\ d.name = job.name /\ Complete(d)
                          /\ \A f \in Files : d.parts[f] = ticks

ArchiveInv == DiskInv /\ AgeInv

\* Beats do not run backwards.
LEMMA AgeKept ==
    ASSUME StoreInv, AgeInv, dirs' = dirs, ticks' = ticks + 1
    PROVE  \A d \in dirs' : d.name.time \in Nat /\ \A f \in Files : d.parts[f] <= ticks'
  <1> SUFFICES ASSUME NEW d \in dirs, NEW f \in Files
               PROVE  d.parts[f] <= ticks'
    BY DEF AgeInv
  <1>1. ticks \in Nat /\ d.parts[f] \in Int
    BY DEF StoreInv, Plain, DirsInv, Sound, Directories
  <1> QED
    BY <1>1 DEF AgeInv

LEMMA AgeInit == Init => AgeInv
  BY DEF Init, AgeInv

LEMMA AgeNext ==
    ASSUME StoreInv, StoreInv', AgeInv, [Next]_vars
    PROVE  AgeInv'
  <1>1. /\ ticks \in Nat /\ clock \in Nat /\ Manifest \in Files
        /\ NoFile <= ticks /\ ticks <= ticks /\ NoFile # ticks
    BY Constants DEF StoreInv, Plain, NoFile
  <1>2. CASE Tick \/ PausedTick
    <2>1. ticks' = ticks + 1 /\ dirs' = dirs /\ pc' = "idle"
      BY <1>2 DEF Tick, PausedTick, takeVars, diskVars
    <2>2. \A d \in dirs' : d.name.time \in Nat /\ \A f \in Files : d.parts[f] <= ticks'
      BY <1>1, <2>1, AgeKept
    <2> QED
      BY <2>1, <2>2 DEF AgeInv
  <1>3. CASE Pause \/ Restart \/ Crash \/ Return \/ UNCHANGED vars
    <2>1. UNCHANGED <<ticks, dirs, link, takes>> /\ (pc' = "swap" => UNCHANGED <<pc, job>>)
      BY <1>3 DEF Pause, Restart, Crash, Return, vars, takeVars, diskVars, boundVars, Quiet
    <2> QED
      BY <2>1 DEF AgeInv, Complete
  <1>4. CASE HeartbeatTake \/ DemandTake
    <2>1. PICK label, daily : Begin(label, daily)
      BY <1>4 DEF HeartbeatTake, DemandTake
    <2> DEFINE n == [time |-> clock, label |-> label, daily |-> daily, take |-> takes + 1]
               new == Directory(n, TRUE, [f \in Files |-> NoFile], beat)
    <2>2. dirs' \subseteq dirs \cup {new} /\ pc' = "write" /\ UNCHANGED <<ticks, link>>
      BY <2>1 DEF Begin
    <2>3. new.name.time = clock /\ \A f \in Files : new.parts[f] = NoFile
      BY DEF Directory
    <2>4. \A d \in dirs' : d.name.time \in Nat /\ \A f \in Files : d.parts[f] <= ticks'
      BY <1>1, <2>2, <2>3 DEF AgeInv
    <2> QED
      BY <2>2, <2>4 DEF AgeInv
  <1>5. CASE WriteComponent \/ WriteManifest
    <2>1. PICK f \in Files : WriteFile(f)
      BY <1>5, Constants DEF WriteComponent, WriteManifest
    <2>2. pc = "write" /\ pc' # "swap" /\ UNCHANGED <<ticks, link>>
      BY <1>5 DEF WriteComponent, WriteManifest, Step, Quiet, boundVars
    <2>3. PICK e \in dirs' :
             /\ dirs' = (dirs \ {JobDir}) \cup {e}
             /\ e.name = job.name /\ \A g \in Files : e.parts[g] \in {NoFile, ticks}
      BY <2>1, <2>2, WriteFileIs
    <2>4. e.name.time \in Nat /\ \A g \in Files : e.parts[g] <= ticks'
      <3>1. e.name.time = clock
        BY <2>2, <2>3 DEF StoreInv, JobInv
      <3> QED
        BY <1>1, <2>2, <2>3, <3>1
    <2>5. \A d \in dirs' : d.name.time \in Nat /\ \A g \in Files : d.parts[g] <= ticks'
      BY <1>1, <2>2, <2>3, <2>4 DEF AgeInv
    <2> QED
      BY <2>2, <2>5 DEF AgeInv
  <1>6. CASE Rename
    <2> DEFINE e == [JobDir EXCEPT !.tmp = FALSE]
    <2>1. /\ pc = "rename" /\ pc' = "swap" /\ UNCHANGED <<ticks, link, job, takes>>
          /\ dirs' = (dirs \ {JobDir}) \cup {e}
      BY <1>6 DEF Rename, Step, Quiet, boundVars
    <2>2. JobDir \in dirs /\ Writing(JobDir) /\ JobDir \in Directories
      BY <2>1, JobDirIs DEF Sound
    <2>3. e.name = JobDir.name /\ e.parts = JobDir.parts /\ ~e.tmp
      BY <2>2 DEF Directories
    <2>4. \A d \in dirs' : d.name.time \in Nat /\ \A f \in Files : d.parts[f] <= ticks'
      BY <2>1, <2>2, <2>3 DEF AgeInv
    <2>5. e \in dirs' /\ e.name = job.name /\ \A f \in Files : e.parts[f] = ticks
      BY <2>1, <2>2, <2>3 DEF Writing
    <2>6. Complete(e)
      BY <1>1, <2>3, <2>5 DEF Complete
    <2>7. link.take < takes
      <3>1. link.take \in Nat /\ takes \in Nat /\ link.take <= takes /\ takes >= 1
            /\ job.name.take = takes
        BY <2>1 DEF StoreInv, Plain, Names, LinkInv, JobInv
      <3>2. CASE link = NoLink
        BY <3>1, <3>2 DEF NoLink
      <3>3. CASE link # NoLink
        <4>1. PICK d \in dirs : d.name = link /\ ~d.tmp
          BY <3>3 DEF StoreInv, LinkInv, Complete
        <4>2. d # JobDir /\ JobDir.name = job.name
          BY <2>2, <4>1 DEF Writing
        <4>3. link.take # takes
          BY <2>2, <3>1, <4>1, <4>2 DEF StoreInv, DirsInv
        <4> QED
          BY <3>1, <4>3
      <3> QED
        BY <3>2, <3>3
    <2> QED
      BY <2>1, <2>4, <2>5, <2>6, <2>7 DEF AgeInv, Complete
  <1>7. CASE RenameFails \/ TakeFails \/ PruneOne
    <2>1. dirs' \subseteq dirs /\ pc' # "swap" /\ UNCHANGED <<ticks, link>>
      BY <1>7 DEF RenameFails, TakeFails, PruneOne, GiveUp, WithoutTemporary, Step, Quiet,
         boundVars
    <2> QED
      BY <2>1 DEF AgeInv
  <1>8. CASE Swap
    <2>1. /\ pc = "swap" /\ pc' = "prune" /\ link' = job.name /\ UNCHANGED <<ticks, dirs>>
      BY <1>8 DEF Swap, Step, Quiet, boundVars
    <2> QED
      BY <2>1 DEF AgeInv
  <1>9. CASE PruneFails
    <2>1. PICK d \in PruneNext, gone \in SUBSET Files :
             /\ dirs' = (dirs \ {d}) \cup {Remains(d, gone)}
             /\ pc = "prune" /\ pc' = pc /\ UNCHANGED <<ticks, link>>
      BY <1>9 DEF PruneFails, Step, Quiet, boundVars
    <2>2. d \in dirs /\ d \in Directories
      BY <2>1 DEF PruneNext, StoreInv, PruneInv, DirsInv, Sound
    <2>3. /\ Remains(d, gone).name = d.name
          /\ \A f \in Files : Remains(d, gone).parts[f] \in {NoFile, d.parts[f]}
      BY <2>2 DEF Remains, Directories
    <2>4. \A f \in Files : Remains(d, gone).parts[f] <= ticks
      <3>1. \A f \in Files : d.parts[f] <= ticks
        BY <2>2 DEF AgeInv
      <3> QED
        BY <1>1, <2>3, <3>1
    <2> QED
      BY <1>1, <2>1, <2>2, <2>3, <2>4 DEF AgeInv
  <1> QED
    BY <1>2, <1>3, <1>4, <1>5, <1>6, <1>7, <1>8, <1>9 DEF Next

LEMMA ArchiveInvariant ==
    ASSUME MaxPerSecond <= RollingKeep
    PROVE  Spec => []ArchiveInv
  <1>1. ArchiveInv /\ [Next]_vars => ArchiveInv'
    BY DiskNext, AgeNext DEF ArchiveInv, DiskInv
  <1>2. Init => ArchiveInv
    BY DiskInit, AgeInit DEF ArchiveInv
  <1> QED
    BY <1>1, <1>2, PTL DEF Spec

\* What a boot finds is the one directory that "current" names.
LoadInv ==
    IF link = NoLink THEN Latest = [f \in Files |-> NoFile]
    ELSE \E d \in dirs : d.name = link /\ Complete(d) /\ Latest = d.parts

LEMMA LoadIs == ArchiveInv => LoadInv
  <1> SUFFICES ASSUME ArchiveInv PROVE LoadInv
    OBVIOUS
  <1>1. StoreInv /\ NamesInv /\ AgeInv
    BY DEF ArchiveInv, DiskInv
  <1>2. CASE link = NoLink
    <2>1. Loadable = {}
      <3> SUFFICES ASSUME NEW d \in Loadable PROVE FALSE
        OBVIOUS
      <3>1. d \in dirs /\ d.name.time = -1
        BY <1>2 DEF Loadable, SameName, NoLink
      <3> QED
        BY <1>1, <3>1 DEF AgeInv
    <2> QED
      BY <1>2, <2>1 DEF LoadInv, Latest
  <1>3. CASE link # NoLink
    <2>1. PICK d \in dirs : d.name = link /\ Complete(d)
      BY <1>1, <1>3 DEF StoreInv, LinkInv
    <2>2. d \in Loadable
      BY <2>1, Constants DEF Loadable, SameName, Complete
    <2>3. \A e \in Loadable : e = d
      <3> SUFFICES ASSUME NEW e \in Loadable PROVE e = d
        OBVIOUS
      <3>1. e \in dirs /\ SameName(e.name, d.name) /\ ~e.tmp /\ ~d.tmp
        BY <2>1 DEF Loadable, Complete
      <3>2. e.tmp \in BOOLEAN /\ d.tmp \in BOOLEAN
        BY <1>1, <2>1, <3>1 DEF StoreInv, DirsInv, Sound, Directories
      <3>3. e.tmp = d.tmp
        BY <3>1, <3>2
      <3> QED
        BY <1>1, <2>1, <3>1, <3>3 DEF NamesInv
    <2>4. Latest = d.parts
      BY <2>2, <2>3 DEF Latest
    <2> QED
      BY <1>3, <2>1, <2>4 DEF LoadInv
  <1> QED
    BY <1>2, <1>3

\* It is the same as long as that directory is.
LEMMA LatestKept ==
    ASSUME ArchiveInv, ArchiveInv', link' = link,
           \A d \in dirs : d.name = link /\ ~d.tmp => d \in dirs'
    PROVE  Latest' = Latest
  <1>1. LoadInv /\ LoadInv'
    BY LoadIs, PTL
  <1>2. DirsInv'
    BY DEF ArchiveInv, DiskInv, StoreInv
  <1>3. CASE link = NoLink
    BY <1>1, <1>3 DEF LoadInv
  <1>4. CASE link # NoLink
    <2>1. PICK d \in dirs : d.name = link /\ ~d.tmp /\ Latest = d.parts
      BY <1>1, <1>4 DEF LoadInv, Complete
    <2>2. PICK e \in dirs' : e.name = link /\ Latest' = e.parts
      BY <1>1, <1>4 DEF LoadInv
    <2>3. e = d
      BY <1>2, <2>1, <2>2 DEF DirsInv
    <2> QED
      BY <2>1, <2>2, <2>3
  <1> QED
    BY <1>3, <1>4

\* Swap is where a take appears to whoever boots.
LEMMA SwapPublishes ==
    ASSUME ArchiveInv, ArchiveInv', Swap
    PROVE  Promise!Publish
  <1>1. StoreInv /\ AgeInv /\ LoadInv /\ LoadInv' /\ DirsInv'
    BY LoadIs, PTL DEF ArchiveInv, DiskInv, StoreInv
  <1>2. pc = "swap" /\ link' = job.name /\ UNCHANGED <<dirs, ticks, takes, returned>>
    BY DEF Swap, Step, Quiet, boundVars
  <1>3. /\ job.name.take = takes /\ takes >= 1 /\ takes \in Nat /\ link.take < takes
        /\ ticks \in Nat
    BY <1>1, <1>2 DEF StoreInv, Plain, JobInv, AgeInv
  <1>4. link' # NoLink
    BY <1>2, <1>3 DEF NoLink
  <1>5. PICK d \in dirs : d.name = job.name /\ \A f \in Files : d.parts[f] = ticks
    BY <1>1, <1>2 DEF AgeInv
  <1>6. Latest' = d.parts
    <2>1. PICK e \in dirs' : e.name = link' /\ Latest' = e.parts
      BY <1>1, <1>4 DEF LoadInv
    <2> QED
      BY <1>1, <1>2, <1>5, <2>1 DEF DirsInv
  <1>7. Latest' \in [Files -> Nat] /\ \A f \in Files : Latest'[f] = ticks
    <2>1. d.parts \in [Files -> Int]
      BY <1>1 DEF StoreInv, DirsInv, Sound, Directories
    <2> QED
      BY <1>3, <1>5, <1>6, <2>1
  <1>8. \A f \in Files : Latest[f] <= ticks
    <2>1. CASE link = NoLink
      BY <1>1, <1>3, <2>1 DEF LoadInv, NoFile
    <2>2. CASE link # NoLink
      BY <1>1, <2>2 DEF LoadInv, AgeInv
    <2> QED
      BY <2>1, <2>2
  <1>9. \A f \in Files : Latest[f] \in Int
    BY <1>1 DEF LoadInv, NoFile, StoreInv, DirsInv, Sound, Directories
  <1> QED
    BY <1>2, <1>3, <1>7, <1>8, <1>9 DEF Promise!Publish

\* Return is where it is confirmed; nothing else can be seen.
LEMMA StoreSteps ==
    ASSUME ArchiveInv, ArchiveInv', [Next]_vars
    PROVE  [Promise!Next]_(Promise!vars)
  <1>1. StoreInv
    BY DEF ArchiveInv, DiskInv
  <1>2. CASE Swap
    BY <1>2, SwapPublishes DEF Promise!Next
  <1>3. CASE Return
    <2>1. returned' = link.take /\ UNCHANGED <<dirs, link>>
      BY <1>1, <1>3 DEF Return, Step, diskVars, StoreInv, LinkInv
    <2>2. Latest' = Latest
      BY <2>1, LatestKept
    <2> QED
      BY <2>1, <2>2 DEF Promise!Next, Promise!Confirm
  <1>4. CASE ~Swap /\ ~Return
    <2>1. UNCHANGED <<link, returned>>
      BY <1>4 DEF Next, Tick, PausedTick, Pause, HeartbeatTake, DemandTake, Begin,
         WriteComponent, WriteManifest, Rename, RenameFails, TakeFails, GiveUp,
         PruneOne, PruneFails, Crash, Restart, diskVars, vars
    <2>2. \A d \in dirs : d.name = link /\ ~d.tmp => d \in dirs'
      <3>1. CASE WriteComponent \/ WriteManifest \/ Rename
        <4>1. pc \in {"write", "rename"}
          BY <3>1 DEF WriteComponent, WriteManifest, Rename, Step
        <4>2. JobDir.tmp
          BY <1>1, <4>1, JobDirIs DEF Writing
        <4> QED
          BY <3>1, <4>2 DEF WriteComponent, WriteManifest, Rename, WriteFile
      <3>2. CASE PruneOne \/ PruneFails
        <4>1. pc = "prune" /\ \E d \in PruneNext : dirs \ {d} \subseteq dirs'
          BY <3>2 DEF PruneOne, PruneFails, Step
        <4>2. \A d \in PruneNext : d.name # link
          BY <1>1, <4>1 DEF PruneNext, StoreInv, PruneInv
        <4> QED
          BY <4>1, <4>2
      <3>3. CASE ~(WriteComponent \/ WriteManifest \/ Rename \/ PruneOne \/ PruneFails)
        BY <1>4, <3>3 DEF Next, Tick, PausedTick, Pause, HeartbeatTake, DemandTake, Begin,
           RenameFails, TakeFails, WithoutTemporary, Crash, Restart, diskVars, vars
      <3> QED
        BY <3>1, <3>2, <3>3
    <2> QED
      BY <2>1, <2>2, LatestKept DEF Promise!vars
  <1> QED
    BY <1>2, <1>3, <1>4

\* The store keeps the promise of Archive: wherever the process dies or the disk
\* fails in a take, and whatever is pruned, a boot finds the parts of one beat, and of
\* no earlier one than a boot would have found before (SnapshotManager.take,
\* load_latest); when no more than rolling_keep takes start in one second.
THEOREM StoreImplements ==
    ASSUME MaxPerSecond <= RollingKeep
    PROVE  Spec => ImplementsArchive
  <1>1. Init => Promise!Init
    <2> SUFFICES ASSUME Init PROVE Promise!Init
      OBVIOUS
    <2>1. Loadable = {}
      BY DEF Init, Loadable
    <2> QED
      BY <2>1 DEF Init, Promise!Init, Promise!None, Latest, NoLink, NoFile
  <1>2. ArchiveInv /\ ArchiveInv' /\ [Next]_vars => [Promise!Next]_(Promise!vars)
    BY StoreSteps
  <1> QED
    BY <1>1, <1>2, ArchiveInvariant, PTL DEF Spec, ImplementsArchive, Promise!Spec
=============================================================================
