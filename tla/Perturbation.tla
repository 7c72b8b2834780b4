---------------------------- MODULE Perturbation ----------------------------
(***************************************************************************)
(* Perturbation: the experiment the substrate runs on itself.  A scheduler  *)
(* and an operator inject perturbations, the cadence controller composes    *)
(* more often after one, and the delta-phi engine records theta for each    *)
(* over a window of beats.  The coherence scheduler slows the engines down  *)
(* when the budget is low.                                                  *)
(*                                                                         *)
(* A beat runs its steps in one fixed order without giving way, so what the *)
(* operator and the recovery protocol do falls between beats.  An event is  *)
(* named by the number of its injection.                                    *)
(***************************************************************************)
EXTENDS Integers, Sequences, FiniteSets

CONSTANTS
    Kind,          \* kinds of perturbation
    Duration,      \* PERTURBATION_SPECS[kind].duration_beats
    Battery,       \* the scheduler's round robin, a sequence of kinds
    Period,        \* period_beats of the scheduler
    Window,        \* window_beats of the delta-phi engine
    DeltaPeriod,   \* its natural period
    Warm,          \* window_size of theta_short
    BaselinePeriod, PerturbPeriod, RecoveryPeriod, \* the three cadences
    CadenceWindow, \* perturbation_window_beats
    MaxBeat,       \* bound on beats
    MaxAdmin,      \* bound on operator injections
    MaxPause,      \* bound on paused beats
    MaxStress,     \* bound on changes of the budget
    MaxRecovery,   \* bound on recovery state changes
    MaxFail        \* bound on failures of theta_short

\* The scheduler's period is even: a throttled one runs every other beat.  The
\* cadences are multiples of one another, as 5, 30 and 60 are.
ASSUME PerturbationAssumption ==
    /\ Duration \in [Kind -> Nat \ {0}]
    /\ Battery \in Seq(Kind) /\ Battery # <<>>
    /\ {Period, Window, DeltaPeriod, Warm, BaselinePeriod, PerturbPeriod,
        RecoveryPeriod, CadenceWindow} \subseteq Nat \ {0}
    /\ {MaxBeat, MaxAdmin, MaxPause, MaxStress, MaxRecovery, MaxFail} \subseteq Nat
    /\ Period % 2 = 0
    /\ BaselinePeriod % PerturbPeriod = 0 /\ RecoveryPeriod % BaselinePeriod = 0

NoBeat == -1
NoEvent == 0

VARIABLES
    beat,        \* Heartbeat.beat_no
    paused,      \* Heartbeat._pause_beats_remaining
    step,        \* the step of the beat that comes next
    stamp,       \* SubstrateApp.beat_no
    buffered,    \* states in the ring buffer, up to Warm
    theta        \* beat_no of theta_short's current value

VARIABLES
    budget,      \* coherence budget: "calm", "low" (< 0.30) or "severe" (< 0.15)
    battery,     \* PerturbationScheduler._battery_idx
    active,      \* PerturbationScheduler._active_event
    remaining,   \* PerturbationScheduler._active_remaining
    events       \* PerturbationScheduler.history

VARIABLES
    open,        \* the events with a window in DeltaPhiEngine._active_windows
    trace,       \* the samples of each event: the beat of theta, the beat taken
    readings,    \* DeltaPhiEngine.history, as events
    until,       \* CadenceController._perturbation_window_until_beat
    recovering,  \* CadenceController._recovery_active
    lastCompose  \* CadenceController._last_compose_beat

VARIABLES        \* observers and bounds
    applied,     \* how often each event was applied
    cutShort,    \* events another one replaced in flight
    quietSince,  \* the first beat since recovering became FALSE
    skipped,     \* due beats that found an event in flight
    failed,      \* beats in which theta_short computed and failed
    pauses, admins, stresses, recoveries

beatVars == <<beat, paused, step>>
thetaVars == <<buffered, theta, failed>>
schedulerVars == <<battery, active, remaining, events>>
deltaVars == <<open, trace, readings>>
cadenceVars == <<until, recovering, lastCompose>>
observerVars == <<applied, cutShort, quietSince, skipped>>
boundVars == <<pauses, admins, stresses, recoveries>>
vars == <<beatVars, stamp, thetaVars, budget, schedulerVars, deltaVars, cadenceVars,
          observerVars, boundVars>>

Source == {"internal_scheduler", "external_admin"}
Event == [kind : Kind, start : Nat, source : Source]
Events == DOMAIN events

Init ==
    /\ beat = 0
    /\ paused = 0
    /\ step = "idle"
    /\ stamp = 0
    /\ buffered = 0
    /\ theta = NoBeat
    /\ budget = "calm"
    /\ battery = 0
    /\ active = NoEvent
    /\ remaining = 0
    /\ events = <<>>
    /\ open = {}
    /\ trace = <<>>
    /\ readings = <<>>
    /\ until = NoBeat
    /\ recovering = FALSE
    /\ lastCompose = NoBeat
    /\ applied = <<>>
    /\ cutShort = {}
    /\ quietSince = 0
    /\ skipped = 0
    /\ failed = {}
    /\ pauses = 0
    /\ admins = 0
    /\ stresses = 0
    /\ recoveries = 0

-----------------------------------------------------------------------------
(***************************************************************************)
(* Throttles                                                               *)
(***************************************************************************)

\* Variant: the two classes have each other's thresholds.
Throttled_Swapped(priority) ==
    \/ priority = "medium" /\ budget = "severe"
    \/ priority = "high" /\ budget # "calm"

Throttled(priority) ==
    \/ priority = "high" /\ budget = "severe"
    \/ priority = "medium" /\ budget # "calm"

\* Variant: an engine that is throttled does not run.
Due_NeverThrottled(natural, priority) ==
    beat % natural = 0 /\ ~Throttled(priority)

\* should_run: a throttled engine has twice its period.
Due(natural, priority) ==
    beat % (natural * (IF Throttled(priority) THEN 2 ELSE 1)) = 0

-----------------------------------------------------------------------------
(***************************************************************************)
(* An injection, and what its subscribers make of it                       *)
(***************************************************************************)

OpenCadenceWindow == until' = stamp + CadenceWindow

\* Variant: one window a kind; a second event takes the place of the first.
OpenDeltaWindow_ByKind(kind) ==
    /\ open' = {e \in open : events[e].kind # kind} \cup {Len(events) + 1}
    /\ trace' = Append(trace, <<>>)
    /\ UNCHANGED readings

OpenDeltaWindow(kind) ==
    /\ open' = open \cup {Len(events) + 1}
    /\ trace' = Append(trace, <<>>)
    /\ UNCHANGED readings

\* Variant: the first application does not count.
Start_AllRemain(kind) ==
    IF Duration[kind] > 1
    THEN /\ active' = Len(events) + 1
         /\ remaining' = Duration[kind]
         /\ cutShort' = IF active = NoEvent THEN cutShort ELSE cutShort \cup {active}
    ELSE UNCHANGED <<active, remaining, cutShort>>

\* Variant: an event of a single beat is in flight too, with nothing remaining.
Start_Unguarded(kind) ==
    /\ active' = Len(events) + 1
    /\ remaining' = Duration[kind] - 1
    /\ cutShort' = IF active = NoEvent THEN cutShort ELSE cutShort \cup {active}

\* The first application is now; an event of several beats takes the place of
\* the one in flight.
Start(kind) ==
    IF Duration[kind] > 1
    THEN /\ active' = Len(events) + 1
         /\ remaining' = Duration[kind] - 1
         /\ cutShort' = IF active = NoEvent THEN cutShort ELSE cutShort \cup {active}
    ELSE UNCHANGED <<active, remaining, cutShort>>

Inject(kind, source) ==
    /\ events' = Append(events, [kind |-> kind, start |-> stamp, source |-> source])
    /\ applied' = Append(applied, 1)
    /\ Start(kind)
    /\ OpenCadenceWindow
    /\ OpenDeltaWindow(kind)

AdminPerturb ==
    /\ step = "idle"
    /\ admins < MaxAdmin
    /\ admins' = admins + 1
    /\ \E kind \in Kind : Inject(kind, "external_admin")
    /\ UNCHANGED <<beatVars, stamp, thetaVars, budget, battery, recovering, lastCompose,
                   quietSince, skipped, pauses, stresses, recoveries>>

AdminPause ==
    /\ step = "idle"
    /\ pauses < MaxPause
    /\ pauses' = pauses + 1
    /\ paused' = paused + 1
    /\ UNCHANGED <<beat, step, stamp, thetaVars, budget, schedulerVars, deltaVars,
                   cadenceVars, observerVars, admins, stresses, recoveries>>

\* A recovery_state_change: only "active" is a recovery to the controller.
RecoveryStateChange ==
    /\ step = "idle"
    /\ recoveries < MaxRecovery
    /\ recoveries' = recoveries + 1
    /\ recovering' = ~recovering
    /\ quietSince' = beat
    /\ UNCHANGED <<beatVars, stamp, thetaVars, budget, schedulerVars, deltaVars, until,
                   lastCompose, applied, cutShort, skipped, pauses, admins, stresses>>

-----------------------------------------------------------------------------
(***************************************************************************)
(* The steps of a beat                                                     *)
(***************************************************************************)

\* A paused beat only counts.
PausedBeat ==
    /\ step = "idle"
    /\ paused > 0
    /\ beat < MaxBeat
    /\ paused' = paused - 1
    /\ beat' = beat + 1
    /\ UNCHANGED <<step, stamp, thetaVars, budget, schedulerVars, deltaVars, cadenceVars,
                   observerVars, boundVars>>

\* The substrate ticks, the buffer takes its state and the coherence scheduler
\* reads the budget.
SubstrateTick ==
    /\ step = "idle"
    /\ paused = 0
    /\ beat < MaxBeat
    /\ stamp' = beat
    /\ buffered' = IF buffered < Warm THEN buffered + 1 ELSE buffered
    /\ \/ UNCHANGED <<budget, stresses>>
       \/ /\ stresses < MaxStress
          /\ stresses' = stresses + 1
          /\ budget' \in {"calm", "low", "severe"} \ {budget}
    /\ step' = "compose"
    /\ UNCHANGED <<beat, paused, theta, failed, schedulerVars, deltaVars, cadenceVars,
                   observerVars, pauses, admins, recoveries>>

CurrentPeriod ==
    IF recovering THEN RecoveryPeriod
    ELSE IF until # NoBeat /\ beat < until THEN PerturbPeriod
    ELSE BaselinePeriod

\* Variant: each cadence counts its period from the last compose.
ShouldCompose_FromLast == beat > 0 /\ beat > lastCompose + CurrentPeriod

ShouldCompose == beat > 0 /\ beat % CurrentPeriod = 0 /\ lastCompose # beat

MaybeCompose ==
    /\ step = "compose"
    /\ lastCompose' = IF ShouldCompose THEN beat ELSE lastCompose
    /\ step' = "theta"
    /\ UNCHANGED <<beat, paused, stamp, thetaVars, budget, schedulerVars, deltaVars,
                   until, recovering, observerVars, boundVars>>

\* A computation that raises is logged, and what was current before it stays so.
ThetaShort ==
    /\ step = "theta"
    /\ IF Due(1, "high") /\ buffered >= Warm
       THEN \/ theta' = beat /\ UNCHANGED failed
            \/ /\ Cardinality(failed) < MaxFail
               /\ failed' = failed \cup {beat}
               /\ UNCHANGED theta
       ELSE UNCHANGED <<theta, failed>>
    /\ step' = "perturb"
    /\ UNCHANGED <<beat, paused, stamp, buffered, budget, schedulerVars, deltaVars,
                   cadenceVars, observerVars, boundVars>>

InFlight == active # NoEvent /\ remaining > 0

\* The event in flight is applied once more.
Continue ==
    /\ applied' = [applied EXCEPT ![active] = @ + 1]
    /\ remaining' = remaining - 1
    /\ active' = IF remaining = 1 THEN NoEvent ELSE active
    /\ skipped' = IF beat > 0 /\ beat % Period = 0 THEN skipped + 1 ELSE skipped
    /\ UNCHANGED <<battery, events, deltaVars, cadenceVars, cutShort, quietSince>>

\* The next kind of the battery has its turn.
Scheduled ==
    /\ Inject(Battery[(battery % Len(Battery)) + 1], "internal_scheduler")
    /\ battery' = battery + 1
    /\ UNCHANGED <<recovering, lastCompose, quietSince, skipped>>

PerturbationSchedulerStep ==
    /\ step = "perturb"
    /\ \/ Due(1, "medium") /\ InFlight /\ Continue
       \/ Due(1, "medium") /\ ~InFlight /\ beat > 0 /\ beat % Period = 0 /\ Scheduled
       \/ /\ ~Due(1, "medium") \/ (~InFlight /\ (beat = 0 \/ beat % Period # 0))
          /\ UNCHANGED <<schedulerVars, deltaVars, cadenceVars, observerVars>>
    /\ step' = "delta"
    /\ UNCHANGED <<beat, paused, stamp, thetaVars, budget, boundVars>>

\* Every open window takes a sample; those that are old enough are finalized.
Samples ==
    LET old == {e \in open : theta - events[e].start >= Window}
    IN /\ trace' = [e \in Events |-> IF e \in open THEN Append(trace[e], <<theta, beat>>)
                                     ELSE trace[e]]
       /\ open' = open \ old
       /\ \E order \in [1..Cardinality(old) -> old] :
            /\ \A i, j \in 1..Cardinality(old) : i < j => order[i] < order[j]
            /\ readings' = readings \o order

DeltaPhi ==
    /\ step = "delta"
    /\ IF Due(DeltaPeriod, "medium") /\ theta # NoBeat
       THEN Samples
       ELSE UNCHANGED deltaVars
    /\ step' = "idle"
    /\ beat' = beat + 1
    /\ UNCHANGED <<paused, stamp, thetaVars, budget, schedulerVars, cadenceVars,
                   observerVars, boundVars>>

Next ==
    \/ AdminPerturb
    \/ AdminPause
    \/ RecoveryStateChange
    \/ PausedBeat
    \/ SubstrateTick
    \/ MaybeCompose
    \/ ThetaShort
    \/ PerturbationSchedulerStep
    \/ DeltaPhi

Spec == Init /\ [][Next]_vars

-----------------------------------------------------------------------------
(***************************************************************************)
(* Properties                                                              *)
(***************************************************************************)

\* Every variable stays in its range, every event has a trace, and an event is in
\* flight exactly as long as applications of it remain.
TypeOK ==
    /\ beat \in 0..MaxBeat /\ paused \in 0..MaxPause /\ stamp \in 0..MaxBeat
    /\ step \in {"idle", "compose", "theta", "perturb", "delta"}
    /\ buffered \in 0..Warm
    /\ theta \in {NoBeat} \cup 0..MaxBeat
    /\ budget \in {"calm", "low", "severe"}
    /\ battery \in Nat
    /\ events \in Seq(Event)
    /\ active \in Events \cup {NoEvent}
    /\ remaining \in Nat /\ (remaining > 0 <=> active # NoEvent)
    /\ open \subseteq Events
    /\ trace \in Seq(Seq((0..MaxBeat) \X (0..MaxBeat))) /\ DOMAIN trace = Events
    /\ readings \in Seq(Events)
    /\ until \in {NoBeat} \cup Nat
    /\ recovering \in BOOLEAN
    /\ lastCompose \in {NoBeat} \cup 1..MaxBeat
    /\ applied \in Seq(Nat) /\ DOMAIN applied = Events
    /\ cutShort \subseteq Events
    /\ quietSince \in 0..MaxBeat
    /\ skipped \in Nat
    /\ failed \subseteq 0..MaxBeat
    /\ pauses \in 0..MaxPause /\ admins \in 0..MaxAdmin
    /\ stresses \in 0..MaxStress /\ recoveries \in 0..MaxRecovery

Left(e) == IF active = e THEN remaining ELSE 0

\* An event is applied as often as its kind says, however the beats are throttled
\* and whatever is injected meanwhile, unless an event of several beats takes its
\* place; the one that is replaced is never resumed.
AppliedAsDeclared ==
    \A e \in Events :
        IF e \in cutShort
        THEN e # active /\ applied[e] < Duration[events[e].kind]
        ELSE applied[e] + Left(e) = Duration[events[e].kind]

\* Every injected event is being recorded or has been read, and is read once:
\* overlapping events, of one kind too, do not share or lose a window.
OneReading ==
    /\ \A i, j \in DOMAIN readings : readings[i] = readings[j] => i = j
    /\ \A e \in Events : e \in open <=> e \notin {readings[i] : i \in DOMAIN readings}

\* The beats in which the delta-phi engine runs whatever the budget.
AlwaysDue(b) == b >= Warm /\ b % (DeltaPeriod * 2) = 0

\* An event is read at the first such beat from the end of its window on, and so
\* within two of the engine's periods, however low the budget, unless theta_short
\* fails in that beat; then at the next one.  This if no beat was paused.
TimelyReading ==
    step = "idle" /\ pauses = 0 =>
        \A e \in open, b \in 0..(beat - 1) :
            AlwaysDue(b) /\ b >= events[e].start + Window => b \in failed

Internal == {e \in Events : events[e].source = "internal_scheduler"}

\* The scheduler injects at every multiple of its period that finds no event in
\* flight, also when it is throttled, and takes the kinds of the battery in turn,
\* whatever the operator injects in between.
ScheduleKept ==
    /\ \A e \in Internal :
         LET turn == Cardinality({d \in Internal : d < e})
         IN /\ events[e].start % Period = 0
            /\ events[e].kind = Battery[(turn % Len(Battery)) + 1]
    /\ step = "idle" /\ pauses = 0 =>
         Cardinality(Internal) + skipped
             = Cardinality({b \in 1..(beat - 1) : b % Period = 0})

\* Throttling delays what is due and loses nothing of it, at either end: an event is
\* injected in its turn and read in time.
DelayedNotLost == ScheduleKept /\ TimelyReading

\* A sample is a theta of the beat it is taken in, unless theta_short failed in that
\* very beat, and then an older one: the throttles never let the delta-phi engine run
\* in a beat in which theta_short does not, and a failure is not felt beyond its beat.
FreshSamples ==
    \A e \in Events : \A i \in DOMAIN trace[e] :
        LET of == trace[e][i][1] taken == trace[e][i][2]
        IN of = taken \/ (of < taken /\ taken \in failed)

\* If no beat was paused, the substrate is composed at least once every recovery
\* period, through every change of cadence; and for the whole of an event's cadence
\* window every perturbation period, outside recoveries.
CadenceKept ==
    step = "idle" /\ pauses = 0 =>
        /\ beat > RecoveryPeriod =>
             lastCompose # NoBeat /\ beat - lastCompose <= RecoveryPeriod
        /\ ~recovering /\ quietSince + PerturbPeriod <= beat =>
             \A e \in Events :
                /\ events[e].start + PerturbPeriod < beat
                /\ beat <= events[e].start + CadenceWindow
                => beat - lastCompose <= PerturbPeriod
=============================================================================
