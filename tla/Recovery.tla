------------------------------ MODULE Recovery ------------------------------
(***************************************************************************)
(* The recovery loop of one Axioma process: Heartbeat.tick drives          *)
(* RecoveryProtocol.tick and FragmentationMonitor.compute; the monitor's   *)
(* requests and the operator's requests meet in RecoveryProtocol.          *)
(*                                                                         *)
(* A tick runs without an await, so the operator's HTTP handlers run only  *)
(* between ticks.  The tick is two steps here, in the order of the code:   *)
(* the protocol's countdown together with the substrate's tick, then the   *)
(* monitor with every handler its request reaches; phase is the program    *)
(* counter between the two and no operator step is enabled there.          *)
(*                                                                         *)
(* Organ weights, drive noise, MNEME's alpha_p and the perturbation        *)
(* magnitude are abstracted to how many reductions are applied to each     *)
(* (0 is the value the process booted with).                               *)
(***************************************************************************)
EXTENDS Integers, Sequences

CONSTANTS
    Duration,        \* cfg.default_duration_beats
    RestoreBeats,    \* cfg.restore_beats
    MinStage,        \* cfg.min_recovery_stage, also the monitor's
    Watchdog,        \* cfg.durability_watchdog_beats
    RejectThreshold, \* cfg.rejection_escalation_consecutive
    WarnCooldown,    \* cfg.rejection_warning_cooldown_beats
    HistoryCap,      \* RecoveryHistory.events maxlen
    MonitorPeriod,   \* FragmentationMonitor.natural_period_beats
    Warmup,          \* states the monitor needs in the state buffer
    TestMode,        \* RecoveryProtocol.test_mode
    MaxBeat,         \* bound: run(beats = MaxBeat)
    MaxOperator,     \* bound on the operator's calls
    MaxPause         \* bound on the beats of one operator pause

ASSUME RecoveryAssumption ==
    /\ Duration \in Nat \ {0}
    /\ RestoreBeats \in Nat \ {0}
    /\ MinStage \in 1..4
    /\ Watchdog \in Nat \ {0}
    /\ RejectThreshold \in Nat \ {0}
    /\ WarnCooldown \in Nat
    /\ HistoryCap \in Nat \ {0}
    /\ MonitorPeriod \in Nat \ {0}
    /\ Warmup \in Nat \ {0}
    /\ TestMode \in BOOLEAN
    /\ MaxBeat \in Nat
    /\ MaxOperator \in Nat
    /\ MaxPause \in Nat

VARIABLES
    beat,             \* Heartbeat.beat_no
    phase,            \* "between" beats, or "engines": inside a tick
    pauseBeats,       \* Heartbeat._pause_beats_remaining
    substrateBeat,    \* SubstrateApp.beat_no: the last beat it ticked
    buffered,         \* len(state_buffer), counted up to Warmup
    state,            \* RecoveryProtocol.state
    params,           \* reductions applied to the substrate's parameters
    magnitude,        \* halvings of PerturbationScheduler.default_magnitude
    restoreState,     \* RecoveryProtocol._restore_state
    active,           \* RecoveryProtocol._active_event
    beatsRemaining,   \* RecoveryProtocol._beats_remaining
    restoreRemaining, \* RecoveryProtocol._restore_remaining
    history,          \* RecoveryHistory.events
    rejects,          \* RejectionEscalator.consecutive_rejects
    episodeStart,     \* RejectionEscalator.episode_start_beat
    warning,          \* the last RecoveryRejectionRunWarning emitted
    stage,            \* FragmentationMonitor._current.current_stage
    episodeActive     \* FragmentationMonitor._episode_active

VARIABLES             \* observers: read by properties, never by a guard
    operatorCalls,    \* calls the operator made (bounded by MaxOperator)
    forces,           \* requests for a recovery that said "force"
    starts,           \* recoveries started
    interrupted,      \* reductions of recoveries that never exited
    episodeFirst      \* beat of the current episode's first request

heartbeatVars == <<beat, phase, pauseBeats, substrateBeat, buffered>>
protocolVars == <<state, params, magnitude, restoreState, active,
                  beatsRemaining, restoreRemaining>>
escalatorVars == <<rejects, episodeStart, warning>>
monitorVars == <<stage, episodeActive, episodeFirst>>
observerVars == <<operatorCalls, forces, starts, interrupted>>
vars == <<heartbeatVars, protocolVars, history, escalatorVars, monitorVars,
          observerVars>>

-----------------------------------------------------------------------------
NoBeat == -1

RecoveryState == {"baseline", "active", "restoring"}

\* coherence_budget: "low" is below min_budget_to_accept (0.20), "severe" is
\* also below the threshold (0.15) that throttles HIGH priority engines.
Budget == {"ample", "low", "severe"}

Params == [W : Nat, noise : Nat, alpha : Nat]
Pristine == [W |-> 0, noise |-> 0, alpha |-> 0]

\* The empty dictionary _restore_state is before and after a recovery.
NoRestore == [W |-> -1, noise |-> -1, alpha |-> -1]

\* countFrom is an observer: the first beat whose tick counts the event down.
ActiveEvent == [stage : Int, started : Int, countFrom : Nat]
NoEvent == [stage |-> -1, started |-> NoBeat, countFrom |-> 0]

\* A finished event.  durability is the numerator of beats / Watchdog, or
\* NoBeat while quality.durability is None; watchdog finalization leaves
\* nextFragmentation at NoBeat.
ExitedEvent == [stage : Int, started : Int, countFrom : Nat, ended : Nat,
                durability : Int, nextFragmentation : Int]

NoWarning == [beat |-> NoBeat, rejects |-> 0, start |-> NoBeat]

Init ==
    /\ beat = 0
    /\ phase = "between"
    /\ pauseBeats = 0
    /\ substrateBeat = 0
    /\ buffered = 0
    /\ state = "baseline"
    /\ params = Pristine
    /\ magnitude = 0
    /\ restoreState = NoRestore
    /\ active = NoEvent
    /\ beatsRemaining = 0
    /\ restoreRemaining = 0
    /\ history = <<>>
    /\ rejects = 0
    /\ episodeStart = NoBeat
    /\ warning = NoWarning
    /\ stage = 0
    /\ episodeActive = FALSE
    /\ operatorCalls = 0
    /\ forces = 0
    /\ starts = 0
    /\ interrupted = [all |-> 0, deep |-> 0]
    /\ episodeFirst = NoBeat

-----------------------------------------------------------------------------
(***************************************************************************)
(* RejectionEscalator and RecoveryProtocol: what a request reaches.        *)
(***************************************************************************)

\* Variant: the check for a recovery that is already running is missing.
HandleRecoveryRequest_NoRunningCheck(force, reqStage, budget) ==
    IF force THEN "force_accept_operator"
    ELSE IF TestMode THEN "reject_test_mode"
    ELSE IF reqStage < MinStage THEN "reject_below_threshold"
    ELSE IF budget # "ample" THEN "reject_budget_insufficient"
    ELSE "accept"

HandleRecoveryRequest(force, reqStage, budget) ==
    IF force THEN "force_accept_operator"
    ELSE IF TestMode THEN "reject_test_mode"
    ELSE IF state # "baseline" THEN "reject_already_recovering"
    ELSE IF reqStage < MinStage THEN "reject_below_threshold"
    ELSE IF budget # "ample" THEN "reject_budget_insufficient"
    ELSE "accept"

Accepts(decision) == decision \in {"accept", "force_accept_operator"}

ResetRun ==
    /\ rejects' = 0
    /\ episodeStart' = NoBeat
    /\ UNCHANGED warning

\* _maybe_warn: a warning unless the last one is closer than the cooldown.
MaybeWarn(reqBeat, run, start) ==
    IF warning.beat # NoBeat /\ reqBeat - warning.beat < WarnCooldown
      THEN UNCHANGED warning
      ELSE warning' = [beat |-> reqBeat, rejects |-> run,
                       start |-> IF start = 0 THEN reqBeat ELSE start]

CountReject(reqBeat) ==
    LET start == IF rejects = 0 THEN reqBeat ELSE episodeStart
        run   == rejects + 1
    IN /\ rejects' = run
       /\ episodeStart' = start
       /\ IF run >= RejectThreshold THEN MaybeWarn(reqBeat, run, start)
                                    ELSE UNCHANGED warning

\* RejectionEscalator.on_decision; its 2 is a literal in the code.
OnDecision(reqBeat, decision, currentStage) ==
    IF currentStage < 2 \/ Accepts(decision) THEN ResetRun
                                             ELSE CountReject(reqBeat)

\* What a recovery of the given stage does to the parameters.
Reduce(p, s) == [W |-> p.W + 1, alpha |-> p.alpha + 1,
                 noise |-> IF s >= 3 THEN p.noise + 1 ELSE p.noise]

\* The first tick still to count down: this beat's, unless it already ran.
NextTick == IF phase = "engines" THEN beat + 1 ELSE beat

\* Variant: the values to restore are saved after they were reduced.
StartRecovery_SaveLate(reqBeat, reqStage) ==
    /\ restoreState' = Reduce(params, reqStage)
    /\ params' = Reduce(params, reqStage)
    /\ pauseBeats' = IF reqStage >= 4 THEN pauseBeats + 1 ELSE pauseBeats
    /\ magnitude' = magnitude + 1
    /\ active' = [stage |-> reqStage, started |-> reqBeat,
                  countFrom |-> NextTick]
    /\ beatsRemaining' = Duration
    /\ state' = "active"
    /\ UNCHANGED restoreRemaining
    /\ starts' = starts + 1
    /\ UNCHANGED interrupted

StartRecovery(reqBeat, reqStage) ==
    /\ restoreState' = params
    /\ params' = Reduce(params, reqStage)
    /\ pauseBeats' = IF reqStage >= 4 THEN pauseBeats + 1 ELSE pauseBeats
    /\ magnitude' = magnitude + 1
    /\ active' = [stage |-> reqStage, started |-> reqBeat,
                  countFrom |-> NextTick]
    /\ beatsRemaining' = Duration
    /\ state' = "active"
    /\ UNCHANGED restoreRemaining
    /\ starts' = starts + 1
    /\ interrupted' = IF state = "baseline" THEN interrupted
                      ELSE [all  |-> interrupted.all + 1,
                            deep |-> interrupted.deep
                                     + (IF active.stage >= 3 THEN 1 ELSE 0)]

\* RecoveryProtocol._on_recovery_request, start to end.
OnRecoveryRequest(reqBeat, force, reqStage, budget, currentStage) ==
    LET decision == HandleRecoveryRequest(force, reqStage, budget)
    IN /\ OnDecision(reqBeat, decision, currentStage)
       /\ IF Accepts(decision)
            THEN StartRecovery(reqBeat, reqStage)
            ELSE UNCHANGED <<protocolVars, pauseBeats, starts, interrupted>>

-----------------------------------------------------------------------------
(***************************************************************************)
(* RecoveryProtocol.tick                                                   *)
(***************************************************************************)

Pending(e) == e.durability = NoBeat

\* _finalize_one_event; nextFragmentation stays None for the watchdog.
Finalize(e, durability, next) ==
    [e EXCEPT !.durability = durability, !.nextFragmentation = next]

\* _maybe_finalize_durability, over whatever is in the history by then.
WatchdogPass(h) ==
    [i \in DOMAIN h |->
        IF Pending(h[i]) /\ h[i].ended > 0 /\ beat - h[i].ended >= Watchdog
          THEN Finalize(h[i], Watchdog, NoBeat)
          ELSE h[i]]

\* beats / Watchdog, clipped to [0, 1], as a numerator.
Clip(beats) ==
    IF beats < 0 THEN 0 ELSE IF beats > Watchdog THEN Watchdog ELSE beats

\* Variant: only the newest event is finalized.
FragmentationPass_NewestOnly(h, b) ==
    [i \in DOMAIN h |->
        IF Pending(h[i]) /\ i = Len(h)
          THEN Finalize(h[i], Clip(b - h[i].ended), b) ELSE h[i]]

\* finalize_durability_on_next_fragmentation
FragmentationPass(h, b) ==
    [i \in DOMAIN h |->
        IF Pending(h[i])
          THEN Finalize(h[i], Clip(b - h[i].ended), b) ELSE h[i]]

\* deque(maxlen = HistoryCap).append
Remember(h, e) == Append(IF Len(h) >= HistoryCap THEN Tail(h) ELSE h, e)

TickBaseline ==
    /\ state = "baseline"
    /\ history' = WatchdogPass(history)
    /\ UNCHANGED protocolVars

\* Variant: the recovery runs one beat too long.
TickActive_OffByOne ==
    /\ state = "active"
    /\ beatsRemaining' = beatsRemaining - 1
    /\ IF beatsRemaining' < 0
         THEN /\ state' = "restoring"
              /\ restoreRemaining' = RestoreBeats
         ELSE UNCHANGED <<state, restoreRemaining>>
    /\ history' = WatchdogPass(history)
    /\ UNCHANGED <<params, magnitude, restoreState, active>>

TickActive ==
    /\ state = "active"
    /\ beatsRemaining' = beatsRemaining - 1
    /\ IF beatsRemaining' <= 0
         THEN /\ state' = "restoring"
              /\ restoreRemaining' = RestoreBeats
         ELSE UNCHANGED <<state, restoreRemaining>>
    /\ history' = WatchdogPass(history)
    /\ UNCHANGED <<params, magnitude, restoreState, active>>

\* _finish_restore
FinishRestore ==
    /\ params' = restoreState
    /\ magnitude' = magnitude - 1
    /\ history' = WatchdogPass(Remember(history,
                     [stage |-> active.stage, started |-> active.started,
                      countFrom |-> active.countFrom, ended |-> beat,
                      durability |-> NoBeat, nextFragmentation |-> NoBeat]))
    /\ active' = NoEvent
    /\ restoreState' = NoRestore
    /\ state' = "baseline"
    /\ UNCHANGED beatsRemaining

TickRestoring ==
    /\ state = "restoring"
    /\ restoreRemaining' = restoreRemaining - 1
    /\ IF restoreRemaining' <= 0
         THEN FinishRestore
         ELSE /\ history' = WatchdogPass(history)
              /\ UNCHANGED <<state, params, magnitude, restoreState, active,
                             beatsRemaining>>

ProtocolTick == TickBaseline \/ TickActive \/ TickRestoring

-----------------------------------------------------------------------------
(***************************************************************************)
(* Heartbeat.tick                                                          *)
(***************************************************************************)

\* Variant: a paused beat does not tick the recovery protocol.
PausedBeat_NoRecoveryTick ==
    /\ phase = "between"
    /\ beat < MaxBeat
    /\ pauseBeats > 0
    /\ pauseBeats' = pauseBeats - 1
    /\ beat' = beat + 1
    /\ UNCHANGED <<phase, substrateBeat, buffered, protocolVars, history,
                   escalatorVars, monitorVars, observerVars>>

\* A paused beat counts the recovery down and leaves the substrate alone.
\* Only on beat 0 is nothing rendered yet; the substrate then ticks that beat,
\* which is the beat_no it already has.
PausedBeat ==
    /\ phase = "between"
    /\ beat < MaxBeat
    /\ pauseBeats > 0
    /\ pauseBeats' = pauseBeats - 1
    /\ ProtocolTick
    /\ beat' = beat + 1
    /\ UNCHANGED <<phase, substrateBeat, buffered, escalatorVars, monitorVars, observerVars>>

\* Steps 2a, 2 and 2.5 of a normal beat.
Beat ==
    /\ phase = "between"
    /\ beat < MaxBeat
    /\ pauseBeats = 0
    /\ ProtocolTick
    /\ substrateBeat' = beat
    /\ buffered' = IF buffered < Warmup THEN buffered + 1 ELSE buffered
    /\ phase' = "engines"
    /\ UNCHANGED <<beat, pauseBeats, escalatorVars, monitorVars, observerVars>>

EndTick ==
    /\ phase' = "between"
    /\ beat' = beat + 1
    /\ UNCHANGED <<substrateBeat, buffered>>

\* should_run: the natural period, doubled while the engine is throttled.
MonitorDue(budget) ==
    /\ beat % MonitorPeriod = 0
    /\ budget = "severe" => beat % (2 * MonitorPeriod) = 0

\* A beat on which the monitor does not run, or has too few states to.
MonitorSkips ==
    /\ phase = "engines"
    /\ \/ buffered < Warmup
       \/ \E budget \in Budget : ~MonitorDue(budget)
    /\ EndTick
    /\ UNCHANGED <<pauseBeats, protocolVars, history, escalatorVars,
                   monitorVars, observerVars>>

\* compute finds a stage below MinStage: the episode, if any, is over.
MonitorReadsCalm ==
    /\ phase = "engines"
    /\ buffered = Warmup
    /\ \E budget \in Budget : MonitorDue(budget)
    /\ stage' \in 0..MinStage - 1
    /\ episodeActive' = FALSE
    /\ episodeFirst' = NoBeat
    /\ EndTick
    /\ UNCHANGED <<pauseBeats, protocolVars, history, escalatorVars,
                   observerVars>>

\* compute finds fragmentation: it requests a recovery on every run, and the
\* first request of an episode first finalizes the events still pending.
MonitorReadsFragmented ==
    /\ phase = "engines"
    /\ buffered = Warmup
    /\ \E s \in MinStage..4, budget \in Budget :
         /\ MonitorDue(budget)
         /\ stage' = s
         /\ OnRecoveryRequest(beat, FALSE, s, budget, s)
    /\ episodeActive' = TRUE
    /\ IF episodeActive
         THEN UNCHANGED <<history, episodeFirst>>
         ELSE /\ history' = FragmentationPass(history, beat)
              /\ episodeFirst' = beat
    /\ EndTick
    /\ UNCHANGED <<operatorCalls, forces>>

-----------------------------------------------------------------------------
(***************************************************************************)
(* The operator, between two beats                                         *)
(***************************************************************************)

OperatorCall ==
    /\ phase = "between"
    /\ operatorCalls < MaxOperator
    /\ operatorCalls' = operatorCalls + 1

\* POST /admin/recovery/force, with and without "force" in its body.  The
\* request carries the substrate's beat, which does not move while paused.
AdminRecoveryForce ==
    /\ OperatorCall
    /\ \E force \in BOOLEAN, s \in 0..4, budget \in Budget :
         /\ OnRecoveryRequest(substrateBeat, force, s, budget, stage)
         /\ forces' = IF force THEN forces + 1 ELSE forces
    /\ UNCHANGED <<beat, phase, substrateBeat, buffered, history, monitorVars>>

\* POST /admin/heartbeat/pause
AdminHeartbeatPause ==
    /\ OperatorCall
    /\ \E beats \in 1..MaxPause : pauseBeats' = pauseBeats + beats
    /\ UNCHANGED <<beat, phase, substrateBeat, buffered, protocolVars, history,
                   escalatorVars, monitorVars, forces, starts, interrupted>>

Next ==
    \/ Beat
    \/ PausedBeat
    \/ MonitorSkips
    \/ MonitorReadsCalm
    \/ MonitorReadsFragmented
    \/ AdminRecoveryForce
    \/ AdminHeartbeatPause

\* Heartbeat.run keeps ticking; the operator need not do anything.
Tick == Beat \/ PausedBeat \/ MonitorSkips \/ MonitorReadsCalm
             \/ MonitorReadsFragmented

Spec == Init /\ [][Next]_vars

FairSpec == Spec /\ WF_vars(Tick)
-----------------------------------------------------------------------------
(***************************************************************************)
(* Properties                                                              *)
(***************************************************************************)

TypeOK ==
    /\ beat \in 0..MaxBeat
    /\ phase \in {"between", "engines"}
    /\ phase = "engines" => beat < MaxBeat
    /\ pauseBeats \in Nat
    /\ substrateBeat \in 0..MaxBeat
    /\ buffered \in 0..Warmup
    /\ state \in RecoveryState
    /\ params \in Params
    /\ magnitude \in Int
    /\ restoreState \in Params \cup {NoRestore}
    /\ active \in ActiveEvent
    /\ beatsRemaining \in 0..Duration
    /\ restoreRemaining \in 0..RestoreBeats
    /\ history \in Seq(ExitedEvent)
    /\ rejects \in Nat
    /\ episodeStart \in Int
    /\ warning \in [beat : Int, rejects : Nat, start : Int]
    /\ stage \in 0..4
    /\ episodeActive \in BOOLEAN
    /\ operatorCalls \in 0..MaxOperator
    /\ forces \in 0..operatorCalls
    /\ starts \in Nat
    /\ interrupted \in [all : Nat, deep : Nat]
    /\ episodeFirst \in Int

\* Exactly one reduction is in force per recovery that is running or that was
\* started over before it could exit: what _start_recovery saves and
\* _finish_restore puts back undoes the last start and nothing else, for the
\* weights, the noise, alpha_p and the perturbation magnitude together.
ParamsAccounted ==
    LET running == IF state = "baseline" THEN 0 ELSE 1
        deep    == IF state # "baseline" /\ active.stage >= 3 THEN 1 ELSE 0
    IN /\ params.W = interrupted.all + running
       /\ params.alpha = params.W
       /\ params.noise = interrupted.deep + deep
       /\ magnitude = params.W
       /\ state # "baseline" => params = Reduce(restoreState, active.stage)

\* Without an operator's force over a running recovery, being back at baseline
\* means every parameter is what it was before the first recovery.
PristineUnlessInterrupted ==
    state = "baseline" /\ interrupted.all = 0 =>
        params = Pristine /\ magnitude = 0

\* "Snapshot pristine values for restore" and "restore on exit" taken at their
\* word: at baseline the substrate is what it was before any recovery.
PristineAtBaseline ==
    state = "baseline" => params = Pristine /\ magnitude = 0

\* A recovery is over exactly Duration + RestoreBeats beats after it starts to
\* count, through paused beats, requests and forced restarts of others.
RunsFullCourse ==
    /\ state # "baseline" => NextTick - active.countFrom < Duration + RestoreBeats
    /\ \A i \in DOMAIN history :
         history[i].ended - history[i].countFrom = Duration + RestoreBeats - 1

\* The recoveries on record are bounded, in order, and never overlapped.
HistoryInOrder ==
    /\ Len(history) <= HistoryCap
    /\ \A i, j \in DOMAIN history :
         i < j => history[i].ended < history[j].countFrom
    /\ state # "baseline" =>
         \A i \in DOMAIN history : history[i].ended < active.countFrom

\* No exited recovery waits for its durability longer than the watchdog.
NoStaleDurability ==
    \A i \in DOMAIN history :
        Pending(history[i]) => NextTick - history[i].ended <= Watchdog

\* While an episode lasts, only recoveries that exited in it are pending: its
\* first request settled the durability of all earlier ones.
PendingOnlyInEpisode ==
    episodeActive =>
        \A i \in DOMAIN history :
            Pending(history[i]) => history[i].ended > episodeFirst

\* The history and what is settled in it, together: bounded, in order, pending only
\* within an episode and never longer than the watchdog.
HistorySettled == HistoryInOrder /\ NoStaleDurability /\ PendingOnlyInEpisode

\* A recovery that is running is started over when the operator forces one, each
\* time he does, and by nothing else: whatever the monitor requests meanwhile, or
\* the operator without force, the running event and the values it is to restore
\* stay as they are until it is over.
OnlyForceInterrupts ==
    [][state # "baseline" =>
         /\ starts' # starts <=> forces' # forces
         /\ forces' = forces =>
              /\ active' \in {active, NoEvent}
              /\ restoreState' \in {restoreState, NoRestore}]_vars

\* With the operator quiet and beats left to run, a recovery returns to
\* baseline: neither rejected requests nor queued pauses hold it open.
RecoveryExits ==
    /\ state # "baseline"
    /\ operatorCalls = MaxOperator
    /\ beat + Duration + RestoreBeats < MaxBeat
    ~> state = "baseline"
=============================================================================
