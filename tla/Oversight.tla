----------------------------- MODULE Oversight -----------------------------
(***************************************************************************)
(* Two parts that watch the others and only report: the effectiveness       *)
(* windows of CoherenceScheduler (E13), which tell whether throttling has   *)
(* let the coherence budget recover, and MetaCognitionLoop with its         *)
(* SuggestionTracker.  The second is an engine the first throttles.         *)
(*                                                                         *)
(* A beat is two steps, the scheduler's tick and the engines, as in         *)
(* Heartbeat.tick; the operator acts between beats.  The budget is in       *)
(* percent.  What an engine other than meta-cognition computes does not     *)
(* matter here, only whether the scheduler was asked about it.              *)
(***************************************************************************)
EXTENDS Integers, Sequences, FiniteSetsExt, SequencesExt

CONSTANTS
    Engines,       \* the registered measurement engines
    Period,        \* natural_period_beats of each
    Threshold,     \* the budget below which each is throttled
    Multiplier,    \* what its period is multiplied by then
    Budgets,       \* the budgets PNEUMA may report
    Window,        \* effectiveness_window_beats
    LeastLoad,     \* percent: below, a window is not one under throttle
    LeastEffect,   \* effectiveness_min_threshold, in percent
    Escalate,      \* escalation_consecutive_windows
    Whole,         \* a number the possible numbers of engines divide
    Recent,        \* emissions that confidence looks at
    Agreement,     \* suggestion_confidence_threshold, in percent
    Ignorable,     \* consecutive_threshold of the tracker
    MaxBeat, MaxPause, MaxMoves   \* bounds: beats, paused beats, budget changes

Meta == "meta_cognition"

ASSUME OversightAssumption ==
    /\ Meta \in Engines /\ IsFiniteSet(Engines) /\ Budgets \subseteq 0..100
    /\ Period \in [Engines -> Nat \ {0}] /\ Multiplier \in [Engines -> Nat \ {0}]
    /\ Threshold \in [Engines -> 0..100]
    /\ {Window, LeastLoad, Escalate, Recent, Ignorable, Whole} \subseteq Nat \ {0}
    /\ {LeastEffect, Agreement, MaxBeat, MaxPause, MaxMoves} \subseteq Nat
    /\ \A n \in 1..Cardinality(Engines) : Whole % n = 0

VARIABLES
    beat, paused,      \* Heartbeat.beat_no, _pause_beats_remaining
    step,              \* "tick" or "engines"
    budget             \* _current_budget

\* CoherenceScheduler.
VARIABLES
    throttled,         \* _current_throttle_state, of the engines asked about so far
    open,              \* the window in progress
    windows,           \* _window_history
    streak             \* _ineffective_streak

\* MetaCognitionLoop.
VARIABLES
    mode,              \* observer_mode: a member of ObserverMode, or a plain text
    emissions,         \* _recent_emissions
    decisions          \* recent_decisions of the tracker

\* What happened, for the bounds and the properties.
VARIABLES
    pauses, moves,
    low,               \* the last beat whose budget throttles anybody
    escalated,         \* the beat of the last ineffective_throttle
    ignored, warned,   \* suggestions ignored, warnings emitted
    unrecorded         \* suggestions called for and not recorded

beatVars == <<beat, paused, step, budget, pauses, moves, low>>
schedulerVars == <<throttled, open, windows, streak, escalated>>
metaVars == <<mode, emissions, decisions, ignored, warned, unrecorded>>
oversightVars == <<beatVars, schedulerVars, metaVars>>

NoBeat == -1
NoWindow == [start |-> NoBeat, from |-> 0, load |-> 0, count |-> 0]
Assessments == {"nominal", "stressed", "recovering", "exploring", "fragmented"}
WindowsKept == 20
DecisionsKept == 50

Kept(s, n) == IF Len(s) > n THEN Tail(s) ELSE s

OversightInit ==
    /\ beat = 0 /\ paused = 0 /\ step = "tick" /\ budget = 100
    /\ throttled = [e \in {} |-> FALSE] /\ open = NoWindow /\ windows = <<>> /\ streak = 0
    /\ mode \in {"observer_only", "embedded"} /\ emissions = <<>> /\ decisions = <<>>
    /\ pauses = 0 /\ moves = 0 /\ low = NoBeat /\ escalated = NoBeat
    /\ ignored = 0 /\ warned = 0 /\ unrecorded = 0

-----------------------------------------------------------------------------
\* Heartbeat.pause; a paused beat calls neither the scheduler nor an engine.
Pause ==
    /\ step = "tick" /\ pauses < MaxPause
    /\ pauses' = pauses + 1 /\ paused' = paused + 1
    /\ UNCHANGED <<beat, step, budget, moves, low, schedulerVars, metaVars>>

PausedBeat ==
    /\ step = "tick" /\ paused > 0 /\ beat < MaxBeat
    /\ paused' = paused - 1 /\ beat' = beat + 1
    /\ UNCHANGED <<step, budget, pauses, moves, low, schedulerVars, metaVars>>

(***************************************************************************)
(* CoherenceScheduler.tick and _close_window.                              *)
(***************************************************************************)
Load ==
    LET asked == DOMAIN throttled
    IN  IF asked = {} THEN 0
        ELSE Cardinality({e \in asked : throttled[e]}) * (Whole \div Cardinality(asked))

Opened(b) == IF open = NoWindow THEN [NoWindow EXCEPT !.start = beat, !.from = b] ELSE open

\* avg_throttle_strength and effectiveness, multiplied out.
UnderThrottle(w) == w.load * 100 >= LeastLoad * Window * Whole
Ineffective(w) == (w.to - w.from) * Window * Whole < LeastEffect * w.load

Streak(w) == IF UnderThrottle(w) /\ Ineffective(w) THEN streak + 1 ELSE 0

CloseWindow_KeepOpen(w) ==
    /\ windows' = Kept(Append(windows, w), WindowsKept)
    /\ open' = [open EXCEPT !.load = w.load, !.count = open.count + 1]
    /\ IF Streak(w) >= Escalate
       THEN streak' = 0 /\ escalated' = beat
       ELSE streak' = Streak(w) /\ UNCHANGED escalated

\* The window is filed, and the streak reported once it is long enough.
CloseWindow(w) ==
    /\ windows' = Kept(Append(windows, w), WindowsKept)
    /\ open' = NoWindow
    /\ IF Streak(w) >= Escalate
       THEN streak' = 0 /\ escalated' = beat
       ELSE streak' = Streak(w) /\ UNCHANGED escalated

Accumulate(b) ==
    LET o == [Opened(b) EXCEPT !.load = @ + Load, !.count = @ + 1]
    IN  IF o.count >= Window
        THEN CloseWindow([start |-> o.start, end |-> beat, from |-> o.from, to |-> b,
                          load |-> o.load, low |-> low'])
        ELSE open' = o /\ UNCHANGED <<windows, streak, escalated>>

Tick ==
    /\ step = "tick" /\ paused = 0 /\ beat < MaxBeat
    /\ \E b \in Budgets :
        /\ b = budget \/ moves < MaxMoves
        /\ moves' = IF b = budget THEN moves ELSE moves + 1
        /\ budget' = b
        /\ low' = IF \E e \in Engines : b < Threshold[e] THEN beat ELSE low
        /\ Accumulate(b)
    /\ step' = "engines"
    /\ UNCHANGED <<beat, paused, pauses, throttled, metaVars>>

(***************************************************************************)
(* throttle_for, and should_run which calls it.                            *)
(***************************************************************************)
Asked == {e \in Engines : beat % Period[e] = 0}
IsThrottled(e) == budget < Threshold[e]
Due(e) == e \in Asked /\ beat % (Period[e] * IF IsThrottled(e) THEN Multiplier[e] ELSE 1) = 0

Recorded_Sticky ==
    [e \in DOMAIN throttled \cup Asked |->
        IF e \in DOMAIN throttled /\ throttled[e] THEN TRUE
        ELSE IF e \in Asked THEN IsThrottled(e) ELSE throttled[e]]

\* An engine that is not asked about keeps what was last said of it.
Recorded ==
    [e \in DOMAIN throttled \cup Asked |->
        IF e \in Asked THEN IsThrottled(e) ELSE throttled[e]]

(***************************************************************************)
(* MetaCognitionLoop.compute, on readings of the others.                    *)
(***************************************************************************)
Classify(stage, recovering, varied) ==
    IF stage >= 3 THEN "fragmented"
    ELSE IF recovering THEN "recovering"
    ELSE IF budget < 30 THEN "stressed"
    ELSE IF varied THEN "exploring" ELSE "nominal"

Confident(recent) ==
    /\ Len(recent) >= 2
    /\ \E a \in Assessments :
        100 * Cardinality({i \in DOMAIN recent : recent[i] = a}) >= Agreement * Len(recent)

\* _maybe_emit_suggestion
Called(a, stage, inRecovery, recent) ==
    Confident(recent) /\ ((stage >= 2 /\ ~inRecovery) \/ a = "stressed")

LastIgnored(s) == Len(s) >= Ignorable /\
    \A i \in (Len(s) - Ignorable + 1)..Len(s) : s[i] = "ignored"

Record_NoClear(d) ==
    LET s == Kept(Append(decisions, d), DecisionsKept) IN
    /\ warned' = IF LastIgnored(s) THEN warned + 1 ELSE warned
    /\ decisions' = s

\* SuggestionTracker.record: the warning clears what it reports.
Record(d) ==
    LET s == Kept(Append(decisions, d), DecisionsKept) IN
    /\ warned' = IF LastIgnored(s) THEN warned + 1 ELSE warned
    /\ decisions' = IF LastIgnored(s) THEN <<>> ELSE s

\* A mode that is a plain text raises when the emission is logged.
Compute ==
    \E stage \in 0..3, inRecovery, recent, varied \in BOOLEAN :
        LET a == Classify(stage, inRecovery \/ recent, varied)
            kept == Kept(Append(emissions, a), Recent)
            called == Called(a, stage, inRecovery, kept)
        IN /\ emissions' = kept
           /\ IF called /\ mode = "text"
              THEN unrecorded' = unrecorded + 1 ELSE UNCHANGED unrecorded
           /\ IF called /\ mode # "text"
              THEN /\ Record(IF mode = "embedded" THEN "used" ELSE "ignored")
                   /\ ignored' = IF mode = "embedded" THEN ignored ELSE ignored + 1
              ELSE UNCHANGED <<decisions, warned, ignored>>

\* At beat 0 compute returns at once.
EnginesRun ==
    /\ step = "engines"
    /\ throttled' = Recorded
    /\ IF Due(Meta) /\ beat > 0 THEN Compute
       ELSE UNCHANGED <<emissions, decisions, ignored, warned, unrecorded>>
    /\ step' = "tick" /\ beat' = beat + 1
    /\ UNCHANGED <<paused, budget, pauses, moves, low, mode, open, windows, streak, escalated>>

\* admin_meta_cognition_mode: the loop has no set_observer_mode, so the attribute is
\* assigned the text of the request.
AdminMetaCognitionMode ==
    /\ step = "tick" /\ mode # "text" /\ mode' = "text"
    /\ UNCHANGED <<beatVars, schedulerVars, emissions, decisions, ignored, warned, unrecorded>>

OversightNext == Pause \/ PausedBeat \/ Tick \/ EnginesRun \/ AdminMetaCognitionMode

OversightSpec == OversightInit /\ [][OversightNext]_oversightVars

-----------------------------------------------------------------------------
OpenType == [start : NoBeat..MaxBeat, from : 0..100, load : Nat, count : 0..(Window - 1)]
WindowType == [start : 0..MaxBeat, end : 0..MaxBeat, from : 0..100, to : 0..100,
               load : 0..(Whole * Window), low : NoBeat..MaxBeat]

SchedulerTypes ==
    /\ beat \in 0..MaxBeat /\ paused \in 0..MaxPause /\ step \in {"tick", "engines"}
    /\ budget \in Budgets \cup {100}
    /\ DOMAIN throttled \subseteq Engines /\ \A e \in DOMAIN throttled : throttled[e] \in BOOLEAN
    /\ open \in OpenType /\ open.load <= Whole * open.count
    /\ open = NoWindow <=> open.count = 0
    /\ windows \in Seq(WindowType) /\ Len(windows) <= WindowsKept
    /\ streak \in 0..(Escalate - 1)
    /\ pauses \in 0..MaxPause /\ moves \in 0..MaxMoves
    /\ low \in NoBeat..MaxBeat /\ escalated \in NoBeat..MaxBeat

MetaTypes ==
    /\ mode \in {"observer_only", "embedded", "text"}
    /\ emissions \in Seq(Assessments) /\ Len(emissions) <= Recent
    /\ decisions \in Seq({"used", "ignored"}) /\ Len(decisions) <= DecisionsKept
    /\ ignored \in Nat /\ warned \in Nat /\ unrecorded \in Nat

\* Every variable has its type; a window in progress is not full, a streak is not
\* due, and the loads fit the windows they belong to.
OversightTypeOK == SchedulerTypes /\ MetaTypes

\* An ineffective_throttle event reports Escalate windows in a row that no earlier
\* event has reported, in none of which the budget has recovered, and each of which
\* some engine went through throttled: the budget was low in it, or as long before
\* as an engine goes unasked, which a pause over its beat makes longer.
EscalationEarned ==
    [][escalated' # escalated =>
        /\ Len(windows') >= Escalate
        /\ \A i \in (Len(windows') - Escalate + 1)..Len(windows') :
            LET w == windows'[i] IN
            /\ w.start > escalated /\ w.to - w.from < LeastEffect
            /\ w.low # NoBeat
            /\ \E e \in Engines : w.low + Period[e] * (pauses + 1) >= w.start]_oversightVars

\* Every Ignorable ignored suggestions give one warning, whatever modes, budgets
\* and pauses they come through: "operator sees one per divergence run, not spam"
\* (meta_cognition_loop.py).
WarningsEarned == warned = ignored \div Ignorable

\* "We always record the decision regardless of mode" (compute).
AlwaysRecorded == unrecorded = 0
=============================================================================
