--------------------------- MODULE RecoveryProofs ---------------------------
(***************************************************************************)
(* TLAPS proofs about Recovery, for every value of its constants.          *)
(***************************************************************************)
EXTENDS Recovery, SequenceTheorems, TLAPS

\* What TypeOK needs to be inductive: a running recovery has saved parameters
\* to go back to, and its countdown has not reached zero.
Running ==
    /\ state # "baseline" => restoreState \in Params
    /\ state = "active" => beatsRemaining > 0
    /\ state = "restoring" => restoreRemaining > 0

TypeInv == TypeOK /\ Running

-----------------------------------------------------------------------------
(***************************************************************************)
(* The passes over the history change durability fields and nothing else.  *)
(***************************************************************************)

\* A function over the domain of a sequence with values in S is a sequence.
LEMMA MapIsSeq ==
    ASSUME NEW S, NEW T, NEW h \in Seq(S), NEW f \in [DOMAIN h -> T]
    PROVE  f \in Seq(T) /\ DOMAIN f = DOMAIN h /\ Len(f) = Len(h)
  <1>1. Len(h) \in Nat /\ DOMAIN h = 1..Len(h)
    OBVIOUS
  <1>2. f \in Seq(T)
    BY <1>1, SeqDef
  <1>3. DOMAIN f = 1..Len(h) /\ DOMAIN f = 1..Len(f) /\ Len(f) \in Nat
    BY <1>1, <1>2
  <1>4. Len(f) = Len(h)
    BY <1>1, <1>3
  <1> QED
    BY <1>1, <1>2, <1>3, <1>4

\* Finalizing an event changes its durability and its next fragmentation.
LEMMA FinalizeType ==
    ASSUME NEW e \in ExitedEvent, NEW d \in Int, NEW next \in Int
    PROVE  /\ Finalize(e, d, next) \in ExitedEvent
           /\ Finalize(e, d, next).ended = e.ended
           /\ Finalize(e, d, next).countFrom = e.countFrom
           /\ Finalize(e, d, next).durability = d
           /\ Finalize(e, d, next).nextFragmentation = next
  BY DEF ExitedEvent, Finalize

\* A durability is a fraction of the watchdog.
LEMMA ClipType ==
    ASSUME NEW n \in Int
    PROVE  Clip(n) \in 0..Watchdog
  BY RecoveryAssumption DEF Clip

\* The watchdog pass keeps every event and every beat it records.
LEMMA WatchdogPassKeeps ==
    ASSUME NEW h \in Seq(ExitedEvent)
    PROVE  /\ WatchdogPass(h) \in Seq(ExitedEvent)
           /\ DOMAIN WatchdogPass(h) = DOMAIN h
           /\ Len(WatchdogPass(h)) = Len(h)
           /\ \A i \in DOMAIN h :
                /\ WatchdogPass(h)[i].ended = h[i].ended
                /\ WatchdogPass(h)[i].countFrom = h[i].countFrom
  <1>1. Watchdog \in Int /\ NoBeat \in Int
    BY RecoveryAssumption DEF NoBeat
  <1>2. ASSUME NEW i \in DOMAIN h
        PROVE  /\ WatchdogPass(h)[i] \in ExitedEvent
               /\ WatchdogPass(h)[i].ended = h[i].ended
               /\ WatchdogPass(h)[i].countFrom = h[i].countFrom
    <2>1. h[i] \in ExitedEvent
      OBVIOUS
    <2>2. WatchdogPass(h)[i] \in {h[i], Finalize(h[i], Watchdog, NoBeat)}
      BY DEF WatchdogPass
    <2> QED
      BY <1>1, <2>1, <2>2, FinalizeType
  <1>3. WatchdogPass(h) \in [DOMAIN h -> ExitedEvent]
    BY <1>2 DEF WatchdogPass
  <1> QED
    BY <1>2, <1>3, MapIsSeq

\* So does the pass a new episode's first request makes.
LEMMA FragmentationPassKeeps ==
    ASSUME NEW h \in Seq(ExitedEvent), NEW b \in Nat
    PROVE  /\ FragmentationPass(h, b) \in Seq(ExitedEvent)
           /\ DOMAIN FragmentationPass(h, b) = DOMAIN h
           /\ Len(FragmentationPass(h, b)) = Len(h)
           /\ \A i \in DOMAIN h :
                /\ FragmentationPass(h, b)[i].ended = h[i].ended
                /\ FragmentationPass(h, b)[i].countFrom = h[i].countFrom
                /\ ~Pending(FragmentationPass(h, b)[i])
  <1>1. ASSUME NEW i \in DOMAIN h
        PROVE  /\ FragmentationPass(h, b)[i] \in ExitedEvent
               /\ FragmentationPass(h, b)[i].ended = h[i].ended
               /\ FragmentationPass(h, b)[i].countFrom = h[i].countFrom
               /\ ~Pending(FragmentationPass(h, b)[i])
    <2>1. h[i] \in ExitedEvent
      OBVIOUS
    <2> DEFINE d == Clip(b - h[i].ended)
    <2>2. d \in Int /\ d # NoBeat
      <3>1. h[i].ended \in Nat
        BY <2>1 DEF ExitedEvent
      <3>2. b - h[i].ended \in Int
        BY <3>1
      <3>3. d \in 0..Watchdog
        BY <3>2, ClipType
      <3> QED
        BY <3>3, RecoveryAssumption DEF NoBeat
    <2>3. FragmentationPass(h, b)[i] =
            IF Pending(h[i]) THEN Finalize(h[i], d, b) ELSE h[i]
      BY DEF FragmentationPass
    <2> HIDE DEF d
    <2>4. CASE Pending(h[i])
      <3>1. b \in Int
        OBVIOUS
      <3>2. FragmentationPass(h, b)[i] = Finalize(h[i], d, b)
        BY <2>3, <2>4
      <3> QED
        BY <2>1, <2>2, <3>1, <3>2, FinalizeType DEF Pending
    <2>5. CASE ~Pending(h[i])
      BY <2>1, <2>3, <2>5
    <2> QED
      BY <2>4, <2>5
  <1>2. FragmentationPass(h, b) \in [DOMAIN h -> ExitedEvent]
    BY <1>1 DEF FragmentationPass
  <1> QED
    BY <1>1, <1>2, MapIsSeq

\* Appending to the bounded deque keeps a suffix of the old events.
LEMMA RememberKeeps ==
    ASSUME NEW h \in Seq(ExitedEvent), NEW e \in ExitedEvent
    PROVE  /\ Remember(h, e) \in Seq(ExitedEvent)
           /\ Len(h) <= HistoryCap => Len(Remember(h, e)) <= HistoryCap
           /\ Remember(h, e)[Len(Remember(h, e))] = e
           /\ Len(Remember(h, e)) > 0
           /\ \E k \in {0, 1} :
                \A i \in 1..Len(Remember(h, e)) - 1 :
                   i + k \in DOMAIN h /\ Remember(h, e)[i] = h[i + k]
  <1>1. CASE Len(h) >= HistoryCap
    <2>1. Tail(h) \in Seq(ExitedEvent) /\ Len(Tail(h)) = Len(h) - 1
      BY <1>1, RecoveryAssumption
    <2>2. Remember(h, e) = Append(Tail(h), e)
      BY <1>1 DEF Remember
    <2>3. \A i \in 1..Len(h) - 1 : Tail(h)[i] = h[i + 1]
      BY <1>1
    <2>4. \A i \in 1..Len(Remember(h, e)) - 1 :
             i + 1 \in DOMAIN h /\ Remember(h, e)[i] = h[i + 1]
      BY <2>1, <2>2, <2>3
    <2> QED
      BY <1>1, <2>1, <2>2, <2>4, RecoveryAssumption
  <1>2. CASE ~(Len(h) >= HistoryCap)
    <2>1. Remember(h, e) = Append(h, e)
      BY <1>2 DEF Remember
    <2>2. \A i \in 1..Len(Remember(h, e)) - 1 :
             i + 0 \in DOMAIN h /\ Remember(h, e)[i] = h[i + 0]
      BY <2>1
    <2> QED
      BY <1>2, <2>1, <2>2, RecoveryAssumption
  <1> QED
    BY <1>1, <1>2

-----------------------------------------------------------------------------
(***************************************************************************)
(* Type correctness                                                        *)
(***************************************************************************)

\* Any request, from the monitor or the operator, leaves well-typed protocol
\* and escalator state, and a recovery that can count down and restore.
LEMMA RequestType ==
    ASSUME TypeInv, NEW b \in Int, NEW force \in BOOLEAN, NEW s \in 0..4,
           NEW budget \in Budget, NEW cur \in 0..4,
           OnRecoveryRequest(b, force, s, budget, cur)
    PROVE  /\ pauseBeats' \in Nat
           /\ state' \in RecoveryState
           /\ params' \in Params
           /\ magnitude' \in Int
           /\ restoreState' \in Params \cup {NoRestore}
           /\ active' \in ActiveEvent
           /\ beatsRemaining' \in 0..Duration
           /\ restoreRemaining' \in 0..RestoreBeats
           /\ starts' \in Nat
           /\ interrupted' \in [all : Nat, deep : Nat]
           /\ rejects' \in Nat
           /\ episodeStart' \in Int
           /\ warning' \in [beat : Int, rejects : Nat, start : Int]
           /\ Running'
  <1> DEFINE decision == HandleRecoveryRequest(force, s, budget)
  <1>1. /\ rejects' \in Nat
        /\ episodeStart' \in Int
        /\ warning' \in [beat : Int, rejects : Nat, start : Int]
    <2>1. OnDecision(b, decision, cur)
      BY DEF OnRecoveryRequest
    <2>2. CASE ResetRun
      BY <2>2 DEF ResetRun, NoBeat, TypeInv, TypeOK
    <2>3. CASE CountReject(b)
      <3> DEFINE start == IF rejects = 0 THEN b ELSE episodeStart
                 run   == rejects + 1
      <3>1. start \in Int /\ run \in Nat
        BY DEF TypeInv, TypeOK
      <3>2. rejects' = run /\ episodeStart' = start
        BY <2>3 DEF CountReject
      <3>3. \/ warning' = warning
            \/ warning' = [beat |-> b, rejects |-> run,
                           start |-> IF start = 0 THEN b ELSE start]
        BY <2>3 DEF CountReject, MaybeWarn
      <3> HIDE DEF start, run
      <3> QED
        BY <3>1, <3>2, <3>3 DEF TypeInv, TypeOK
    <2> QED
      BY <2>1, <2>2, <2>3 DEF OnDecision
  <1>2. CASE Accepts(decision)
    <2>1. StartRecovery(b, s)
      BY <1>2 DEF OnRecoveryRequest
    <2>2. params \in Params /\ active \in ActiveEvent /\ beat \in Nat
      BY RecoveryAssumption DEF TypeInv, TypeOK
    <2>3. Reduce(params, s) \in Params
      BY <2>2 DEF Reduce, Params
    <2>4. NextTick \in Nat
      BY <2>2 DEF NextTick
    <2>5. active' \in ActiveEvent
      BY <2>1, <2>4 DEF StartRecovery, ActiveEvent
    <2>6. interrupted' \in [all : Nat, deep : Nat]
      <3>1. interrupted \in [all : Nat, deep : Nat]
        BY DEF TypeInv, TypeOK
      <3> QED
        BY <2>1, <3>1 DEF StartRecovery
    <2>7. /\ params' \in Params
          /\ restoreState' \in Params
          /\ state' = "active"
          /\ beatsRemaining' = Duration
          /\ restoreRemaining' = restoreRemaining
      BY <2>1, <2>2, <2>3 DEF StartRecovery
    <2>8. pauseBeats' \in Nat /\ magnitude' \in Int /\ starts' \in Nat
      BY <2>1 DEF StartRecovery, TypeInv, TypeOK
    <2> QED
      BY <1>1, <2>5, <2>6, <2>7, <2>8, RecoveryAssumption
      DEF TypeInv, TypeOK, Running, RecoveryState
  <1>3. CASE ~Accepts(decision)
    <2>1. UNCHANGED <<protocolVars, pauseBeats, starts, interrupted>>
      BY <1>3 DEF OnRecoveryRequest
    <2> QED
      BY <1>1, <2>1 DEF protocolVars, TypeInv, TypeOK, Running
  <1> QED
    BY <1>2, <1>3

\* One call of RecoveryProtocol.tick.
LEMMA ProtocolTickType ==
    ASSUME TypeInv, ProtocolTick
    PROVE  /\ state' \in RecoveryState
           /\ params' \in Params
           /\ magnitude' \in Int
           /\ restoreState' \in Params \cup {NoRestore}
           /\ active' \in ActiveEvent
           /\ beatsRemaining' \in 0..Duration
           /\ restoreRemaining' \in 0..RestoreBeats
           /\ history' \in Seq(ExitedEvent)
           /\ Running'
  <1>1. WatchdogPass(history) \in Seq(ExitedEvent)
    BY WatchdogPassKeeps DEF TypeInv, TypeOK
  <1>2. CASE TickBaseline
    BY <1>1, <1>2 DEF TickBaseline, protocolVars, TypeInv, TypeOK, Running
  <1>3. CASE TickActive
    <2>1. beatsRemaining \in 1..Duration /\ state = "active"
      BY <1>3, RecoveryAssumption DEF TickActive, TypeInv, TypeOK, Running
    <2>2. beatsRemaining' \in 0..Duration /\ history' \in Seq(ExitedEvent)
      BY <1>1, <1>3, <2>1, RecoveryAssumption DEF TickActive
    <2>3. UNCHANGED <<params, magnitude, restoreState, active>>
      BY <1>3 DEF TickActive
    <2>4. CASE beatsRemaining' <= 0
      <3>1. state' = "restoring" /\ restoreRemaining' = RestoreBeats
        BY <1>3, <2>4 DEF TickActive
      <3> QED
        BY <2>1, <2>2, <2>3, <3>1, RecoveryAssumption
        DEF TypeInv, TypeOK, Running, RecoveryState
    <2>5. CASE ~(beatsRemaining' <= 0)
      <3>1. state' = "active" /\ restoreRemaining' = restoreRemaining
        BY <1>3, <2>1, <2>5 DEF TickActive
      <3> QED
        BY <2>1, <2>2, <2>3, <2>5, <3>1 DEF TypeInv, TypeOK, Running
    <2> QED
      BY <2>4, <2>5
  <1>4. CASE TickRestoring
    <2>1. restoreRemaining \in 1..RestoreBeats /\ state = "restoring"
          /\ restoreState \in Params
      BY <1>4, RecoveryAssumption DEF TickRestoring, TypeInv, TypeOK, Running
    <2>2. restoreRemaining' \in 0..RestoreBeats
      BY <1>4, <2>1, RecoveryAssumption DEF TickRestoring
    <2>3. CASE restoreRemaining' <= 0
      <3>1. FinishRestore
        BY <1>4, <2>3 DEF TickRestoring
      <3> DEFINE e == [stage |-> active.stage, started |-> active.started,
                       countFrom |-> active.countFrom, ended |-> beat,
                       durability |-> NoBeat, nextFragmentation |-> NoBeat]
      <3>2. e \in ExitedEvent
        <4>1. active \in ActiveEvent /\ beat \in Nat
          BY RecoveryAssumption DEF TypeInv, TypeOK
        <4> QED
          BY <4>1 DEF ActiveEvent, ExitedEvent, NoBeat
      <3>3. history' = WatchdogPass(Remember(history, e))
        BY <3>1 DEF FinishRestore
      <3> HIDE DEF e
      <3>4. Remember(history, e) \in Seq(ExitedEvent)
        BY <3>2, RememberKeeps DEF TypeInv, TypeOK
      <3>5. history' \in Seq(ExitedEvent)
        BY <3>3, <3>4, WatchdogPassKeeps
      <3>6. active' \in ActiveEvent
        BY <3>1 DEF FinishRestore, NoEvent, ActiveEvent, NoBeat
      <3> QED
        BY <2>1, <2>2, <3>1, <3>5, <3>6
        DEF FinishRestore, TypeInv, TypeOK, Running, RecoveryState
    <2>4. CASE ~(restoreRemaining' <= 0)
      BY <1>1, <1>4, <2>1, <2>2, <2>4
      DEF TickRestoring, TypeInv, TypeOK, Running
    <2> QED
      BY <2>3, <2>4
  <1> QED
    BY <1>2, <1>3, <1>4 DEF ProtocolTick

\* TypeInv is inductive.
LEMMA TypeInvStep ==
    ASSUME TypeInv, [Next]_vars
    PROVE  TypeInv'
  <1> USE DEF heartbeatVars, escalatorVars, monitorVars, observerVars
  <1>1. CASE Beat
    <2>1. ProtocolTick
      BY <1>1 DEF Beat
    <2>2. beat' \in 0..MaxBeat /\ beat' < MaxBeat /\ phase' = "engines"
      BY <1>1 DEF Beat, TypeInv, TypeOK
    <2>3. substrateBeat' \in 0..MaxBeat
      BY <1>1 DEF Beat, TypeInv, TypeOK
    <2>4. buffered' \in 0..Warmup
      BY <1>1, RecoveryAssumption DEF Beat, TypeInv, TypeOK
    <2>5. UNCHANGED <<pauseBeats, escalatorVars, monitorVars, observerVars>>
      BY <1>1 DEF Beat
    <2> QED
      BY <2>1, <2>2, <2>3, <2>4, <2>5, ProtocolTickType DEF TypeInv, TypeOK
  <1>2. CASE PausedBeat
    <2>1. ProtocolTick
      BY <1>2 DEF PausedBeat
    <2>2. beat' \in 0..MaxBeat /\ phase' = "between"
      BY <1>2, RecoveryAssumption DEF PausedBeat, TypeInv, TypeOK
    <2>3. pauseBeats' \in Nat
      BY <1>2 DEF PausedBeat, TypeInv, TypeOK
    <2>4. UNCHANGED <<substrateBeat, buffered, escalatorVars, monitorVars,
                      observerVars>>
      BY <1>2 DEF PausedBeat
    <2> QED
      BY <2>1, <2>2, <2>3, <2>4, ProtocolTickType DEF TypeInv, TypeOK
  <1>3. ASSUME EndTick, phase = "engines"
        PROVE  beat' \in 0..MaxBeat /\ phase' = "between"
               /\ UNCHANGED <<substrateBeat, buffered>>
    BY <1>3, RecoveryAssumption DEF EndTick, TypeInv, TypeOK
  <1>4. CASE MonitorSkips
    <2>1. UNCHANGED <<pauseBeats, protocolVars, history, escalatorVars,
                      monitorVars, observerVars>>
      BY <1>4 DEF MonitorSkips
    <2> QED
      BY <1>3, <1>4, <2>1
      DEF MonitorSkips, protocolVars, TypeInv, TypeOK, Running
  <1>5. CASE MonitorReadsCalm
    <2>1. UNCHANGED <<pauseBeats, protocolVars, history, escalatorVars,
                      observerVars>>
      BY <1>5 DEF MonitorReadsCalm
    <2>2. episodeFirst' \in Int
      BY <1>5 DEF MonitorReadsCalm, NoBeat
    <2>5. episodeActive' \in BOOLEAN
      BY <1>5, Zenon DEF MonitorReadsCalm
    <2>3. stage' \in 0..MinStage - 1
      BY <1>5 DEF MonitorReadsCalm
    <2>4. stage' \in 0..4
      BY <2>3, RecoveryAssumption
    <2> QED
      BY <1>3, <1>5, <2>1, <2>2, <2>4, <2>5
      DEF MonitorReadsCalm, protocolVars, TypeInv, TypeOK, Running
  <1>6. CASE MonitorReadsFragmented
    <2>1. beat \in Nat /\ beat \in Int
      BY RecoveryAssumption DEF TypeInv, TypeOK
    <2>2. PICK s \in MinStage..4, budget \in Budget :
             stage' = s /\ OnRecoveryRequest(beat, FALSE, s, budget, s)
      BY <1>6 DEF MonitorReadsFragmented
    <2>3. s \in 0..4
      BY RecoveryAssumption
    <2>4. history' \in Seq(ExitedEvent)
      BY <1>6, <2>1, FragmentationPassKeeps
      DEF MonitorReadsFragmented, TypeInv, TypeOK
    <2>5. episodeFirst' \in Int /\ episodeActive' \in BOOLEAN
          /\ UNCHANGED <<operatorCalls, forces>>
      BY <1>6, <2>1 DEF MonitorReadsFragmented, TypeInv, TypeOK
    <2>6. EndTick /\ phase = "engines"
      BY <1>6 DEF MonitorReadsFragmented
    <2> QED
      BY <1>3, <2>1, <2>2, <2>3, <2>4, <2>5, <2>6, RequestType
      DEF TypeInv, TypeOK
  <1>7. CASE AdminRecoveryForce
    <2>1. PICK force \in BOOLEAN, s \in 0..4, budget \in Budget :
             /\ OnRecoveryRequest(substrateBeat, force, s, budget, stage)
             /\ forces' = IF force THEN forces + 1 ELSE forces
      BY <1>7 DEF AdminRecoveryForce
    <2>2. substrateBeat \in Int /\ stage \in 0..4
      BY DEF TypeInv, TypeOK
    <2>3. operatorCalls' \in 0..MaxOperator /\ forces' \in 0..operatorCalls'
      BY <1>7, <2>1, RecoveryAssumption
      DEF AdminRecoveryForce, OperatorCall, TypeInv, TypeOK
    <2>4. UNCHANGED <<beat, phase, substrateBeat, buffered, history, monitorVars>>
      BY <1>7 DEF AdminRecoveryForce
    <2> QED
      BY <2>1, <2>2, <2>3, <2>4, RequestType DEF TypeInv, TypeOK
  <1>8. CASE AdminHeartbeatPause
    <2>1. /\ operatorCalls' \in 0..MaxOperator /\ pauseBeats' \in Nat
          /\ forces \in 0..operatorCalls'
      BY <1>8, RecoveryAssumption
      DEF AdminHeartbeatPause, OperatorCall, TypeInv, TypeOK
    <2>2. UNCHANGED <<beat, phase, substrateBeat, buffered, protocolVars,
                      history, escalatorVars, monitorVars, forces, starts, interrupted>>
      BY <1>8 DEF AdminHeartbeatPause
    <2> QED
      BY <2>1, <2>2 DEF protocolVars, TypeInv, TypeOK, Running
  <1>9. CASE UNCHANGED vars
    BY <1>9 DEF vars, protocolVars, TypeInv, TypeOK, Running
  <1> QED
    BY <1>1, <1>2, <1>4, <1>5, <1>6, <1>7, <1>8, <1>9 DEF Next

\* The initial state is well typed and at rest.
LEMMA TypeInvInit == Init => TypeInv
  <1> SUFFICES ASSUME Init PROVE TypeInv
    OBVIOUS
  <1>1. /\ params \in Params /\ active \in ActiveEvent
        /\ interrupted \in [all : Nat, deep : Nat]
        /\ warning \in [beat : Int, rejects : Nat, start : Int]
    BY DEF Init, Pristine, Params, NoEvent, ActiveEvent, NoWarning, NoBeat
  <1>2. history \in Seq(ExitedEvent)
    BY DEF Init
  <1>3. /\ beat \in 0..MaxBeat /\ substrateBeat \in 0..MaxBeat
        /\ buffered \in 0..Warmup /\ beatsRemaining \in 0..Duration
        /\ restoreRemaining \in 0..RestoreBeats
        /\ operatorCalls \in 0..MaxOperator /\ forces \in 0..operatorCalls
    BY RecoveryAssumption DEF Init
  <1>4. episodeStart \in Int /\ episodeFirst \in Int
    BY DEF Init, NoBeat
  <1>5. /\ phase = "between" /\ state = "baseline" /\ restoreState = NoRestore
        /\ pauseBeats \in Nat /\ magnitude \in Int /\ rejects \in Nat
        /\ stage \in 0..4 /\ starts \in Nat
    BY DEF Init
  <1>6. episodeActive \in BOOLEAN
    BY Zenon DEF Init
  <1> QED
    BY <1>1, <1>2, <1>3, <1>4, <1>5, <1>6
    DEF TypeInv, TypeOK, Running, RecoveryState

\* Every variable keeps its type, and no countdown ever passes zero.
THEOREM TypeCorrect == Spec => []TypeOK
  <1>1. TypeInv /\ [Next]_vars => TypeInv'
    BY TypeInvStep
  <1>2. TypeInv => TypeOK
    BY DEF TypeInv
  <1> QED
    BY TypeInvInit, <1>1, <1>2, PTL DEF Spec

-----------------------------------------------------------------------------
(***************************************************************************)
(* A step is one of three kinds: it ticks the protocol, it starts a        *)
(* recovery, or it leaves the protocol alone.  The invariants below are    *)
(* proved kind by kind.                                                    *)
(***************************************************************************)

\* The history and the episode of a step that is not the protocol's tick.
EpisodeKept ==
    /\ history' = history
    /\ episodeActive' => episodeActive /\ episodeFirst' = episodeFirst

EpisodeOpens ==
    /\ history' = FragmentationPass(history, beat)
    /\ episodeFirst' = beat
    /\ phase = "engines"

NoTick == NextTick' = NextTick /\ (EpisodeKept \/ EpisodeOpens)

TickStep ==
    /\ ProtocolTick
    /\ NextTick = beat
    /\ NextTick' = beat + 1
    /\ UNCHANGED <<episodeActive, episodeFirst, starts, interrupted>>

StartStep ==
    /\ NoTick
    /\ \E b \in Int, s \in 0..4 : StartRecovery(b, s)

IdleStep ==
    /\ NoTick
    /\ UNCHANGED <<protocolVars, starts, interrupted>>

\* A request starts a recovery or leaves the protocol alone.
LEMMA RequestKinds ==
    ASSUME NEW b, NEW force, NEW s, NEW budget, NEW cur,
           OnRecoveryRequest(b, force, s, budget, cur)
    PROVE  \/ StartRecovery(b, s)
           \/ UNCHANGED <<protocolVars, starts, interrupted>>
  BY DEF OnRecoveryRequest

\* Every step of the specification is of one of the three kinds.
LEMMA StepKinds ==
    ASSUME TypeInv, [Next]_vars
    PROVE  TickStep \/ StartStep \/ IdleStep
  <1>1. beat \in Nat /\ phase \in {"between", "engines"}
    BY RecoveryAssumption DEF TypeInv, TypeOK
  <1>2. CASE Beat
    <2>1. phase = "between" /\ phase' = "engines" /\ beat' = beat
      BY <1>2 DEF Beat
    <2>2. NextTick = beat /\ NextTick' = beat + 1
      BY <2>1 DEF NextTick
    <2> QED
      BY <1>2, <2>2 DEF Beat, TickStep, monitorVars, observerVars
  <1>3. CASE PausedBeat
    <2>1. phase = "between" /\ phase' = "between" /\ beat' = beat + 1
      BY <1>3 DEF PausedBeat
    <2>2. NextTick = beat /\ NextTick' = beat + 1
      BY <2>1 DEF NextTick
    <2> QED
      BY <1>3, <2>2 DEF PausedBeat, TickStep, monitorVars, observerVars
  <1>4. ASSUME EndTick, phase = "engines"
        PROVE  NextTick' = NextTick
    BY <1>4 DEF EndTick, NextTick
  <1>5. CASE MonitorSkips
    <2>1. EpisodeKept
      BY <1>5 DEF MonitorSkips, monitorVars, EpisodeKept
    <2> QED
      BY <1>4, <1>5, <2>1 DEF MonitorSkips, observerVars, NoTick, IdleStep
  <1>6. CASE MonitorReadsCalm
    <2>1. EpisodeKept
      BY <1>6 DEF MonitorReadsCalm, EpisodeKept
    <2> QED
      BY <1>4, <1>6, <2>1 DEF MonitorReadsCalm, observerVars, NoTick, IdleStep
  <1>7. CASE MonitorReadsFragmented
    <2>1. PICK s \in MinStage..4, budget \in Budget :
             OnRecoveryRequest(beat, FALSE, s, budget, s)
      BY <1>7 DEF MonitorReadsFragmented
    <2>2. s \in 0..4 /\ beat \in Int
      BY <1>1, RecoveryAssumption
    <2>3. EpisodeKept \/ EpisodeOpens
      BY <1>7, Zenon DEF MonitorReadsFragmented, EpisodeKept, EpisodeOpens
    <2>4. NoTick
      BY <1>4, <1>7, <2>3 DEF MonitorReadsFragmented, NoTick
    <2> QED
      BY <2>1, <2>2, <2>4, RequestKinds DEF StartStep, IdleStep
  <1>8. CASE AdminRecoveryForce
    <2>1. PICK force \in BOOLEAN, s \in 0..4, budget \in Budget :
             OnRecoveryRequest(substrateBeat, force, s, budget, stage)
      BY <1>8 DEF AdminRecoveryForce
    <2>2. substrateBeat \in Int
      BY DEF TypeInv, TypeOK
    <2>3. NextTick' = NextTick /\ EpisodeKept
      BY <1>8 DEF AdminRecoveryForce, monitorVars, NextTick, EpisodeKept
    <2> QED
      BY <2>1, <2>2, <2>3, RequestKinds DEF NoTick, StartStep, IdleStep
  <1>9. CASE AdminHeartbeatPause
    BY <1>9 DEF AdminHeartbeatPause, monitorVars, NextTick, EpisodeKept,
                NoTick, IdleStep
  <1>10. CASE UNCHANGED vars
    BY <1>10 DEF vars, heartbeatVars, monitorVars, observerVars, NextTick,
                 EpisodeKept, NoTick, IdleStep
  <1> QED
    BY <1>2, <1>3, <1>5, <1>6, <1>7, <1>8, <1>9, <1>10 DEF Next

-----------------------------------------------------------------------------
(***************************************************************************)
(* The parameters                                                          *)
(***************************************************************************)

\* A start adds one reduction and keeps the values before it.
LEMMA StartAccounts ==
    ASSUME TypeInv, ParamsAccounted, NEW b \in Int, NEW s \in 0..4,
           StartRecovery(b, s)
    PROVE  ParamsAccounted'
  <1>1. /\ params \in Params /\ active \in ActiveEvent
        /\ interrupted \in [all : Nat, deep : Nat]
    BY DEF TypeInv, TypeOK
  <1>2. /\ restoreState' = params /\ params' = Reduce(params, s)
        /\ magnitude' = magnitude + 1 /\ state' = "active"
    BY DEF StartRecovery
  <1>3. active'.stage = s
    BY DEF StartRecovery
  <1>4. CASE state = "baseline"
    <2>1. interrupted' = interrupted
      BY <1>4 DEF StartRecovery
    <2> QED
      BY <1>1, <1>2, <1>3, <1>4, <2>1 DEF ParamsAccounted, Reduce, Params
  <1>5. CASE state # "baseline"
    <2>1. /\ interrupted'.all = interrupted.all + 1
          /\ interrupted'.deep = interrupted.deep
                                 + (IF active.stage >= 3 THEN 1 ELSE 0)
      BY <1>5 DEF StartRecovery
    <2> QED
      BY <1>1, <1>2, <1>3, <1>5, <2>1
      DEF ParamsAccounted, Reduce, Params, ActiveEvent
  <1> QED
    BY <1>4, <1>5

\* Only the last tick of the restoration moves a parameter, back by one
\* reduction of the stage that is ending.
LEMMA TickAccounts ==
    ASSUME TypeInv, ParamsAccounted, TickStep
    PROVE  ParamsAccounted'
  <1>1. /\ params \in Params /\ active \in ActiveEvent /\ magnitude \in Int
        /\ interrupted \in [all : Nat, deep : Nat] /\ interrupted' = interrupted
        /\ state # "baseline" => restoreState \in Params
    BY DEF TickStep, TypeInv, TypeOK, Running
  <1>2. CASE TickBaseline
    BY <1>1, <1>2 DEF TickBaseline, protocolVars, ParamsAccounted
  <1>3. CASE TickActive
    <2>1. state = "active" /\ state' \in {"active", "restoring"}
      BY <1>3 DEF TickActive
    <2> QED
      BY <1>1, <1>3, <2>1 DEF TickActive, ParamsAccounted
  <1>4. CASE TickRestoring /\ ~(restoreRemaining' <= 0)
    BY <1>1, <1>4 DEF TickRestoring, ParamsAccounted
  <1>5. CASE TickRestoring /\ restoreRemaining' <= 0
    <2>1. /\ state = "restoring" /\ state' = "baseline"
          /\ params' = restoreState /\ magnitude' = magnitude - 1
      BY <1>5 DEF TickRestoring, FinishRestore
    <2>2. params = Reduce(restoreState, active.stage)
      BY <2>1 DEF ParamsAccounted
    <2> QED
      BY <1>1, <2>1, <2>2 DEF ParamsAccounted, Reduce, Params, ActiveEvent
  <1> QED
    BY <1>2, <1>3, <1>4, <1>5 DEF TickStep, ProtocolTick

\* Exactly one reduction is in force per recovery running or started over
\* before it could exit, for every parameter a recovery touches.
THEOREM ParamsCorrect == Spec => []ParamsAccounted
  <1>1. Init => ParamsAccounted
    BY DEF Init, ParamsAccounted, Pristine
  <1>2. ASSUME TypeInv, ParamsAccounted, [Next]_vars
        PROVE  ParamsAccounted'
    <2>1. CASE TickStep
      BY <1>2, <2>1, TickAccounts
    <2>2. CASE StartStep
      BY <1>2, <2>2, StartAccounts DEF StartStep
    <2>3. CASE IdleStep
      BY <1>2, <2>3 DEF IdleStep, protocolVars, ParamsAccounted
    <2> QED
      BY <1>2, <2>1, <2>2, <2>3, StepKinds
  <1> QED
    BY TypeInvInit, TypeInvStep, <1>1, <1>2, PTL DEF Spec

\* The deep recoveries that were interrupted are some of the interrupted ones.
DeepIsSome == interrupted.deep <= interrupted.all

\* With no recovery ever forced over a running one, baseline is pristine.
THEOREM PristineCorrect == Spec => []PristineUnlessInterrupted
  <1>1. Init => DeepIsSome
    BY DEF Init, DeepIsSome
  <1>2. ASSUME TypeInv, DeepIsSome, [Next]_vars
        PROVE  DeepIsSome'
    <2>1. interrupted \in [all : Nat, deep : Nat]
      BY <1>2 DEF TypeInv, TypeOK
    <2>2. CASE UNCHANGED interrupted
      BY <1>2, <2>2 DEF DeepIsSome
    <2>3. CASE StartStep
      <3>1. PICK b \in Int, s \in 0..4 : StartRecovery(b, s)
        BY <2>3 DEF StartStep
      <3> QED
        BY <1>2, <2>1, <3>1 DEF StartRecovery, DeepIsSome
    <2> QED
      BY <1>2, <2>2, <2>3, StepKinds DEF TickStep, IdleStep
  <1>3. TypeInv /\ ParamsAccounted /\ DeepIsSome => PristineUnlessInterrupted
    <2> SUFFICES ASSUME TypeInv, ParamsAccounted, DeepIsSome,
                        state = "baseline", interrupted.all = 0
                 PROVE  params = Pristine /\ magnitude = 0
      BY DEF PristineUnlessInterrupted
    <2>1. params \in Params /\ interrupted.deep \in Nat
      BY DEF TypeInv, TypeOK
    <2>2. params.W = 0 /\ params.alpha = 0 /\ params.noise = 0 /\ magnitude = 0
      BY <2>1 DEF ParamsAccounted, DeepIsSome
    <2> QED
      BY <2>1, <2>2 DEF Pristine, Params
  <1> QED
    BY TypeInvInit, TypeInvStep, ParamsCorrect, <1>1, <1>2, <1>3, PTL DEF Spec

-----------------------------------------------------------------------------
(***************************************************************************)
(* The course of a recovery and the order of the history                   *)
(***************************************************************************)

\* How far a running recovery has come is what its countdowns say, and every
\* event of the history took its full course and ended before the next tick.
Countdown ==
    /\ state = "active" =>
         NextTick - active.countFrom = Duration - beatsRemaining
    /\ state = "restoring" =>
         NextTick - active.countFrom = Duration + RestoreBeats - restoreRemaining

FullCourse(h) ==
    \A i \in DOMAIN h :
        h[i].ended - h[i].countFrom = Duration + RestoreBeats - 1

EndedBefore(h, b) == \A i \in DOMAIN h : h[i].ended < b

InOrder(h) ==
    \A i, j \in DOMAIN h : i < j => h[i].ended < h[j].countFrom

CourseInv ==
    /\ Countdown
    /\ Len(history) <= HistoryCap
    /\ FullCourse(history)
    /\ EndedBefore(history, NextTick)
    /\ InOrder(history)
    /\ state # "baseline" => EndedBefore(history, active.countFrom)

\* All that CourseInv says of a history it says of its beats.
SameBeats(g, h) ==
    /\ DOMAIN g = DOMAIN h
    /\ Len(g) = Len(h)
    /\ \A i \in DOMAIN h : g[i].ended = h[i].ended /\ g[i].countFrom = h[i].countFrom

\* CourseInv's conjuncts about the history depend on its beats only.
LEMMA SameBeatsSameCourse ==
    ASSUME NEW g, NEW h, SameBeats(g, h)
    PROVE  /\ FullCourse(h) => FullCourse(g)
           /\ \A b : EndedBefore(h, b) => EndedBefore(g, b)
           /\ InOrder(h) => InOrder(g)
  BY DEF SameBeats, FullCourse, EndedBefore, InOrder

\* A step that is not a tick keeps the beats of the history.
LEMMA NoTickSameBeats ==
    ASSUME TypeInv, NoTick
    PROVE  SameBeats(history', history)
  <1>1. history \in Seq(ExitedEvent) /\ beat \in Nat
    BY RecoveryAssumption DEF TypeInv, TypeOK
  <1>2. CASE EpisodeKept
    BY <1>2 DEF EpisodeKept, SameBeats
  <1>3. CASE EpisodeOpens
    BY <1>1, <1>3, FragmentationPassKeeps DEF EpisodeOpens, SameBeats
  <1> QED
    BY <1>2, <1>3 DEF NoTick

\* The beats of a history are natural numbers.
LEMMA BeatsAreNat ==
    ASSUME NEW h \in Seq(ExitedEvent)
    PROVE  \A i \in DOMAIN h : h[i].ended \in Nat /\ h[i].countFrom \in Nat
  <1>1. \A i \in DOMAIN h : h[i] \in ExitedEvent
    OBVIOUS
  <1> QED
    BY <1>1 DEF ExitedEvent

\* What a recovery leaves in the history when it exits.
ExitRecord ==
    [stage |-> active.stage, started |-> active.started,
     countFrom |-> active.countFrom, ended |-> beat,
     durability |-> NoBeat, nextFragmentation |-> NoBeat]

\* ExitRecord is an event that ended on this beat and is still pending.
LEMMA ExitRecordType ==
    ASSUME TypeInv
    PROVE  /\ ExitRecord \in ExitedEvent
           /\ ExitRecord.ended = beat
           /\ ExitRecord.countFrom = active.countFrom
  <1>1. active \in ActiveEvent /\ beat \in Nat
    BY RecoveryAssumption DEF TypeInv, TypeOK
  <1> QED
    BY <1>1 DEF ExitRecord, ActiveEvent, ExitedEvent, NoBeat

\* A tick either only passes the watchdog over the history or exits.
LEMMA TickKinds ==
    ASSUME ProtocolTick
    PROVE  \/ /\ history' = WatchdogPass(history)
              /\ ~(state = "restoring" /\ restoreRemaining' <= 0)
           \/ /\ history' = WatchdogPass(Remember(history, ExitRecord))
              /\ state = "restoring" /\ state' = "baseline"
              /\ restoreRemaining' = restoreRemaining - 1
              /\ restoreRemaining' <= 0
  BY DEF ProtocolTick, TickBaseline, TickActive, TickRestoring, FinishRestore,
         ExitRecord

\* A tick counts a running recovery down by one.
LEMMA TickCountdown ==
    ASSUME TypeInv, Countdown, TickStep
    PROVE  /\ Countdown'
           /\ state' # "baseline" => state # "baseline" /\ active' = active
  <1>1. /\ beat \in Nat /\ active.countFrom \in Nat
        /\ beatsRemaining \in Nat /\ restoreRemaining \in Nat
        /\ Duration \in Nat /\ RestoreBeats \in Nat
        /\ NextTick = beat /\ NextTick' = beat + 1
    BY RecoveryAssumption DEF TickStep, TypeInv, TypeOK, ActiveEvent
  <1>2. CASE TickBaseline
    BY <1>2 DEF TickBaseline, protocolVars, Countdown
  <1>3. CASE TickActive
    <2>1. /\ state = "active" /\ active' = active
          /\ beatsRemaining' = beatsRemaining - 1 /\ beatsRemaining > 0
      BY <1>3 DEF TickActive, TypeInv, Running
    <2>2. CASE beatsRemaining' <= 0
      <3>1. state' = "restoring" /\ restoreRemaining' = RestoreBeats
        BY <1>3, <2>2 DEF TickActive
      <3> QED
        BY <1>1, <2>1, <2>2, <3>1 DEF Countdown
    <2>3. CASE ~(beatsRemaining' <= 0)
      <3>1. state' = "active"
        BY <1>3, <2>1, <2>3 DEF TickActive
      <3> QED
        BY <1>1, <2>1, <3>1 DEF Countdown
    <2> QED
      BY <2>2, <2>3
  <1>4. CASE TickRestoring
    <2>1. CASE restoreRemaining' <= 0
      BY <1>4, <2>1 DEF TickRestoring, FinishRestore, Countdown
    <2>2. CASE ~(restoreRemaining' <= 0)
      <3>1. /\ state = "restoring" /\ state' = "restoring" /\ active' = active
            /\ restoreRemaining' = restoreRemaining - 1
        BY <1>4, <2>2 DEF TickRestoring
      <3> QED
        BY <1>1, <3>1 DEF Countdown
    <2> QED
      BY <2>1, <2>2
  <1> QED
    BY <1>2, <1>3, <1>4 DEF TickStep, ProtocolTick

\* The event an exit appends comes after all the others, and took its course.
LEMMA ExitInOrder ==
    ASSUME TypeInv, CourseInv, NextTick = beat, state = "restoring",
           restoreRemaining - 1 <= 0,
           NEW g, g = Remember(history, ExitRecord)
    PROVE  /\ Len(g) <= HistoryCap
           /\ FullCourse(g)
           /\ EndedBefore(g, beat + 1)
           /\ InOrder(g)
  <1>1. history \in Seq(ExitedEvent) /\ beat \in Nat
    BY RecoveryAssumption DEF TypeInv, TypeOK
  <1>2. /\ ExitRecord \in ExitedEvent /\ ExitRecord.ended = beat
        /\ ExitRecord.countFrom = active.countFrom
    BY ExitRecordType
  <1>3. /\ g \in Seq(ExitedEvent) /\ Len(g) <= HistoryCap
        /\ g[Len(g)] = ExitRecord
    BY <1>1, <1>2, RememberKeeps DEF CourseInv
  <1>4. PICK k \in {0, 1} : \A i \in 1..Len(g) - 1 :
                              i + k \in DOMAIN history /\ g[i] = history[i + k]
    BY <1>1, <1>2, RememberKeeps
  <1>5. ExitRecord.ended - ExitRecord.countFrom = Duration + RestoreBeats - 1
    <2>1. restoreRemaining = 1
      BY DEF TypeInv, TypeOK, Running
    <2>2. beat - active.countFrom = Duration + RestoreBeats - 1
      BY <2>1 DEF CourseInv, Countdown
    <2> QED
      BY <1>2, <2>2
  <1>6. \A i \in DOMAIN g : i = Len(g) \/ i \in 1..Len(g) - 1
    BY <1>3
  <1>7. \A i \in DOMAIN history : /\ history[i].ended \in Nat
                                  /\ history[i].countFrom \in Nat
    BY <1>1, BeatsAreNat
  <1>8. FullCourse(g)
    BY <1>3, <1>4, <1>5, <1>6 DEF FullCourse, CourseInv
  <1>9. EndedBefore(g, beat + 1)
    <2> SUFFICES ASSUME NEW i \in DOMAIN g PROVE g[i].ended < beat + 1
      BY DEF EndedBefore
    <2>1. CASE i = Len(g)
      BY <1>1, <1>2, <1>3, <2>1
    <2>2. CASE i \in 1..Len(g) - 1
      BY <1>1, <1>4, <1>7, <2>2 DEF CourseInv, EndedBefore
    <2> QED
      BY <1>6, <2>1, <2>2
  <1>10. InOrder(g)
    <2> SUFFICES ASSUME NEW i \in DOMAIN g, NEW j \in DOMAIN g, i < j
                 PROVE  g[i].ended < g[j].countFrom
      BY DEF InOrder
    <2>1. i \in 1..Len(g) - 1
      BY <1>3
    <2>2. i + k \in DOMAIN history /\ g[i] = history[i + k]
      BY <1>4, <2>1
    <2>3. CASE j = Len(g)
      BY <1>2, <1>3, <2>2, <2>3 DEF CourseInv, EndedBefore
    <2>4. CASE j \in 1..Len(g) - 1
      <3>1. j + k \in DOMAIN history /\ g[j] = history[j + k] /\ i + k < j + k
        BY <1>4, <2>1, <2>4
      <3> QED
        BY <2>2, <3>1 DEF CourseInv, InOrder
    <2> QED
      BY <1>6, <2>3, <2>4
  <1> QED
    BY <1>3, <1>8, <1>9, <1>10

\* CourseInv is inductive.
LEMMA CourseStep ==
    ASSUME TypeInv, CourseInv, [Next]_vars
    PROVE  CourseInv'
  <1>1. /\ history \in Seq(ExitedEvent) /\ beat \in Nat /\ NextTick \in Nat
        /\ active.countFrom \in Nat
    BY RecoveryAssumption DEF TypeInv, TypeOK, NextTick, ActiveEvent
  <1>2. CASE TickStep
    <2>1. NextTick = beat /\ NextTick' = beat + 1 /\ ProtocolTick
      BY <1>2 DEF TickStep
    <2>2. /\ Countdown'
          /\ state' # "baseline" => state # "baseline" /\ active' = active
      BY <1>2, TickCountdown DEF CourseInv
    <2>3. CASE history' = WatchdogPass(history)
      <3>1. SameBeats(history', history)
        BY <1>1, <2>3, WatchdogPassKeeps DEF SameBeats
      <3>2. EndedBefore(history, beat + 1)
        <4>1. \A i \in DOMAIN history : history[i].ended \in Nat
          BY <1>1, BeatsAreNat
        <4> QED
          BY <1>1, <2>1, <4>1 DEF CourseInv, EndedBefore
      <3>3. EndedBefore(history', NextTick')
        BY <2>1, <3>1, <3>2, SameBeatsSameCourse
      <3>4. state' # "baseline" => EndedBefore(history', active'.countFrom)
        BY <2>2, <3>1, SameBeatsSameCourse DEF CourseInv
      <3> QED
        BY <2>2, <3>1, <3>3, <3>4, SameBeatsSameCourse
        DEF CourseInv, SameBeats
    <2>4. CASE /\ history' = WatchdogPass(Remember(history, ExitRecord))
               /\ state = "restoring" /\ state' = "baseline"
               /\ restoreRemaining' = restoreRemaining - 1
               /\ restoreRemaining' <= 0
      <3> DEFINE g == Remember(history, ExitRecord)
      <3>1. /\ Len(g) <= HistoryCap /\ FullCourse(g)
            /\ EndedBefore(g, beat + 1) /\ InOrder(g)
        BY <2>1, <2>4, ExitInOrder
      <3>2. SameBeats(history', g)
        <4>1. g \in Seq(ExitedEvent)
          BY <1>1, ExitRecordType, RememberKeeps
        <4> HIDE DEF g
        <4> QED
          BY <2>4, <4>1, WatchdogPassKeeps DEF SameBeats, g
      <3> HIDE DEF g
      <3> QED
        BY <2>1, <2>2, <2>4, <3>1, <3>2, SameBeatsSameCourse
        DEF CourseInv, SameBeats
    <2> QED
      BY <2>1, <2>3, <2>4, TickKinds
  <1>3. CASE StartStep
    <2>1. NextTick' = NextTick /\ SameBeats(history', history)
      BY <1>3, NoTickSameBeats DEF StartStep, NoTick
    <2>2. /\ state' = "active" /\ active'.countFrom = NextTick
          /\ beatsRemaining' = Duration
      BY <1>3 DEF StartStep, StartRecovery
    <2>3. Countdown'
      BY <1>1, <2>1, <2>2, RecoveryAssumption DEF Countdown
    <2> QED
      BY <2>1, <2>2, <2>3, SameBeatsSameCourse DEF CourseInv, SameBeats
  <1>4. CASE IdleStep
    <2>1. NextTick' = NextTick /\ SameBeats(history', history)
      BY <1>4, NoTickSameBeats DEF IdleStep, NoTick
    <2>2. UNCHANGED <<state, active, beatsRemaining, restoreRemaining>>
      BY <1>4 DEF IdleStep, protocolVars
    <2> QED
      BY <2>1, <2>2, SameBeatsSameCourse DEF CourseInv, Countdown, SameBeats
  <1> QED
    BY <1>2, <1>3, <1>4, StepKinds

\* It holds before the first beat.
LEMMA CourseInit == Init => CourseInv
  BY RecoveryAssumption
  DEF Init, CourseInv, Countdown, FullCourse, EndedBefore, InOrder

\* A recovery is over exactly Duration + RestoreBeats beats after it starts to
\* count, whatever is requested, forced or paused meanwhile.
THEOREM CourseCorrect == Spec => []RunsFullCourse
  <1>1. TypeInv /\ CourseInv => RunsFullCourse
    <2> SUFFICES ASSUME TypeInv, CourseInv PROVE RunsFullCourse
      OBVIOUS
    <2>1. /\ beatsRemaining \in Nat /\ restoreRemaining \in Nat
          /\ active.countFrom \in Nat /\ NextTick \in Nat
          /\ state \in RecoveryState
      BY RecoveryAssumption DEF TypeInv, TypeOK, ActiveEvent, NextTick
    <2>2. state # "baseline" =>
            NextTick - active.countFrom < Duration + RestoreBeats
      BY <2>1, RecoveryAssumption
      DEF CourseInv, Countdown, TypeInv, Running, RecoveryState
    <2> QED
      BY <2>2 DEF RunsFullCourse, CourseInv, FullCourse
  <1> QED
    BY TypeInvInit, TypeInvStep, CourseInit, CourseStep, <1>1, PTL DEF Spec

\* The history is bounded and in order, and its recoveries never overlapped.
THEOREM HistoryOrdered == Spec => []HistoryInOrder
  <1>1. CourseInv => HistoryInOrder
    BY DEF CourseInv, HistoryInOrder, InOrder, EndedBefore
  <1> QED
    BY TypeInvInit, TypeInvStep, CourseInit, CourseStep, <1>1, PTL DEF Spec

-----------------------------------------------------------------------------
(***************************************************************************)
(* Durability                                                              *)
(***************************************************************************)

DurabilityInv ==
    /\ NoStaleDurability
    /\ PendingOnlyInEpisode
    /\ episodeActive => episodeFirst < NextTick

\* An event that is pending after the watchdog pass was pending before it, and
\* is younger than the watchdog.
LEMMA WatchdogPassPending ==
    ASSUME NEW h \in Seq(ExitedEvent), beat \in Nat, NEW i \in DOMAIN h,
           Pending(WatchdogPass(h)[i])
    PROVE  /\ Pending(h[i])
           /\ h[i].ended > 0 => beat - h[i].ended < Watchdog
  <1>1. h[i] \in ExitedEvent /\ h[i].ended \in Nat /\ Watchdog \in Nat
    BY BeatsAreNat, RecoveryAssumption
  <1>2. CASE Pending(h[i]) /\ h[i].ended > 0 /\ beat - h[i].ended >= Watchdog
    <2>1. WatchdogPass(h)[i] = Finalize(h[i], Watchdog, NoBeat)
      BY <1>2 DEF WatchdogPass
    <2>2. Finalize(h[i], Watchdog, NoBeat).durability = Watchdog
      BY <1>1, FinalizeType DEF NoBeat
    <2> QED
      BY <1>1, <2>1, <2>2 DEF Pending, NoBeat
  <1>3. CASE ~(Pending(h[i]) /\ h[i].ended > 0 /\ beat - h[i].ended >= Watchdog)
    <2>1. WatchdogPass(h)[i] = h[i]
      BY <1>3 DEF WatchdogPass
    <2> QED
      BY <1>1, <1>3, <2>1
  <1> QED
    BY <1>2, <1>3

\* After a tick every pending event ended on this beat or was pending before.
LEMMA TickPending ==
    ASSUME TypeInv, CourseInv, TickStep, NEW i \in DOMAIN history',
           Pending(history'[i])
    PROVE  /\ beat - history'[i].ended < Watchdog
           /\ \/ history'[i].ended = beat
              \/ \E j \in DOMAIN history :
                    Pending(history[j]) /\ history'[i].ended = history[j].ended
  <1>1. /\ history \in Seq(ExitedEvent) /\ beat \in Nat /\ Watchdog \in Nat \ {0}
        /\ ExitRecord \in ExitedEvent /\ ExitRecord.ended = beat
        /\ Duration + RestoreBeats - 1 \in Nat \ {0}
    BY ExitRecordType, RecoveryAssumption DEF TypeInv, TypeOK
  <1>2. ASSUME NEW h \in Seq(ExitedEvent), FullCourse(h),
               history' = WatchdogPass(h)
        PROVE  /\ i \in DOMAIN h /\ Pending(h[i])
               /\ history'[i].ended = h[i].ended
               /\ beat - h[i].ended < Watchdog
    <2>1. i \in DOMAIN h /\ history'[i].ended = h[i].ended
      BY <1>2, WatchdogPassKeeps
    <2>2. h[i].ended \in Nat /\ h[i].countFrom \in Nat
      BY <2>1, BeatsAreNat
    <2>3. h[i].ended > 0
      BY <1>1, <1>2, <2>1, <2>2 DEF FullCourse
    <2> QED
      BY <1>1, <1>2, <2>1, <2>3, WatchdogPassPending
  <1>3. CASE history' = WatchdogPass(history)
    BY <1>1, <1>2, <1>3 DEF CourseInv
  <1>4. CASE /\ history' = WatchdogPass(Remember(history, ExitRecord))
             /\ state = "restoring" /\ state' = "baseline"
             /\ restoreRemaining' = restoreRemaining - 1
             /\ restoreRemaining' <= 0
    <2>1. PICK g : g = Remember(history, ExitRecord)
      OBVIOUS
    <2>2. g \in Seq(ExitedEvent) /\ g[Len(g)] = ExitRecord
      BY <1>1, <2>1, RememberKeeps
    <2>3. \E k \in {0, 1} :
             \A j \in 1..Len(g) - 1 :
                j + k \in DOMAIN history /\ g[j] = history[j + k]
      <3>1. \E k \in {0, 1} :
               \A j \in 1..Len(Remember(history, ExitRecord)) - 1 :
                  /\ j + k \in DOMAIN history
                  /\ Remember(history, ExitRecord)[j] = history[j + k]
        BY <1>1, RememberKeeps
      <3> QED
        BY <2>1, <3>1, Zenon
    <2>4. FullCourse(g)
      BY <1>4, <2>1, ExitInOrder DEF TickStep
    <2>5. /\ i \in DOMAIN g /\ Pending(g[i]) /\ history'[i].ended = g[i].ended
          /\ beat - g[i].ended < Watchdog
      BY <1>2, <1>4, <2>1, <2>2, <2>4
    <2>6. i = Len(g) \/ i \in 1..Len(g) - 1
      BY <2>2, <2>5
    <2> QED
      BY <1>1, <2>2, <2>3, <2>5, <2>6
  <1> QED
    BY <1>3, <1>4, TickKinds DEF TickStep

\* DurabilityInv is inductive, given the course of the recoveries.
LEMMA DurabilityStep ==
    ASSUME TypeInv, CourseInv, DurabilityInv, [Next]_vars
    PROVE  DurabilityInv'
  <1>1. /\ history \in Seq(ExitedEvent) /\ beat \in Nat /\ NextTick \in Nat
        /\ episodeFirst \in Int /\ Watchdog \in Nat \ {0}
    BY RecoveryAssumption DEF TypeInv, TypeOK, NextTick
  <1>2. \A j \in DOMAIN history : history[j].ended \in Nat
    BY <1>1, BeatsAreNat
  <1>3. CASE TickStep
    <2>1. NextTick = beat /\ NextTick' = beat + 1
          /\ UNCHANGED <<episodeActive, episodeFirst>>
      BY <1>3 DEF TickStep
    <2>2. ASSUME NEW i \in DOMAIN history', Pending(history'[i])
          PROVE  /\ history'[i].ended \in Nat
                 /\ beat - history'[i].ended < Watchdog
                 /\ episodeActive => history'[i].ended > episodeFirst
      <3>1. /\ beat - history'[i].ended < Watchdog
            /\ \/ history'[i].ended = beat
               \/ \E j \in DOMAIN history :
                    Pending(history[j]) /\ history'[i].ended = history[j].ended
        BY <1>3, <2>2, TickPending
      <3>2. CASE history'[i].ended = beat
        BY <1>1, <2>1, <3>1, <3>2 DEF DurabilityInv
      <3>3. CASE \E j \in DOMAIN history :
                    Pending(history[j]) /\ history'[i].ended = history[j].ended
        BY <1>2, <3>1, <3>3 DEF DurabilityInv, PendingOnlyInEpisode
      <3> QED
        BY <3>1, <3>2, <3>3
    <2>3. NoStaleDurability'
      BY <1>1, <2>1, <2>2 DEF NoStaleDurability, Pending
    <2>4. PendingOnlyInEpisode'
      BY <2>1, <2>2 DEF PendingOnlyInEpisode, Pending
    <2> QED
      BY <1>1, <2>1, <2>3, <2>4 DEF DurabilityInv
  <1>4. ASSUME NoTick
        PROVE  DurabilityInv'
    <2>1. NextTick' = NextTick
      BY <1>4 DEF NoTick
    <2>2. CASE EpisodeKept
      BY <2>1, <2>2
      DEF EpisodeKept, DurabilityInv, NoStaleDurability, PendingOnlyInEpisode,
          Pending
    <2>3. CASE EpisodeOpens
      <3>1. \A i \in DOMAIN history' : ~Pending(history'[i])
        BY <1>1, <2>3, FragmentationPassKeeps DEF EpisodeOpens
      <3>2. NoStaleDurability' /\ PendingOnlyInEpisode'
        BY <3>1 DEF NoStaleDurability, PendingOnlyInEpisode, Pending
      <3>3. episodeFirst' < NextTick'
        BY <1>1, <2>1, <2>3 DEF EpisodeOpens, NextTick
      <3> QED
        BY <3>2, <3>3 DEF DurabilityInv
    <2> QED
      BY <1>4, <2>2, <2>3 DEF NoTick
  <1> QED
    BY <1>3, <1>4, StepKinds DEF StartStep, IdleStep

\* It holds of the empty history.
LEMMA DurabilityInit == Init => DurabilityInv
  BY DEF Init, DurabilityInv, NoStaleDurability, PendingOnlyInEpisode

\* No exited recovery waits for its durability longer than the watchdog.
THEOREM DurabilityIsTimely == Spec => []NoStaleDurability
  <1>1. DurabilityInv => NoStaleDurability
    BY DEF DurabilityInv
  <1> QED
    BY TypeInvInit, TypeInvStep, CourseInit, CourseStep, DurabilityInit,
       DurabilityStep, <1>1, PTL DEF Spec

\* While a fragmentation episode lasts, only recoveries that exited in it wait
\* for their durability.
THEOREM PendingIsOfEpisode == Spec => []PendingOnlyInEpisode
  <1>1. DurabilityInv => PendingOnlyInEpisode
    BY DEF DurabilityInv
  <1> QED
    BY TypeInvInit, TypeInvStep, CourseInit, CourseStep, DurabilityInit,
       DurabilityStep, <1>1, PTL DEF Spec

\* The history is bounded, in order and settled: by the first request of the next
\* episode, or by the watchdog.
THEOREM HistorySettledCorrect == Spec => []HistorySettled
  <1>1. HistoryInOrder /\ NoStaleDurability /\ PendingOnlyInEpisode => HistorySettled
    BY DEF HistorySettled
  <1> QED
    BY HistoryOrdered, DurabilityIsTimely, PendingIsOfEpisode, <1>1, PTL

-----------------------------------------------------------------------------
(***************************************************************************)
(* What starts a recovery over                                             *)
(***************************************************************************)

\* A recovery that is running is started over by each force of an operator and
\* by nothing else; any other request, the monitor's or the operator's own, leaves
\* its event and the values it is to restore as they are.
THEOREM ForceOnly == Spec => OnlyForceInterrupts
  <1> DEFINE Kept == active' \in {active, NoEvent}
                     /\ restoreState' \in {restoreState, NoRestore}
             Wanted == /\ starts' # starts <=> forces' # forces
                       /\ forces' = forces => Kept
  <1>1. ASSUME TypeInv, [Next]_vars, state # "baseline"
        PROVE  Wanted
    <2>1. starts \in Nat /\ forces \in Nat
      BY <1>1, RecoveryAssumption DEF TypeInv, TypeOK
    <2>2. ASSUME UNCHANGED <<starts, forces>>, Kept
          PROVE  Wanted
      BY <2>2
    <2>3. ASSUME ProtocolTick
          PROVE  Kept
      BY <2>3 DEF ProtocolTick, TickBaseline, TickActive, TickRestoring,
                  FinishRestore, protocolVars
    <2>4. CASE Beat \/ PausedBeat
      BY <2>2, <2>3, <2>4 DEF Beat, PausedBeat, observerVars
    <2>5. CASE MonitorSkips \/ MonitorReadsCalm
      BY <2>2, <2>5 DEF MonitorSkips, MonitorReadsCalm, observerVars, protocolVars
    <2>6. CASE AdminHeartbeatPause \/ UNCHANGED vars
      BY <2>2, <2>6 DEF AdminHeartbeatPause, vars, observerVars, protocolVars
    <2>7. ASSUME NEW b, NEW s, NEW budget, NEW cur,
                 OnRecoveryRequest(b, FALSE, s, budget, cur)
          PROVE  starts' = starts /\ Kept
      <3>1. ~Accepts(HandleRecoveryRequest(FALSE, s, budget))
        BY <1>1 DEF HandleRecoveryRequest, Accepts
      <3> QED
        BY <2>7, <3>1 DEF OnRecoveryRequest, protocolVars
    <2>8. CASE MonitorReadsFragmented
      <3>1. PICK s \in MinStage..4, budget \in Budget :
               OnRecoveryRequest(beat, FALSE, s, budget, s)
        BY <2>8 DEF MonitorReadsFragmented
      <3>2. forces' = forces
        BY <2>8 DEF MonitorReadsFragmented
      <3> QED
        BY <2>2, <2>7, <3>1, <3>2
    <2>9. CASE AdminRecoveryForce
      <3>1. PICK force \in BOOLEAN, s \in 0..4, budget \in Budget :
               /\ OnRecoveryRequest(substrateBeat, force, s, budget, stage)
               /\ forces' = IF force THEN forces + 1 ELSE forces
        BY <2>9 DEF AdminRecoveryForce
      <3>2. CASE force
        <4>1. Accepts(HandleRecoveryRequest(force, s, budget))
          BY <3>2 DEF HandleRecoveryRequest, Accepts
        <4>2. StartRecovery(substrateBeat, s)
          BY <3>1, <4>1 DEF OnRecoveryRequest
        <4>3. starts' = starts + 1 /\ forces' = forces + 1
          BY <3>1, <3>2, <4>2 DEF StartRecovery
        <4> QED
          BY <2>1, <4>3
      <3>3. CASE ~force
        <4>1. force = FALSE
          BY <3>3, Zenon
        <4> QED
          BY <2>2, <2>7, <3>1, <4>1
      <3> QED
        BY <3>2, <3>3
    <2> QED
      BY <1>1, <2>4, <2>5, <2>6, <2>8, <2>9 DEF Next
  <1>2. TypeInv /\ [Next]_vars =>
          [state # "baseline" =>
             /\ starts' # starts <=> forces' # forces
             /\ forces' = forces =>
                  /\ active' \in {active, NoEvent}
                  /\ restoreState' \in {restoreState, NoRestore}]_vars
    BY <1>1
  <1> QED
    BY TypeInvInit, TypeInvStep, <1>2, PTL DEF Spec, OnlyForceInterrupts
=============================================================================
