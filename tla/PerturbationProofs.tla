------------------------- MODULE PerturbationProofs -------------------------
(***************************************************************************)
(* TLAPS proofs about Perturbation, for every value of its constants: any   *)
(* kinds and durations, any periods and windows, any number of injections.  *)
(***************************************************************************)
EXTENDS Perturbation, SequenceTheorems, FiniteSetTheorems, TLAPS

\* What TypeOK needs to be inductive: a beat that is not the last is under way,
\* and no more beats are paused than were asked for.
Counted ==
    /\ step # "idle" => beat < MaxBeat
    /\ paused <= pauses

TypeInv == TypeOK /\ Counted

\* TypeInv in two halves: what is counted in beats, and what is kept of events.
BeatTypes ==
    /\ beat \in 0..MaxBeat /\ paused \in 0..MaxPause /\ stamp \in 0..MaxBeat
    /\ step \in {"idle", "compose", "theta", "perturb", "delta"}
    /\ buffered \in 0..Warm
    /\ theta \in {NoBeat} \cup 0..MaxBeat
    /\ budget \in {"calm", "low", "severe"}
    /\ battery \in Nat
    /\ until \in {NoBeat} \cup Nat
    /\ recovering \in BOOLEAN
    /\ lastCompose \in {NoBeat} \cup 1..MaxBeat
    /\ quietSince \in 0..MaxBeat
    /\ skipped \in Nat
    /\ failed \subseteq 0..MaxBeat
    /\ pauses \in 0..MaxPause /\ admins \in 0..MaxAdmin
    /\ stresses \in 0..MaxStress /\ recoveries \in 0..MaxRecovery
    /\ Counted

EventTypes ==
    /\ events \in Seq(Event)
    /\ active \in Events \cup {NoEvent}
    /\ remaining \in Nat /\ (remaining > 0 <=> active # NoEvent)
    /\ open \subseteq Events
    /\ trace \in Seq(Seq((0..MaxBeat) \X (0..MaxBeat))) /\ DOMAIN trace = Events
    /\ readings \in Seq(Events)
    /\ applied \in Seq(Nat) /\ DOMAIN applied = Events
    /\ cutShort \subseteq Events

eventVars == <<active, remaining, events, open, trace, readings, applied, cutShort>>

-----------------------------------------------------------------------------
(***************************************************************************)
(* Sequences                                                               *)
(***************************************************************************)

\* Appending adds the next index and changes no earlier element.
LEMMA AppendFacts ==
    ASSUME NEW S, NEW s \in Seq(S), NEW x \in S
    PROVE  /\ Append(s, x) \in Seq(S)
           /\ Len(s) \in Nat /\ DOMAIN s = 1..Len(s)
           /\ DOMAIN Append(s, x) = DOMAIN s \cup {Len(s) + 1}
           /\ Len(s) + 1 \notin DOMAIN s
           /\ \A i \in DOMAIN s : Append(s, x)[i] = s[i]
           /\ Append(s, x)[Len(s) + 1] = x
  <1>1. /\ Append(s, x) \in Seq(S) /\ Len(Append(s, x)) = Len(s) + 1
        /\ \A i \in 1..Len(s) : Append(s, x)[i] = s[i]
        /\ Append(s, x)[Len(s) + 1] = x
        /\ Len(s) \in Nat /\ DOMAIN s = 1..Len(s)
    OBVIOUS
  <1>2. DOMAIN Append(s, x) = 1..(Len(s) + 1)
    BY <1>1, LenProperties
  <1> QED
    BY <1>1, <1>2

\* A function over the indices of a sequence is a sequence as long.
LEMMA MapIsSeq ==
    ASSUME NEW S, NEW T, NEW s \in Seq(S), NEW f \in [DOMAIN s -> T]
    PROVE  f \in Seq(T) /\ DOMAIN f = DOMAIN s
  <1>1. Len(s) \in Nat /\ DOMAIN s = 1..Len(s)
    OBVIOUS
  <1> QED
    BY <1>1, SeqDef

-----------------------------------------------------------------------------
(***************************************************************************)
(* The constants and the types, one by one                                 *)
(***************************************************************************)

LEMMA ConstantFacts ==
    /\ Duration \in [Kind -> Nat \ {0}]
    /\ Battery \in Seq(Kind) /\ Battery # <<>>
    /\ Period \in Nat \ {0} /\ Window \in Nat \ {0} /\ DeltaPeriod \in Nat \ {0}
    /\ Warm \in Nat \ {0} /\ CadenceWindow \in Nat \ {0}
    /\ MaxBeat \in Nat /\ MaxAdmin \in Nat /\ MaxPause \in Nat
    /\ MaxStress \in Nat /\ MaxRecovery \in Nat
  BY PerturbationAssumption DEF PerturbationAssumption

Sample == (0..MaxBeat) \X (0..MaxBeat)

\* What TypeInv says of the variables an injection or a sample reads.
LEMMA TypeFacts ==
    ASSUME TypeInv
    PROVE  /\ stamp \in Nat /\ beat \in Nat
           /\ events \in Seq(Event)
           /\ Len(events) \in Nat /\ Events = 1..Len(events)
           /\ active \in Events \cup {NoEvent}
           /\ remaining \in Nat /\ (remaining > 0 <=> active # NoEvent)
           /\ open \subseteq Events
           /\ trace \in Seq(Seq(Sample)) /\ DOMAIN trace = Events
           /\ readings \in Seq(Events)
           /\ applied \in Seq(Nat) /\ DOMAIN applied = Events
           /\ cutShort \subseteq Events
  <1>1. /\ stamp \in 0..MaxBeat /\ beat \in 0..MaxBeat
        /\ events \in Seq(Event)
        /\ active \in Events \cup {NoEvent}
        /\ remaining \in Nat /\ (remaining > 0 <=> active # NoEvent)
        /\ open \subseteq Events
        /\ trace \in Seq(Seq(Sample)) /\ DOMAIN trace = Events
        /\ readings \in Seq(Events)
        /\ applied \in Seq(Nat) /\ DOMAIN applied = Events
        /\ cutShort \subseteq Events
    BY Zenon DEF TypeInv, TypeOK, Sample
  <1>2. stamp \in Nat /\ beat \in Nat
    BY <1>1, ConstantFacts
  <1>3. Len(events) \in Nat /\ Events = 1..Len(events)
    BY <1>1, LenProperties DEF Events
  <1> QED
    BY <1>1, <1>2, <1>3

\* What of it is about the numbers of events only.
LEMMA NumberFacts ==
    ASSUME TypeInv
    PROVE  /\ Len(events) \in Nat /\ Events = 1..Len(events) /\ Events \subseteq Nat
           /\ active \in Events \cup {NoEvent}
           /\ remaining \in Nat /\ (remaining > 0 <=> active # NoEvent)
           /\ open \subseteq Events /\ cutShort \subseteq Events
           /\ DOMAIN trace = Events /\ DOMAIN applied = Events
  <1>1. Len(events) \in Nat /\ Events = 1..Len(events)
    BY TypeFacts
  <1>2. 1..Len(events) \subseteq Nat
    BY <1>1
  <1> QED
    BY <1>1, <1>2, TypeFacts, Zenon

-----------------------------------------------------------------------------
(***************************************************************************)
(* Types                                                                   *)
(***************************************************************************)

\* An injection keeps the types of all it changes.
LEMMA InjectTypes ==
    ASSUME TypeInv, NEW kind \in Kind, NEW source \in Source, Inject(kind, source)
    PROVE  /\ events' \in Seq(Event) /\ Events' = Events \cup {Len(events) + 1}
           /\ Len(events) \in Nat /\ Len(events) + 1 \notin Events
           /\ active' \in Events' \cup {NoEvent}
           /\ remaining' \in Nat /\ (remaining' > 0 <=> active' # NoEvent)
           /\ open' \subseteq Events'
           /\ trace' \in Seq(Seq(Sample)) /\ DOMAIN trace' = Events'
           /\ readings' \in Seq(Events')
           /\ until' \in Nat
           /\ applied' \in Seq(Nat) /\ DOMAIN applied' = Events'
           /\ cutShort' \subseteq Events'
  <1> DEFINE new == [kind |-> kind, start |-> stamp, source |-> source]
  <1>1. new \in Event /\ events' = Append(events, new)
    BY TypeFacts DEF Inject, Event
  <1>2. /\ events' \in Seq(Event) /\ Events' = Events \cup {Len(events) + 1}
        /\ Len(events) \in Nat /\ Len(events) + 1 \notin Events
    BY <1>1, TypeFacts, AppendFacts DEF Events
  <1>3. /\ active' \in Events' \cup {NoEvent} /\ cutShort' \subseteq Events'
        /\ remaining' \in Nat /\ (remaining' > 0 <=> active' # NoEvent)
    <2>1. Duration[kind] \in Nat \ {0}
      BY ConstantFacts
    <2>2. Start(kind)
      BY DEF Inject
    <2>3. CASE Duration[kind] > 1
      <3>1. /\ remaining' = Duration[kind] - 1 /\ active' = Len(events) + 1
            /\ cutShort' = cutShort \cup ({active} \ {NoEvent})
        BY <2>2, <2>3 DEF Start
      <3>2. remaining' \in Nat /\ remaining' > 0 /\ active' # NoEvent
        BY <1>2, <2>1, <2>3, <3>1 DEF NoEvent
      <3> QED
        BY <1>2, <3>1, <3>2, NumberFacts, Zenon
    <2>4. CASE ~(Duration[kind] > 1)
      <3>1. UNCHANGED <<active, remaining, cutShort>>
        BY <2>2, <2>4 DEF Start
      <3> QED
        BY <1>2, <3>1, NumberFacts, Zenon
    <2> QED
      BY <2>3, <2>4
  <1>4. open' \subseteq Events'
    <2>1. open' = open \cup {Len(events) + 1}
      BY DEF Inject, OpenDeltaWindow
    <2> QED
      BY <1>2, <2>1, NumberFacts, Zenon
  <1>5. trace' \in Seq(Seq(Sample)) /\ DOMAIN trace' = Events'
    <2>1. <<>> \in Seq(Sample) /\ trace' = Append(trace, <<>>)
      BY DEF Inject, OpenDeltaWindow
    <2>2. /\ trace' \in Seq(Seq(Sample)) /\ DOMAIN trace' = DOMAIN trace \cup {Len(trace) + 1}
          /\ DOMAIN trace = 1..Len(trace) /\ Len(trace) \in Nat
      <3>1. trace \in Seq(Seq(Sample)) /\ <<>> \in Seq(Sample)
        BY <2>1, TypeFacts, Zenon
      <3> QED
        BY <2>1, <3>1, AppendFacts
    <2>3. Len(trace) = Len(events)
      <3>1. 1..Len(trace) = 1..Len(events)
        BY <2>2, NumberFacts, Zenon
      <3> QED
        BY <1>2, <2>2, <3>1
    <2> QED
      BY <1>2, <2>2, <2>3, NumberFacts, Zenon
  <1>6. readings' \in Seq(Events')
    <2>1. readings' = readings
      BY DEF Inject, OpenDeltaWindow
    <2>2. readings \in Seq(Events) /\ Events \subseteq Events'
      BY <1>2, TypeFacts, Zenon
    <2>3. readings \in Seq(Events')
      BY <2>2, SeqMonotonic, Zenon
    <2> QED
      BY <2>1, <2>3, Zenon
  <1>7. until' \in Nat
    BY ConstantFacts, TypeFacts DEF Inject, OpenCadenceWindow
  <1>8. applied' \in Seq(Nat) /\ DOMAIN applied' = Events'
    <2>1. applied' = Append(applied, 1)
      BY DEF Inject
    <2>2. /\ applied' \in Seq(Nat) /\ DOMAIN applied' = DOMAIN applied \cup {Len(applied) + 1}
          /\ DOMAIN applied = 1..Len(applied) /\ Len(applied) \in Nat
      <3>1. applied \in Seq(Nat) /\ 1 \in Nat
        BY TypeFacts, Zenon
      <3> QED
        BY <2>1, <3>1, AppendFacts
    <2>3. Len(applied) = Len(events)
      <3>1. 1..Len(applied) = 1..Len(events)
        BY <2>2, NumberFacts, Zenon
      <3> QED
        BY <1>2, <2>2, <3>1
    <2> QED
      BY <1>2, <2>2, <2>3, NumberFacts, Zenon
  <1> QED
    BY <1>2, <1>3, <1>4, <1>5, <1>6, <1>7, <1>8

\* The windows that are old enough are read in one go, each once.
LEMMA SamplesRead ==
    ASSUME TypeInv, Samples
    PROVE  \E old \in SUBSET open, order \in Seq(open) :
             /\ open' = open \ old
             /\ readings' = readings \o order
             /\ \A e : e \in old <=> \E i \in DOMAIN order : order[i] = e
             /\ \A i, j \in DOMAIN order : order[i] = order[j] => i = j
  <1> DEFINE old == {e \in open : theta - events[e].start >= Window}
             n == Cardinality(old)
  <1>1. PICK order \in [1..n -> old] :
          /\ \A i, j \in 1..n : i < j => order[i] < order[j]
          /\ readings' = readings \o order
    BY DEF Samples
  <1>2. Len(events) \in Nat /\ Events = 1..Len(events)
    BY TypeFacts
  <1>3. IsFiniteSet(old) /\ n \in Nat
    <2>1. IsFiniteSet(1..Len(events))
      BY <1>2, FS_Interval
    <2>2. old \in SUBSET (1..Len(events))
      BY <1>2, TypeFacts
    <2>3. IsFiniteSet(old)
      BY <2>1, <2>2, FS_Subset
    <2> QED
      BY <2>3, FS_CardinalityType
  <1>4. order \in Seq(open) /\ DOMAIN order = 1..n
    <2>1. order \in [1..n -> open]
      BY <1>1
    <2> QED
      BY <1>3, <2>1, SeqDef
  <1>5. \A i, j \in 1..n : order[i] = order[j] => i = j
    <2>1. \A i \in 1..n : order[i] \in Nat
      <3>1. old \subseteq Nat
        BY NumberFacts, Zenon
      <3>2. \A i \in 1..n : order[i] \in old
        BY <1>1
      <3> HIDE DEF old, n
      <3> QED
        BY <3>1, <3>2, Zenon
    <2>2. SUFFICES ASSUME NEW i \in 1..n, NEW j \in 1..n, order[i] = order[j]
                   PROVE  i = j
      OBVIOUS
    <2> HIDE DEF old, n
    <2>3. order[i] \in Nat /\ order[j] \in Nat /\ i \in Nat /\ j \in Nat
      BY <1>3, <2>1
    <2>4. i < j => order[i] < order[j]
      BY <1>1, <2>2
    <2>5. j < i => order[j] < order[i]
      BY <1>1, <2>2
    <2> QED
      BY <2>2, <2>3, <2>4, <2>5
  <1>6. order \in Surjection(1..n, old)
    <2>1. order \in Injection(1..n, old)
      BY <1>1, <1>5 DEF Injection, IsInjective
    <2>2. Cardinality(1..n) = n
      BY <1>3, FS_Interval
    <2> QED
      BY <1>3, <2>1, <2>2, FS_Injection
  <1>7. \A e : e \in old <=> \E i \in 1..n : order[i] = e
    BY <1>1, <1>6 DEF Surjection
  <1>8. old \in SUBSET open /\ open' = open \ old
    BY DEF Samples
  <1> HIDE DEF old, n
  <1> USE <1>4, <1>8
  <1> WITNESS old \in SUBSET open, order \in Seq(open)
  <1> QED
    BY <1>1, <1>4, <1>5, <1>7, <1>8

\* A step that leaves the events alone keeps their types.
LEMMA EventsKept ==
    ASSUME TypeInv, UNCHANGED eventVars
    PROVE  EventTypes'
  <1>1. EventTypes
    BY Zenon DEF TypeInv, TypeOK, EventTypes
  <1> QED
    BY <1>1 DEF EventTypes, eventVars, Events

\* An injection keeps the types of events.
LEMMA InjectKeeps ==
    ASSUME TypeInv, NEW kind \in Kind, NEW source \in Source, Inject(kind, source)
    PROVE  EventTypes'
  BY InjectTypes DEF EventTypes, Sample

\* The kind whose turn it is is a kind.
LEMMA TurnIsKind ==
    ASSUME TypeInv
    PROVE  Battery[(battery % Len(Battery)) + 1] \in Kind
  <1>1. battery \in Nat
    BY Zenon DEF TypeInv, TypeOK
  <1>2. Battery \in Seq(Kind) /\ Len(Battery) \in Nat \ {0}
    BY ConstantFacts, EmptySeq
  <1>3. battery % Len(Battery) \in 0..(Len(Battery) - 1)
    BY <1>1, <1>2
  <1>4. (battery % Len(Battery)) + 1 \in 1..Len(Battery)
    BY <1>2, <1>3
  <1> QED
    BY <1>2, <1>4, ElementOfSeq

\* A sample keeps the types of events.
LEMMA SamplesKeep ==
    ASSUME TypeInv, theta # NoBeat, Samples,
           UNCHANGED <<active, remaining, events, applied, cutShort>>
    PROVE  EventTypes'
  <1>1. theta \in 0..MaxBeat /\ beat \in 0..MaxBeat
    BY DEF TypeInv, TypeOK
  <1>2. Events' = Events
    BY DEF Events
  <1>3. PICK old \in SUBSET open, order \in Seq(open) :
          open' = open \ old /\ readings' = readings \o order
    BY SamplesRead
  <1>4. open' \subseteq Events /\ readings' \in Seq(Events)
    <2>1. order \in Seq(Events)
      BY TypeFacts, SeqMonotonic
    <2> QED
      BY <1>3, <2>1, TypeFacts, ConcatProperties
  <1>5. trace' \in Seq(Seq(Sample)) /\ DOMAIN trace' = Events
    <2>1. \A e \in Events : trace[e] \in Seq(Sample)
      BY TypeFacts
    <2>2. <<theta, beat>> \in Sample
      BY <1>1 DEF Sample
    <2>3. trace' = [e \in Events |-> IF e \in open THEN Append(trace[e], <<theta, beat>>)
                                    ELSE trace[e]]
      BY DEF Samples
    <2>4. trace' \in [Events -> Seq(Sample)]
      BY <2>1, <2>2, <2>3
    <2>5. trace \in Seq(Seq(Sample)) /\ DOMAIN trace = Events
      BY TypeFacts
    <2> QED
      BY <2>4, <2>5, MapIsSeq
  <1> QED
    BY <1>2, <1>4, <1>5, TypeFacts DEF EventTypes, Sample

LEMMA TypeInit == Init => TypeInv
  <1> SUFFICES ASSUME Init
               PROVE  TypeInv
    OBVIOUS
  <1>1. BeatTypes
    <2>1. /\ beat = 0 /\ paused = 0 /\ stamp = 0 /\ buffered = 0 /\ battery = 0
          /\ quietSince = 0 /\ skipped = 0
          /\ pauses = 0 /\ admins = 0 /\ stresses = 0 /\ recoveries = 0
          /\ step = "idle" /\ budget = "calm"
          /\ theta = NoBeat /\ until = NoBeat /\ lastCompose = NoBeat /\ failed = {}
      BY DEF Init
    <2>2. recovering \in BOOLEAN
      BY DEF Init
    <2> QED
      BY <2>1, <2>2, ConstantFacts DEF BeatTypes, Counted
  <1>2. EventTypes
    BY DEF Init, EventTypes, Events, NoEvent
  <1> QED
    BY <1>1, <1>2, Zenon DEF TypeInv, TypeOK, BeatTypes, EventTypes

LEMMA TypeStep == TypeInv /\ [Next]_vars => TypeInv'
  <1> SUFFICES ASSUME TypeInv, [Next]_vars
               PROVE  TypeInv'
    OBVIOUS
  <1>1. BeatTypes /\ EventTypes
    BY Zenon DEF TypeInv, TypeOK, BeatTypes, EventTypes
  <1>2. BeatTypes' /\ EventTypes' => TypeInv'
    BY Zenon DEF TypeInv, TypeOK, BeatTypes, EventTypes
  <1>3. CASE AdminPerturb
    <2>1. PICK kind \in Kind : Inject(kind, "external_admin")
      BY <1>3 DEF AdminPerturb
    <2>2. EventTypes' /\ until' \in Nat
      BY <2>1, InjectKeeps, InjectTypes DEF Source
    <2>3. BeatTypes'
      BY <1>1, <1>3, <2>2, ConstantFacts
      DEF AdminPerturb, BeatTypes, Counted, beatVars, thetaVars
    <2> QED
      BY <1>2, <2>2, <2>3
  <1>4. CASE AdminPause
    <2>1. BeatTypes'
      BY <1>1, <1>4, ConstantFacts
      DEF AdminPause, BeatTypes, Counted, thetaVars, schedulerVars, cadenceVars, observerVars
    <2>2. UNCHANGED eventVars
      BY <1>4 DEF AdminPause, eventVars, schedulerVars, deltaVars, observerVars
    <2> QED
      BY <1>2, <2>1, <2>2, EventsKept
  <1>5. CASE RecoveryStateChange
    <2>1. BeatTypes'
      BY <1>1, <1>5, ConstantFacts
      DEF RecoveryStateChange, BeatTypes, Counted, beatVars, thetaVars, schedulerVars
    <2>2. UNCHANGED eventVars
      BY <1>5 DEF RecoveryStateChange, eventVars, schedulerVars, deltaVars
    <2> QED
      BY <1>2, <2>1, <2>2, EventsKept
  <1>6. CASE PausedBeat
    <2>1. BeatTypes'
      BY <1>1, <1>6, ConstantFacts
      DEF PausedBeat, BeatTypes, Counted, thetaVars, schedulerVars, cadenceVars, observerVars,
          boundVars
    <2>2. UNCHANGED eventVars
      BY <1>6 DEF PausedBeat, eventVars, schedulerVars, deltaVars, observerVars
    <2> QED
      BY <1>2, <2>1, <2>2, EventsKept
  <1>7. CASE SubstrateTick
    <2>1. BeatTypes'
      BY <1>1, <1>7, ConstantFacts
      DEF SubstrateTick, BeatTypes, Counted, schedulerVars, cadenceVars, observerVars
    <2>2. UNCHANGED eventVars
      BY <1>7 DEF SubstrateTick, eventVars, schedulerVars, deltaVars, observerVars
    <2> QED
      BY <1>2, <2>1, <2>2, EventsKept
  <1>8. CASE MaybeCompose
    <2>1. BeatTypes'
      BY <1>1, <1>8, ConstantFacts
      DEF MaybeCompose, ShouldCompose, BeatTypes, Counted, thetaVars, schedulerVars,
          observerVars, boundVars
    <2>2. UNCHANGED eventVars
      BY <1>8 DEF MaybeCompose, eventVars, schedulerVars, deltaVars, observerVars
    <2> QED
      BY <1>2, <2>1, <2>2, EventsKept
  <1>9. CASE ThetaShort
    <2>a. theta' \in {theta, beat} /\ failed' \in {failed, failed \cup {beat}}
      BY <1>9, Zenon DEF ThetaShort
    <2>1. BeatTypes'
      BY <1>1, <1>9, <2>a, ConstantFacts
      DEF ThetaShort, BeatTypes, Counted, schedulerVars, cadenceVars, observerVars, boundVars
    <2>2. UNCHANGED eventVars
      BY <1>9 DEF ThetaShort, eventVars, schedulerVars, deltaVars, observerVars
    <2> QED
      BY <1>2, <2>1, <2>2, EventsKept
  <1>10. CASE PerturbationSchedulerStep
    <2>1. /\ step' = "delta" /\ step = "perturb"
          /\ UNCHANGED <<beat, paused, stamp, thetaVars, budget, boundVars>>
      BY <1>10 DEF PerturbationSchedulerStep
    <2>2. CASE InFlight /\ Continue
      <3>1. BeatTypes'
        BY <1>1, <2>1, <2>2, ConstantFacts
        DEF Continue, BeatTypes, Counted, thetaVars, cadenceVars, boundVars
      <3>2. active \in Events /\ applied' \in Seq(Nat) /\ DOMAIN applied' = Events
        BY <2>2, TypeFacts, ExceptSeq DEF InFlight, Continue
      <3>3. EventTypes'
        BY <1>1, <2>2, <3>2, TypeFacts
        DEF InFlight, Continue, EventTypes, deltaVars, Events, NoEvent
      <3> QED
        BY <1>2, <3>1, <3>3
    <2>3. CASE Scheduled
      <3>1. /\ Inject(Battery[(battery % Len(Battery)) + 1], "internal_scheduler")
            /\ battery' = battery + 1
            /\ UNCHANGED <<recovering, lastCompose, quietSince, skipped>>
        BY <2>3 DEF Scheduled
      <3>2. EventTypes' /\ until' \in Nat
        BY <3>1, TurnIsKind, InjectKeeps, InjectTypes DEF Source
      <3>3. BeatTypes'
        BY <1>1, <2>1, <3>1, <3>2, ConstantFacts DEF BeatTypes, Counted, thetaVars, boundVars
      <3> QED
        BY <1>2, <3>2, <3>3
    <2>4. CASE UNCHANGED <<schedulerVars, deltaVars, cadenceVars, observerVars>>
      <3>1. BeatTypes'
        BY <1>1, <2>1, <2>4
        DEF BeatTypes, Counted, thetaVars, boundVars, schedulerVars, cadenceVars, observerVars
      <3>2. UNCHANGED eventVars
        BY <2>4 DEF eventVars, schedulerVars, deltaVars, observerVars
      <3> QED
        BY <1>2, <3>1, <3>2, EventsKept
    <2> QED
      BY <1>10, <2>2, <2>3, <2>4 DEF PerturbationSchedulerStep
  <1>11. CASE DeltaPhi
    <2>1. BeatTypes'
      BY <1>1, <1>11, ConstantFacts
      DEF DeltaPhi, BeatTypes, Counted, thetaVars, schedulerVars, cadenceVars, observerVars,
          boundVars
    <2>2. CASE theta # NoBeat /\ Samples
      <3>1. UNCHANGED <<active, remaining, events, applied, cutShort>>
        BY <1>11 DEF DeltaPhi, schedulerVars, observerVars
      <3> QED
        BY <1>2, <2>1, <2>2, <3>1, SamplesKeep
    <2>3. CASE UNCHANGED deltaVars
      <3>1. UNCHANGED eventVars
        BY <1>11, <2>3 DEF DeltaPhi, eventVars, schedulerVars, deltaVars, observerVars
      <3> QED
        BY <1>2, <2>1, <3>1, EventsKept
    <2> QED
      BY <1>11, <2>2, <2>3 DEF DeltaPhi
  <1>12. CASE UNCHANGED vars
    <2>1. BeatTypes'
      BY <1>1, <1>12
      DEF vars, BeatTypes, Counted, beatVars, thetaVars, schedulerVars, cadenceVars,
          observerVars, boundVars
    <2>2. UNCHANGED eventVars
      BY <1>12 DEF vars, eventVars, schedulerVars, deltaVars, observerVars
    <2> QED
      BY <1>2, <2>1, <2>2, EventsKept
  <1> QED
    BY <1>3, <1>4, <1>5, <1>6, <1>7, <1>8, <1>9, <1>10, <1>11, <1>12 DEF Next

\* Every reachable state has its types: an event in flight has applications left,
\* and every window, reading and trace is of an event that was injected.
THEOREM TypeCorrect == Spec => []TypeOK
  <1>1. TypeInv => TypeOK
    BY DEF TypeInv
  <1> QED
    BY <1>1, TypeInit, TypeStep, PTL DEF Spec
-----------------------------------------------------------------------------
(***************************************************************************)
(* Kinds of steps, as the events see them                                  *)
(***************************************************************************)

InjectStep ==
    \E kind \in Kind, source \in Source : Inject(kind, source)

ContinueStep == InFlight /\ Continue

SampleStep ==
    /\ theta # NoBeat /\ Samples
    /\ UNCHANGED <<active, remaining, events, applied, cutShort>>

\* Every step injects, continues, samples or leaves the events alone.
LEMMA StepKinds ==
    ASSUME TypeInv, [Next]_vars
    PROVE  InjectStep \/ ContinueStep \/ SampleStep \/ UNCHANGED eventVars
  <1>1. CASE AdminPerturb
    BY <1>1 DEF AdminPerturb, InjectStep, Source
  <1>2. CASE PerturbationSchedulerStep
    <2>1. CASE Scheduled
      BY <2>1, TurnIsKind DEF Scheduled, InjectStep, Source
    <2>2. CASE UNCHANGED <<schedulerVars, deltaVars, cadenceVars, observerVars>>
      BY <2>2 DEF eventVars, schedulerVars, deltaVars, observerVars
    <2> QED
      BY <1>2, <2>1, <2>2 DEF PerturbationSchedulerStep, ContinueStep
  <1>3. CASE DeltaPhi
    <2>1. UNCHANGED <<active, remaining, events, applied, cutShort>>
      BY <1>3 DEF DeltaPhi, schedulerVars, observerVars
    <2> QED
      BY <1>3, <2>1 DEF DeltaPhi, SampleStep, eventVars, deltaVars
  <1>4. CASE AdminPause \/ PausedBeat \/ SubstrateTick \/ MaybeCompose \/ ThetaShort
    BY <1>4 DEF AdminPause, PausedBeat, SubstrateTick, MaybeCompose, ThetaShort,
                eventVars, schedulerVars, deltaVars, observerVars
  <1>5. CASE RecoveryStateChange
    BY <1>5 DEF RecoveryStateChange, eventVars, schedulerVars, deltaVars
  <1>6. CASE UNCHANGED vars
    BY <1>6 DEF vars, eventVars, schedulerVars, deltaVars, observerVars
  <1> QED
    BY <1>1, <1>2, <1>3, <1>4, <1>5, <1>6 DEF Next

\* What an injection does to the tables of events, index by index.
LEMMA InjectTables ==
    ASSUME TypeInv, NEW kind \in Kind, NEW source \in Source, Inject(kind, source)
    PROVE  /\ \A e \in Events : events'[e] = events[e] /\ applied'[e] = applied[e]
                               /\ trace'[e] = trace[e]
           /\ events'[Len(events) + 1].kind = kind
           /\ events'[Len(events) + 1].start = stamp
           /\ events'[Len(events) + 1].source = source
           /\ applied'[Len(events) + 1] = 1
           /\ trace'[Len(events) + 1] = <<>>
  <1> DEFINE new == [kind |-> kind, start |-> stamp, source |-> source]
  <1>1. /\ new \in Event /\ events' = Append(events, new)
        /\ new.kind = kind /\ new.start = stamp /\ new.source = source
    BY TypeFacts DEF Inject, Event
  <1>2. applied' = Append(applied, 1) /\ Len(applied) = Len(events)
    <2>1. applied \in Seq(Nat) /\ DOMAIN applied = 1..Len(events) /\ Len(events) \in Nat
      BY TypeFacts
    <2>2. Len(applied) = Len(events)
      BY <2>1, LenProperties
    <2> QED
      BY <2>2 DEF Inject
  <1>3. trace' = Append(trace, <<>>) /\ <<>> \in Seq(Sample) /\ Len(trace) = Len(events)
    <2>1. trace \in Seq(Seq(Sample)) /\ DOMAIN trace = 1..Len(events) /\ Len(events) \in Nat
      BY TypeFacts
    <2>2. Len(trace) = Len(events)
      BY <2>1, LenProperties
    <2> QED
      BY <2>2 DEF Inject, OpenDeltaWindow
  <1>4. /\ \A e \in Events : events'[e] = events[e]
        /\ events'[Len(events) + 1] = new
    BY <1>1, TypeFacts, AppendFacts
  <1>5. /\ \A e \in Events : applied'[e] = applied[e]
        /\ applied'[Len(events) + 1] = 1
    BY <1>2, TypeFacts, AppendFacts
  <1>6. /\ \A e \in Events : trace'[e] = trace[e]
        /\ trace'[Len(events) + 1] = <<>>
    BY <1>3, TypeFacts, AppendFacts
  <1> QED
    BY <1>1, <1>4, <1>5, <1>6

-----------------------------------------------------------------------------
(***************************************************************************)
(* Applications                                                            *)
(***************************************************************************)

\* An injection leaves the count of every earlier event right, that of the one it
\* replaces too, and starts its own.
LEMMA AppliedInject ==
    ASSUME TypeInv, AppliedAsDeclared,
           NEW kind \in Kind, NEW source \in Source, Inject(kind, source)
    PROVE  AppliedAsDeclared'
  <1> DEFINE new == Len(events) + 1
             D(e) == Duration[events[e].kind]
  <1>1. /\ Events' = Events \cup {new} /\ new \notin Events /\ Events = 1..Len(events)
        /\ Len(events) \in Nat
    BY InjectTypes, TypeFacts
  <1>2. /\ \A e \in Events : events'[e] = events[e] /\ applied'[e] = applied[e]
        /\ events'[new].kind = kind /\ applied'[new] = 1
    BY InjectTables
  <1>3. \A e \in Events : applied[e] \in Nat /\ D(e) \in Nat
    <2>1. \A e \in Events : events[e] \in Event /\ applied[e] \in Nat
      <3>1. events \in Seq(Event) /\ applied \in Seq(Nat) /\ DOMAIN applied = Events
        BY TypeFacts
      <3> QED
        BY <3>1 DEF Events
    <2>2. \A e \in Events : events[e].kind \in Kind
      BY <2>1 DEF Event
    <2> QED
      BY <2>1, <2>2, ConstantFacts
  <1>4. Start(kind) /\ Duration[kind] \in Nat \ {0}
    BY ConstantFacts DEF Inject
  <1>5. /\ active \in Events \cup {NoEvent} /\ remaining \in Nat
        /\ (remaining > 0 <=> active # NoEvent) /\ cutShort \subseteq Events
        /\ NoEvent = 0
    BY TypeFacts DEF NoEvent
  <1>6. \A e \in Events : IF e \in cutShort THEN e # active /\ applied[e] < D(e)
                                          ELSE applied[e] + Left(e) = D(e)
    BY DEF AppliedAsDeclared
  <1>7. CASE Duration[kind] > 1
    <2>1. /\ active' = new /\ remaining' = Duration[kind] - 1
          /\ cutShort' = IF active = NoEvent THEN cutShort ELSE cutShort \cup {active}
      BY <1>4, <1>7 DEF Start
    <2>2. ASSUME NEW e \in Events
          PROVE  IF e \in cutShort' THEN e # active' /\ applied'[e] < D(e)'
                                   ELSE applied'[e] + Left(e)' = D(e)'
      <3>1. e # new /\ applied'[e] = applied[e] /\ D(e)' = D(e) /\ Left(e)' = 0
        BY <1>1, <1>2, <2>1, <2>2 DEF Left
      <3>2. CASE e = active
        BY <1>1, <1>3, <1>5, <1>6, <2>1, <2>2, <3>1, <3>2 DEF Left
      <3>3. CASE e # active
        BY <1>1, <1>3, <1>5, <1>6, <2>1, <2>2, <3>1, <3>3 DEF Left
      <3> QED
        BY <3>2, <3>3
    <2>3. ASSUME NEW e, e = new
          PROVE  e \notin cutShort' /\ applied'[e] + Left(e)' = Duration[events'[e].kind]
      BY <2>3, <1>1, <1>2, <1>4, <1>5, <2>1 DEF Left
    <2> QED
      BY <1>1, <2>2, <2>3 DEF AppliedAsDeclared
  <1>8. CASE ~(Duration[kind] > 1)
    <2>1. active' = active /\ remaining' = remaining /\ cutShort' = cutShort
      BY <1>4, <1>8 DEF Start
    <2>2. ASSUME NEW e \in Events
          PROVE  IF e \in cutShort' THEN e # active' /\ applied'[e] < D(e)'
                                   ELSE applied'[e] + Left(e)' = D(e)'
      BY <1>2, <1>6, <2>1, <2>2 DEF Left
    <2>3. ASSUME NEW e, e = new
          PROVE  e \notin cutShort' /\ applied'[e] + Left(e)' = Duration[events'[e].kind]
      BY <2>3, <1>1, <1>2, <1>4, <1>5, <1>8, <2>1 DEF Left
    <2> QED
      BY <1>1, <2>2, <2>3 DEF AppliedAsDeclared
  <1> QED
    BY <1>7, <1>8

LEMMA AppliedStep == TypeInv /\ AppliedAsDeclared /\ [Next]_vars => AppliedAsDeclared'
  <1> SUFFICES ASSUME TypeInv, AppliedAsDeclared, [Next]_vars
               PROVE  AppliedAsDeclared'
    OBVIOUS
  <1>1. CASE InjectStep
    BY <1>1, AppliedInject DEF InjectStep
  <1>2. CASE ContinueStep
    <2>1. /\ active \in Events /\ remaining \in Nat \ {0}
          /\ applied \in Seq(Nat) /\ DOMAIN applied = Events
      BY <1>2, TypeFacts DEF ContinueStep, InFlight
    <2>2. /\ applied' = [applied EXCEPT ![active] = @ + 1]
          /\ remaining' = remaining - 1
          /\ active' = IF remaining = 1 THEN NoEvent ELSE active
          /\ events' = events /\ cutShort' = cutShort
      BY <1>2 DEF ContinueStep, Continue
    <2>3. active \notin cutShort
      BY <2>1 DEF AppliedAsDeclared
    <2>4. SUFFICES ASSUME NEW e \in Events
                   PROVE  IF e \in cutShort
                          THEN e # active' /\ applied'[e] < Duration[events[e].kind]
                          ELSE applied'[e] + Left(e)' = Duration[events[e].kind]
      BY <2>2 DEF AppliedAsDeclared, Events
    <2>5. IF e \in cutShort THEN e # active /\ applied[e] < Duration[events[e].kind]
                            ELSE applied[e] + Left(e) = Duration[events[e].kind]
      BY DEF AppliedAsDeclared
    <2>6. applied[e] \in Nat /\ e # NoEvent
      <3>1. Events = 1..Len(events) /\ Len(events) \in Nat
        BY TypeFacts
      <3>2. applied[e] \in Nat
        BY <2>1
      <3>3. e # NoEvent
        BY <3>1 DEF NoEvent
      <3> QED
        BY <3>2, <3>3
    <2>7. CASE e = active
      BY <2>1, <2>2, <2>3, <2>5, <2>6, <2>7 DEF Left
    <2>8. CASE e # active
      BY <2>1, <2>2, <2>5, <2>6, <2>8 DEF Left
    <2> QED
      BY <2>7, <2>8
  <1>3. CASE SampleStep \/ UNCHANGED eventVars
    BY <1>3 DEF SampleStep, eventVars, AppliedAsDeclared, Left, Events
  <1> QED
    BY <1>1, <1>2, <1>3, StepKinds

\* However events overlap and beats are throttled, an event that is not replaced in
\* flight is applied as often as its kind says, and one that is, less often.
THEOREM AppliedCorrect == Spec => []AppliedAsDeclared
  <1>1. Init => AppliedAsDeclared
    BY DEF Init, AppliedAsDeclared, Events
  <1> QED
    BY <1>1, TypeInit, TypeStep, AppliedStep, PTL DEF Spec
-----------------------------------------------------------------------------
(***************************************************************************)
(* Readings                                                                *)
(***************************************************************************)

LEMMA ReadingStep == TypeInv /\ OneReading /\ [Next]_vars => OneReading'
  <1> SUFFICES ASSUME TypeInv, OneReading, [Next]_vars
               PROVE  OneReading'
    OBVIOUS
  <1>1. /\ \A i, j \in DOMAIN readings : readings[i] = readings[j] => i = j
        /\ \A e \in Events : e \in open <=> ~\E i \in DOMAIN readings : readings[i] = e
    BY DEF OneReading
  <1>2. /\ readings \in Seq(Events) /\ DOMAIN readings = 1..Len(readings)
        /\ Len(readings) \in Nat /\ open \subseteq Events
        /\ \A i \in DOMAIN readings : readings[i] \in Events
    BY TypeFacts, LenProperties, ElementOfSeq
  <1>3. CASE InjectStep
    <2>1. PICK kind \in Kind, source \in Source : Inject(kind, source)
      BY <1>3 DEF InjectStep
    <2>2. Events' = Events \cup {Len(events) + 1} /\ Len(events) + 1 \notin Events
      BY <2>1, InjectTypes
    <2>3. open' = open \cup {Len(events) + 1} /\ readings' = readings
      BY <2>1 DEF Inject, OpenDeltaWindow
    <2> QED
      BY <1>1, <1>2, <2>2, <2>3 DEF OneReading
  <1>4. CASE SampleStep
    <2>1. Events' = Events
      BY <1>4 DEF SampleStep, Events
    <2>2. PICK old \in SUBSET open, order \in Seq(open) :
             /\ open' = open \ old
             /\ readings' = readings \o order
             /\ \A e : e \in old <=> \E i \in DOMAIN order : order[i] = e
             /\ \A i, j \in DOMAIN order : order[i] = order[j] => i = j
      BY <1>4, SamplesRead DEF SampleStep
    <2>3. order \in Seq(Events) /\ DOMAIN order = 1..Len(order) /\ Len(order) \in Nat
          /\ \A i \in DOMAIN order : order[i] \in open
      BY <1>2, SeqMonotonic, LenProperties, ElementOfSeq
    <2> DEFINE m == Len(readings)
               n == Len(order)
    <2>4. /\ DOMAIN readings' = 1..(m + n) /\ m \in Nat /\ n \in Nat
          /\ \A i \in 1..(m + n) : readings'[i] = IF i <= m THEN readings[i] ELSE order[i - m]
      <3>1. /\ readings' \in Seq(Events) /\ Len(readings') = m + n
            /\ \A i \in 1..(m + n) : readings'[i] = IF i <= m THEN readings[i] ELSE order[i - m]
        BY <1>2, <2>2, <2>3, ConcatProperties
      <3> QED
        BY <1>2, <2>3, <3>1, LenProperties
    <2>5. ASSUME NEW i \in 1..(m + n)
          PROVE  \/ i \in DOMAIN readings /\ readings'[i] = readings[i]
                                          /\ readings[i] \notin open
                 \/ i - m \in DOMAIN order /\ i > m /\ readings'[i] = order[i - m]
                                           /\ order[i - m] \in open
      <3>1. CASE i <= m
        BY <1>1, <1>2, <2>4, <3>1
      <3>2. CASE ~(i <= m)
        BY <1>2, <2>3, <2>4, <3>2
      <3> QED
        BY <3>1, <3>2
    <2>6. ASSUME NEW i \in DOMAIN readings', NEW j \in DOMAIN readings',
                 readings'[i] = readings'[j]
          PROVE  i = j
      <3>1. i \in 1..(m + n) /\ j \in 1..(m + n)
        BY <2>4, <2>6
      <3>2. \/ i \in DOMAIN readings /\ j \in DOMAIN readings /\ readings[i] = readings[j]
            \/ i - m \in DOMAIN order /\ j - m \in DOMAIN order /\ order[i - m] = order[j - m]
        BY <2>5, <2>6, <3>1
      <3>3. CASE i \in DOMAIN readings /\ j \in DOMAIN readings /\ readings[i] = readings[j]
        BY <1>1, <3>3
      <3>4. CASE i - m \in DOMAIN order /\ j - m \in DOMAIN order /\ order[i - m] = order[j - m]
        <4>1. i - m = j - m
          BY <2>2, <3>4
        <4> QED
          BY <2>4, <3>1, <4>1
      <3> QED
        BY <3>2, <3>3, <3>4
    <2>7. ASSUME NEW e \in Events
          PROVE  e \in open' <=> ~\E i \in DOMAIN readings' : readings'[i] = e
      <3>1. ASSUME e \in open', NEW i \in DOMAIN readings'
            PROVE  readings'[i] # e
        <4>1. e \in open /\ \A k \in DOMAIN order : order[k] # e
          BY <2>2, <3>1
        <4> QED
          BY <2>4, <2>5, <3>1, <4>1
      <3>2. ASSUME e \notin open'
            PROVE  \E i \in DOMAIN readings' : readings'[i] = e
        <4>1. CASE e \in old
          <5>1. PICK k \in DOMAIN order : order[k] = e
            BY <2>2, <4>1
          <5>2. m + k \in 1..(m + n) /\ ~(m + k <= m) /\ (m + k) - m = k
            BY <2>3, <2>4
          <5>3. readings'[m + k] = e
            BY <2>4, <5>1, <5>2
          <5> QED
            BY <2>4, <5>2, <5>3
        <4>2. CASE e \notin old
          <5>1. e \notin open
            BY <2>2, <3>2, <4>2
          <5>2. PICK i \in DOMAIN readings : readings[i] = e
            BY <1>1, <5>1
          <5>3. i \in 1..(m + n) /\ i <= m
            BY <1>2, <2>4
          <5> QED
            BY <2>4, <5>2, <5>3
        <4> QED
          BY <4>1, <4>2
      <3> QED
        BY <3>1, <3>2
    <2> QED
      BY <2>1, <2>6, <2>7 DEF OneReading
  <1>5. CASE ContinueStep \/ UNCHANGED eventVars
    BY <1>5 DEF ContinueStep, Continue, deltaVars, eventVars, OneReading, Events
  <1> QED
    BY <1>3, <1>4, <1>5, StepKinds

\* Events that overlap, of one kind too, keep windows of their own, and each window
\* gives one reading and is then closed.
THEOREM ReadingsCorrect == Spec => []OneReading
  <1>1. Init => OneReading
    BY DEF Init, OneReading, Events
  <1> QED
    BY <1>1, TypeInit, TypeStep, ReadingStep, PTL DEF Spec
-----------------------------------------------------------------------------
(***************************************************************************)
(* Fresh samples                                                           *)
(***************************************************************************)

\* A multiple of 2 * p is even.
LEMMA EvenMultiple ==
    ASSUME NEW n \in Nat, NEW p \in Nat \ {0}, n % (p * 2) = 0
    PROVE  n % 2 = 0
  <1> DEFINE d == p * 2
             q == n \div d
  <1>1. d \in Nat \ {0}
    OBVIOUS
  <1>2. q \in Nat /\ n = d * q + (n % d)
    <2> HIDE DEF d
    <2> QED
      BY <1>1
  <1>3. n = d * q
    BY <1>1, <1>2
  <1>4. p * q \in Nat /\ d * q = 2 * (p * q)
    <2> HIDE DEF q
    <2> QED
      BY <1>2
  <1> HIDE DEF d, q
  <1> DEFINE k == p * q
  <1>5. k \in Nat /\ n = 2 * k
    BY <1>3, <1>4
  <1> HIDE DEF k
  <1> QED
    BY <1>5

\* When the delta-phi engine runs, theta_short runs: a throttled high class means a
\* throttled medium class.
LEMMA DueOrder ==
    ASSUME TypeInv, Due(DeltaPeriod, "medium")
    PROVE  Due(1, "high")
  <1>1. beat \in Nat /\ DeltaPeriod \in Nat \ {0}
    BY TypeFacts, ConstantFacts
  <1>2. CASE Throttled("high")
    <2>1. Throttled("medium")
      BY <1>2 DEF Throttled
    <2>2. beat % (DeltaPeriod * 2) = 0
      BY <2>1 DEF Due
    <2>3. beat % 2 = 0
      BY <1>1, <2>2, EvenMultiple
    <2> QED
      BY <1>2, <2>3 DEF Due
  <1>3. CASE ~Throttled("high")
    BY <1>1, <1>3 DEF Due
  <1> QED
    BY <1>2, <1>3

\* What FreshSamples needs: theta is never ahead of the beat, and after theta_short's
\* turn in a beat in which it runs it is of that beat, unless it failed.
ThetaInv ==
    /\ theta <= beat
    /\ theta # NoBeat => buffered >= Warm
    /\ step \in {"perturb", "delta"} /\ theta # NoBeat /\ Due(1, "high") =>
         theta = beat \/ beat \in failed

LEMMA ThetaStep == TypeInv /\ ThetaInv /\ [Next]_vars => ThetaInv'
  <1> SUFFICES ASSUME TypeInv, ThetaInv, [Next]_vars
               PROVE  ThetaInv'
    OBVIOUS
  <1>1. buffered \in Nat /\ Warm \in Nat /\ beat \in Nat /\ theta \in Int
    BY TypeFacts, ConstantFacts DEF TypeInv, TypeOK, NoBeat
  <1>2. CASE AdminPerturb \/ AdminPause \/ RecoveryStateChange \/ PausedBeat
    BY <1>1, <1>2 DEF AdminPerturb, AdminPause, RecoveryStateChange, PausedBeat, beatVars,
                thetaVars, ThetaInv
  <1>3. CASE SubstrateTick
    BY <1>1, <1>3 DEF SubstrateTick, ThetaInv
  <1>4. CASE MaybeCompose
    BY <1>4 DEF MaybeCompose, thetaVars, ThetaInv
  <1>5. CASE ThetaShort
    BY <1>1, <1>5 DEF ThetaShort, ThetaInv, Due, Throttled
  <1>6. CASE PerturbationSchedulerStep
    BY <1>6 DEF PerturbationSchedulerStep, thetaVars, ThetaInv, Due, Throttled
  <1>7. CASE DeltaPhi
    BY <1>1, <1>7 DEF DeltaPhi, thetaVars, ThetaInv
  <1>8. CASE UNCHANGED vars
    BY <1>8 DEF vars, beatVars, thetaVars, ThetaInv, Due, Throttled
  <1> QED
    BY <1>2, <1>3, <1>4, <1>5, <1>6, <1>7, <1>8 DEF Next

\* A failure is not forgotten.
LEMMA FailuresStay == [Next]_vars => failed \subseteq failed'
  <1> SUFFICES ASSUME [Next]_vars
               PROVE  failed \subseteq failed'
    OBVIOUS
  <1>1. CASE ThetaShort
    BY <1>1 DEF ThetaShort
  <1>2. CASE AdminPerturb \/ AdminPause \/ RecoveryStateChange \/ PausedBeat
    BY <1>2 DEF AdminPerturb, AdminPause, RecoveryStateChange, PausedBeat, thetaVars
  <1>3. CASE SubstrateTick \/ MaybeCompose \/ PerturbationSchedulerStep \/ DeltaPhi
    BY <1>3 DEF SubstrateTick, MaybeCompose, PerturbationSchedulerStep, DeltaPhi, thetaVars
  <1>4. CASE UNCHANGED vars
    BY <1>4 DEF vars, thetaVars
  <1> QED
    BY <1>1, <1>2, <1>3, <1>4 DEF Next

LEMMA FreshStep == TypeInv /\ ThetaInv /\ FreshSamples /\ [Next]_vars => FreshSamples'
  <1> SUFFICES ASSUME TypeInv, ThetaInv, FreshSamples, [Next]_vars
               PROVE  FreshSamples'
    OBVIOUS
  <1> DEFINE Still(x) == x[1] = x[2] \/ (x[1] < x[2] /\ x[2] \in failed')
  <1>a. \A e \in Events : \A i \in DOMAIN trace[e] : Still(trace[e][i])
    BY FailuresStay DEF FreshSamples
  <1>b. ASSUME \A e \in Events' : \A i \in DOMAIN trace'[e] : Still(trace'[e][i])
        PROVE  FreshSamples'
    BY <1>b DEF FreshSamples
  <1> HIDE DEF Still
  <1>1. CASE InjectStep
    <2>1. PICK kind \in Kind, source \in Source : Inject(kind, source)
      BY <1>1 DEF InjectStep
    <2>2. Events' = Events \cup {Len(events) + 1}
      BY <2>1, InjectTypes
    <2>3. /\ \A e \in Events : trace'[e] = trace[e]
          /\ trace'[Len(events) + 1] = <<>>
      BY <2>1, InjectTables
    <2> QED
      BY <1>a, <1>b, <2>2, <2>3
  <1>2. CASE UNCHANGED <<events, trace>>
    BY <1>a, <1>b, <1>2 DEF Events
  <1>3. CASE DeltaPhi
    <2>1. CASE UNCHANGED deltaVars
      BY <1>2, <1>3, <2>1 DEF DeltaPhi, deltaVars, schedulerVars
    <2>2. CASE Due(DeltaPeriod, "medium") /\ theta # NoBeat /\ Samples
      <3>1. Still(<<theta, beat>>)
        <4>1. theta = beat \/ beat \in failed
          BY <1>3, <2>2, DueOrder DEF DeltaPhi, ThetaInv
        <4>2. theta <= beat /\ theta \in Int /\ beat \in Int
          BY TypeFacts DEF ThetaInv, TypeInv, TypeOK, NoBeat
        <4>3. theta = beat \/ (theta < beat /\ beat \in failed')
          BY <4>1, <4>2, FailuresStay
        <4> QED
          BY <4>3 DEF Still
      <3>2. Events' = Events
        BY <1>3 DEF DeltaPhi, schedulerVars, Events
      <3>3. trace' = [e \in Events |-> IF e \in open THEN Append(trace[e], <<theta, beat>>)
                                      ELSE trace[e]]
        BY <2>2 DEF Samples
      <3>4. <<theta, beat>> \in Sample
        <4>1. theta \in 0..MaxBeat /\ beat \in 0..MaxBeat
          BY <2>2 DEF TypeInv, TypeOK
        <4> QED
          BY <4>1 DEF Sample
      <3>5. ASSUME NEW e \in Events, NEW i \in DOMAIN trace'[e]
            PROVE  Still(trace'[e][i])
        <4>1. trace[e] \in Seq(Sample)
          BY TypeFacts
        <4>2. \A k \in DOMAIN trace[e] : Still(trace[e][k])
          BY <1>a
        <4>3. CASE e \in open
          <5>1. trace'[e] = Append(trace[e], <<theta, beat>>)
            BY <3>3, <4>3
          <5>2. \/ i \in DOMAIN trace[e] /\ trace'[e][i] = trace[e][i]
                \/ trace'[e][i] = <<theta, beat>>
            BY <3>4, <3>5, <4>1, <5>1, AppendFacts
          <5> QED
            BY <3>1, <4>2, <5>2
        <4>4. CASE e \notin open
          BY <3>3, <3>5, <4>2, <4>4
        <4> QED
          BY <4>3, <4>4
      <3> QED
        BY <1>b, <3>2, <3>5
    <2> QED
      BY <1>3, <2>1, <2>2 DEF DeltaPhi
  <1>4. CASE AdminPerturb
    BY <1>1, <1>4 DEF AdminPerturb, InjectStep, Source
  <1>5. CASE PerturbationSchedulerStep
    <2>1. CASE Scheduled
      BY <1>1, <2>1, TurnIsKind DEF Scheduled, InjectStep, Source
    <2>2. CASE Continue \/ UNCHANGED <<schedulerVars, deltaVars, cadenceVars, observerVars>>
      BY <1>2, <2>2 DEF Continue, schedulerVars, deltaVars
    <2> QED
      BY <1>5, <2>1, <2>2 DEF PerturbationSchedulerStep
  <1>6. CASE AdminPause \/ RecoveryStateChange \/ PausedBeat \/ SubstrateTick \/ MaybeCompose
             \/ ThetaShort \/ UNCHANGED vars
    BY <1>2, <1>6 DEF AdminPause, RecoveryStateChange, PausedBeat, SubstrateTick, MaybeCompose,
                      ThetaShort, vars, schedulerVars, deltaVars
  <1> QED
    BY <1>3, <1>4, <1>5, <1>6 DEF Next

\* Whatever the periods and however the budget moves, the delta-phi engine samples a
\* theta of an earlier beat only in a beat in which theta_short failed.
THEOREM SamplesAreFresh == Spec => []FreshSamples
  <1>1. Init => ThetaInv /\ FreshSamples
    BY DEF Init, ThetaInv, FreshSamples, Events, NoBeat
  <1> QED
    BY <1>1, TypeInit, TypeStep, ThetaStep, FreshStep, PTL DEF Spec

-----------------------------------------------------------------------------
(***************************************************************************)
(* Multiples                                                               *)
(***************************************************************************)

\* Division of naturals.
LEMMA DivMod ==
    ASSUME NEW n \in Nat, NEW p \in Nat \ {0}
    PROVE  /\ n \div p \in Nat /\ n % p \in 0..(p - 1)
           /\ n = p * (n \div p) + (n % p)
  OBVIOUS

\* A multiple leaves no remainder.
LEMMA MultipleMod ==
    ASSUME NEW p \in Nat \ {0}, NEW q \in Nat
    PROVE  (p * q) % p = 0
  <1> DEFINE n == p * q
             k == n \div p
             r == n % p
  <1>1. n \in Nat
    OBVIOUS
  <1>2. k \in Nat /\ r \in 0..(p - 1) /\ n = p * k + r
    <2> HIDE DEF n
    <2> QED
      BY <1>1, DivMod
  <1>3. p * q = p * k + r
    BY <1>2
  <1> HIDE DEF k, r
  <1>4. CASE q > k
    <2>1. PICK d \in Nat : q = k + 1 + d
      <3>1. q - k - 1 \in Nat /\ q = k + 1 + (q - k - 1)
        BY <1>2, <1>4
      <3> QED
        BY <3>1
    <2>2. p * q = p * k + p + p * d /\ p * d \in Nat
      BY <1>2, <2>1
    <2> QED
      BY <1>2, <1>3, <2>2
  <1>5. CASE q < k
    <2>1. PICK d \in Nat : k = q + 1 + d
      <3>1. k - q - 1 \in Nat /\ k = q + 1 + (k - q - 1)
        BY <1>2, <1>5
      <3> QED
        BY <3>1
    <2>2. p * k = p * q + p + p * d /\ p * d \in Nat
      BY <1>2, <2>1
    <2> QED
      BY <1>2, <1>3, <2>2
  <1>6. CASE q = k
    <2>1. r = 0
      BY <1>2, <1>3, <1>6
    <2> QED
      BY <2>1 DEF r
  <1> QED
    BY <1>2, <1>4, <1>5, <1>6

\* A multiple of a multiple is one.
LEMMA Divides ==
    ASSUME NEW n \in Nat, NEW p \in Nat \ {0}, NEW d \in Nat \ {0}, n % p = 0, p % d = 0
    PROVE  n % d = 0
  <1> DEFINE q == n \div p
             s == p \div d
  <1>1. q \in Nat /\ s \in Nat /\ n = p * q /\ p = d * s
    BY DivMod
  <1> HIDE DEF q, s
  <1>2. n = d * (s * q) /\ s * q \in Nat
    BY <1>1
  <1> DEFINE k == s * q
  <1>3. k \in Nat /\ n = d * k
    BY <1>2
  <1> HIDE DEF k
  <1> QED
    BY <1>3, MultipleMod

\* The last multiple before n is less than a period away.
LEMMA LastMultiple ==
    ASSUME NEW n \in Nat \ {0}, NEW p \in Nat \ {0}
    PROVE  \E b \in Nat : b % p = 0 /\ b < n /\ n <= b + p
  <1> DEFINE q == (n - 1) \div p
             b == p * q
  <1>1. /\ q \in Nat /\ (n - 1) % p \in 0..(p - 1) /\ n - 1 = p * q + ((n - 1) % p)
        /\ n - 1 \in Nat
    <2>1. n - 1 \in Nat
      OBVIOUS
    <2> QED
      BY <2>1, DivMod
  <1>2. b \in Nat /\ b % p = 0
    <2> HIDE DEF q
    <2> QED
      BY <1>1, MultipleMod
  <1>3. b < n /\ n <= b + p
    <2> HIDE DEF q
    <2>1. b \in Nat /\ n - 1 = b + ((n - 1) % p)
      BY <1>1
    <2> HIDE DEF b
    <2> QED
      BY <1>1, <2>1
  <1> HIDE DEF b
  <1> QED
    BY <1>2, <1>3

-----------------------------------------------------------------------------
(***************************************************************************)
(* The clock                                                               *)
(***************************************************************************)

\* An event bears the stamp of the last beat that was not paused.
ClockInv ==
    /\ stamp <= beat
    /\ step # "idle" => stamp = beat
    /\ pauses = 0 => beat <= stamp + 1
    /\ \A e \in Events : events[e].start <= stamp

LEMMA BeatFacts ==
    ASSUME TypeInv
    PROVE  /\ beat \in Nat /\ stamp \in Nat /\ quietSince \in Nat /\ pauses \in Nat
           /\ paused \in Nat /\ paused <= pauses /\ battery \in Nat /\ skipped \in Nat
           /\ until \in Int /\ lastCompose \in Int /\ buffered \in Nat /\ theta \in Int
           /\ \A e \in Events : events[e] \in Event /\ events[e].start \in Nat
  <1>1. /\ beat \in Nat /\ stamp \in Nat /\ quietSince \in Nat /\ pauses \in Nat
        /\ paused \in Nat /\ paused <= pauses /\ battery \in Nat /\ skipped \in Nat
    BY ConstantFacts DEF TypeInv, TypeOK, Counted
  <1>2. until \in Int /\ lastCompose \in Int /\ buffered \in Nat /\ theta \in Int
    BY ConstantFacts DEF TypeInv, TypeOK, NoBeat
  <1>3. \A e \in Events : events[e] \in Event /\ events[e].start \in Nat
    <2>1. \A e \in Events : events[e] \in Event
      BY TypeFacts
    <2> QED
      BY <2>1 DEF Event
  <1> QED
    BY <1>1, <1>2, <1>3

\* An injection happens now, and opens the cadence window.
LEMMA InjectNow ==
    ASSUME TypeInv, NEW kind \in Kind, NEW source \in Source, Inject(kind, source)
    PROVE  /\ Events' = Events \cup {Len(events) + 1}
           /\ \A e \in Events : events'[e] = events[e]
           /\ events'[Len(events) + 1].start = stamp
           /\ until' = stamp + CadenceWindow
  BY InjectTypes, InjectTables DEF Inject, OpenCadenceWindow

LEMMA ClockStep == TypeInv /\ ClockInv /\ [Next]_vars => ClockInv'
  <1> SUFFICES ASSUME TypeInv, ClockInv, [Next]_vars
               PROVE  ClockInv'
    OBVIOUS
  <1>a. /\ beat \in Nat /\ stamp \in Nat /\ pauses \in Nat /\ paused \in Nat /\ paused <= pauses
        /\ \A e \in Events : events[e].start \in Nat
    BY BeatFacts
  <1>1. ASSUME InjectStep, UNCHANGED <<beat, stamp, pauses>>, step' # "idle" => step # "idle"
        PROVE  ClockInv'
    <2>1. /\ Events' = Events \cup {Len(events) + 1}
          /\ \A e \in Events : events'[e] = events[e]
          /\ events'[Len(events) + 1].start = stamp
      BY <1>1, InjectNow DEF InjectStep
    <2>2. \A e \in Events' : events'[e].start <= stamp'
      BY <1>1, <1>a, <2>1 DEF ClockInv
    <2> QED
      BY <1>1, <2>2 DEF ClockInv
  <1>2. CASE AdminPerturb
    BY <1>1, <1>2 DEF AdminPerturb, InjectStep, Source, beatVars
  <1>3. CASE PerturbationSchedulerStep
    <2>1. UNCHANGED <<beat, stamp, pauses>> /\ step = "perturb" /\ step' = "delta"
      BY <1>3 DEF PerturbationSchedulerStep, boundVars
    <2>2. CASE Scheduled
      BY <1>1, <2>1, <2>2, TurnIsKind DEF Scheduled, InjectStep, Source
    <2>3. CASE UNCHANGED events
      BY <2>1, <2>3 DEF ClockInv, Events
    <2> QED
      BY <1>3, <2>2, <2>3 DEF PerturbationSchedulerStep, Continue, schedulerVars
  <1>4. CASE PausedBeat
    <2>1. pauses # 0 /\ step = "idle"
      BY <1>4, <1>a DEF PausedBeat
    <2> QED
      BY <1>4, <1>a, <2>1 DEF PausedBeat, schedulerVars, boundVars, ClockInv, Events
  <1>5. CASE AdminPause
    BY <1>5, <1>a DEF AdminPause, schedulerVars, ClockInv, Events
  <1>6. CASE SubstrateTick
    BY <1>6, <1>a DEF SubstrateTick, schedulerVars, ClockInv, Events
  <1>7. CASE DeltaPhi
    BY <1>7, <1>a DEF DeltaPhi, schedulerVars, boundVars, ClockInv, Events
  <1>8. CASE RecoveryStateChange
    BY <1>8 DEF RecoveryStateChange, beatVars, schedulerVars, ClockInv, Events
  <1>9. CASE MaybeCompose \/ ThetaShort
    BY <1>9 DEF MaybeCompose, ThetaShort, schedulerVars, boundVars, ClockInv, Events
  <1>10. CASE UNCHANGED vars
    BY <1>10 DEF vars, beatVars, schedulerVars, boundVars, ClockInv, Events
  <1> QED
    BY <1>2, <1>3, <1>4, <1>5, <1>6, <1>7, <1>8, <1>9, <1>10 DEF Next

-----------------------------------------------------------------------------
(***************************************************************************)
(* The cadence                                                             *)
(***************************************************************************)

\* The compose step of beat b is over.
Composed(b) == b < beat \/ (b = beat /\ step \in {"theta", "perturb", "delta"})

\* The cadence window of some event is open at beat b.
Watched(b) == \E e \in Events : events[e].start < b /\ b < events[e].start + CadenceWindow

\* If no beat was paused, every multiple of the recovery period is composed, whatever
\* the cadence; and outside recoveries those of the perturbation period that fall into
\* the window of an event.
CadenceInv ==
    /\ lastCompose <= beat
    /\ step \in {"idle", "compose"} => lastCompose < beat
    /\ \A e \in Events : until # NoBeat /\ events[e].start + CadenceWindow <= until
    /\ pauses = 0 => \A b \in Nat \ {0} : Composed(b) =>
         /\ b % RecoveryPeriod = 0 => b <= lastCompose
         /\ ~recovering /\ quietSince <= b /\ b % PerturbPeriod = 0 /\ Watched(b)
              => b <= lastCompose

LEMMA PeriodFacts ==
    /\ BaselinePeriod \in Nat \ {0} /\ PerturbPeriod \in Nat \ {0}
    /\ RecoveryPeriod \in Nat \ {0} /\ CadenceWindow \in Nat \ {0}
    /\ \A b \in Nat : b % RecoveryPeriod = 0 =>
         b % BaselinePeriod = 0 /\ b % PerturbPeriod = 0
  <1>1. /\ BaselinePeriod \in Nat \ {0} /\ PerturbPeriod \in Nat \ {0}
        /\ RecoveryPeriod \in Nat \ {0} /\ CadenceWindow \in Nat \ {0}
        /\ BaselinePeriod % PerturbPeriod = 0 /\ RecoveryPeriod % BaselinePeriod = 0
    BY PerturbationAssumption
  <1>2. ASSUME NEW b \in Nat, b % RecoveryPeriod = 0
        PROVE  b % BaselinePeriod = 0 /\ b % PerturbPeriod = 0
    <2>1. b % BaselinePeriod = 0
      BY <1>1, <1>2, Divides
    <2> QED
      BY <1>1, <2>1, Divides
  <1> QED
    BY <1>1, <1>2

\* A step that composes nothing and changes no beat count that matters.
LEMMA CadenceKeeps ==
    ASSUME TypeInv, CadenceInv, UNCHANGED <<lastCompose, until, events, pauses>>,
           lastCompose <= beat' /\ (step' \in {"idle", "compose"} => lastCompose < beat'),
           \A b \in Nat \ {0} : Composed(b)' => Composed(b),
           \/ UNCHANGED <<recovering, quietSince>>
           \/ \A b \in Nat \ {0} : Composed(b) => ~(quietSince' <= b)
    PROVE  CadenceInv'
  <1>1. \A b : Watched(b)' <=> Watched(b)
    BY DEF Watched, Events
  <1>2. \A e \in Events' : until' # NoBeat /\ events'[e].start + CadenceWindow <= until'
    BY DEF CadenceInv, Events
  <1>3. ASSUME pauses' = 0, NEW b \in Nat \ {0}, Composed(b)'
        PROVE  /\ b % RecoveryPeriod = 0 => b <= lastCompose'
               /\ ~recovering' /\ quietSince' <= b /\ b % PerturbPeriod = 0 /\ Watched(b)'
                    => b <= lastCompose'
    <2>1. /\ Composed(b) /\ pauses = 0
          /\ b % RecoveryPeriod = 0 => b <= lastCompose
          /\ ~recovering /\ quietSince <= b /\ b % PerturbPeriod = 0 /\ Watched(b)
               => b <= lastCompose
      BY <1>3 DEF CadenceInv
    <2>2. CASE UNCHANGED <<recovering, quietSince>>
      BY <1>1, <2>1, <2>2
    <2>3. CASE ~(quietSince' <= b)
      BY <2>1, <2>3
    <2> QED
      BY <2>1, <2>2, <2>3
  <1> QED
    BY <1>2, <1>3 DEF CadenceInv

LEMMA CadenceInject ==
    ASSUME TypeInv, ClockInv, CadenceInv, InjectStep,
           UNCHANGED <<lastCompose, beat, pauses, recovering, quietSince>>,
           step' \in {"idle", "compose"} => step \in {"idle", "compose"},
           \A b \in Nat \ {0} : Composed(b)' => Composed(b)
    PROVE  CadenceInv'
  <1>1. /\ Events' = Events \cup {Len(events) + 1}
        /\ \A e \in Events : events'[e] = events[e]
        /\ events'[Len(events) + 1].start = stamp
        /\ until' = stamp + CadenceWindow
    BY InjectNow DEF InjectStep
  <1>2. /\ beat \in Nat /\ stamp \in Nat /\ pauses \in Nat /\ lastCompose \in Int
        /\ CadenceWindow \in Nat /\ NoBeat = -1
        /\ \A e \in Events : events[e].start \in Nat /\ events[e].start <= stamp
    BY BeatFacts, ConstantFacts DEF ClockInv, NoBeat
  <1>3. \A e \in Events' : until' # NoBeat /\ events'[e].start + CadenceWindow <= until'
    BY <1>1, <1>2
  <1>4. ASSUME pauses' = 0, NEW b \in Nat \ {0}, Composed(b)'
        PROVE  /\ b % RecoveryPeriod = 0 => b <= lastCompose'
               /\ ~recovering' /\ quietSince' <= b /\ b % PerturbPeriod = 0 /\ Watched(b)'
                    => b <= lastCompose'
    <2>1. /\ Composed(b) /\ pauses = 0
          /\ b % RecoveryPeriod = 0 => b <= lastCompose
          /\ ~recovering /\ quietSince <= b /\ b % PerturbPeriod = 0 /\ Watched(b)
               => b <= lastCompose
      BY <1>4 DEF CadenceInv
    \* The new event comes after the beats that are composed.
    <2>2. b <= stamp
      BY <1>2, <2>1 DEF Composed, ClockInv
    <2>3. Watched(b)' => Watched(b)
      BY <1>1, <1>2, <2>2 DEF Watched
    <2> QED
      BY <2>1, <2>3
  <1> QED
    BY <1>3, <1>4 DEF CadenceInv

\* The compose step itself: whatever the cadence is, a beat that counts is composed.
LEMMA CadenceCompose ==
    ASSUME TypeInv, CadenceInv, MaybeCompose
    PROVE  CadenceInv'
  <1>1. /\ lastCompose' = IF ShouldCompose THEN beat ELSE lastCompose
        /\ step = "compose" /\ step' = "theta"
        /\ UNCHANGED <<beat, until, recovering, quietSince, events, pauses>>
    BY DEF MaybeCompose, schedulerVars, observerVars, boundVars
  <1>2. lastCompose < beat /\ beat \in Nat /\ lastCompose \in Int /\ until \in Int
        /\ \A e \in Events : events[e].start \in Nat
    BY <1>1, BeatFacts DEF CadenceInv
  <1>3. lastCompose <= lastCompose' /\ lastCompose' <= beat'
    BY <1>1, <1>2
  <1>4. \A b : Watched(b)' <=> Watched(b)
    BY <1>1 DEF Watched, Events
  <1>5. ASSUME pauses' = 0, NEW b \in Nat \ {0}, Composed(b)'
        PROVE  /\ b % RecoveryPeriod = 0 => b <= lastCompose'
               /\ ~recovering' /\ quietSince' <= b /\ b % PerturbPeriod = 0 /\ Watched(b)'
                    => b <= lastCompose'
    <2>1. CASE b < beat
      <3>1. /\ b % RecoveryPeriod = 0 => b <= lastCompose
            /\ ~recovering /\ quietSince <= b /\ b % PerturbPeriod = 0 /\ Watched(b)
                 => b <= lastCompose
        BY <1>1, <1>5, <2>1 DEF CadenceInv, Composed
      <3>2. b <= lastCompose => b <= lastCompose'
        BY <1>1, <1>2, <2>1
      <3> QED
        BY <1>1, <1>4, <3>1, <3>2
    <2>2. CASE b = beat
      <3>1. beat > 0 /\ lastCompose # beat
        BY <1>2, <2>2
      <3>2. ASSUME beat % CurrentPeriod = 0 PROVE b <= lastCompose'
        BY <1>1, <1>2, <2>2, <3>1, <3>2 DEF ShouldCompose
      <3>3. ASSUME b % RecoveryPeriod = 0 PROVE beat % CurrentPeriod = 0
        BY <1>2, <2>2, <3>3, PeriodFacts DEF CurrentPeriod
      <3>4. ASSUME ~recovering, b % PerturbPeriod = 0, Watched(b)
            PROVE  beat % CurrentPeriod = 0
        <4>1. PICK e \in Events : b < events[e].start + CadenceWindow
          BY <3>4 DEF Watched
        <4>2. until # NoBeat /\ events[e].start + CadenceWindow <= until
          BY DEF CadenceInv
        <4>3. beat < until
          BY <1>2, <2>2, <4>1, <4>2, PeriodFacts
        <4> QED
          BY <2>2, <3>4, <4>2, <4>3 DEF CurrentPeriod
      <3> QED
        BY <1>1, <1>4, <3>2, <3>3, <3>4
    <2> QED
      BY <1>1, <1>5, <2>1, <2>2 DEF Composed
  <1>6. \A e \in Events' : until' # NoBeat /\ events'[e].start + CadenceWindow <= until'
    BY <1>1 DEF CadenceInv, Events
  <1> QED
    BY <1>1, <1>3, <1>5, <1>6 DEF CadenceInv

LEMMA CadenceStep == TypeInv /\ ClockInv /\ CadenceInv /\ [Next]_vars => CadenceInv'
  <1> SUFFICES ASSUME TypeInv, ClockInv, CadenceInv, [Next]_vars
               PROVE  CadenceInv'
    OBVIOUS
  <1>a. /\ beat \in Nat /\ pauses \in Nat /\ paused \in Nat /\ paused <= pauses
        /\ lastCompose \in Int /\ lastCompose <= beat
        /\ step \in {"idle", "compose"} => lastCompose < beat
    BY BeatFacts DEF CadenceInv
  <1> USE DEF schedulerVars, observerVars, cadenceVars, boundVars
  <1>1. CASE AdminPerturb
    BY <1>1, CadenceInject DEF AdminPerturb, InjectStep, Source, beatVars, Composed
  <1>2. CASE PerturbationSchedulerStep
    <2>1. /\ UNCHANGED <<beat, pauses>> /\ step = "perturb" /\ step' = "delta"
          /\ \A b : Composed(b)' <=> Composed(b)
      BY <1>2 DEF PerturbationSchedulerStep, Composed
    <2>2. CASE Scheduled
      <3>1. InjectStep /\ UNCHANGED <<recovering, lastCompose, quietSince>>
        BY <2>2, TurnIsKind DEF Scheduled, InjectStep, Source
      <3> QED
        BY <2>1, <3>1, CadenceInject
    <2>3. CASE UNCHANGED <<lastCompose, until, events, recovering, quietSince>>
      BY <1>a, <2>1, <2>3, CadenceKeeps
    <2> QED
      BY <1>2, <2>2, <2>3 DEF PerturbationSchedulerStep, Continue
  \* No beat has been paused only if none was asked for.
  <1>3. CASE PausedBeat \/ AdminPause
    <2>1. /\ pauses' # 0 /\ lastCompose' <= beat' /\ step = "idle" /\ step' = "idle"
          /\ UNCHANGED <<lastCompose, until, events>> /\ lastCompose' < beat'
      BY <1>3, <1>a DEF PausedBeat, AdminPause
    <2>2. \A e \in Events' : until' # NoBeat /\ events'[e].start + CadenceWindow <= until'
      BY <2>1 DEF CadenceInv, Events
    <2> QED
      BY <2>1, <2>2 DEF CadenceInv
  <1>4. CASE RecoveryStateChange
    <2>1. /\ UNCHANGED <<beat, step, lastCompose, until, events, pauses>>
          /\ quietSince' = beat /\ step = "idle"
      BY <1>4 DEF RecoveryStateChange, beatVars
    <2>2. \A b \in Nat \ {0} : Composed(b) => ~(quietSince' <= b)
      BY <1>a, <2>1 DEF Composed
    <2>3. \A b : Composed(b)' <=> Composed(b)
      BY <2>1 DEF Composed
    <2> QED
      BY <1>a, <2>1, <2>2, <2>3, CadenceKeeps
  <1>5. CASE SubstrateTick
    <2>1. /\ UNCHANGED <<beat, lastCompose, until, events, pauses, recovering, quietSince>>
          /\ step = "idle" /\ step' = "compose"
      BY <1>5 DEF SubstrateTick
    <2>2. \A b : Composed(b)' <=> Composed(b)
      BY <2>1 DEF Composed
    <2> QED
      BY <1>a, <2>1, <2>2, CadenceKeeps
  <1>6. CASE ThetaShort
    <2>1. /\ UNCHANGED <<beat, lastCompose, until, events, pauses, recovering, quietSince>>
          /\ step = "theta" /\ step' = "perturb"
      BY <1>6 DEF ThetaShort
    <2>2. \A b : Composed(b)' <=> Composed(b)
      BY <2>1 DEF Composed
    <2> QED
      BY <1>a, <2>1, <2>2, CadenceKeeps
  <1>7. CASE DeltaPhi
    <2>1. /\ UNCHANGED <<lastCompose, until, events, pauses, recovering, quietSince>>
          /\ step = "delta" /\ step' = "idle" /\ beat' = beat + 1
      BY <1>7 DEF DeltaPhi
    <2>2. \A b \in Nat \ {0} : Composed(b)' => Composed(b)
      BY <1>a, <2>1 DEF Composed
    <2>3. lastCompose < beat'
      BY <1>a, <2>1
    <2> QED
      BY <1>a, <2>1, <2>2, <2>3, CadenceKeeps
  <1>8. CASE UNCHANGED vars
    <2>1. UNCHANGED <<beat, step, lastCompose, until, events, pauses, recovering, quietSince>>
      BY <1>8 DEF vars, beatVars
    <2>2. \A b : Composed(b)' <=> Composed(b)
      BY <2>1 DEF Composed
    <2> QED
      BY <1>a, <2>1, <2>2, CadenceKeeps
  <1> QED
    BY <1>1, <1>2, <1>3, <1>4, <1>5, <1>6, <1>7, <1>8, CadenceCompose DEF Next

\* For every choice of periods that are multiples of one another and whatever is
\* injected, the substrate is composed at least once every recovery period, and once
\* every perturbation period in the window of an event outside recoveries.
THEOREM CadenceCorrect == Spec => []CadenceKept
  <1>1. Init => ClockInv /\ CadenceInv
    BY DEF Init, ClockInv, CadenceInv, Composed, Events, NoBeat
  <1>2. TypeInv /\ CadenceInv => CadenceKept
    <2> SUFFICES ASSUME TypeInv, CadenceInv, step = "idle", pauses = 0
                 PROVE  /\ beat > RecoveryPeriod =>
                             lastCompose # NoBeat /\ beat - lastCompose <= RecoveryPeriod
                        /\ ~recovering /\ quietSince + PerturbPeriod <= beat =>
                             \A e \in Events :
                                /\ events[e].start + PerturbPeriod < beat
                                /\ beat <= events[e].start + CadenceWindow
                                => beat - lastCompose <= PerturbPeriod
      BY DEF CadenceKept
    <2>a. /\ beat \in Nat /\ lastCompose \in Int /\ quietSince \in Nat
          /\ \A e \in Events : events[e].start \in Nat
      BY BeatFacts
    <2>c. RecoveryPeriod \in Nat \ {0} /\ PerturbPeriod \in Nat \ {0} /\ CadenceWindow \in Nat
      BY PeriodFacts
    <2>b. \A b \in Nat \ {0} : b < beat =>
            /\ b % RecoveryPeriod = 0 => b <= lastCompose
            /\ ~recovering /\ quietSince <= b /\ b % PerturbPeriod = 0 /\ Watched(b)
                 => b <= lastCompose
      BY DEF CadenceInv, Composed
    <2>1. ASSUME beat > RecoveryPeriod
          PROVE  lastCompose # NoBeat /\ beat - lastCompose <= RecoveryPeriod
      <3>0. beat \in Nat \ {0}
        BY <2>a, <2>c, <2>1
      <3>1. PICK b \in Nat : b % RecoveryPeriod = 0 /\ b < beat /\ beat <= b + RecoveryPeriod
        BY <2>c, <3>0, LastMultiple
      <3>2. b \in Nat \ {0}
        BY <2>a, <2>c, <2>1, <3>1
      <3>3. b <= lastCompose
        BY <2>b, <3>1, <3>2
      <3> QED
        BY <2>a, <2>c, <3>1, <3>2, <3>3 DEF NoBeat
    <2>2. ASSUME ~recovering, quietSince + PerturbPeriod <= beat, NEW e \in Events,
                 events[e].start + PerturbPeriod < beat,
                 beat <= events[e].start + CadenceWindow
          PROVE  beat - lastCompose <= PerturbPeriod
      <3>0. beat \in Nat \ {0}
        BY <2>a, <2>c, <2>2
      <3>1. PICK b \in Nat : b % PerturbPeriod = 0 /\ b < beat /\ beat <= b + PerturbPeriod
        BY <2>c, <3>0, LastMultiple
      <3>2. /\ b # 0 /\ quietSince <= b
            /\ events[e].start < b /\ b < events[e].start + CadenceWindow
        BY <2>a, <2>c, <2>2, <3>1
      <3>3. b <= lastCompose
        BY <2>b, <2>2, <3>1, <3>2 DEF Watched
      <3> QED
        BY <2>a, <2>c, <3>1, <3>3
    <2> QED
      BY <2>1, <2>2
  <1> QED
    BY <1>1, <1>2, TypeInit, TypeStep, ClockStep, CadenceStep, PTL DEF Spec

-----------------------------------------------------------------------------
(***************************************************************************)
(* Readings in time                                                        *)
(***************************************************************************)

\* If no beat was paused the buffer is as full as the beats allow, and a theta that
\* is due in a warm beat is of that beat or failed in it.
WarmInv ==
    /\ pauses = 0 =>
         buffered >= Warm \/ buffered >= (IF step = "idle" THEN beat ELSE beat + 1)
    /\ step \in {"perturb", "delta"} /\ buffered >= Warm /\ Due(1, "high") =>
         theta = beat \/ beat \in failed

\* A window that was open in a beat in which the delta-phi engine runs whatever the
\* budget had not come to its end, or theta_short failed in that beat.
ReadInv ==
    pauses = 0 => \A b \in Nat : b < beat /\ AlwaysDue(b) /\ b \notin failed =>
                    \A e \in open : b < events[e].start + Window

LEMMA WarmStep == TypeInv /\ WarmInv /\ [Next]_vars => WarmInv'
  <1> SUFFICES ASSUME TypeInv, WarmInv, [Next]_vars
               PROVE  WarmInv'
    OBVIOUS
  <1>a. /\ buffered \in Nat /\ Warm \in Nat /\ beat \in Nat
        /\ pauses \in Nat /\ paused \in Nat /\ paused <= pauses
    BY BeatFacts, ConstantFacts
  <1>1. CASE AdminPerturb \/ RecoveryStateChange
    BY <1>1 DEF AdminPerturb, RecoveryStateChange, beatVars, thetaVars, WarmInv
  <1>2. CASE AdminPause
    BY <1>2, <1>a DEF AdminPause, thetaVars, WarmInv
  <1>3. CASE PausedBeat
    BY <1>3, <1>a DEF PausedBeat, thetaVars, boundVars, WarmInv
  <1>4. CASE SubstrateTick
    BY <1>4, <1>a DEF SubstrateTick, WarmInv
  <1>5. CASE MaybeCompose
    BY <1>5 DEF MaybeCompose, thetaVars, boundVars, WarmInv
  <1>6. CASE ThetaShort
    BY <1>6, <1>a DEF ThetaShort, boundVars, WarmInv, Due, Throttled
  <1>7. CASE PerturbationSchedulerStep
    BY <1>7 DEF PerturbationSchedulerStep, thetaVars, boundVars, WarmInv, Due, Throttled
  <1>8. CASE DeltaPhi
    BY <1>8, <1>a DEF DeltaPhi, thetaVars, boundVars, WarmInv
  <1>9. CASE UNCHANGED vars
    BY <1>9 DEF vars, beatVars, thetaVars, boundVars, WarmInv, Due, Throttled
  <1> QED
    BY <1>1, <1>2, <1>3, <1>4, <1>5, <1>6, <1>7, <1>8, <1>9 DEF Next

\* A multiple of twice the engine's period is a beat in which it runs, and theta_short
\* before it.
LEMMA SamplingIsDue ==
    ASSUME TypeInv, beat % (DeltaPeriod * 2) = 0
    PROVE  Due(DeltaPeriod, "medium") /\ Due(1, "high")
  <1>1. /\ beat \in Nat /\ DeltaPeriod \in Nat \ {0} /\ DeltaPeriod * 2 \in Nat \ {0}
        /\ DeltaPeriod * 1 = DeltaPeriod
    BY BeatFacts, ConstantFacts
  <1>2. (DeltaPeriod * 2) % DeltaPeriod = 0
    BY <1>1, MultipleMod
  <1> DEFINE d == DeltaPeriod * 2
  <1>3. d \in Nat \ {0} /\ d % DeltaPeriod = 0 /\ beat % d = 0
    BY <1>1, <1>2
  <1> HIDE DEF d
  <1>4. beat % DeltaPeriod = 0
    BY <1>1, <1>3, Divides
  <1>5. Due(DeltaPeriod, "medium")
    BY <1>1, <1>4 DEF Due
  <1> QED
    BY <1>5, DueOrder

LEMMA ReadStep ==
    TypeInv /\ ClockInv /\ WarmInv /\ ReadInv /\ [Next]_vars => ReadInv'
  <1> SUFFICES ASSUME TypeInv, ClockInv, WarmInv, ReadInv, [Next]_vars
               PROVE  ReadInv'
    OBVIOUS
  <1>a. /\ beat \in Nat /\ stamp \in Nat /\ pauses \in Nat /\ paused \in Nat
        /\ paused <= pauses /\ theta \in Int /\ Window \in Nat \ {0}
        /\ \A e \in Events : events[e].start \in Nat
        /\ open \subseteq Events
    BY BeatFacts, TypeFacts, ConstantFacts
  <1>b. failed \subseteq failed'
    BY FailuresStay
  <1> USE DEF schedulerVars, deltaVars, observerVars, cadenceVars, boundVars, beatVars
  <1>1. ASSUME UNCHANGED <<beat, events, open, pauses>> PROVE ReadInv'
    BY <1>1, <1>b DEF ReadInv, AlwaysDue
  \* A new event's window ends after the beats that have passed.
  <1>2. ASSUME InjectStep, UNCHANGED <<beat, pauses>> PROVE ReadInv'
    <2>1. /\ \A e \in Events : events'[e] = events[e]
          /\ events'[Len(events) + 1].start = stamp
          /\ open' = open \cup {Len(events) + 1}
      BY <1>2, InjectNow DEF InjectStep, Inject, OpenDeltaWindow
    <2>2. ASSUME pauses = 0, NEW b \in Nat, b < beat, AlwaysDue(b), b \notin failed,
                 NEW e \in open'
          PROVE  b < events'[e].start + Window
      <3>1. CASE e \in open
        BY <1>a, <2>1, <2>2, <3>1 DEF ReadInv
      <3>2. CASE e = Len(events) + 1
        BY <1>a, <2>1, <2>2, <3>2 DEF ClockInv
      <3> QED
        BY <2>1, <2>2, <3>1, <3>2
    <2> QED
      BY <1>2, <1>b, <2>2 DEF ReadInv, AlwaysDue
  <1>3. CASE AdminPerturb
    BY <1>2, <1>3 DEF AdminPerturb, InjectStep, Source
  <1>4. CASE PerturbationSchedulerStep
    <2>1. UNCHANGED <<beat, pauses>>
      BY <1>4 DEF PerturbationSchedulerStep
    <2>2. CASE Scheduled
      BY <1>2, <2>1, <2>2, TurnIsKind DEF Scheduled, InjectStep, Source
    <2>3. CASE UNCHANGED <<events, open>>
      BY <1>1, <2>1, <2>3
    <2> QED
      BY <1>4, <2>2, <2>3 DEF PerturbationSchedulerStep, Continue
  <1>5. CASE PausedBeat \/ AdminPause
    BY <1>5, <1>a, <1>b DEF PausedBeat, AdminPause, ReadInv
  <1>6. CASE DeltaPhi
    <2>1. step = "delta" /\ beat' = beat + 1 /\ UNCHANGED <<events, pauses, theta, failed>>
      BY <1>6 DEF DeltaPhi, thetaVars
    <2>2. open' \subseteq open
      BY <1>6 DEF DeltaPhi, Samples
    <2>3. ASSUME pauses = 0, NEW b \in Nat, b < beat + 1, AlwaysDue(b),
                 b \notin failed, NEW e \in open'
          PROVE  b < events[e].start + Window
      <3>1. CASE b < beat
        BY <2>2, <2>3, <3>1 DEF ReadInv
      <3>2. CASE b = beat
        <4>1. Due(DeltaPeriod, "medium") /\ Due(1, "high")
          BY <2>3, <3>2, SamplingIsDue DEF AlwaysDue
        <4>2. buffered >= Warm
          <5>1. buffered \in Nat /\ Warm \in Nat /\ Warm <= beat
            BY <2>3, <3>2, BeatFacts, ConstantFacts DEF AlwaysDue
          <5> QED
            BY <1>a, <2>1, <2>3, <5>1 DEF WarmInv
        <4>3. theta = beat
          BY <2>1, <2>3, <3>2, <4>1, <4>2 DEF WarmInv
        <4>4. Samples
          BY <1>6, <1>a, <4>1, <4>3 DEF DeltaPhi, NoBeat
        <4>5. e \in Events /\ ~(theta - events[e].start >= Window)
          BY <1>a, <2>2, <2>3, <4>4 DEF Samples
        <4> QED
          BY <1>a, <3>2, <4>3, <4>5
      <3> QED
        BY <1>a, <2>3, <3>1, <3>2
    <2> QED
      BY <2>1, <2>3 DEF ReadInv, AlwaysDue
  <1>7. CASE RecoveryStateChange \/ SubstrateTick \/ MaybeCompose \/ ThetaShort
             \/ UNCHANGED vars
    BY <1>1, <1>7 DEF RecoveryStateChange, SubstrateTick, MaybeCompose, ThetaShort, vars
  <1> QED
    BY <1>3, <1>4, <1>5, <1>6, <1>7 DEF Next

LEMMA ReadInTime ==
    ASSUME TypeInv, ReadInv
    PROVE  TimelyReading
  <1> SUFFICES ASSUME pauses = 0, NEW e \in open, NEW b \in 0..(beat - 1),
                      AlwaysDue(b), b >= events[e].start + Window
               PROVE  b \in failed
    BY DEF TimelyReading
  <1>1. beat \in Nat /\ Window \in Nat /\ events[e].start \in Nat
    <2>1. e \in Events
      BY TypeFacts
    <2> QED
      BY <2>1, BeatFacts, ConstantFacts
  <1>2. b \in Nat /\ b < beat /\ ~(b < events[e].start + Window)
    BY <1>1
  <1> QED
    BY <1>2 DEF ReadInv

-----------------------------------------------------------------------------
(***************************************************************************)
(* The schedule                                                            *)
(***************************************************************************)

\* The due beats in which the scheduler has had its turn.
Passed == {b \in 1..beat : b % Period = 0 /\ (b < beat \/ step = "delta")}

Turn(e) == Cardinality({d \in Internal : d < e})

\* The place in the battery counts the scheduler's events, and those and the beats it
\* skipped are the due beats.
ScheduleInv ==
    /\ battery = Cardinality(Internal)
    /\ \A e \in Internal : /\ events[e].start % Period = 0
                           /\ events[e].kind = Battery[(Turn(e) % Len(Battery)) + 1]
    /\ pauses = 0 => Cardinality(Internal) + skipped = Cardinality(Passed)

LEMMA ScheduleFinite ==
    ASSUME TypeInv
    PROVE  IsFiniteSet(Internal) /\ IsFiniteSet(Passed)
           /\ Cardinality(Internal) \in Nat /\ Cardinality(Passed) \in Nat
  <1>1. Internal \subseteq 1..Len(events) /\ Len(events) \in Nat
    BY TypeFacts DEF Internal
  <1>2. Passed \subseteq 1..beat /\ beat \in Nat
    BY BeatFacts DEF Passed
  <1>3. IsFiniteSet(1..Len(events)) /\ IsFiniteSet(1..beat)
    BY <1>1, <1>2, FS_Interval
  <1>4. IsFiniteSet(Internal) /\ IsFiniteSet(Passed)
    BY <1>1, <1>2, <1>3, FS_Subset
  <1> QED
    BY <1>4, FS_CardinalityType

\* A step that counts no due beat and adds no event of the scheduler.
LEMMA ScheduleKeeps ==
    ASSUME ScheduleInv, UNCHANGED <<battery, skipped>>,
           Internal' = Internal, \A e \in Internal : events'[e] = events[e],
           pauses' = 0 => pauses = 0 /\ Passed' = Passed
    PROVE  ScheduleInv'
  <1>1. \A e : Turn(e)' = Turn(e)
    BY DEF Turn
  <1> QED
    BY <1>1 DEF ScheduleInv

LEMMA ScheduleTurn ==
    ASSUME TypeInv, ClockInv, ScheduleInv, PerturbationSchedulerStep
    PROVE  ScheduleInv'
  <1>a. /\ beat \in Nat /\ skipped \in Nat /\ battery \in Nat /\ Period \in Nat \ {0}
        /\ Period % 2 = 0 /\ Len(events) \in Nat
    BY BeatFacts, TypeFacts, PerturbationAssumption
  <1>b. /\ UNCHANGED <<beat, pauses>> /\ step = "perturb" /\ step' = "delta" /\ stamp = beat
    BY DEF PerturbationSchedulerStep, boundVars, ClockInv
  <1>c. /\ IsFiniteSet(Internal) /\ IsFiniteSet(Passed)
        /\ Cardinality(Internal) \in Nat /\ Cardinality(Passed) \in Nat
    BY ScheduleFinite
  <1>d. Passed' = IF beat > 0 /\ beat % Period = 0 THEN Passed \cup {beat} ELSE Passed
    <2>1. /\ Passed = {b \in 1..beat : b % Period = 0 /\ b < beat}
          /\ Passed' = {b \in 1..beat : b % Period = 0}
      BY <1>a, <1>b DEF Passed
    <2>2. \A b \in 1..beat : b < beat \/ b = beat
      BY <1>a
    <2>3. beat > 0 <=> beat \in 1..beat
      BY <1>a
    <2>4. CASE beat > 0 /\ beat % Period = 0
      BY <2>1, <2>2, <2>3, <2>4
    <2>5. CASE ~(beat > 0 /\ beat % Period = 0)
      BY <2>1, <2>2, <2>3, <2>5
    <2> QED
      BY <2>4, <2>5
  <1>e. beat \notin Passed
    BY <1>a, <1>b DEF Passed
  <1>f. beat > 0 /\ beat % Period = 0 => Cardinality(Passed') = Cardinality(Passed) + 1
    BY <1>c, <1>d, <1>e, FS_AddElement
  <1>1. CASE Continue
    <2>1. /\ UNCHANGED <<battery, events>>
          /\ skipped' = IF beat > 0 /\ beat % Period = 0 THEN skipped + 1 ELSE skipped
      BY <1>1 DEF Continue
    <2>2. Internal' = Internal /\ \A e : Turn(e)' = Turn(e)
      BY <2>1 DEF Internal, Events, Turn
    <2>3. pauses = 0 => Cardinality(Internal) + skipped' = Cardinality(Passed')
      BY <1>a, <1>c, <1>d, <1>f, <2>1 DEF ScheduleInv
    <2> QED
      BY <1>b, <2>1, <2>2, <2>3 DEF ScheduleInv
  <1>2. CASE Scheduled /\ beat > 0 /\ beat % Period = 0
    <2> DEFINE kind == Battery[(battery % Len(Battery)) + 1]
               new == Len(events) + 1
    <2>1. /\ Inject(kind, "internal_scheduler") /\ kind \in Kind
          /\ "internal_scheduler" \in Source
          /\ battery' = battery + 1 /\ UNCHANGED skipped
      BY <1>2, TurnIsKind DEF Scheduled, Source
    <2>2. /\ Events' = Events \cup {new} /\ new \notin Events /\ Events = 1..Len(events)
          /\ \A e \in Events : events'[e] = events[e] /\ e < new
          /\ events'[new].kind = kind /\ events'[new].start = stamp
          /\ events'[new].source = "internal_scheduler"
      <3>1. Events' = Events \cup {new} /\ new \notin Events /\ Events = 1..Len(events)
        BY <2>1, InjectTypes, TypeFacts
      <3>2. /\ \A e \in Events : events'[e] = events[e]
            /\ events'[new].kind = kind /\ events'[new].start = stamp
            /\ events'[new].source = "internal_scheduler"
        BY <2>1, InjectTables
      <3>3. \A e \in Events : e < new
        BY <1>a, <3>1
      <3> QED
        BY <3>1, <3>2, <3>3
    <2> HIDE DEF kind, new
    <2>3. Internal' = Internal \cup {new} /\ Internal \subseteq Events
      BY <2>2 DEF Internal
    <2>4. Cardinality(Internal') = Cardinality(Internal) + 1
      BY <1>c, <2>2, <2>3, FS_AddElement
    <2>5. \A e \in Internal : Turn(e)' = Turn(e)
      <3>1. ASSUME NEW e \in Internal PROVE {d \in Internal' : d < e} = {d \in Internal : d < e}
        <4>1. e \in 1..Len(events) /\ e < new
          BY <2>2, <2>3
        <4>2. ~(new < e)
          BY <1>a, <4>1 DEF new
        <4> QED
          BY <2>3, <4>2
      <3> QED
        BY <3>1 DEF Turn
    <2>6. Cardinality({d \in Internal' : d < new}) = battery
      <3>1. {d \in Internal' : d < new} = Internal
        <4>1. ~(new < new)
          BY <1>a DEF new
        <4> QED
          BY <2>2, <2>3, <4>1
      <3> QED
        BY <3>1 DEF ScheduleInv
    <2>7. ASSUME NEW e \in Internal'
          PROVE  /\ events'[e].start % Period = 0
                 /\ events'[e].kind
                      = Battery[(Cardinality({d \in Internal' : d < e}) % Len(Battery)) + 1]
      <3>1. CASE e \in Internal
        <4>1. events'[e] = events[e] /\ Cardinality({d \in Internal' : d < e}) = Turn(e)
          BY <2>2, <2>3, <2>5, <3>1 DEF Turn
        <4> QED
          BY <3>1, <4>1 DEF ScheduleInv
      <3>2. CASE e = new
        BY <1>2, <1>b, <2>2, <2>6, <3>2 DEF kind
      <3> QED
        BY <2>3, <3>1, <3>2
    <2>8. battery' = Cardinality(Internal')
      BY <2>1, <2>4 DEF ScheduleInv
    <2>9. pauses' = 0 => Cardinality(Internal') + skipped' = Cardinality(Passed')
      BY <1>2, <1>a, <1>b, <1>c, <1>f, <2>1, <2>4 DEF ScheduleInv
    <2> QED
      BY <2>7, <2>8, <2>9 DEF ScheduleInv, Turn
  <1>3. CASE UNCHANGED <<schedulerVars, deltaVars, cadenceVars, observerVars>>
             /\ ~(beat > 0 /\ beat % Period = 0)
    <2>1. UNCHANGED <<battery, events, skipped>>
      BY <1>3 DEF schedulerVars, observerVars
    <2>2. Internal' = Internal
      BY <2>1 DEF Internal, Events
    <2> QED
      BY <1>3, <1>b, <1>d, <2>1, <2>2, ScheduleKeeps
  \* A throttled beat is odd, and due beats are even.
  <1>4. ASSUME ~Due(1, "medium") PROVE beat % Period # 0
    <2>1. beat % 2 # 0
      <3>1. CASE Throttled("medium")
        BY <1>4, <3>1 DEF Due
      <3>2. CASE ~Throttled("medium")
        BY <1>4, <1>a, <3>2 DEF Due
      <3> QED
        BY <3>1, <3>2
    <2>2. ASSUME beat % Period = 0 PROVE beat % 2 = 0
      <3>1. 2 \in Nat \ {0}
        OBVIOUS
      <3> QED
        BY <1>a, <2>2, <3>1, Divides
    <2> QED
      BY <2>1, <2>2
  <1>5. \/ Continue
        \/ Scheduled /\ beat > 0 /\ beat % Period = 0
        \/ /\ UNCHANGED <<schedulerVars, deltaVars, cadenceVars, observerVars>>
           /\ ~(beat > 0 /\ beat % Period = 0)
    BY <1>a, <1>4 DEF PerturbationSchedulerStep
  <1> QED
    BY <1>1, <1>2, <1>3, <1>5

LEMMA ScheduleStep ==
    TypeInv /\ ClockInv /\ ScheduleInv /\ [Next]_vars => ScheduleInv'
  <1> SUFFICES ASSUME TypeInv, ClockInv, ScheduleInv, [Next]_vars
               PROVE  ScheduleInv'
    OBVIOUS
  <1>a. beat \in Nat /\ pauses \in Nat /\ paused \in Nat /\ paused <= pauses
    BY BeatFacts
  <1> USE DEF schedulerVars, observerVars, boundVars, beatVars
  <1>1. ASSUME UNCHANGED <<battery, events, skipped>>,
               pauses' = 0 => pauses = 0 /\ Passed' = Passed
        PROVE  ScheduleInv'
    <2>1. Internal' = Internal
      BY <1>1 DEF Internal, Events
    <2> QED
      BY <1>1, <2>1, ScheduleKeeps
  \* The operator's events have no turn.
  <1>2. CASE AdminPerturb
    <2>1. PICK kind \in Kind : Inject(kind, "external_admin")
      BY <1>2 DEF AdminPerturb
    <2>2. /\ Events' = Events \cup {Len(events) + 1}
          /\ \A e \in Events : events'[e] = events[e]
          /\ events'[Len(events) + 1].source = "external_admin"
      BY <2>1, InjectTypes, InjectTables DEF Source
    <2>3. Internal' = Internal
      BY <2>2 DEF Internal
    <2>4. UNCHANGED <<battery, skipped, pauses>> /\ Passed' = Passed
      BY <1>2 DEF AdminPerturb, Passed
    <2>5. \A e \in Internal : events'[e] = events[e]
      BY <2>2 DEF Internal
    <2> QED
      BY <2>3, <2>4, <2>5, ScheduleKeeps
  <1>3. CASE AdminPause
    BY <1>1, <1>3, <1>a DEF AdminPause
  <1>4. CASE PausedBeat
    BY <1>1, <1>4, <1>a DEF PausedBeat
  <1>5. CASE RecoveryStateChange \/ UNCHANGED vars
    BY <1>1, <1>5 DEF RecoveryStateChange, vars, Passed
  <1>6. CASE SubstrateTick \/ MaybeCompose \/ ThetaShort
    <2>1. /\ UNCHANGED <<beat, battery, events, skipped, pauses>>
          /\ step # "delta" /\ step' # "delta"
      BY <1>6 DEF SubstrateTick, MaybeCompose, ThetaShort
    <2> QED
      BY <1>1, <2>1 DEF Passed
  <1>7. CASE DeltaPhi
    <2>1. /\ UNCHANGED <<battery, events, skipped, pauses>>
          /\ step = "delta" /\ step' = "idle" /\ beat' = beat + 1
      BY <1>7 DEF DeltaPhi
    <2>2. Passed' = Passed
      <3>1. /\ Passed' = {b \in 1..(beat + 1) : b % Period = 0 /\ b < beat + 1}
            /\ Passed = {b \in 1..beat : b % Period = 0}
        BY <1>a, <2>1 DEF Passed
      <3>2. \A b : b \in 1..(beat + 1) /\ b < beat + 1 <=> b \in 1..beat
        BY <1>a
      <3> QED
        BY <3>1, <3>2
    <2> QED
      BY <1>1, <2>1, <2>2
  <1> QED
    BY <1>2, <1>3, <1>4, <1>5, <1>6, <1>7, ScheduleTurn DEF Next

\* The budget may delay an event or a reading, and loses neither, for every period,
\* window and battery.
THEOREM NothingLost == Spec => []DelayedNotLost
  <1>1. Init => ClockInv /\ WarmInv /\ ReadInv
    BY ConstantFacts DEF Init, ClockInv, WarmInv, ReadInv, Events
  <1>2. Init => ScheduleInv
    <2> SUFFICES ASSUME Init
                 PROVE  ScheduleInv
      OBVIOUS
    <2>1. Internal = {} /\ Passed = {} /\ battery = 0 /\ skipped = 0
      BY DEF Init, Internal, Events, Passed
    <2> QED
      BY <2>1, FS_EmptySet DEF ScheduleInv
  <1>3. TypeInv /\ ScheduleInv => ScheduleKept
    <2> SUFFICES ASSUME TypeInv, ScheduleInv
                 PROVE  ScheduleKept
      OBVIOUS
    <2>1. ASSUME step = "idle"
          PROVE  Passed = {b \in 1..(beat - 1) : b % Period = 0}
      <3>1. Passed = {b \in 1..beat : b % Period = 0 /\ b < beat} /\ beat \in Nat
        BY <2>1, BeatFacts DEF Passed
      <3>2. \A b : b \in 1..beat /\ b < beat <=> b \in 1..(beat - 1)
        BY <3>1
      <3> QED
        BY <3>1, <3>2
    <2>2. step = "idle" /\ pauses = 0 =>
            Cardinality(Internal) + skipped
              = Cardinality({b \in 1..(beat - 1) : b % Period = 0})
      BY <2>1 DEF ScheduleInv
    <2> QED
      BY <2>2 DEF ScheduleKept, ScheduleInv, Turn
  <1>4. TypeInv /\ ReadInv /\ ScheduleInv => DelayedNotLost
    BY <1>3, ReadInTime DEF DelayedNotLost
  <1> QED
    BY <1>1, <1>2, <1>4, TypeInit, TypeStep, ClockStep, WarmStep, ReadStep, ScheduleStep,
       PTL DEF Spec
=============================================================================
