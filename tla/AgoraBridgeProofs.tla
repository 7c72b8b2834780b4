------------------------- MODULE AgoraBridgeProofs -------------------------
(***************************************************************************)
(* TLAPS proofs about AgoraBridge, for any set of messages, any limits and  *)
(* any number of repeated deliveries: the types with the two load limits,   *)
(* that the bridge implements Replies, and what follows from that for each  *)
(* message.                                                                 *)
(***************************************************************************)
EXTENDS AgoraBridge, SequenceTheorems, FiniteSetTheorems, TLAPS

Distinct(s) == \A i, j \in 1..Len(s) : s[i] = s[j] => i = j
Answerable == {"thread", "whisper", "masked"}

\* What TypeOK and the refinement need to be inductive: a message waits in the
\* inbox once and before it has a task, a task belongs to a message that can be
\* answered, and a reply was posted only by a task that has ended.
BridgeInv ==
    /\ TypeOK
    /\ IsFiniteSet(InFlight)
    /\ Distinct(inbox) /\ Range(inbox) \subseteq seen
    /\ Distinct(queue)
    /\ \A m \in Range(inbox) : task[m] = "none"
    /\ \A m \in Messages : task[m] # "none" => m \in seen /\ kind[m] \in Answerable
    /\ \A m \in Messages : posts[m] # <<>> => task[m] \in {"finished", "gone"}
    /\ stopper = "closed" => \A m \in Messages : task[m] \notin Live

-----------------------------------------------------------------------------
(***************************************************************************)
(* Queues                                                                  *)
(***************************************************************************)

\* A sequence takes in one element more.
LEMMA Appended ==
    ASSUME NEW S, NEW s \in Seq(S), NEW e \in S
    PROVE  /\ Append(s, e) \in Seq(S)
           /\ Range(Append(s, e)) = Range(s) \cup {e}
           /\ Distinct(s) /\ e \notin Range(s) => Distinct(Append(s, e))
  <1> DEFINE t == Append(s, e)
  <1>1. /\ t \in Seq(S) /\ Len(t) = Len(s) + 1 /\ Len(s) \in Nat
        /\ \A i \in 1..Len(s) : t[i] = s[i]
        /\ t[Len(s) + 1] = e
        /\ DOMAIN s = 1..Len(s) /\ DOMAIN t = 1..(Len(s) + 1)
    BY AppendProperties, LenProperties
  <1> HIDE DEF t
  <1>2. Range(t) = Range(s) \cup {e}
    BY <1>1 DEF Range
  <1>3. ASSUME Distinct(s), e \notin Range(s) PROVE Distinct(t)
    BY <1>1, <1>3 DEF Distinct, Range
  <1> QED
    BY <1>1, <1>2, <1>3 DEF t

\* A sequence without repetition gives up its head.
LEMMA Shortened ==
    ASSUME NEW S, NEW s \in Seq(S), s # <<>>, Distinct(s)
    PROVE  /\ Head(s) \in S /\ Head(s) \in Range(s)
           /\ Tail(s) \in Seq(S)
           /\ Range(Tail(s)) = Range(s) \ {Head(s)}
           /\ Distinct(Tail(s))
  <1> DEFINE t == Tail(s)
  <1>1. /\ Head(s) = s[1] /\ Head(s) \in S /\ t \in Seq(S)
        /\ Len(s) \in Nat /\ Len(s) > 0 /\ Len(t) = Len(s) - 1
        /\ \A i \in 1..Len(t) : t[i] = s[i + 1]
        /\ DOMAIN s = 1..Len(s) /\ DOMAIN t = 1..Len(t)
    BY HeadTailProperties, LenProperties, EmptySeq
  <1> HIDE DEF t
  <1>2. Range(t) \subseteq Range(s) \ {Head(s)}
    <2> SUFFICES ASSUME NEW i \in 1..Len(t) PROVE t[i] \in Range(s) \ {s[1]}
      BY <1>1 DEF Range
    <2>1. i + 1 \in 1..Len(s) /\ t[i] = s[i + 1]
      BY <1>1
    <2> QED
      BY <1>1, <2>1 DEF Range, Distinct
  <1>3. Range(s) \ {Head(s)} \subseteq Range(t)
    <2> SUFFICES ASSUME NEW i \in 1..Len(s), i # 1 PROVE s[i] \in Range(t)
      BY <1>1 DEF Range
    <2>1. i - 1 \in 1..Len(t) /\ t[i - 1] = s[i]
      BY <1>1
    <2> QED
      BY <1>1, <2>1 DEF Range
  <1>4. Distinct(t)
    BY <1>1 DEF Distinct
  <1>5. Head(s) \in Range(s)
    BY <1>1 DEF Range
  <1> QED
    BY <1>1, <1>2, <1>3, <1>4, <1>5 DEF t

-----------------------------------------------------------------------------
(***************************************************************************)
(* The load limits                                                         *)
(***************************************************************************)

\* The tasks that hold the semaphore are among those in flight.
LEMMA HoldersFinite ==
    ASSUME IsFiniteSet(InFlight)
    PROVE  /\ IsFiniteSet(Holders)
           /\ Cardinality(Holders) \in Nat /\ Cardinality(InFlight) \in Nat
  <1>1. Holders \subseteq InFlight
    BY DEF Holders, InFlight, Live
  <1> QED
    BY <1>1, FS_Subset, FS_CardinalityType

\* A step that makes no task hold the semaphore or be in flight keeps the limits.
LEMMA FewerKeepsLimits ==
    ASSUME BridgeInv, InFlight' \subseteq InFlight, Holders' \subseteq Holders
    PROVE  /\ IsFiniteSet(InFlight)'
           /\ Cardinality(Holders') <= MaxConcurrent
           /\ Cardinality(InFlight') <= MaxQueued
  <1>1. IsFiniteSet(InFlight) /\ IsFiniteSet(Holders)
        /\ Cardinality(Holders) <= MaxConcurrent /\ Cardinality(InFlight) <= MaxQueued
    BY HoldersFinite DEF BridgeInv, TypeOK
  <1>2. /\ IsFiniteSet(InFlight') /\ Cardinality(InFlight') <= Cardinality(InFlight)
        /\ IsFiniteSet(Holders') /\ Cardinality(Holders') <= Cardinality(Holders)
    BY <1>1, FS_Subset
  <1>3. /\ Cardinality(Holders) \in Nat /\ Cardinality(InFlight) \in Nat
        /\ Cardinality(Holders') \in Nat /\ Cardinality(InFlight') \in Nat
    BY <1>1, <1>2, FS_CardinalityType
  <1> QED
    BY <1>1, <1>2, <1>3, BridgeAssumption

\* A task that stops waiting, working or being remembered leaves the sets as they
\* are or smaller.
LEMMA EndingShrinks ==
    ASSUME BridgeInv, NEW m \in Messages, NEW s \in {"posting", "finished", "gone"},
           Becomes(m, s), task[m] \in Live \cup {"finished"},
           s = "posting" => task[m] \in Working
    PROVE  /\ InFlight' \subseteq InFlight /\ Holders' \subseteq Holders
           /\ \A n \in Messages \ {m} : task'[n] = task[n]
           /\ task'[m] = s
           /\ task' \in [Messages -> Live \cup {"none", "finished", "gone"}]
  BY DEF BridgeInv, TypeOK, InFlight, Holders, Becomes, Live, Working

-----------------------------------------------------------------------------
(***************************************************************************)
(* The inductive invariant                                                 *)
(***************************************************************************)

LEMMA InitInv == Init => BridgeInv
  <1> SUFFICES ASSUME Init PROVE BridgeInv
    OBVIOUS
  <1>1. InFlight = {} /\ Holders = {}
    BY DEF Init, InFlight, Holders, Live, Working
  <1>2. IsFiniteSet(InFlight) /\ Cardinality(InFlight) = 0 /\ Cardinality(Holders) = 0
    BY <1>1, FS_EmptySet
  <1>3. Range(<<>>) = {} /\ Distinct(<<>>) /\ <<>> \in Seq(Messages)
    BY DEF Range, Distinct
  <1>4. \A m \in Messages : task[m] = "none" /\ posts[m] = <<>>
    BY DEF Init
  <1>5. TypeOK
    BY <1>2, <1>3, <1>4, BridgeAssumption DEF Init, TypeOK
  <1> QED
    BY <1>2, <1>3, <1>4, <1>5 DEF Init, BridgeInv

LEMMA DeliverInv ==
    ASSUME BridgeInv, NEW m \in Messages, Deliver(m)
    PROVE  BridgeInv'
  <1>1. InFlight' = InFlight /\ Holders' = Holders
    BY DEF Deliver, InFlight, Holders
  <1>2. again' \in 0..MaxAgain
    BY BridgeAssumption DEF Deliver, Arrives, BridgeInv, TypeOK
  <1>3. /\ inbox' \in Seq(Messages) /\ Distinct(inbox')
        /\ Range(inbox') \subseteq seen'
        /\ \A n \in Range(inbox') : task'[n] = "none"
    <2>1. CASE m \in seen
      BY <2>1 DEF Deliver, BridgeInv, TypeOK
    <2>2. CASE m \notin seen
      <3>1. Range(inbox') = Range(inbox) \cup {m} /\ inbox' \in Seq(Messages)
            /\ Distinct(inbox')
        BY <2>2, Appended DEF Deliver, BridgeInv, TypeOK
      <3> QED
        BY <2>2, <3>1 DEF Deliver, BridgeInv
    <2> QED
      BY <2>1, <2>2
  <1>4. TypeOK'
    BY <1>1, <1>2, <1>3 DEF Deliver, BridgeInv, TypeOK, NotCancelled
  <1> QED
    BY <1>1, <1>3, <1>4 DEF Deliver, BridgeInv

LEMMA LoopTakesInv ==
    ASSUME BridgeInv, LoopTakes
    PROVE  BridgeInv'
  <1> DEFINE m == Head(inbox)
  <1>1. /\ m \in Messages /\ m \in Range(inbox) /\ inbox' \in Seq(Messages)
        /\ Range(inbox') = Range(inbox) \ {m} /\ Distinct(inbox')
    BY Shortened DEF LoopTakes, BridgeInv, TypeOK
  <1>2. task[m] = "none" /\ m \in seen /\ posts[m] = <<>>
    BY <1>1 DEF BridgeInv
  <1>3. CASE UNCHANGED <<task, queue>>
    <2>1. InFlight' = InFlight /\ Holders' = Holders
      BY <1>3 DEF InFlight, Holders
    <2>2. TypeOK'
      BY <1>1, <1>3, <2>1 DEF LoopTakes, BridgeInv, TypeOK, NotCancelled
    <2> QED
      BY <1>1, <1>3, <2>1, <2>2 DEF LoopTakes, BridgeInv
  <1>4. CASE /\ kind[m] \in Answerable
             /\ Cardinality(InFlight) < MaxQueued
             /\ task' = [task EXCEPT ![m] = "waiting"] /\ queue' = Append(queue, m)
             /\ UNCHANGED loop
    <2>1. /\ task' \in [Messages -> Live \cup {"none", "finished", "gone"}]
          /\ task'[m] = "waiting" /\ \A n \in Messages \ {m} : task'[n] = task[n]
      BY <1>1, <1>4 DEF BridgeInv, TypeOK, Live
    <2>2. Holders' = Holders
      BY <1>2, <2>1 DEF Holders, Working
    <2>3. InFlight' = InFlight \cup {m}
      BY <1>1, <2>1 DEF InFlight, Live
    <2>4. IsFiniteSet(InFlight') /\ Cardinality(InFlight') <= MaxQueued
      <3>1. IsFiniteSet(InFlight) /\ Cardinality(InFlight) \in Nat
        BY HoldersFinite DEF BridgeInv
      <3>2. m \notin InFlight
        BY <1>2 DEF InFlight, Live, Working
      <3>3. IsFiniteSet(InFlight') /\ Cardinality(InFlight') = Cardinality(InFlight) + 1
        BY <2>3, <3>1, <3>2, FS_AddElement
      <3> QED
        BY <1>4, <3>1, <3>3, BridgeAssumption
    <2>5. NotCancelled /\ Range(queue) = {n \in Messages : task[n] = "waiting"}
      BY DEF LoopTakes, BridgeInv, TypeOK, NotCancelled
    <2>6. /\ queue' \in Seq(Messages) /\ Range(queue') = Range(queue) \cup {m}
          /\ Distinct(queue')
      <3>1. m \notin Range(queue)
        BY <1>2, <2>5
      <3> QED
        BY <1>1, <1>4, <3>1, Appended DEF BridgeInv, TypeOK
    <2>7. Range(queue') = {n \in Messages : task'[n] = "waiting"}
      BY <1>1, <2>1, <2>5, <2>6
    <2>8. TypeOK'
      BY <1>1, <1>4, <2>1, <2>2, <2>4, <2>6, <2>7
      DEF LoopTakes, BridgeInv, TypeOK, NotCancelled
    <2>9. /\ \A n \in Messages : task'[n] # "none" => n \in seen' /\ kind'[n] \in Answerable
          /\ \A n \in Messages : posts'[n] # <<>> => task'[n] \in {"finished", "gone"}
          /\ stopper' = "none"
          /\ \A n \in Range(inbox') : task'[n] = "none"
          /\ Range(inbox') \subseteq seen'
      <3>1. Range(inbox) \subseteq Messages
        BY DEF BridgeInv, TypeOK
      <3> QED
        BY <1>1, <1>2, <1>4, <2>1, <3>1 DEF LoopTakes, BridgeInv
    <2> QED
      BY <1>1, <2>4, <2>6, <2>8, <2>9 DEF BridgeInv
  <1> QED
    BY <1>3, <1>4 DEF LoopTakes, Answerable

LEMMA AcquireInv ==
    ASSUME BridgeInv, NEW m \in Messages, Acquire(m)
    PROVE  BridgeInv'
  <1>1. /\ m \in Range(queue) /\ queue' \in Seq(Messages)
        /\ Range(queue') = Range(queue) \ {m} /\ Distinct(queue')
    BY Shortened DEF Acquire, BridgeInv, TypeOK
  <1>2. NotCancelled /\ Range(queue) = {n \in Messages : task[n] = "waiting"}
    BY DEF Acquire, BridgeInv, TypeOK
  <1>3. task[m] = "waiting"
    BY <1>1, <1>2
  <1>4. /\ task' \in [Messages -> Live \cup {"none", "finished", "gone"}]
        /\ task'[m] = "generating" /\ \A n \in Messages \ {m} : task'[n] = task[n]
    BY DEF Acquire, Becomes, BridgeInv, TypeOK, Live, Working
  <1>5. InFlight' = InFlight
    BY <1>3, <1>4 DEF InFlight, Live, Working
  <1>6. Cardinality(Holders') <= MaxConcurrent
    <2>1. Holders' = Holders \cup {m} /\ m \notin Holders
      BY <1>3, <1>4 DEF Holders, Working
    <2>2. IsFiniteSet(Holders) /\ Cardinality(Holders) \in Nat
      BY HoldersFinite DEF BridgeInv
    <2>3. Cardinality(Holders') = Cardinality(Holders) + 1
      BY <2>1, <2>2, FS_AddElement
    <2> QED
      BY <2>2, <2>3, BridgeAssumption DEF Acquire
  <1>7. Range(queue') = {n \in Messages : task'[n] = "waiting"}
    BY <1>1, <1>2, <1>4
  <1>8. TypeOK'
    BY <1>1, <1>4, <1>5, <1>6, <1>7 DEF Acquire, BridgeInv, TypeOK, NotCancelled
  <1>9. /\ \A n \in Messages : task'[n] # "none" => n \in seen' /\ kind'[n] \in Answerable
        /\ \A n \in Messages : posts'[n] # <<>> => task'[n] \in {"finished", "gone"}
        /\ stopper' # "closed"
    BY <1>3, <1>4 DEF Acquire, BridgeInv, NotCancelled
  <1>10. \A n \in Range(inbox') : task'[n] = "none"
    <2>1. Range(inbox) \subseteq Messages
      BY DEF BridgeInv, TypeOK
    <2>2. inbox' = inbox
      BY DEF Acquire
    <2> QED
      BY <1>3, <1>4, <2>1, <2>2 DEF BridgeInv
  <1> QED
    BY <1>1, <1>5, <1>8, <1>9, <1>10 DEF Acquire, BridgeInv

\* A task that goes on to post or ends, with or without a reply posted.
LEMMA EndingInv ==
    ASSUME BridgeInv, NEW m \in Messages, NEW s \in {"posting", "finished", "gone"},
           Becomes(m, s), task[m] \in Live \cup {"finished"},
           s = "posting" => NotCancelled /\ task[m] \in Working /\ UNCHANGED posts,
           task[m] = "waiting" => ~NotCancelled,
           \/ s = "finished" /\ task[m] = "posting" /\ HubPosts(m)
           \/ UNCHANGED posts,
           UNCHANGED <<kind, again, seen, inbox, starter, loop, queue, stopper>>
    PROVE  BridgeInv'
  <1>1. /\ InFlight' \subseteq InFlight /\ Holders' \subseteq Holders
        /\ \A n \in Messages \ {m} : task'[n] = task[n]
        /\ task'[m] = s
        /\ task' \in [Messages -> Live \cup {"none", "finished", "gone"}]
    BY EndingShrinks
  <1>2. /\ IsFiniteSet(InFlight)'
        /\ Cardinality(Holders') <= MaxConcurrent /\ Cardinality(InFlight') <= MaxQueued
    BY <1>1, FewerKeepsLimits
  <1>3. /\ posts' \in [Messages -> Seq({"thread", "author"})]
        /\ \A n \in Messages \ {m} : posts'[n] = posts[n]
    <2>1. CASE UNCHANGED posts
      BY <2>1 DEF BridgeInv, TypeOK
    <2>2. CASE HubPosts(m)
      <3>1. Audience(m) \in {"thread", "author"} /\ posts[m] \in Seq({"thread", "author"})
        BY DEF Audience, BridgeInv, TypeOK
      <3>2. Append(posts[m], Audience(m)) \in Seq({"thread", "author"})
        BY <3>1, AppendProperties
      <3> QED
        BY <2>2, <3>2 DEF HubPosts, BridgeInv, TypeOK
    <2> QED
      BY <2>1, <2>2
  <1>4. NotCancelled' => Range(queue') = {n \in Messages : task'[n] = "waiting"}
    BY <1>1 DEF BridgeInv, TypeOK, NotCancelled
  <1>5. TypeOK'
    BY <1>1, <1>2, <1>3, <1>4 DEF BridgeInv, TypeOK
  <1>6. \A n \in Messages : posts'[n] # <<>> => task'[n] \in {"finished", "gone"}
    BY <1>1, <1>3 DEF BridgeInv, Live, Working
  <1>7. task[m] # "none"
    BY DEF Live, Working
  <1>8. \A n \in Messages : task'[n] # "none" => n \in seen' /\ kind'[n] \in Answerable
    BY <1>1, <1>7 DEF BridgeInv
  <1>9. \A n \in Range(inbox') : task'[n] = "none"
    <2>1. Range(inbox) \subseteq Messages
      BY DEF BridgeInv, TypeOK
    <2> QED
      BY <1>1, <1>7, <2>1 DEF BridgeInv
  <1>10. stopper' = "closed" => \A n \in Messages : task'[n] \notin Live
    BY <1>1 DEF BridgeInv, NotCancelled, Live, Working
  <1> QED
    BY <1>2, <1>5, <1>6, <1>8, <1>9, <1>10 DEF BridgeInv

LEMMA TaskInv ==
    ASSUME BridgeInv, NEW m \in Messages,
           Generate(m) \/ Post(m) \/ Discard(m) \/ Cancelled(m)
    PROVE  BridgeInv'
  <1>1. CASE Generate(m)
    BY <1>1, EndingInv DEF Generate, Live, Working
  <1>2. CASE Post(m)
    BY <1>2, EndingInv DEF Post, Live, Working
  <1>3. CASE Discard(m)
    BY <1>3, EndingInv DEF Discard
  <1>4. CASE Cancelled(m)
    BY <1>4, EndingInv DEF Cancelled, Live, Working, NotCancelled
  <1> QED
    BY <1>1, <1>2, <1>3, <1>4

\* Starting and stopping change no task and no message.
LEMMA OtherInv ==
    ASSUME BridgeInv,
           \/ StartConnects \/ StartSubscribes
           \/ StopBegins \/ StopCancels \/ StopCloses
           \/ UNCHANGED vars
    PROVE  BridgeInv'
  <1>1. UNCHANGED <<kind, again, seen, inbox, task, posts>>
    BY DEF StartConnects, StartSubscribes, StopBegins, StopCancels, StopCloses, vars
  <1>2. InFlight' = InFlight /\ Holders' = Holders
    BY <1>1 DEF InFlight, Holders
  <1>3. queue' \in Seq(Messages) /\ Distinct(queue')
    <2>1. <<>> \in Seq(Messages) /\ Distinct(<<>>)
      BY DEF Distinct
    <2>2. queue' = queue \/ queue' = <<>>
      BY DEF StartConnects, StartSubscribes, StopBegins, StopCancels, StopCloses, vars
    <2> QED
      BY <2>1, <2>2 DEF BridgeInv, TypeOK
  <1>4. /\ starter' \in {"connecting", "subscribing", "started", "failed"}
        /\ loop' \in {"none", "running", "dead", "ended"}
        /\ stopper' \in {"none", "loop", "tasks", "closed"}
    BY DEF StartConnects, StartSubscribes, StopBegins, StopCancels, StopCloses, vars,
           BridgeInv, TypeOK
  <1>5. NotCancelled' => NotCancelled /\ queue' = queue
    BY DEF StartConnects, StartSubscribes, StopBegins, StopCancels, StopCloses, vars,
           NotCancelled
  <1>6. TypeOK'
    BY <1>1, <1>2, <1>3, <1>4, <1>5 DEF BridgeInv, TypeOK
  <1>7. stopper' = "closed" => \A m \in Messages : task'[m] \notin Live
    BY <1>1 DEF StartConnects, StartSubscribes, StopBegins, StopCancels, StopCloses, vars,
                BridgeInv
  <1> QED
    BY <1>1, <1>2, <1>3, <1>6, <1>7 DEF BridgeInv

LEMMA StepInv == BridgeInv /\ [Next]_vars => BridgeInv'
  BY DeliverInv, LoopTakesInv, AcquireInv, TaskInv, OtherInv DEF Next, TaskSteps

LEMMA InvHolds == Spec => []BridgeInv
  BY InitInv, StepInv, PTL DEF Spec

\* Every variable has its type, and never do more reply tasks exist or more of
\* them work than the two limits of the bridge say (AgoraBridge._inflight, _sem).
THEOREM TypeCorrect == Spec => []TypeOK
  <1>1. BridgeInv => TypeOK
    BY DEF BridgeInv
  <1> QED
    BY <1>1, InvHolds, PTL

-----------------------------------------------------------------------------
(***************************************************************************)
(* The bridge implements Replies                                           *)
(***************************************************************************)

LEMMA InitImplements == Init => Promise!Init
  BY DEF Init, Promise!Init, Kinds, Promise!Kinds, Fate

\* A step that moves nothing the other citizens see is a stutter.
LEMMA Hidden ==
    ASSUME UNCHANGED <<kind, seen, posts>>, \A n \in Messages : Owed(n)' <=> Owed(n),
           stopper' # "closed" <=> stopper # "closed"
    PROVE  UNCHANGED Promise!vars
  <1>1. Fate' = Fate
    BY DEF Fate
  <1> QED
    BY <1>1 DEF Promise!vars

\* A message that is no longer owed and was not answered has been set aside.
LEMMA SetsAside ==
    ASSUME NEW m \in Messages, m \in seen, posts[m] = <<>>,
           UNCHANGED <<kind, seen, posts, stopper>>, Owed(m),
           \A n \in Messages \ {m} : Owed(n)' <=> Owed(n)
    PROVE  Promise!SetAside(m) \/ UNCHANGED Promise!vars
  <1>1. CASE Owed(m)'
    BY <1>1, Hidden
  <1>2. CASE ~Owed(m)'
    <2>1. Fate[m] = "owed"
      BY DEF Fate
    <2>2. Fate' = [Fate EXCEPT ![m] = "aside"]
      BY <1>2 DEF Fate
    <2> QED
      BY <2>1, <2>2 DEF Promise!SetAside
  <1> QED
    BY <1>1, <1>2

\* A message whose one post the hub carried out has been answered where it was
\* asked.
LEMMA Answers ==
    ASSUME BridgeInv, NEW m \in Messages, task[m] = "posting", HubPosts(m),
           UNCHANGED <<kind, seen, inbox, stopper>>, Becomes(m, "finished"),
           stopper # "closed"
    PROVE  Promise!Answer(m)
  <1>1. m \in seen /\ kind[m] \in Answerable /\ posts[m] = <<>>
    BY DEF BridgeInv
  <1>2. Fate[m] = "owed"
    BY <1>1 DEF Fate, Owed, Live, Working
  <1>3. Append(posts[m], Audience(m)) = <<Promise!Place(kind[m])>>
    BY <1>1 DEF Audience, Promise!Place
  <1>4. posts' = [posts EXCEPT ![m] = <<Promise!Place(kind[m])>>]
    BY <1>3 DEF HubPosts
  <1>5. \A n \in Messages \ {m} : (Owed(n)' <=> Owed(n)) /\ posts'[n] = posts[n]
    BY <1>4 DEF Owed, Becomes, BridgeInv, TypeOK
  <1>6. posts'[m] # <<>>
    BY <1>4 DEF BridgeInv, TypeOK
  <1>7. Fate' = [Fate EXCEPT ![m] = "answered"]
    BY <1>5, <1>6 DEF Fate
  <1> QED
    BY <1>1, <1>2, <1>4, <1>7 DEF Promise!Answer, Promise!Answerable, Answerable

LEMMA DeliverImplements ==
    ASSUME BridgeInv, NEW m \in Messages, Deliver(m)
    PROVE  Promise!Take(m) \/ UNCHANGED Promise!vars
  <1>1. CASE m \in seen
    <2>1. seen' = seen /\ inbox' = inbox
      BY <1>1 DEF Deliver
    <2> QED
      BY <2>1, Hidden DEF Deliver, Owed
  <1>2. CASE m \notin seen
    <2>1. inbox \in Seq(Messages) /\ Range(inbox') = Range(inbox) \cup {m}
      BY <1>2, Appended DEF Deliver, BridgeInv, TypeOK
    <2>2. task[m] = "none" /\ posts[m] = <<>>
      BY <1>2 DEF BridgeInv
    <2>3. Fate[m] = "unseen"
      BY <1>2, <2>2 DEF Fate
    <2>4. Owed(m)' /\ \A n \in Messages \ {m} : Owed(n)' <=> Owed(n)
      BY <2>1 DEF Owed, Deliver
    <2>5. Fate' = [Fate EXCEPT ![m] = "owed"]
      BY <1>2, <2>2, <2>4 DEF Fate, Deliver
    <2> QED
      BY <2>3, <2>5 DEF Promise!Take, Deliver
  <1> QED
    BY <1>1, <1>2

LEMMA LoopImplements ==
    ASSUME BridgeInv, LoopTakes
    PROVE  (\E m \in Messages : Promise!SetAside(m)) \/ UNCHANGED Promise!vars
  <1> DEFINE m == Head(inbox)
  <1>1. /\ m \in Messages /\ m \in Range(inbox)
        /\ Range(inbox') = Range(inbox) \ {m}
    BY Shortened DEF LoopTakes, BridgeInv, TypeOK
  <1>2. m \in seen /\ posts[m] = <<>> /\ Owed(m)
    BY <1>1 DEF BridgeInv, Owed
  <1>3. UNCHANGED task \/ task' = [task EXCEPT ![m] = "waiting"]
    BY DEF LoopTakes
  <1>4. \A n \in Messages \ {m} : Owed(n)' <=> Owed(n)
    BY <1>1, <1>3 DEF Owed, BridgeInv, TypeOK
  <1>5. UNCHANGED <<kind, seen, posts, stopper>>
    BY DEF LoopTakes
  <1> QED
    BY <1>1, <1>2, <1>4, <1>5, SetsAside

LEMMA AcquireImplements ==
    ASSUME BridgeInv, NEW m \in Messages, Acquire(m)
    PROVE  UNCHANGED Promise!vars
  <1>1. m \in Range(queue)
    BY Shortened DEF Acquire, BridgeInv, TypeOK
  <1>2. task[m] = "waiting"
    BY <1>1 DEF Acquire, BridgeInv, TypeOK
  <1>3. \A n \in Messages : Owed(n)' <=> Owed(n)
    BY <1>2 DEF Acquire, Becomes, Owed, BridgeInv, TypeOK, Live, Working
  <1> QED
    BY <1>3, Hidden DEF Acquire

LEMMA TaskImplements ==
    ASSUME BridgeInv, NEW m \in Messages,
           Generate(m) \/ Post(m) \/ Discard(m) \/ Cancelled(m)
    PROVE  Promise!Answer(m) \/ Promise!SetAside(m) \/ UNCHANGED Promise!vars
  <1>1. m \in seen /\ (posts[m] # <<>> => task[m] \in {"finished", "gone"})
    BY DEF BridgeInv, Generate, Post, Discard, Cancelled, Live, Working
  <1>2. \A n \in Messages \ {m} : Owed(n)' <=> Owed(n)
    BY DEF Generate, Post, Discard, Cancelled, Becomes, Owed, BridgeInv, TypeOK
  <1>3. CASE Discard(m)
    <2>1. Owed(m)' <=> Owed(m)
      BY <1>3 DEF Discard, Becomes, Owed, BridgeInv, TypeOK, Live, Working
    <2> QED
      BY <1>2, <1>3, <2>1, Hidden DEF Discard
  <1>4. CASE /\ Generate(m) \/ Post(m) \/ Cancelled(m)
             /\ UNCHANGED posts
    <2>1. posts[m] = <<>> /\ Owed(m) /\ UNCHANGED <<kind, seen, posts, stopper>>
      BY <1>1, <1>4 DEF Generate, Post, Cancelled, Owed, Live, Working
    <2> QED
      BY <1>1, <1>2, <2>1, SetsAside
  <1>5. CASE (Post(m) \/ Cancelled(m)) /\ task[m] = "posting" /\ HubPosts(m)
    <2>1. stopper # "closed"
      BY <1>5 DEF BridgeInv, Live, Working
    <2>2. UNCHANGED <<kind, seen, inbox, stopper>> /\ Becomes(m, "finished")
      BY <1>5 DEF Post, Cancelled
    <2> QED
      BY <1>5, <2>1, <2>2, Answers
  <1> QED
    BY <1>3, <1>4, <1>5 DEF Generate, Post, Cancelled

LEMMA OtherImplements ==
    ASSUME \/ StartConnects \/ StartSubscribes
           \/ StopBegins \/ StopCancels \/ StopCloses
           \/ UNCHANGED vars
    PROVE  Promise!Close \/ UNCHANGED Promise!vars
  <1>1. UNCHANGED <<kind, seen, inbox, task, posts>>
    BY DEF StartConnects, StartSubscribes, StopBegins, StopCancels, StopCloses, vars
  <1>2. Fate' = Fate /\ \A n \in Messages : Owed(n)' <=> Owed(n)
    BY <1>1 DEF Fate, Owed
  <1>3. CASE StopCloses
    BY <1>1, <1>2, <1>3 DEF StopCloses, Promise!Close
  <1>4. CASE \/ StartConnects \/ StartSubscribes \/ StopBegins \/ StopCancels
             \/ UNCHANGED vars
    <2>1. stopper' # "closed" <=> stopper # "closed"
      BY <1>4 DEF StartConnects, StartSubscribes, StopBegins, StopCancels, vars
    <2> QED
      BY <1>1, <1>2, <2>1, Hidden
  <1> QED
    BY <1>3, <1>4

LEMMA StepImplements ==
    BridgeInv /\ [Next]_vars => [Promise!Next]_(Promise!vars)
  <1> SUFFICES ASSUME BridgeInv, [Next]_vars
               PROVE  Promise!Next \/ UNCHANGED Promise!vars
    OBVIOUS
  <1>1. ASSUME NEW m \in Messages, Deliver(m)
        PROVE  Promise!Next \/ UNCHANGED Promise!vars
    BY <1>1, DeliverImplements DEF Promise!Next
  <1>2. ASSUME NEW m \in Messages, TaskSteps(m)
        PROVE  Promise!Next \/ UNCHANGED Promise!vars
    BY <1>2, AcquireImplements, TaskImplements DEF TaskSteps, Promise!Next
  <1>3. CASE LoopTakes
    BY <1>3, LoopImplements DEF Promise!Next
  <1>4. CASE \/ StartConnects \/ StartSubscribes
             \/ StopBegins \/ StopCancels \/ StopCloses
             \/ UNCHANGED vars
    BY <1>4, OtherImplements DEF Promise!Next
  <1> QED
    BY <1>1, <1>2, <1>3, <1>4 DEF Next

\* The bridge keeps the promise of Replies: whatever is delivered, in whatever
\* order its tasks run and whenever it is stopped, a message is answered at most
\* once, where it was asked, never after it was set aside and never after stop
\* has returned (AgoraBridge._run_loop, _handle_inner, stop).
THEOREM BridgeImplements == Spec => ImplementsReplies
  BY InitImplements, InvHolds, StepImplements, PTL
  DEF Spec, ImplementsReplies, Promise!Spec

-----------------------------------------------------------------------------
(***************************************************************************)
(* What follows from the promise                                           *)
(***************************************************************************)

\* A reply that is posted is one, to the place where it was asked for, and to a
\* message of others that has a text and an author.
AnsweredRight == \A m \in Messages : posts[m] # <<>> =>
    posts[m] = <<Audience(m)>> /\ kind[m] \in Answerable

\* What Replies allows keeps it.
LEMMA PromiseAnswers ==
    ASSUME TypeOK, AnsweredRight, [Promise!Next]_(Promise!vars)
    PROVE  AnsweredRight'
  <1>1. UNCHANGED kind
    BY DEF Promise!Next, Promise!Take, Promise!SetAside, Promise!Answer, Promise!Close,
       Promise!vars
  <1>2. CASE \E m \in Messages : Promise!Answer(m)
    <2>1. PICK m \in Messages : Promise!Answer(m)
      BY <1>2
    <2>2. /\ kind[m] \in Answerable
          /\ posts'[m] = <<Audience(m)>>
          /\ \A n \in Messages \ {m} : posts'[n] = posts[n]
      BY <2>1 DEF Promise!Answer, Promise!Answerable, Promise!Place, Answerable, Audience,
         TypeOK
    <2> QED
      BY <1>1, <2>2 DEF AnsweredRight, Audience
  <1>3. CASE UNCHANGED posts
    BY <1>1, <1>3 DEF AnsweredRight, Audience
  <1> QED
    BY <1>2, <1>3 DEF Promise!Next, Promise!Take, Promise!SetAside, Promise!Close,
       Promise!vars

\* Every reply the hub carried out is the only one to its message and went where
\* that message can be answered (AgoraBridge._handle_inner).
THEOREM AnsweredWhereAsked == Spec => []AnsweredRight
  <1>1. Init => AnsweredRight
    BY DEF Init, AnsweredRight
  <1>2. TypeOK /\ AnsweredRight /\ [Promise!Next]_(Promise!vars) => AnsweredRight'
    BY PromiseAnswers
  <1>3. ImplementsReplies => [][Promise!Next]_(Promise!vars)
    BY PTL DEF ImplementsReplies, Promise!Spec
  <1>4. AnsweredRight /\ []TypeOK /\ [][Promise!Next]_(Promise!vars) => []AnsweredRight
    BY <1>2, PTL
  <1> QED
    BY <1>1, <1>3, <1>4, BridgeImplements, TypeCorrect, PTL DEF Spec

\* A message whose fate is settled keeps it, and what is posted stays as it is; so
\* does everything that was posted, once the bridge is closed.
FatesAreFinal ==
    [][/\ \A m \in Messages : Fate[m] \in {"answered", "aside"} =>
            Fate'[m] = Fate[m] /\ posts'[m] = posts[m]
       /\ stopper = "closed" => posts' = posts]_vars

\* What has been answered or set aside is not taken up again: not by a message the
\* hub sends once more after a reconnect, not by a task that ends late, not after
\* stop has returned (AgoraAgent._dispatch, AgoraBridge.stop).
THEOREM SettledForGood == Spec => FatesAreFinal
  <1> DEFINE Final == /\ \A m \in Messages : Fate[m] \in {"answered", "aside"} =>
                           Fate'[m] = Fate[m] /\ posts'[m] = posts[m]
                      /\ stopper = "closed" => posts' = posts
  <1>1. ASSUME TypeOK, [Promise!Next]_(Promise!vars)
        PROVE  Final
    <2>1. DOMAIN Fate = Messages /\ DOMAIN posts = Messages
      BY <1>1 DEF Fate, TypeOK
    <2>2. ASSUME NEW m \in Messages, Promise!Answer(m) PROVE Final
      BY <2>1, <2>2 DEF Promise!Answer
    <2>3. ASSUME NEW m \in Messages, Promise!Take(m) \/ Promise!SetAside(m) PROVE Final
      BY <2>1, <2>3 DEF Promise!Take, Promise!SetAside
    <2>4. CASE Promise!Close \/ UNCHANGED Promise!vars
      BY <2>4 DEF Promise!Close, Promise!vars
    <2> QED
      BY <1>1, <2>2, <2>3, <2>4 DEF Promise!Next
  <1>2. TypeOK /\ [Promise!Next]_(Promise!vars) => [Final]_vars
    BY <1>1
  <1>3. []TypeOK /\ [][Promise!Next]_(Promise!vars) => [][Final]_vars
    BY <1>2, PTL
  <1>4. ImplementsReplies => [][Promise!Next]_(Promise!vars)
    BY PTL DEF ImplementsReplies, Promise!Spec
  <1> QED
    BY <1>3, <1>4, BridgeImplements, TypeCorrect, PTL DEF FatesAreFinal
=============================================================================
