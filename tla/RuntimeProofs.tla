--------------------------- MODULE RuntimeProofs ---------------------------
(***************************************************************************)
(* TLAPS proofs about the application at run time: Lifecycle, which starts  *)
(* it and tears it down, and Oversight, which watches it in between; for    *)
(* any values of their constants.                                          *)
(*                                                                         *)
(* Lifecycle: types, and that the shutdown tears the services down in       *)
(* order.  Oversight: types, that every run of ignored suggestions gives    *)
(* one warning, and that an ineffective_throttle event is earned and none   *)
(* is missed.                                                              *)
(***************************************************************************)
EXTENDS Lifecycle, Oversight, SequenceTheorems, FiniteSetTheorems, TLAPS

-----------------------------------------------------------------------------
(***************************************************************************)
(* Lifecycle.                                                              *)
(***************************************************************************)
\* Where the main task still starts services, and where nothing is left of the
\* bridge.
Before == Starting \cup {"run"}
After == {"closeOllama", "stopRegistry", "stopHttp", "done"}

\* The bridge goes with the main task, and replies exist only while it is up or
\* being closed.
BridgeInv ==
    /\ bridge \notin {"up", "closing"} => replying = {}
    /\ bridge = "starting" => main = "bridge"
    /\ main = "bridge" => bridge \in {"none", "starting"}
    /\ bridge = "failed" <=> main = "unbridge"
    /\ bridge = "closing" => main \in {"stopBridge", "logout"}
    /\ main = "logout" => bridge = "closing" /\ replying = {}
    /\ main \in After => bridge \notin {"up", "closing"}

\* What the main task has closed stays closed.
TeardownInv ==
    /\ heart \in {"new", "beating"} => main = "run"
    /\ ollama = "closed" => main \in {"stopRegistry", "stopHttp", "done"}
    /\ main \in {"stopRegistry", "stopHttp", "done"} => ollama # "open"
    /\ main \in {"stopHttp", "done"} => client \in {"none", "ended", "dead"}
    /\ main = "done" => http # "serving"

\* The two halves of TypeOK.
Flags ==
    /\ bounded \in BOOLEAN /\ shutdown \in BOOLEAN /\ running \in BOOLEAN
    /\ busy \in BOOLEAN /\ agent \in BOOLEAN /\ degraded \in BOOLEAN
Places ==
    /\ main \in Starting \cup {"run"} \cup Teardown \cup {"done"}
    /\ signal \in {"none", "sent", "handled"} /\ heart \in {"off", "new", "beating", "over"}
    /\ beats \in 0..MaxBeats
    /\ bridge \in {"none", "starting", "up", "failed", "gone", "closing", "stopped", "abandoned"}
    /\ replying \subseteq Replies /\ ollama \in {"none", "open", "closed"}
    /\ http \in {"none", "off", "serving", "ended"}
    /\ client \in {"none", "off", "loop", "peers", "asleep", "ended", "dead"}
    /\ backoff \in 1..MaxBackoff
    /\ mood \in Moods /\ moods \in 0..MaxMoods
    /\ overruns \in 0..MaxLate

LEMMA TypeParts ==
    /\ TypeOK <=> Flags /\ Places
    /\ TypeOK' <=> Flags' /\ Places'
  BY DEF TypeOK, Flags, Places

LifeInv == TypeOK /\ BridgeInv /\ TeardownInv

-----------------------------------------------------------------------------
LEMMA BackoffType ==
    ASSUME backoff \in 1..MaxBackoff
    PROVE  Twice(backoff) \in 1..MaxBackoff /\ 1 \in 1..MaxBackoff
  BY LifecycleAssumption DEF Twice

LEMMA InitInv == Init => LifeInv
  <1> SUFFICES ASSUME Init PROVE LifeInv
    OBVIOUS
  <1>1. TypeOK
    <2>1. Flags
      BY DEF Init, Flags
    <2>2. Places
      BY LifecycleAssumption DEF Init, Places, Starting
    <2> QED
      BY <2>1, <2>2, TypeParts
  <1>2. BridgeInv
    BY DEF Init, BridgeInv, After
  <1>3. TeardownInv
    BY DEF Init, TeardownInv
  <1> QED
    BY <1>1, <1>2, <1>3 DEF LifeInv

\* Every step keeps the flags.
LEMMA FlagsStep ==
    ASSUME Flags, [Next]_vars
    PROVE  Flags'
  <1>1. CASE SignalSent
    BY <1>1 DEF SignalSent, Flags, mainVars, heartVars, serviceVars, registryVars, moodVars
  <1>2. CASE SignalHandled
    BY <1>2 DEF SignalHandled, Flags, mainVars, heartVars, serviceVars, registryVars, moodVars
  <1>3. CASE RegistryChanges
    BY <1>3 DEF RegistryChanges, Flags, mainVars, heartVars, serviceVars, registryVars, moodVars
  <1>4. CASE StartBridge
    BY <1>4 DEF StartBridge, Flags, mainVars, heartVars, serviceVars, registryVars, moodVars
  <1>5. CASE StartBridgeFailed
    BY <1>5 DEF StartBridgeFailed, Flags, mainVars, heartVars, serviceVars, registryVars, moodVars
  <1>6. CASE StartHttp
    BY <1>6 DEF StartHttp, Flags, mainVars, heartVars, serviceVars, registryVars, moodVars
  <1>7. CASE Register
    BY <1>7 DEF Register, Registers, Degrades, Flags, mainVars, heartVars, serviceVars, registryVars, moodVars
  <1>8. CASE Peers
    BY <1>8 DEF Peers, Flags, mainVars, heartVars, serviceVars, registryVars, moodVars
  <1>9. CASE Launch
    BY <1>9 DEF Launch, Flags, mainVars, heartVars, serviceVars, registryVars, moodVars
  <1>10. CASE RunEnds
    BY <1>10 DEF RunEnds, Woken, Flags, mainVars, heartVars, serviceVars, registryVars, moodVars
  <1>11. CASE StopBridge
    BY <1>11 DEF StopBridge, Flags, mainVars, heartVars, serviceVars, registryVars, moodVars
  <1>12. CASE Logout
    BY <1>12 DEF Logout, Flags, mainVars, heartVars, serviceVars, registryVars, moodVars
  <1>13. CASE CloseOllama
    BY <1>13 DEF CloseOllama, Flags, mainVars, heartVars, serviceVars, registryVars, moodVars
  <1>14. CASE StopRegistry
    BY <1>14 DEF StopRegistry, Flags, mainVars, heartVars, serviceVars, registryVars, moodVars
  <1>15. CASE StopHttp
    BY <1>15 DEF StopHttp, Flags, mainVars, heartVars, serviceVars, registryVars, moodVars
  <1>16. CASE HeartBegins
    BY <1>16 DEF HeartBegins, Flags, mainVars, heartVars, serviceVars, registryVars, moodVars
  <1>17. CASE Beat
    BY <1>17 DEF Beat, Flags, mainVars, heartVars, serviceVars, registryVars, moodVars
  <1>18. CASE HeartEnds \/ HeartBreaks
    BY <1>18 DEF HeartEnds, HeartBreaks, Flags, mainVars, heartVars, serviceVars, registryVars, moodVars
  <1>19. CASE RetryRegister
    BY <1>19 DEF RetryRegister, Registers, Degrades, Flags, mainVars, heartVars, serviceVars, registryVars, moodVars
  <1>20. CASE RetryPeers
    BY <1>20 DEF RetryPeers, Flags, mainVars, heartVars, serviceVars, registryVars, moodVars
  <1>21. CASE TickHeartbeat
    BY <1>21 DEF TickHeartbeat, Flags, mainVars, heartVars, serviceVars, registryVars, moodVars
  <1>22. CASE ClientWakes
    BY <1>22 DEF ClientWakes, Flags, mainVars, heartVars, serviceVars, registryVars, moodVars
  <1>23. ASSUME NEW r \in Replies, ReplyBegins(r) \/ ReplyEnds(r) PROVE Flags'
    BY <1>23 DEF ReplyBegins, ReplyEnds, Flags, mainVars, heartVars, serviceVars, registryVars, moodVars
  <1>24. CASE UNCHANGED vars
    BY <1>24 DEF vars, Flags, mainVars, heartVars, serviceVars, registryVars, moodVars
  <1> QED
    BY <1>1, <1>2, <1>3, <1>4, <1>5, <1>6, <1>7, <1>8, <1>9, <1>10, <1>11, <1>12, <1>13, <1>14, <1>15, <1>16, <1>17, <1>18, <1>19, <1>20, <1>21, <1>22, <1>23, <1>24
    DEF Next, MainSteps, HeartBeats, ClientSteps

\* Every step keeps the places and the numbers.
LEMMA PlacesStep ==
    ASSUME Places, [Next]_vars
    PROVE  Places'
  <1>1. CASE SignalSent
    BY <1>1 DEF SignalSent, Places, Starting, Teardown, mainVars, heartVars, serviceVars, registryVars, moodVars
  <1>2. CASE SignalHandled
    BY <1>2 DEF SignalHandled, Places, Starting, Teardown, mainVars, heartVars, serviceVars, registryVars, moodVars
  <1>3. CASE RegistryChanges
    BY <1>3, LifecycleAssumption DEF RegistryChanges, Places, Starting, Teardown, mainVars, heartVars, serviceVars, registryVars, moodVars
  <1>4. CASE StartBridge
    BY <1>4 DEF StartBridge, Places, Starting, Teardown, mainVars, heartVars, serviceVars, registryVars, moodVars
  <1>5. CASE StartBridgeFailed
    BY <1>5 DEF StartBridgeFailed, Places, Starting, Teardown, mainVars, heartVars, serviceVars, registryVars, moodVars
  <1>6. CASE StartHttp
    BY <1>6 DEF StartHttp, Places, Starting, Teardown, mainVars, heartVars, serviceVars, registryVars, moodVars
  <1>7. CASE Register
    BY <1>7 DEF Register, Registers, Degrades, Places, Starting, Teardown, mainVars, heartVars, serviceVars, registryVars, moodVars
  <1>8. CASE Peers
    BY <1>8 DEF Peers, Places, Starting, Teardown, mainVars, heartVars, serviceVars, registryVars, moodVars
  <1>9. CASE Launch
    BY <1>9 DEF Launch, Places, Starting, Teardown, mainVars, heartVars, serviceVars, registryVars, moodVars
  <1>10. CASE RunEnds
    BY <1>10 DEF RunEnds, Woken, Places, Starting, Teardown, mainVars, heartVars, serviceVars, registryVars, moodVars
  <1>11. CASE StopBridge
    BY <1>11 DEF StopBridge, Places, Starting, Teardown, mainVars, heartVars, serviceVars, registryVars, moodVars
  <1>12. CASE Logout
    BY <1>12 DEF Logout, Places, Starting, Teardown, mainVars, heartVars, serviceVars, registryVars, moodVars
  <1>13. CASE CloseOllama
    BY <1>13 DEF CloseOllama, Places, Starting, Teardown, mainVars, heartVars, serviceVars, registryVars, moodVars
  <1>14. CASE StopRegistry
    BY <1>14 DEF StopRegistry, Places, Starting, Teardown, mainVars, heartVars, serviceVars, registryVars, moodVars
  <1>15. CASE StopHttp
    BY <1>15 DEF StopHttp, Places, Starting, Teardown, mainVars, heartVars, serviceVars, registryVars, moodVars
  <1>16. CASE HeartBegins
    BY <1>16 DEF HeartBegins, Places, Starting, Teardown, mainVars, heartVars, serviceVars, registryVars, moodVars
  <1>17. CASE Beat
    BY <1>17, LifecycleAssumption DEF Beat, Places, Starting, Teardown, mainVars, heartVars, serviceVars, registryVars, moodVars
  <1>18. CASE HeartEnds \/ HeartBreaks
    BY <1>18 DEF HeartEnds, HeartBreaks, Places, Starting, Teardown, mainVars, heartVars, serviceVars, registryVars, moodVars
  <1>19. CASE RetryRegister
    BY <1>19, BackoffType DEF RetryRegister, Registers, Degrades, Places, Starting, Teardown, mainVars, heartVars, serviceVars, registryVars, moodVars
  <1>20. CASE RetryPeers
    BY <1>20, BackoffType DEF RetryPeers, Places, Starting, Teardown, mainVars, heartVars, serviceVars, registryVars, moodVars
  <1>21. CASE TickHeartbeat
    BY <1>21 DEF TickHeartbeat, Places, Starting, Teardown, mainVars, heartVars, serviceVars, registryVars, moodVars
  <1>22. CASE ClientWakes
    BY <1>22 DEF ClientWakes, Places, Starting, Teardown, mainVars, heartVars, serviceVars, registryVars, moodVars
  <1>23. ASSUME NEW r \in Replies, ReplyBegins(r) \/ ReplyEnds(r) PROVE Places'
    BY <1>23 DEF ReplyBegins, ReplyEnds, Places, Starting, Teardown, mainVars, heartVars, serviceVars, registryVars, moodVars
  <1>24. CASE UNCHANGED vars
    BY <1>24 DEF vars, Places, Starting, Teardown, mainVars, heartVars, serviceVars, registryVars, moodVars
  <1> QED
    BY <1>1, <1>2, <1>3, <1>4, <1>5, <1>6, <1>7, <1>8, <1>9, <1>10, <1>11, <1>12, <1>13, <1>14, <1>15, <1>16, <1>17, <1>18, <1>19, <1>20, <1>21, <1>22, <1>23, <1>24
    DEF Next, MainSteps, HeartBeats, ClientSteps

\* Every step keeps the bridge and the main task together.
LEMMA BridgeStep ==
    ASSUME TypeOK, BridgeInv, [Next]_vars
    PROVE  BridgeInv'
  <1>1. CASE SignalSent
    BY <1>1 DEF SignalSent, BridgeInv, After, mainVars, heartVars, serviceVars, registryVars, moodVars
  <1>2. CASE SignalHandled
    BY <1>2 DEF SignalHandled, BridgeInv, After, mainVars, heartVars, serviceVars, registryVars, moodVars
  <1>3. CASE RegistryChanges
    BY <1>3 DEF RegistryChanges, BridgeInv, After, mainVars, heartVars, serviceVars, registryVars, moodVars
  <1>4. CASE StartBridge
    BY <1>4 DEF StartBridge, BridgeInv, After, mainVars, heartVars, serviceVars, registryVars, moodVars
  <1>5. CASE StartBridgeFailed
    BY <1>5 DEF StartBridgeFailed, BridgeInv, After, mainVars, heartVars, serviceVars, registryVars, moodVars
  <1>6. CASE StartHttp
    BY <1>6 DEF StartHttp, BridgeInv, After, mainVars, heartVars, serviceVars, registryVars, moodVars
  <1>7. CASE Register
    BY <1>7 DEF Register, Registers, Degrades, BridgeInv, After, mainVars, heartVars, serviceVars, registryVars, moodVars
  <1>8. CASE Peers
    BY <1>8 DEF Peers, BridgeInv, After, mainVars, heartVars, serviceVars, registryVars, moodVars
  <1>9. CASE Launch
    BY <1>9 DEF Launch, BridgeInv, After, mainVars, heartVars, serviceVars, registryVars, moodVars
  <1>10. CASE RunEnds
    BY <1>10 DEF RunEnds, Woken, BridgeInv, After, mainVars, heartVars, serviceVars, registryVars, moodVars
  <1>11. CASE StopBridge
    BY <1>11 DEF StopBridge, BridgeInv, After, mainVars, heartVars, serviceVars, registryVars, moodVars
  <1>12. CASE Logout
    BY <1>12 DEF Logout, BridgeInv, After, mainVars, heartVars, serviceVars, registryVars, moodVars
  <1>13. CASE CloseOllama
    BY <1>13 DEF CloseOllama, BridgeInv, After, mainVars, heartVars, serviceVars, registryVars, moodVars
  <1>14. CASE StopRegistry
    BY <1>14 DEF StopRegistry, BridgeInv, After, mainVars, heartVars, serviceVars, registryVars, moodVars
  <1>15. CASE StopHttp
    BY <1>15 DEF StopHttp, BridgeInv, After, mainVars, heartVars, serviceVars, registryVars, moodVars
  <1>16. CASE HeartBegins
    BY <1>16 DEF HeartBegins, BridgeInv, After, mainVars, heartVars, serviceVars, registryVars, moodVars
  <1>17. CASE Beat
    BY <1>17 DEF Beat, BridgeInv, After, mainVars, heartVars, serviceVars, registryVars, moodVars
  <1>18. CASE HeartEnds \/ HeartBreaks
    BY <1>18 DEF HeartEnds, HeartBreaks, BridgeInv, After, mainVars, heartVars, serviceVars, registryVars, moodVars
  <1>19. CASE RetryRegister
    BY <1>19 DEF RetryRegister, Registers, Degrades, BridgeInv, After, mainVars, heartVars, serviceVars, registryVars, moodVars
  <1>20. CASE RetryPeers
    BY <1>20 DEF RetryPeers, BridgeInv, After, mainVars, heartVars, serviceVars, registryVars, moodVars
  <1>21. CASE TickHeartbeat
    BY <1>21 DEF TickHeartbeat, BridgeInv, After, mainVars, heartVars, serviceVars, registryVars, moodVars
  <1>22. CASE ClientWakes
    BY <1>22 DEF ClientWakes, BridgeInv, After, mainVars, heartVars, serviceVars, registryVars, moodVars
  <1>23. ASSUME NEW r \in Replies, ReplyBegins(r) \/ ReplyEnds(r) PROVE BridgeInv'
    BY <1>23 DEF ReplyBegins, ReplyEnds, BridgeInv, After, mainVars, heartVars, serviceVars, registryVars, moodVars
  <1>24. CASE UNCHANGED vars
    BY <1>24 DEF vars, BridgeInv, After, mainVars, heartVars, serviceVars, registryVars, moodVars
  <1> QED
    BY <1>1, <1>2, <1>3, <1>4, <1>5, <1>6, <1>7, <1>8, <1>9, <1>10, <1>11, <1>12, <1>13, <1>14, <1>15, <1>16, <1>17, <1>18, <1>19, <1>20, <1>21, <1>22, <1>23, <1>24
    DEF Next, MainSteps, HeartBeats, ClientSteps

\* Every step keeps closed what was closed.
LEMMA TeardownStep ==
    ASSUME TypeOK, TeardownInv, [Next]_vars
    PROVE  TeardownInv'
  <1>1. CASE SignalSent
    BY <1>1 DEF SignalSent, TeardownInv, mainVars, heartVars, serviceVars, registryVars, moodVars
  <1>2. CASE SignalHandled
    BY <1>2 DEF SignalHandled, TeardownInv, mainVars, heartVars, serviceVars, registryVars, moodVars
  <1>3. CASE RegistryChanges
    BY <1>3 DEF RegistryChanges, TeardownInv, mainVars, heartVars, serviceVars, registryVars, moodVars
  <1>4. CASE StartBridge
    BY <1>4 DEF StartBridge, TeardownInv, mainVars, heartVars, serviceVars, registryVars, moodVars
  <1>5. CASE StartBridgeFailed
    BY <1>5 DEF StartBridgeFailed, TeardownInv, mainVars, heartVars, serviceVars, registryVars, moodVars
  <1>6. CASE StartHttp
    BY <1>6 DEF StartHttp, TeardownInv, mainVars, heartVars, serviceVars, registryVars, moodVars
  <1>7. CASE Register
    BY <1>7 DEF Register, Registers, Degrades, TeardownInv, mainVars, heartVars, serviceVars, registryVars, moodVars
  <1>8. CASE Peers
    BY <1>8 DEF Peers, TeardownInv, mainVars, heartVars, serviceVars, registryVars, moodVars
  <1>9. CASE Launch
    BY <1>9 DEF Launch, TeardownInv, mainVars, heartVars, serviceVars, registryVars, moodVars
  <1>10. CASE RunEnds
    BY <1>10 DEF RunEnds, Woken, TeardownInv, mainVars, heartVars, serviceVars, registryVars, moodVars
  <1>11. CASE StopBridge
    BY <1>11 DEF StopBridge, TeardownInv, mainVars, heartVars, serviceVars, registryVars, moodVars
  <1>12. CASE Logout
    BY <1>12 DEF Logout, TeardownInv, mainVars, heartVars, serviceVars, registryVars, moodVars
  <1>13. CASE CloseOllama
    BY <1>13 DEF CloseOllama, TeardownInv, mainVars, heartVars, serviceVars, registryVars, moodVars
  <1>14. CASE StopRegistry
    BY <1>14 DEF StopRegistry, TeardownInv, mainVars, heartVars, serviceVars, registryVars, moodVars
  <1>15. CASE StopHttp
    BY <1>15 DEF StopHttp, TeardownInv, mainVars, heartVars, serviceVars, registryVars, moodVars
  <1>16. CASE HeartBegins
    BY <1>16 DEF HeartBegins, TeardownInv, mainVars, heartVars, serviceVars, registryVars, moodVars
  <1>17. CASE Beat
    BY <1>17 DEF Beat, TeardownInv, mainVars, heartVars, serviceVars, registryVars, moodVars
  <1>18. CASE HeartEnds \/ HeartBreaks
    BY <1>18 DEF HeartEnds, HeartBreaks, TeardownInv, mainVars, heartVars, serviceVars, registryVars, moodVars
  <1>19. CASE RetryRegister
    BY <1>19 DEF RetryRegister, Registers, Degrades, TeardownInv, mainVars, heartVars, serviceVars, registryVars, moodVars
  <1>20. CASE RetryPeers
    BY <1>20 DEF RetryPeers, TeardownInv, mainVars, heartVars, serviceVars, registryVars, moodVars
  <1>21. CASE TickHeartbeat
    BY <1>21 DEF TickHeartbeat, TeardownInv, mainVars, heartVars, serviceVars, registryVars, moodVars
  <1>22. CASE ClientWakes
    BY <1>22 DEF ClientWakes, TeardownInv, mainVars, heartVars, serviceVars, registryVars, moodVars
  <1>23. ASSUME NEW r \in Replies, ReplyBegins(r) \/ ReplyEnds(r) PROVE TeardownInv'
    BY <1>23 DEF ReplyBegins, ReplyEnds, TeardownInv, mainVars, heartVars, serviceVars, registryVars, moodVars
  <1>24. CASE UNCHANGED vars
    BY <1>24 DEF vars, TeardownInv, mainVars, heartVars, serviceVars, registryVars, moodVars
  <1> QED
    BY <1>1, <1>2, <1>3, <1>4, <1>5, <1>6, <1>7, <1>8, <1>9, <1>10, <1>11, <1>12, <1>13, <1>14, <1>15, <1>16, <1>17, <1>18, <1>19, <1>20, <1>21, <1>22, <1>23, <1>24
    DEF Next, MainSteps, HeartBeats, ClientSteps

LEMMA InvHolds == Spec => []LifeInv
  <1>1. LifeInv /\ [Next]_vars => LifeInv'
    BY TypeParts, FlagsStep, PlacesStep, BridgeStep, TeardownStep DEF LifeInv
  <1> QED
    BY InitInv, <1>1, PTL DEF Spec

-----------------------------------------------------------------------------
\* Every variable has its type; the registry's back-off stays within its limit
\* (RegistryClient._try_register_with_backoff).
THEOREM TypeCorrect == Spec => []TypeOK
  <1>1. LifeInv => TypeOK
    BY DEF LifeInv
  <1> QED
    BY <1>1, InvHolds, PTL

\* No reply is alive when the client it uses is closed, and when the shutdown is
\* done nothing is left running, whatever failed before (AxiomaApp.shutdown).
THEOREM TornDown == Spec => []TornDownInOrder
  <1>1. LifeInv => TornDownInOrder
    BY DEF LifeInv, TypeOK, BridgeInv, TeardownInv, TornDownInOrder, After
  <1> QED
    BY <1>1, InvHolds, PTL

-----------------------------------------------------------------------------
(***************************************************************************)
(* Oversight.                                                              *)
(***************************************************************************)
\* Where the watchers are in a beat: the scheduler has looked at the budget, or the
\* beat has just begun; a window in progress began after the last event.
BeatInv ==
    /\ paused <= pauses /\ low <= beat
    /\ step = "tick" => escalated < beat
    /\ step = "engines" => escalated <= beat /\ beat < MaxBeat
    /\ step = "engines" /\ (\E e \in Engines : budget < Threshold[e]) => low = beat
    /\ open # NoWindow => open.start > escalated /\ open.start \in 0..beat

\* An engine that was last told to slow down was told so at one of its beats, and the
\* next of its beats is at most a period away, paused ones not counted.
ToldInv ==
    \A e \in DOMAIN throttled : throttled[e] =>
        \E q \in Nat : /\ q * Period[e] <= low
                       /\ beat <= (q + (pauses - paused) + 1) * Period[e]

\* The budget was low at beat l, not too long before beat b for n paused beats.
Explains(l, b, n) == l # NoBeat /\ \E e \in Engines : l + Period[e] * (n + 1) >= b

OpenInv == open.load > 0 => Explains(low, open.start, pauses)

\* A window that counts towards the next event.
Counts(w) == UnderThrottle(w) /\ Ineffective(w) /\ w.start > escalated

\* The streak is the number of windows that count at the end of the history.
StreakInv ==
    /\ streak <= Len(windows)
    /\ \A i \in (Len(windows) - streak + 1)..Len(windows) :
        Counts(windows[i]) /\ Explains(windows[i].low, windows[i].start, pauses)
    /\ Len(windows) > streak => ~Counts(windows[Len(windows) - streak])

\* Suggestions are all used or all ignored; ignored ones gather until a warning
\* clears them.
AllUsed ==
    /\ ignored = 0 /\ warned = 0
    /\ \A i \in DOMAIN decisions : decisions[i] = "used"
Gathering ==
    /\ \A i \in DOMAIN decisions : decisions[i] = "ignored"
    /\ Len(decisions) < Ignorable
    /\ ignored = warned * Ignorable + Len(decisions)
DecisionInv ==
    /\ mode = "embedded" => AllUsed
    /\ mode = "observer_only" => Gathering
    /\ AllUsed \/ Gathering

LEMMA OversightConstants ==
    /\ Window \in Nat /\ Window > 0 /\ LeastLoad \in Nat /\ LeastLoad > 0
    /\ Escalate \in Nat /\ Escalate > 0 /\ Recent \in Nat /\ Recent > 0
    /\ Ignorable \in Nat /\ Ignorable > 0 /\ Whole \in Nat /\ Whole > 0
    /\ LeastEffect \in Nat /\ MaxBeat \in Nat /\ MaxPause \in Nat /\ MaxMoves \in Nat
    /\ Budgets \subseteq 0..100
    /\ \A e \in Engines : Period[e] \in Nat /\ Period[e] > 0
  BY OversightAssumption

-----------------------------------------------------------------------------
(***************************************************************************)
(* Loads and bounded histories.                                            *)
(***************************************************************************)

\* A product grows with its first factor.
LEMMA Multiplied ==
    ASSUME NEW a \in Nat, NEW b \in Nat, NEW c \in Nat, a <= b
    PROVE  a * c <= b * c /\ a * c \in Nat
  <1>1. \A d \in Nat : (a + d) * c = a * c + d * c /\ d * c \in Nat
    OBVIOUS
  <1>2. b - a \in Nat /\ b = a + (b - a)
    OBVIOUS
  <1> QED
    BY <1>1, <1>2

\* The load of one beat is at most the whole, and only a throttled engine makes one.
LEMMA LoadBounds ==
    ASSUME DOMAIN throttled \subseteq Engines
    PROVE  Load \in 0..Whole /\ (Load > 0 => \E e \in DOMAIN throttled : throttled[e])
  <1> DEFINE asked == DOMAIN throttled
             S == {e \in asked : throttled[e]}
             n == Cardinality(asked)
             k == Cardinality(S)
  <1>1. CASE asked = {}
    BY <1>1, OversightConstants DEF Load
  <1>2. CASE asked # {}
    <2>1. IsFiniteSet(Engines)
      BY OversightAssumption
    <2>2. IsFiniteSet(asked) /\ n <= Cardinality(Engines) /\ n \in Nat /\ Cardinality(Engines) \in Nat
      BY <2>1, FS_Subset, FS_CardinalityType
    <2>3. n # 0
      BY <1>2, <2>2, FS_EmptySet
    <2>4. IsFiniteSet(S) /\ k <= n /\ k \in Nat
      BY <2>2, FS_Subset, FS_CardinalityType
    <2>5. S = {} => k = 0
      BY FS_EmptySet
    <2>6. Load = k * (Whole \div n)
      BY <1>2 DEF Load
    <2>7. Whole % n = 0
      BY <2>2, <2>3, OversightAssumption
    <2> HIDE DEF n, k
    <2> DEFINE r == Whole \div n
    <2>8. r \in Nat /\ n * r = Whole
      BY <2>2, <2>3, <2>7, OversightConstants, Z3
    <2> HIDE DEF r
    <2>9. k * r <= n * r /\ k * r \in Nat
      BY <2>2, <2>4, <2>8, Multiplied
    <2>10. k = 0 => k * r = 0
      BY <2>8
    <2>11. Load \in 0..Whole
      BY <2>6, <2>8, <2>9, OversightConstants DEF r
    <2>12. Load > 0 => S # {}
      BY <2>5, <2>6, <2>10 DEF r
    <2> QED
      BY <2>11, <2>12
  <1> QED
    BY <1>1, <1>2

\* t is s with x behind it, and without its first entry if it was n long.
Slid(t, s, x, n) ==
    /\ Len(t) \in Nat /\ Len(t) <= n /\ Len(t) > 0 /\ t[Len(t)] = x
    /\ Len(t) = (IF Len(s) < n THEN Len(s) + 1 ELSE n)
    /\ \A i \in 1..(Len(t) - 1) : t[i] = s[i + (Len(s) + 1 - Len(t))]

LEMMA KeptIs ==
    ASSUME NEW S, NEW s \in Seq(S), NEW x \in S, NEW n \in Nat \ {0}, Len(s) <= n,
           NEW t, t = Kept(Append(s, x), n)
    PROVE  t \in Seq(S) /\ Slid(t, s, x, n)
  <1> DEFINE a == Append(s, x)
  <1>1. /\ a \in Seq(S) /\ Len(s) \in Nat /\ Len(a) = Len(s) + 1
        /\ \A i \in 1..Len(s) : a[i] = s[i]
        /\ a[Len(s) + 1] = x
    BY AppendProperties, LenProperties
  <1>2. /\ Tail(a) \in Seq(S) /\ Len(Tail(a)) = Len(a) - 1
        /\ \A i \in 1..Len(Tail(a)) : Tail(a)[i] = a[i + 1]
    <2>1. a # <<>>
      BY AppendProperties
    <2> HIDE DEF a
    <2> QED
      BY <1>1, <2>1, HeadTailProperties
  <1>3. t = Kept(a, n)
    OBVIOUS
  <1> HIDE DEF a
  <1>4. CASE Len(s) < n
    <2>1. t = a
      BY <1>1, <1>3, <1>4 DEF Kept
    <2> QED
      BY <1>1, <1>4, <2>1 DEF Slid
  <1>5. CASE Len(s) = n
    <2>1. t = Tail(a)
      BY <1>1, <1>3, <1>5 DEF Kept
    <2>2. Len(t) = n /\ t[n] = x /\ t \in Seq(S)
      BY <1>1, <1>2, <1>5, <2>1
    <2>3. \A i \in 1..(n - 1) : t[i] = s[i + 1]
      BY <1>1, <1>2, <1>5, <2>1
    <2> QED
      BY <1>1, <1>5, <2>2, <2>3 DEF Slid
  <1> QED
    BY <1>1, <1>4, <1>5

-----------------------------------------------------------------------------
(***************************************************************************)
(* A tick of the scheduler.                                                *)
(***************************************************************************)

\* The window in progress with this beat, and what is filed of it when it is full.
Grown(b) == [Opened(b) EXCEPT !.load = @ + Load, !.count = @ + 1]
Filed(b) == [start |-> Grown(b).start, end |-> beat, from |-> Grown(b).from, to |-> b,
             load |-> Grown(b).load, low |-> low']

LEMMA GrownIs ==
    ASSUME SchedulerTypes, BeatInv, step = "tick", NEW b \in 0..100
    PROVE  /\ Grown(b) \in [start : 0..MaxBeat, from : 0..100, load : Nat, count : 1..Window]
           /\ Grown(b).start = IF open = NoWindow THEN beat ELSE open.start
           /\ Grown(b).start > escalated /\ Grown(b).start \in 0..beat
           /\ Grown(b).load = open.load + Load
           /\ Grown(b).count = open.count + 1
           /\ Grown(b).load <= Whole * Grown(b).count
  <1>1. /\ Load \in 0..Whole /\ Whole \in Nat /\ Window \in Nat /\ MaxBeat \in Nat
        /\ beat \in 0..MaxBeat
        /\ open \in [start : NoBeat..MaxBeat, from : 0..100, load : Nat, count : 0..(Window - 1)]
        /\ open.load <= Whole * open.count
    BY LoadBounds, OversightConstants DEF SchedulerTypes, OpenType
  <1>2. Whole * (open.count + 1) = Whole * open.count + Whole /\ Whole * open.count \in Nat
    BY <1>1
  <1>3. CASE open = NoWindow
    <2>1. /\ open.load = 0 /\ open.count = 0
          /\ Opened(b) = [start |-> beat, from |-> b, load |-> 0, count |-> 0]
      BY <1>3 DEF Opened, NoWindow
    <2>2. /\ Opened(b) \in [start : 0..MaxBeat, from : 0..100, load : Nat, count : Nat]
          /\ Opened(b).start = beat /\ Opened(b).load = 0 /\ Opened(b).count = 0
      BY <1>1, <2>1
    <2>3. Opened(b).load + Load = Load /\ Opened(b).count + 1 = 1
      BY <1>1, <2>2
    <2>4. Grown(b) = [Opened(b) EXCEPT !.load = Load, !.count = 1]
      BY <2>3, Zenon DEF Grown
    <2>6. Load \in Nat /\ 1 \in 1..Window
      BY <1>1, OversightConstants
    <2> HIDE DEF Grown
    <2>7. /\ Grown(b).start = beat /\ Grown(b).load = Load /\ Grown(b).count = 1
          /\ Grown(b) \in [start : 0..MaxBeat, from : 0..100, load : Nat, count : 1..Window]
      BY <2>2, <2>4, <2>6
    <2>5. beat > escalated
      BY DEF BeatInv
    <2> QED
      BY <1>1, <1>2, <1>3, <2>1, <2>5, <2>7
  <1>4. CASE open # NoWindow
    <2>1. Opened(b) = open
      BY <1>4 DEF Opened
    <2>2. Grown(b) = [open EXCEPT !.load = open.load + Load, !.count = open.count + 1]
      BY <2>1 DEF Grown
    <2>3. /\ Grown(b).start = open.start /\ Grown(b).from = open.from
          /\ Grown(b).load = open.load + Load /\ Grown(b).count = open.count + 1
          /\ Grown(b) = [start |-> open.start, from |-> open.from,
                         load |-> open.load + Load, count |-> open.count + 1]
      BY <1>1, <2>2
    <2>4. open.start \in 0..beat /\ open.start > escalated
      BY <1>4 DEF BeatInv
    <2> QED
      BY <1>1, <1>2, <1>4, <2>3, <2>4
  <1> QED
    BY <1>3, <1>4

\* Either the window has room left, or it is filed and counted.
LEMMA TickIs ==
    ASSUME SchedulerTypes, BeatInv, Tick
    PROVE  \E b \in 0..100 :
             /\ b \in Budgets /\ budget' = b
             /\ low' = (IF \E e \in Engines : b < Threshold[e] THEN beat ELSE low)
             /\ low' \in NoBeat..MaxBeat /\ (low # NoBeat => low' >= low)
             /\ \/ /\ Grown(b).count < Window /\ open' = Grown(b)
                   /\ UNCHANGED <<windows, streak, escalated>>
                \/ /\ open' = NoWindow /\ Filed(b) \in WindowType
                   /\ windows' = Kept(Append(windows, Filed(b)), WindowsKept)
                   /\ \/ Streak(Filed(b)) >= Escalate /\ streak' = 0 /\ escalated' = beat
                      \/ /\ Streak(Filed(b)) < Escalate /\ streak' = Streak(Filed(b))
                         /\ UNCHANGED escalated
  <1>1. PICK b \in Budgets :
          /\ budget' = b
          /\ low' = IF \E e \in Engines : b < Threshold[e] THEN beat ELSE low
          /\ Accumulate(b)
    BY DEF Tick
  <1>2. /\ b \in 0..100 /\ beat \in 0..MaxBeat /\ low \in NoBeat..MaxBeat /\ MaxBeat \in Nat
        /\ Window \in Nat /\ Whole \in Nat /\ Escalate \in Nat
    BY OversightConstants DEF SchedulerTypes
  <1>3. low' \in NoBeat..MaxBeat /\ (low # NoBeat => low' >= low)
    <2>1. low <= beat
      BY <1>2 DEF BeatInv, Tick
    <2> QED
      BY <1>1, <1>2, <2>1 DEF NoBeat
  <1>4. step = "tick"
    BY DEF Tick
  <1>5. /\ Grown(b) \in [start : 0..MaxBeat, from : 0..100, load : Nat, count : 1..Window]
        /\ Grown(b).load <= Whole * Grown(b).count
    BY <1>2, <1>4, GrownIs
  <1>6. CASE Grown(b).count >= Window
    <2>1. CloseWindow(Filed(b))
      BY <1>1, <1>6 DEF Accumulate, Grown, Filed
    <2>2. Filed(b) \in WindowType
      <3>1. Grown(b).count = Window /\ Grown(b).load \in 0..(Whole * Window)
        BY <1>2, <1>5, <1>6
      <3> QED
        BY <1>2, <1>3, <1>5, <3>1 DEF Filed, WindowType
    <2>3. Streak(Filed(b)) \in Int
      BY OversightConstants DEF Streak, SchedulerTypes
    <2>4. Streak(Filed(b)) >= Escalate \/ Streak(Filed(b)) < Escalate
      BY <1>2, <2>3
    <2> QED
      BY <1>1, <1>2, <1>3, <2>1, <2>2, <2>4 DEF CloseWindow
  <1>7. CASE ~(Grown(b).count >= Window)
    <2>1. open' = Grown(b) /\ UNCHANGED <<windows, streak, escalated>>
      BY <1>1, <1>7 DEF Accumulate, Grown
    <2>2. Grown(b).count < Window
      BY <1>2, <1>5, <1>7
    <2> QED
      BY <1>1, <1>2, <1>3, <2>1, <2>2
  <1> QED
    BY <1>6, <1>7

-----------------------------------------------------------------------------
(***************************************************************************)
(* Types, and where the watchers are in a beat.                            *)
(***************************************************************************)
LEMMA TickTypes ==
    ASSUME SchedulerTypes, BeatInv, Tick
    PROVE  SchedulerTypes' /\ BeatInv'
  <1>1. PICK b \in 0..100 :
             /\ b \in Budgets /\ budget' = b
             /\ low' = (IF \E e \in Engines : b < Threshold[e] THEN beat ELSE low)
             /\ low' \in NoBeat..MaxBeat
             /\ \/ /\ Grown(b).count < Window /\ open' = Grown(b)
                   /\ UNCHANGED <<windows, streak, escalated>>
                \/ /\ open' = NoWindow /\ Filed(b) \in WindowType
                   /\ windows' = Kept(Append(windows, Filed(b)), WindowsKept)
                   /\ \/ Streak(Filed(b)) >= Escalate /\ streak' = 0 /\ escalated' = beat
                      \/ /\ Streak(Filed(b)) < Escalate /\ streak' = Streak(Filed(b))
                         /\ UNCHANGED escalated
    BY TickIs
  <1>2. /\ step = "tick" /\ step' = "engines" /\ beat < MaxBeat
        /\ UNCHANGED <<beat, paused, pauses, throttled>>
        /\ beat \in 0..MaxBeat /\ MaxBeat \in Nat /\ Window \in Nat /\ Escalate \in Nat
        /\ Window > 0 /\ Escalate > 0
        /\ low <= beat /\ escalated \in NoBeat..MaxBeat /\ escalated < beat
        /\ streak \in 0..(Escalate - 1)
    BY OversightConstants DEF Tick, SchedulerTypes, BeatInv
  <1>3. moves' \in 0..MaxMoves
    BY OversightConstants DEF Tick, SchedulerTypes
  <1>4. low' <= beat' /\ ((\E e \in Engines : budget' < Threshold[e]) => low' = beat')
    BY <1>1, <1>2
  <1>5. /\ Grown(b) \in [start : 0..MaxBeat, from : 0..100, load : Nat, count : 1..Window]
        /\ Grown(b).start > escalated /\ Grown(b).start \in 0..beat
        /\ Grown(b).load <= Whole * Grown(b).count
    BY <1>2, GrownIs
  <1>6. NoWindow \in OpenType /\ NoWindow.load = 0 /\ NoWindow.count = 0 /\ Whole * 0 = 0
    BY <1>2, OversightConstants DEF NoWindow, OpenType, NoBeat
  <1>7. /\ open' \in OpenType /\ open'.load <= Whole * open'.count
        /\ (open' = NoWindow <=> open'.count = 0)
        /\ (open' # NoWindow => open'.start > escalated' /\ open'.start \in 0..beat)
    <2>1. CASE /\ Grown(b).count < Window /\ open' = Grown(b)
               /\ UNCHANGED <<windows, streak, escalated>>
      <3>1. Grown(b) \in OpenType
        BY <1>2, <1>5, <2>1 DEF OpenType, NoBeat
      <3> QED
        BY <1>2, <1>5, <1>6, <2>1, <3>1
    <2>2. CASE open' = NoWindow
      BY <1>6, <2>2
    <2> QED
      BY <1>1, <2>1, <2>2
  <1>8. windows' \in Seq(WindowType) /\ Len(windows') <= WindowsKept
    <2>1. windows \in Seq(WindowType) /\ Len(windows) <= WindowsKept
      BY DEF SchedulerTypes
    <2>2. WindowsKept \in Nat \ {0}
      BY DEF WindowsKept
    <2>3. CASE UNCHANGED windows
      BY <2>1, <2>3
    <2>4. CASE /\ Filed(b) \in WindowType
               /\ windows' = Kept(Append(windows, Filed(b)), WindowsKept)
      BY <2>1, <2>2, <2>4, KeptIs DEF Slid
    <2> QED
      BY <1>1, <2>3, <2>4
  <1>9. streak' \in 0..(Escalate - 1) /\ escalated' \in NoBeat..MaxBeat /\ escalated' <= beat
    <2>1. Streak(Filed(b)) \in Nat
      BY <1>2 DEF Streak
    <2> QED
      BY <1>1, <1>2, <2>1 DEF NoBeat
  <1> HIDE DEF OpenType, WindowType, NoWindow
  <1>10. SchedulerTypes'
    BY <1>1, <1>2, <1>3, <1>7, <1>8, <1>9 DEF SchedulerTypes
  <1>11. BeatInv'
    BY <1>2, <1>4, <1>7, <1>9 DEF BeatInv, SchedulerTypes
  <1> QED
    BY <1>10, <1>11

LEMMA EnginesTypes ==
    ASSUME SchedulerTypes, BeatInv, EnginesRun
    PROVE  SchedulerTypes' /\ BeatInv'
  <1>1. /\ step = "engines" /\ step' = "tick" /\ beat' = beat + 1
        /\ UNCHANGED <<paused, budget, pauses, moves, low, open, windows, streak, escalated>>
        /\ throttled' = Recorded
        /\ beat \in 0..MaxBeat /\ MaxBeat \in Nat /\ beat < MaxBeat /\ escalated <= beat
        /\ low <= beat /\ low \in NoBeat..MaxBeat /\ escalated \in NoBeat..MaxBeat
    BY OversightConstants DEF EnginesRun, SchedulerTypes, BeatInv
  <1>2. /\ DOMAIN Recorded = DOMAIN throttled \cup Asked
        /\ \A e \in DOMAIN Recorded :
             Recorded[e] = (IF e \in Asked THEN IsThrottled(e) ELSE throttled[e])
    BY DEF Recorded
  <1>3. /\ DOMAIN throttled' \subseteq Engines
        /\ \A e \in DOMAIN throttled' : throttled'[e] \in BOOLEAN
    <2>1. DOMAIN throttled \subseteq Engines /\ \A e \in DOMAIN throttled : throttled[e] \in BOOLEAN
      BY DEF SchedulerTypes
    <2>2. Asked \subseteq Engines
      BY DEF Asked
    <2>3. \A e : IsThrottled(e) \in BOOLEAN
      BY DEF IsThrottled
    <2> QED
      BY <1>1, <1>2, <2>1, <2>2, <2>3, Zenon
  <1>4. beat' \in 0..MaxBeat /\ escalated < beat' /\ low <= beat'
    BY <1>1 DEF NoBeat
  <1>5. SchedulerTypes'
    BY <1>1, <1>3, <1>4 DEF SchedulerTypes
  <1>6. open # NoWindow => open.start \in 0..beat'
    BY <1>1 DEF BeatInv
  <1>7. BeatInv'
    BY <1>1, <1>4, <1>6 DEF BeatInv
  <1> QED
    BY <1>5, <1>7

LEMMA QuietTypes ==
    ASSUME SchedulerTypes, BeatInv,
           Pause \/ PausedBeat \/ AdminMetaCognitionMode \/ UNCHANGED oversightVars
    PROVE  SchedulerTypes' /\ BeatInv'
  <1>1. /\ UNCHANGED <<step, budget, moves, low, throttled, open, windows, streak, escalated>>
        /\ beat' \in {beat, beat + 1} /\ beat' \in 0..MaxBeat
        /\ step = "engines" => beat' = beat
        /\ pauses' \in 0..MaxPause /\ paused' \in 0..MaxPause /\ paused' <= pauses'
        /\ beat \in 0..MaxBeat /\ MaxBeat \in Nat
        /\ low \in NoBeat..MaxBeat /\ escalated \in NoBeat..MaxBeat
    BY OversightConstants DEF Pause, PausedBeat, AdminMetaCognitionMode, oversightVars, beatVars,
       schedulerVars, metaVars, SchedulerTypes, BeatInv
  <1>2. SchedulerTypes'
    BY <1>1 DEF SchedulerTypes
  <1>3. open # NoWindow => open.start \in 0..beat'
    BY <1>1 DEF BeatInv
  <1>4. BeatInv'
    BY <1>1, <1>3 DEF BeatInv, NoBeat
  <1> QED
    BY <1>2, <1>4

-----------------------------------------------------------------------------
(***************************************************************************)
(* Suggestions and warnings.                                               *)
(***************************************************************************)
LEMMA ComputeIs ==
    ASSUME MetaTypes, Compute
    PROVE  /\ emissions' \in Seq(Assessments) /\ Len(emissions') <= Recent
           /\ unrecorded' \in {unrecorded, unrecorded + 1}
           /\ mode # "text" => unrecorded' = unrecorded
           /\ \/ UNCHANGED <<decisions, warned, ignored>>
              \/ mode = "embedded" /\ Record("used") /\ ignored' = ignored
              \/ /\ mode \notin {"embedded", "text"} /\ Record("ignored")
                 /\ ignored' = ignored + 1
  <1>1. PICK stage \in 0..3, inRecovery \in BOOLEAN, recent \in BOOLEAN, varied \in BOOLEAN :
          LET a == Classify(stage, inRecovery \/ recent, varied)
              kept == Kept(Append(emissions, a), Recent)
              called == Called(a, stage, inRecovery, kept)
          IN /\ emissions' = kept
             /\ IF called /\ mode = "text"
                THEN unrecorded' = unrecorded + 1 ELSE UNCHANGED unrecorded
             /\ IF called /\ mode # "text"
                THEN /\ Record(IF mode = "embedded" THEN "used" ELSE "ignored")
                     /\ ignored' = IF mode = "embedded" THEN ignored ELSE ignored + 1
                ELSE UNCHANGED <<decisions, warned, ignored>>
    BY DEF Compute
  <1> DEFINE a == Classify(stage, inRecovery \/ recent, varied)
             called == Called(a, stage, inRecovery, Kept(Append(emissions, a), Recent))
  <1>2. a \in Assessments
    BY DEF Classify, Assessments
  <1>3. /\ emissions \in Seq(Assessments) /\ Len(emissions) <= Recent /\ Recent \in Nat \ {0}
    BY OversightConstants DEF MetaTypes
  <1>4. emissions' = Kept(Append(emissions, a), Recent)
    BY <1>1
  <1>5. emissions' \in Seq(Assessments) /\ Len(emissions') <= Recent
    <2> HIDE DEF a
    <2> QED
      BY <1>2, <1>3, <1>4, KeptIs DEF Slid
  <1>6. /\ IF called /\ mode = "text"
           THEN unrecorded' = unrecorded + 1 ELSE UNCHANGED unrecorded
        /\ IF called /\ mode # "text"
           THEN /\ Record(IF mode = "embedded" THEN "used" ELSE "ignored")
                /\ ignored' = IF mode = "embedded" THEN ignored ELSE ignored + 1
           ELSE UNCHANGED <<decisions, warned, ignored>>
    BY <1>1
  <1> HIDE DEF a, called
  <1>7. \/ UNCHANGED <<decisions, warned, ignored>>
        \/ mode = "embedded" /\ Record("used") /\ ignored' = ignored
        \/ /\ mode \notin {"embedded", "text"} /\ Record("ignored")
           /\ ignored' = ignored + 1
    <2>1. CASE mode = "embedded"
      BY <1>6, <2>1
    <2>2. CASE mode # "embedded"
      BY <1>6, <2>2
    <2> QED
      BY <2>1, <2>2
  <1> QED
    BY <1>5, <1>6, <1>7

LEMMA RecordIs ==
    ASSUME MetaTypes, NEW d \in {"used", "ignored"}, Record(d)
    PROVE  \E s \in Seq({"used", "ignored"}) :
             /\ Slid(s, decisions, d, DecisionsKept)
             /\ \/ LastIgnored(s) /\ warned' = warned + 1 /\ decisions' = <<>>
                \/ ~LastIgnored(s) /\ warned' = warned /\ decisions' = s
  <1> DEFINE D == {"used", "ignored"}
             s == Kept(Append(decisions, d), DecisionsKept)
  <1>1. decisions \in Seq(D) /\ Len(decisions) <= DecisionsKept /\ d \in D
    BY DEF MetaTypes
  <1>2. DecisionsKept \in Nat \ {0}
    BY DEF DecisionsKept
  <1>3. \/ LastIgnored(s) /\ warned' = warned + 1 /\ decisions' = <<>>
        \/ ~LastIgnored(s) /\ warned' = warned /\ decisions' = s
    BY DEF Record
  <1>4. s \in Seq(D) /\ Slid(s, decisions, d, DecisionsKept)
    <2> HIDE DEF D
    <2> QED
      BY <1>1, <1>2, KeptIs
  <1> HIDE DEF s
  <1> QED
    BY <1>3, <1>4

LEMMA MetaTypesStep ==
    ASSUME MetaTypes, [OversightNext]_oversightVars
    PROVE  MetaTypes'
  <1>1. ASSUME NEW d \in {"used", "ignored"}, Record(d)
        PROVE  /\ decisions' \in Seq({"used", "ignored"}) /\ Len(decisions') <= DecisionsKept
               /\ warned' \in Nat
    <2>1. <<>> \in Seq({"used", "ignored"}) /\ Len(<<>>) = 0 /\ DecisionsKept \in Nat
      BY DEF DecisionsKept
    <2>2. \E s \in Seq({"used", "ignored"}) :
             /\ Slid(s, decisions, d, DecisionsKept)
             /\ \/ warned' = warned + 1 /\ decisions' = <<>>
                \/ warned' = warned /\ decisions' = s
      BY <1>1, RecordIs
    <2>3. warned \in Nat
      BY DEF MetaTypes
    <2>4. PICK s \in Seq({"used", "ignored"}) :
             /\ Slid(s, decisions, d, DecisionsKept)
             /\ \/ warned' = warned + 1 /\ decisions' = <<>>
                \/ warned' = warned /\ decisions' = s
      BY <2>2
    <2>5. CASE warned' = warned + 1 /\ decisions' = <<>>
      BY <2>1, <2>3, <2>5
    <2>6. CASE warned' = warned /\ decisions' = s
      BY <2>3, <2>4, <2>6 DEF Slid
    <2> QED
      BY <2>4, <2>5, <2>6
  <1>2. CASE Compute /\ UNCHANGED mode
    <2>1. /\ emissions' \in Seq(Assessments) /\ Len(emissions') <= Recent
          /\ unrecorded' \in Nat /\ ignored' \in Nat
      BY <1>2, ComputeIs DEF MetaTypes
    <2>2. /\ decisions' \in Seq({"used", "ignored"}) /\ Len(decisions') <= DecisionsKept
          /\ warned' \in Nat
      BY <1>1, <1>2, ComputeIs DEF MetaTypes
    <2> QED
      BY <1>2, <2>1, <2>2 DEF MetaTypes
  <1>3. CASE UNCHANGED <<emissions, decisions, ignored, warned, unrecorded>> /\ mode' \in {mode, "text"}
    BY <1>3 DEF MetaTypes
  <1> QED
    BY <1>2, <1>3 DEF OversightNext, Pause, PausedBeat, Tick, EnginesRun, AdminMetaCognitionMode,
       oversightVars, metaVars

\* One more decision of the same kind; a run of Ignorable ignored ones gives a warning.
LEMMA DecisionStep ==
    ASSUME Ignorable <= DecisionsKept, MetaTypes, DecisionInv, [OversightNext]_oversightVars
    PROVE  DecisionInv'
  <1>1. /\ Ignorable \in Nat /\ Ignorable > 0 /\ DecisionsKept \in Nat
        /\ decisions \in Seq({"used", "ignored"}) /\ Len(decisions) \in Nat
        /\ Len(decisions) <= DecisionsKept /\ DOMAIN decisions = 1..Len(decisions)
        /\ ignored \in Nat /\ warned \in Nat
    BY OversightConstants, LenProperties DEF MetaTypes, DecisionsKept
  <1>2. ASSUME mode = "embedded", Record("used"), ignored' = ignored
        PROVE  AllUsed'
    <2>1. AllUsed
      BY <1>2 DEF DecisionInv
    <2>2. PICK s \in Seq({"used", "ignored"}) :
             /\ Slid(s, decisions, "used", DecisionsKept)
             /\ \/ LastIgnored(s) /\ warned' = warned + 1 /\ decisions' = <<>>
                \/ ~LastIgnored(s) /\ warned' = warned /\ decisions' = s
      BY <1>2, RecordIs
    <2>2a. /\ Len(s) \in Nat /\ Len(s) > 0 /\ Len(s) <= DecisionsKept /\ s[Len(s)] = "used"
           /\ Len(s) = (IF Len(decisions) < DecisionsKept THEN Len(decisions) + 1 ELSE DecisionsKept)
           /\ \A i \in 1..(Len(s) - 1) : s[i] = decisions[i + (Len(decisions) + 1 - Len(s))]
      BY <2>2 DEF Slid
    <2>3. ~LastIgnored(s)
      BY <1>1, <2>2, <2>2a DEF LastIgnored
    <2>4. \A i \in 1..Len(s) : s[i] = "used"
      <3> TAKE i \in 1..Len(s)
      <3>1. CASE i = Len(s)
        BY <2>2, <2>2a, <3>1
      <3>2. CASE i # Len(s)
        <4>1. i \in 1..(Len(s) - 1) /\ i + (Len(decisions) + 1 - Len(s)) \in 1..Len(decisions)
          BY <1>1, <2>2, <2>2a, <3>2
        <4> QED
          BY <1>1, <2>1, <2>2, <2>2a, <4>1 DEF AllUsed
      <3> QED
        BY <3>1, <3>2
    <2>5. DOMAIN s = 1..Len(s)
      BY <2>2, <2>2a, LenProperties
    <2> QED
      BY <1>2, <2>1, <2>2, <2>2a, <2>3, <2>4, <2>5 DEF AllUsed
  <1>3. ASSUME mode = "observer_only", Record("ignored"), ignored' = ignored + 1
        PROVE  Gathering'
    <2>1. Gathering
      BY <1>3 DEF DecisionInv
    <2>2. PICK s \in Seq({"used", "ignored"}) :
             /\ Slid(s, decisions, "ignored", DecisionsKept)
             /\ \/ LastIgnored(s) /\ warned' = warned + 1 /\ decisions' = <<>>
                \/ ~LastIgnored(s) /\ warned' = warned /\ decisions' = s
      BY <1>3, RecordIs
    <2>2a. /\ Len(s) \in Nat /\ Len(s) > 0 /\ Len(s) <= DecisionsKept /\ s[Len(s)] = "ignored"
           /\ Len(s) = (IF Len(decisions) < DecisionsKept THEN Len(decisions) + 1 ELSE DecisionsKept)
           /\ \A i \in 1..(Len(s) - 1) : s[i] = decisions[i + (Len(decisions) + 1 - Len(s))]
      BY <2>2 DEF Slid
    <2>3. Len(s) = Len(decisions) + 1 /\ Len(decisions) < Ignorable
      BY <1>1, <2>1, <2>2, <2>2a DEF Gathering
    <2>4. \A i \in 1..Len(s) : s[i] = "ignored"
      <3> TAKE i \in 1..Len(s)
      <3>1. CASE i = Len(s)
        BY <2>2, <2>2a, <3>1
      <3>2. CASE i # Len(s)
        <4>1. i \in 1..(Len(s) - 1) /\ i \in 1..Len(decisions)
              /\ i + (Len(decisions) + 1 - Len(s)) = i
          BY <1>1, <2>2, <2>2a, <2>3, <3>2
        <4> QED
          BY <1>1, <2>1, <2>2, <2>2a, <4>1 DEF Gathering
      <3> QED
        BY <3>1, <3>2
    <2>5. DOMAIN s = 1..Len(s)
      BY <2>2, <2>2a, LenProperties
    <2>6. LastIgnored(s) <=> Len(s) = Ignorable
      BY <1>1, <2>2, <2>2a, <2>3, <2>4 DEF LastIgnored
    <2>7. ignored = warned * Ignorable + Len(decisions)
      BY <2>1 DEF Gathering
    <2>8. CASE Len(s) = Ignorable
      <3>1. warned' = warned + 1 /\ decisions' = <<>>
        BY <2>2, <2>2a, <2>6, <2>8
      <3>2. (warned + 1) * Ignorable = warned * Ignorable + Ignorable /\ warned * Ignorable \in Nat
        BY <1>1
      <3>3. ignored' = warned' * Ignorable + 0
        BY <1>1, <1>3, <2>3, <2>7, <2>8, <3>1, <3>2
      <3>4. Len(<<>>) = 0 /\ DOMAIN <<>> = {}
        OBVIOUS
      <3> QED
        BY <1>1, <3>1, <3>3, <3>4 DEF Gathering
    <2>9. CASE Len(s) # Ignorable
      <3>1. warned' = warned /\ decisions' = s /\ Len(s) < Ignorable
        BY <1>1, <2>2, <2>2a, <2>3, <2>6, <2>9
      <3>2. warned * Ignorable \in Nat
        BY <1>1
      <3>3. ignored' = warned' * Ignorable + Len(s)
        BY <1>1, <1>3, <2>3, <2>7, <3>1, <3>2
      <3> QED
        BY <2>4, <2>5, <3>1, <3>3 DEF Gathering
    <2> QED
      BY <2>8, <2>9
  <1>4. CASE UNCHANGED <<decisions, ignored, warned>> /\ mode' \in {mode, "text"}
    BY <1>4 DEF DecisionInv, AllUsed, Gathering
  <1>5. CASE Compute /\ UNCHANGED mode
    <2>1. CASE UNCHANGED <<decisions, ignored, warned>>
      BY <1>4, <1>5, <2>1
    <2>2. CASE mode = "embedded" /\ Record("used") /\ ignored' = ignored
      BY <1>2, <1>5, <2>2 DEF DecisionInv
    <2>3. CASE mode \notin {"embedded", "text"} /\ Record("ignored") /\ ignored' = ignored + 1
      <3>1. mode = "observer_only"
        BY <2>3 DEF MetaTypes
      <3> QED
        BY <1>3, <1>5, <2>3, <3>1 DEF DecisionInv
    <2> QED
      BY <1>5, <2>1, <2>2, <2>3, ComputeIs
  <1> QED
    BY <1>4, <1>5 DEF OversightNext, Pause, PausedBeat, Tick, EnginesRun, AdminMetaCognitionMode,
       oversightVars, metaVars

LEMMA WarningsCounted ==
    ASSUME MetaTypes, DecisionInv
    PROVE  WarningsEarned
  <1> DEFINE q == ignored \div Ignorable
             r == ignored % Ignorable
  <1>1. /\ Ignorable \in Nat /\ Ignorable > 0 /\ ignored \in Nat /\ warned \in Nat
        /\ Len(decisions) \in Nat
    BY OversightConstants, LenProperties DEF MetaTypes
  <1>2. q \in Nat /\ r \in 0..(Ignorable - 1) /\ ignored = Ignorable * q + r
    BY <1>1, Z3
  <1> HIDE DEF q, r
  <1>3. CASE AllUsed
    <2>1. Ignorable * q = 0
      BY <1>1, <1>2, <1>3 DEF AllUsed
    <2>2. q >= 1 => Ignorable * q >= Ignorable
      BY <1>1, <1>2, Multiplied
    <2> QED
      BY <1>1, <1>2, <1>3, <2>1, <2>2 DEF AllUsed, WarningsEarned, q
  <1>4. CASE Gathering
    <2>1. ignored = warned * Ignorable + Len(decisions) /\ Len(decisions) < Ignorable
      BY <1>4 DEF Gathering
    <2>2. ASSUME NEW x \in Nat, NEW y \in Nat, x < y
          PROVE  x * Ignorable + Ignorable <= y * Ignorable /\ x * Ignorable \in Nat
      <3>1. x + 1 \in Nat /\ x + 1 <= y
        BY <2>2
      <3>2. (x + 1) * Ignorable <= y * Ignorable
        BY <1>1, <3>1, Multiplied
      <3> QED
        BY <1>1, <3>2
    <2>3. Ignorable * q = q * Ignorable /\ q * Ignorable \in Nat /\ warned * Ignorable \in Nat
      BY <1>1, <1>2
    <2>4. ~(q < warned)
      BY <1>1, <1>2, <2>1, <2>2, <2>3
    <2>5. ~(warned < q)
      BY <1>1, <1>2, <2>1, <2>2, <2>3
    <2> QED
      BY <1>1, <1>2, <2>4, <2>5 DEF WarningsEarned, q
  <1> QED
    BY <1>3, <1>4 DEF DecisionInv


-----------------------------------------------------------------------------
(***************************************************************************)
(* Why an engine is throttled: the budget was low at the last of its beats *)
(* that was not a paused one.                                               *)
(***************************************************************************)
LEMMA MultipleHasNoRest ==
    ASSUME NEW k \in Nat, NEW p \in Nat \ {0}
    PROVE  (k * p) % p = 0
  <1> DEFINE n == k * p
             q == n \div p
             r == n % p
  <1>1. n \in Nat
    OBVIOUS
  <1>2. q \in Nat /\ r \in 0..(p - 1) /\ n = p * q + r
    BY <1>1, Z3
  <1> HIDE DEF q, r
  <1>3. q * p \in Nat /\ p * q = q * p /\ n = k * p
    BY <1>2
  <1> HIDE DEF n
  <1>4. ASSUME NEW x \in Nat, NEW y \in Nat, x < y
        PROVE  x * p + p <= y * p /\ x * p \in Nat
    <2>1. x + 1 \in Nat /\ x + 1 <= y /\ (x + 1) * p = x * p + p
      BY <1>4
    <2>2. (x + 1) * p <= y * p /\ x * p <= y * p /\ x * p \in Nat
      BY <1>4, <2>1, Multiplied
    <2> QED
      BY <2>1, <2>2
  <1>5. ~(q < k) /\ ~(k < q)
    BY <1>1, <1>2, <1>3, <1>4
  <1>6. r = 0
    BY <1>1, <1>2, <1>3, <1>5
  <1> QED
    BY <1>6 DEF r, n

LEMMA WholeNumberOfPeriods ==
    ASSUME NEW n \in Nat, NEW p \in Nat \ {0}, n % p = 0
    PROVE  \E q \in Nat : q * p = n
  <1> DEFINE q == n \div p
  <1>1. q \in Nat /\ n = p * q
    BY Z3
  <1> HIDE DEF q
  <1>2. q * p = n
    BY <1>1
  <1> QED
    BY <1>1, <1>2

LEMMA ToldStep ==
    ASSUME SchedulerTypes, BeatInv, ToldInv, [OversightNext]_oversightVars
    PROVE  ToldInv'
  <1>1. /\ beat \in Nat /\ pauses \in Nat /\ paused \in Nat /\ paused <= pauses
        /\ low \in NoBeat..MaxBeat /\ MaxBeat \in Nat /\ low <= beat
        /\ DOMAIN throttled \subseteq Engines
        /\ \A e \in Engines : Period[e] \in Nat /\ Period[e] > 0
    BY OversightConstants DEF SchedulerTypes, BeatInv
  <1>2. CASE Tick
    <2>1. UNCHANGED <<throttled, beat, pauses, paused>>
      BY <1>2 DEF Tick
    <2>2. low' \in NoBeat..MaxBeat /\ (low # NoBeat => low' >= low)
      BY <1>2, TickIs
    <2> SUFFICES ASSUME NEW e \in DOMAIN throttled, throttled[e]
                 PROVE  \E q \in Nat : /\ q * Period[e] <= low'
                                       /\ beat <= (q + (pauses - paused) + 1) * Period[e]
      BY <2>1 DEF ToldInv
    <2>3. PICK q \in Nat : /\ q * Period[e] <= low
                           /\ beat <= (q + (pauses - paused) + 1) * Period[e]
      BY DEF ToldInv
    <2>4. q * Period[e] \in Nat
      BY <1>1
    <2>5. q * Period[e] <= low'
      BY <1>1, <2>2, <2>3, <2>4 DEF NoBeat
    <2> QED
      BY <2>3, <2>5
  <1>3. CASE EnginesRun
    <2>1. /\ beat' = beat + 1 /\ throttled' = Recorded /\ UNCHANGED <<pauses, paused, low>>
          /\ step = "engines"
      BY <1>3 DEF EnginesRun
    <2> SUFFICES ASSUME NEW e \in DOMAIN Recorded, Recorded[e]
                 PROVE  \E q \in Nat : /\ q * Period[e] <= low
                                       /\ beat + 1 <= (q + (pauses - paused) + 1) * Period[e]
      BY <2>1 DEF ToldInv
    <2> DEFINE p == Period[e]
               d == pauses - paused
    <2>2. d \in Nat /\ e \in Engines /\ p \in Nat \ {0}
      BY <1>1 DEF Recorded, Asked
    <2>3. CASE e \in Asked
      <3>1. low = beat /\ beat % p = 0
        BY <2>1, <2>2, <2>3 DEF Recorded, Asked, IsThrottled, BeatInv
      <3>2. PICK q \in Nat : q * p = beat
        BY <1>1, <2>2, <3>1, WholeNumberOfPeriods
      <3> HIDE DEF p, d
      <3>3. q + 1 \in Nat /\ q + d + 1 \in Nat /\ q + 1 <= q + d + 1 /\ (q + 1) * p = q * p + p
        BY <2>2
      <3>4. (q + 1) * p <= (q + d + 1) * p /\ (q + d + 1) * p \in Nat
        BY <2>2, <3>3, Multiplied
      <3>5. beat + 1 <= (q + d + 1) * p
        BY <1>1, <2>2, <3>2, <3>3, <3>4
      <3> QED
        BY <3>1, <3>2, <3>5, <1>1 DEF p, d
    <2>4. CASE e \notin Asked
      <3>1. e \in DOMAIN throttled /\ throttled[e] /\ beat % p # 0
        BY <2>2, <2>4 DEF Recorded, Asked
      <3>2. PICK q \in Nat : q * p <= low /\ beat <= (q + d + 1) * p
        BY <3>1 DEF ToldInv
      <3> HIDE DEF p, d
      <3>3. q + d + 1 \in Nat
        BY <2>2
      <3>4. (q + d + 1) * p # beat
        BY <2>2, <3>1, <3>3, MultipleHasNoRest
      <3>5. (q + d + 1) * p \in Nat
        BY <2>2, <3>3
      <3>6. beat + 1 <= (q + d + 1) * p
        BY <1>1, <3>2, <3>4, <3>5
      <3> QED
        BY <3>2, <3>6 DEF p, d
    <2> QED
      BY <2>3, <2>4
  <1>4. CASE PausedBeat
    <2>1. /\ beat' = beat + 1 /\ paused' = paused - 1 /\ UNCHANGED <<throttled, low, pauses>>
      BY <1>4 DEF PausedBeat, schedulerVars
    <2> SUFFICES ASSUME NEW e \in DOMAIN throttled, throttled[e]
                 PROVE  \E q \in Nat : /\ q * Period[e] <= low
                                       /\ beat + 1 <= (q + (pauses - (paused - 1)) + 1) * Period[e]
      BY <2>1 DEF ToldInv
    <2> DEFINE p == Period[e]
               d == pauses - paused
    <2>2. d \in Nat /\ p \in Nat \ {0}
      BY <1>1
    <2>3. PICK q \in Nat : q * p <= low /\ beat <= (q + d + 1) * p
      BY DEF ToldInv
    <2>4. q + (pauses - (paused - 1)) + 1 = q + d + 1 + 1
      BY <1>1
    <2> HIDE DEF p, d
    <2>5. (q + d + 1 + 1) * p = (q + d + 1) * p + p /\ (q + d + 1) * p \in Nat
      BY <2>2
    <2>6. beat + 1 <= (q + (pauses - (paused - 1)) + 1) * p
      BY <1>1, <2>2, <2>3, <2>4, <2>5
    <2> QED
      BY <2>3, <2>6 DEF p
  <1>5. CASE Pause
    <2>1. pauses' - paused' = pauses - paused /\ UNCHANGED <<throttled, low, beat>>
      BY <1>1, <1>5 DEF Pause, schedulerVars
    <2> QED
      BY <2>1 DEF ToldInv
  <1>6. CASE AdminMetaCognitionMode \/ UNCHANGED oversightVars
    BY <1>6 DEF ToldInv, AdminMetaCognitionMode, oversightVars, beatVars, schedulerVars
  <1> QED
    BY <1>2, <1>3, <1>4, <1>5, <1>6 DEF OversightNext

\* An explanation stays one when the budget is low again, for an earlier start, and
\* with more pauses.
LEMMA StillExplains ==
    ASSUME NEW l \in Int, NEW b \in Int, NEW n \in Nat, Explains(l, b, n), l >= NoBeat,
           NEW m \in Int, NEW c \in Int, NEW k \in Nat, l <= m, c <= b, n <= k
    PROVE  Explains(m, c, k)
  <1>1. PICK e \in Engines : l + Period[e] * (n + 1) >= b
    BY DEF Explains
  <1> DEFINE p == Period[e]
  <1>2. p \in Nat /\ l + p * (n + 1) >= b
    BY <1>1, OversightConstants
  <1> HIDE DEF p
  <1>3. (n + 1) * p <= (k + 1) * p /\ (n + 1) * p \in Nat /\ (k + 1) * p \in Nat
    BY <1>2, Multiplied
  <1>4. p * (n + 1) = (n + 1) * p /\ p * (k + 1) = (k + 1) * p
    BY <1>2
  <1>5. m + p * (k + 1) >= c
    BY <1>2, <1>3, <1>4
  <1>6. m # NoBeat
    BY DEF Explains, NoBeat
  <1> QED
    BY <1>5, <1>6 DEF Explains, p

\* A beat that some engine goes through throttled is explained.
LEMMA LoadExplained ==
    ASSUME SchedulerTypes, BeatInv, ToldInv, Load > 0
    PROVE  Explains(low, beat, pauses)
  <1>1. PICK e \in DOMAIN throttled : throttled[e]
    BY LoadBounds DEF SchedulerTypes
  <1> DEFINE p == Period[e]
             d == pauses - paused
  <1>2. PICK q \in Nat : q * p <= low /\ beat <= (q + d + 1) * p
    BY <1>1 DEF ToldInv
  <1>3. /\ e \in Engines /\ p \in Nat /\ d \in Nat /\ pauses \in Nat /\ beat \in Nat
        /\ d + 1 <= pauses + 1 /\ low \in NoBeat..MaxBeat /\ MaxBeat \in Nat
    BY OversightConstants DEF SchedulerTypes, BeatInv
  <1>4. low + p * (pauses + 1) >= beat /\ low # NoBeat
    <2> HIDE DEF p, d
    <2>1. (q + d + 1) * p = q * p + (d + 1) * p /\ q * p \in Nat
      BY <1>3
    <2>2. (d + 1) * p <= (pauses + 1) * p /\ (d + 1) * p \in Nat /\ (pauses + 1) * p \in Nat
      BY <1>3, Multiplied
    <2>3. p * (pauses + 1) = (pauses + 1) * p
      BY <1>3
    <2> QED
      BY <1>2, <1>3, <2>1, <2>2, <2>3 DEF NoBeat
  <1> QED
    BY <1>3, <1>4 DEF Explains, p

LEMMA GrownExplained ==
    ASSUME SchedulerTypes, BeatInv, ToldInv, OpenInv, Tick, NEW b \in 0..100, Grown(b).load > 0,
           low' \in NoBeat..MaxBeat, low # NoBeat => low' >= low
    PROVE  Explains(low', Grown(b).start, pauses)
  <1>1. /\ step = "tick" /\ pauses' = pauses /\ pauses \in Nat /\ beat \in Nat
        /\ low \in NoBeat..MaxBeat /\ MaxBeat \in Nat
    BY OversightConstants DEF Tick, SchedulerTypes
  <1>2. /\ Grown(b).start = IF open = NoWindow THEN beat ELSE open.start
        /\ Grown(b).start \in 0..beat /\ Grown(b).load = open.load + Load
    BY <1>1, GrownIs
  <1>3. open.load \in Nat /\ Load \in Nat /\ (open = NoWindow => open.load = 0)
    BY LoadBounds, OversightConstants DEF SchedulerTypes, OpenType, NoWindow
  <1>4. Explains(low, Grown(b).start, pauses)
    <2>1. CASE open.load > 0
      <3>1. open # NoWindow /\ Explains(low, open.start, pauses)
        BY <1>3, <2>1 DEF OpenInv
      <3> QED
        BY <1>2, <3>1
    <2>2. CASE Load > 0
      <3>1. Explains(low, beat, pauses)
        BY <2>2, LoadExplained
      <3> QED
        BY <1>1, <1>2, <3>1, StillExplains DEF NoBeat
    <2> QED
      BY <1>2, <1>3, <2>1, <2>2
  <1> QED
    <2>1. low # NoBeat
      BY <1>4 DEF Explains
    <2>2. low \in Int /\ low' \in Int /\ low >= NoBeat /\ low <= low'
      BY <1>1, <2>1 DEF NoBeat
    <2>3. Grown(b).start \in Int
      BY <1>1, <1>2
    <2> QED
      BY <1>1, <1>4, <2>2, <2>3, StillExplains

LEMMA OpenStep ==
    ASSUME SchedulerTypes, BeatInv, ToldInv, OpenInv, [OversightNext]_oversightVars
    PROVE  OpenInv'
  <1>1. CASE Tick
    <2>1. PICK b \in 0..100 :
            /\ low' \in NoBeat..MaxBeat /\ (low # NoBeat => low' >= low)
            /\ open' = Grown(b) \/ open' = NoWindow
      BY <1>1, TickIs
    <2>2. pauses' = pauses
      BY <1>1 DEF Tick
    <2>3. CASE open' = Grown(b)
      BY <1>1, <2>1, <2>2, <2>3, GrownExplained DEF OpenInv
    <2>4. CASE open' = NoWindow
      BY <2>4 DEF OpenInv, NoWindow
    <2> QED
      BY <2>1, <2>3, <2>4
  <1>2. CASE ~Tick
    <2>1. /\ UNCHANGED <<open, low>> /\ pauses' \in Nat /\ pauses \in Nat /\ pauses <= pauses'
          /\ low \in Int /\ low >= NoBeat /\ open.start \in Int
      <3>1. pauses \in Nat /\ low \in NoBeat..MaxBeat /\ MaxBeat \in Nat /\ open \in OpenType
        BY OversightConstants DEF SchedulerTypes
      <3>2. UNCHANGED <<open, low>> /\ pauses' \in {pauses, pauses + 1}
        BY <1>2 DEF OversightNext, Pause, PausedBeat, EnginesRun, AdminMetaCognitionMode,
           oversightVars, beatVars, schedulerVars, metaVars
      <3> QED
        BY <3>1, <3>2 DEF NoBeat, OpenType
    <2>2. Explains(low, open.start, pauses) => Explains(low, open.start, pauses')
      BY <2>1, StillExplains
    <2> QED
      BY <2>1, <2>2 DEF OpenInv
  <1> QED
    BY <1>1, <1>2

-----------------------------------------------------------------------------
(***************************************************************************)
(* The streak, and the event it ends in.                                   *)
(***************************************************************************)
Earned(w) == Counts(w) /\ Explains(w.low, w.start, pauses)

\* A filed window that the streak goes on with has itself been gone through throttled.
LEMMA FiledEarned ==
    ASSUME SchedulerTypes, BeatInv, ToldInv, OpenInv, Tick, NEW b \in 0..100,
           low' \in NoBeat..MaxBeat, low # NoBeat => low' >= low
    PROVE  LET w == Filed(b)
               goesOn == UnderThrottle(w) /\ Ineffective(w)
           IN /\ goesOn <=> Counts(w)
              /\ Counts(w) => Earned(w)
              /\ w.start \in 0..beat
  <1> DEFINE w == Filed(b)
  <1>1. /\ w.start = Grown(b).start /\ w.load = Grown(b).load /\ w.low = low'
    BY DEF Filed
  <1>2. /\ step = "tick" /\ pauses' = pauses
    BY DEF Tick
  <1>3. /\ Grown(b).start > escalated /\ Grown(b).start \in 0..beat
        /\ Grown(b).load \in Nat
    BY <1>2, GrownIs
  <1>4. UnderThrottle(w) => w.load > 0
    <2>1. /\ LeastLoad \in Nat /\ Window \in Nat /\ Whole \in Nat
          /\ LeastLoad > 0 /\ Window > 0 /\ Whole > 0
      BY OversightConstants
    <2>2. LeastLoad * Window \in Nat /\ LeastLoad * Window > 0
      <3>1. 1 * Window <= LeastLoad * Window /\ LeastLoad * Window \in Nat
        BY <2>1, Multiplied
      <3> QED
        BY <2>1, <3>1
    <2>3. LeastLoad * Window * Whole > 0
      <3> DEFINE lw == LeastLoad * Window
      <3>1. lw \in Nat /\ lw > 0
        BY <2>2
      <3> HIDE DEF lw
      <3>2. 1 * Whole <= lw * Whole /\ lw * Whole \in Nat
        BY <2>1, <3>1, Multiplied
      <3>3. lw * Whole > 0
        BY <2>1, <3>2
      <3> QED
        BY <3>3 DEF lw
    <2>4. UnderThrottle(w) => w.load * 100 >= LeastLoad * Window * Whole
      BY DEF UnderThrottle
    <2> DEFINE load == w.load
    <2>5. load \in Nat
      BY <1>1, <1>3
    <2> DEFINE least == LeastLoad * Window * Whole
    <2>6. least \in Nat
      BY <2>1
    <2>7. UnderThrottle(w) => load * 100 >= least
      BY <2>4
    <2>8. least > 0
      BY <2>3
    <2> HIDE DEF w, load, least
    <2>9. UnderThrottle(w) => load > 0
      BY <2>5, <2>6, <2>7, <2>8
    <2> QED
      BY <2>9 DEF load
  <1>5. w.load > 0 => Explains(w.low, w.start, pauses)
    BY <1>1, GrownExplained
  <1> HIDE DEF w
  <1>6. UnderThrottle(w) /\ Ineffective(w) <=> Counts(w)
    BY <1>1, <1>3 DEF Counts
  <1>7. Counts(w) => Earned(w)
    BY <1>4, <1>5, <1>6 DEF Counts, Earned
  <1> QED
    BY <1>1, <1>3, <1>6, <1>7 DEF w

\* One more window that counts: the streak is one longer, and still the end of the
\* history, which is long enough for it.
LEMMA LongerStreak ==
    ASSUME SchedulerTypes, StreakInv, NEW w \in WindowType, Earned(w), streak < WindowsKept,
           windows' = Kept(Append(windows, w), WindowsKept)
    PROVE  /\ Len(windows') \in Nat /\ streak + 1 <= Len(windows')
           /\ \A i \in (Len(windows') - streak)..Len(windows') : Earned(windows'[i])
           /\ Len(windows') > streak + 1 => ~Counts(windows'[Len(windows') - (streak + 1)])
  <1>1. /\ windows \in Seq(WindowType) /\ Len(windows) \in Nat /\ Len(windows) <= WindowsKept
        /\ streak \in Nat /\ WindowsKept \in Nat \ {0}
    BY OversightConstants, LenProperties DEF SchedulerTypes, WindowsKept
  <1>2. Slid(windows', windows, w, WindowsKept)
    <2> HIDE DEF WindowType
    <2> QED
      BY <1>1, KeptIs
  <1> DEFINE n == Len(windows)
             m == Len(windows')
  <1>3. /\ m \in Nat /\ m > 0 /\ m = (IF n < WindowsKept THEN n + 1 ELSE WindowsKept)
        /\ windows'[m] = w
        /\ \A i \in 1..(m - 1) : windows'[i] = windows[i + (n + 1 - m)]
    BY <1>2 DEF Slid
  <1>4. /\ streak <= n
        /\ \A i \in (n - streak + 1)..n : Earned(windows[i])
        /\ n > streak => ~Counts(windows[n - streak])
    BY DEF StreakInv, Earned
  <1> HIDE DEF n, m
  <1>5. n \in Nat /\ n <= WindowsKept
    BY <1>1 DEF n
  <1>6. streak + 1 <= m
    BY <1>1, <1>3, <1>4, <1>5
  <1>7. ASSUME NEW i \in (m - streak)..m
        PROVE  Earned(windows'[i])
    <2>1. CASE i = m
      BY <1>3, <2>1
    <2>2. CASE i # m
      <3>1. i \in 1..(m - 1) /\ i + (n + 1 - m) \in (n - streak + 1)..n
        BY <1>1, <1>3, <1>4, <1>5, <1>6, <1>7, <2>2
      <3> QED
        BY <1>3, <1>4, <3>1
    <2> QED
      BY <2>1, <2>2
  <1>8. m > streak + 1 => ~Counts(windows'[m - (streak + 1)])
    <2> SUFFICES ASSUME m > streak + 1
                 PROVE  ~Counts(windows'[m - (streak + 1)])
      OBVIOUS
    <2>1. /\ m - (streak + 1) \in 1..(m - 1)
          /\ (m - (streak + 1)) + (n + 1 - m) = n - streak /\ n > streak
      BY <1>1, <1>3, <1>4, <1>5
    <2> QED
      BY <1>3, <1>4, <2>1
  <1> QED
    BY <1>3, <1>6, <1>7, <1>8 DEF m

\* What a tick does to the history.
LEMMA StreakTick ==
    ASSUME Escalate <= WindowsKept, SchedulerTypes, BeatInv, ToldInv, OpenInv, StreakInv, Tick
    PROVE  \/ UNCHANGED <<windows, streak, escalated>>
           \/ \E w \in WindowType :
                /\ w.start \in 0..beat /\ windows' = Kept(Append(windows, w), WindowsKept)
                /\ \/ /\ ~Counts(w) /\ streak' = 0 /\ escalated' = escalated
                   \/ /\ Earned(w) /\ streak + 1 < Escalate
                      /\ streak' = streak + 1 /\ escalated' = escalated
                   \/ /\ Earned(w) /\ streak + 1 = Escalate
                      /\ streak' = 0 /\ escalated' = beat
  <1>1. PICK b \in 0..100 :
             /\ low' \in NoBeat..MaxBeat /\ (low # NoBeat => low' >= low)
             /\ \/ /\ Grown(b).count < Window /\ open' = Grown(b)
                   /\ UNCHANGED <<windows, streak, escalated>>
                \/ /\ open' = NoWindow /\ Filed(b) \in WindowType
                   /\ windows' = Kept(Append(windows, Filed(b)), WindowsKept)
                   /\ \/ Streak(Filed(b)) >= Escalate /\ streak' = 0 /\ escalated' = beat
                      \/ /\ Streak(Filed(b)) < Escalate /\ streak' = Streak(Filed(b))
                         /\ UNCHANGED escalated
    BY TickIs
  <1> DEFINE w == Filed(b)
  <1>2. /\ UnderThrottle(w) /\ Ineffective(w) <=> Counts(w)
        /\ Counts(w) => Earned(w)
        /\ w.start \in 0..beat
    BY <1>1, FiledEarned
  <1>3. Streak(w) = IF Counts(w) THEN streak + 1 ELSE 0
    BY <1>2 DEF Streak
  <1>4. streak \in 0..(Escalate - 1) /\ Escalate \in Nat /\ Escalate > 0
    BY OversightConstants DEF SchedulerTypes
  <1> HIDE DEF w
  <1>5. CASE UNCHANGED <<windows, streak, escalated>>
    BY <1>5
  <1>6. CASE /\ w \in WindowType /\ windows' = Kept(Append(windows, w), WindowsKept)
             /\ \/ Streak(w) >= Escalate /\ streak' = 0 /\ escalated' = beat
                \/ Streak(w) < Escalate /\ streak' = Streak(w) /\ UNCHANGED escalated
    <2>1. CASE Counts(w)
      BY <1>2, <1>3, <1>4, <1>6, <2>1
    <2>2. CASE ~Counts(w)
      BY <1>2, <1>3, <1>4, <1>6, <2>2
    <2> QED
      BY <2>1, <2>2
  <1> QED
    BY <1>1, <1>5, <1>6 DEF w

LEMMA StreakStep ==
    ASSUME Escalate <= WindowsKept, SchedulerTypes, BeatInv, ToldInv, OpenInv, StreakInv,
           [OversightNext]_oversightVars
    PROVE  StreakInv'
  <1>1. /\ windows \in Seq(WindowType) /\ Len(windows) \in Nat /\ Len(windows) <= WindowsKept
        /\ DOMAIN windows = 1..Len(windows)
        /\ \A i \in 1..Len(windows) : windows[i] \in WindowType
        /\ streak \in Nat /\ streak < Escalate /\ Escalate \in Nat /\ WindowsKept \in Nat \ {0}
        /\ pauses \in Nat
    <2>1. windows \in Seq(WindowType) /\ Len(windows) <= WindowsKept
      BY DEF SchedulerTypes
    <2>2. /\ streak \in Nat /\ streak < Escalate /\ Escalate \in Nat /\ WindowsKept \in Nat \ {0}
          /\ pauses \in Nat
      BY OversightConstants DEF SchedulerTypes, WindowsKept
    <2> HIDE DEF WindowType
    <2> QED
      BY <2>1, <2>2, LenProperties
  <1>2. CASE Tick /\ ~UNCHANGED <<windows, streak, escalated>>
    <2>1. PICK w \in WindowType :
            /\ w.start \in 0..beat /\ windows' = Kept(Append(windows, w), WindowsKept)
            /\ \/ /\ ~Counts(w) /\ streak' = 0 /\ escalated' = escalated
               \/ /\ Earned(w) /\ streak + 1 < Escalate
                  /\ streak' = streak + 1 /\ escalated' = escalated
               \/ /\ Earned(w) /\ streak + 1 = Escalate
                  /\ streak' = 0 /\ escalated' = beat
      BY <1>2, StreakTick
    <2>2. pauses' = pauses
      BY <1>2 DEF Tick
    <2>3. /\ Len(windows') \in Nat /\ Len(windows') > 0 /\ windows'[Len(windows')] = w
      <3> HIDE DEF WindowType
      <3>1. Slid(windows', windows, w, WindowsKept)
        BY <1>1, <2>1, KeptIs
      <3> QED
        BY <3>1 DEF Slid
    <2>4. CASE streak' = 0 /\ ~Counts(w)'
      <3>1. (Len(windows') - 0 + 1)..Len(windows') = {}
        BY <2>3
      <3> QED
        BY <2>3, <2>4, <3>1 DEF StreakInv
    <2>5. CASE Earned(w) /\ streak' = streak + 1 /\ escalated' = escalated
      <3>1. /\ streak + 1 <= Len(windows')
            /\ \A i \in (Len(windows') - streak)..Len(windows') : Earned(windows'[i])
            /\ Len(windows') > streak + 1 => ~Counts(windows'[Len(windows') - (streak + 1)])
        <4>1. streak < WindowsKept
          BY <1>1
        <4> QED
          BY <2>1, <2>5, <4>1, LongerStreak
      <3>2. Len(windows') - (streak + 1) + 1 = Len(windows') - streak
        BY <1>1, <2>3
      <3> QED
        BY <2>2, <2>5, <3>1, <3>2 DEF StreakInv, Earned, Counts, UnderThrottle, Ineffective, Explains
    <2>6. ~Counts(w) /\ escalated' = escalated => ~Counts(w)'
      BY DEF Counts, UnderThrottle, Ineffective
    <2>7. escalated' = beat => ~Counts(w)'
      <3>1. beat \in Nat /\ w.start <= beat
        BY <2>1 DEF SchedulerTypes
      <3> QED
        BY <2>1, <3>1 DEF Counts
    <2> QED
      BY <2>1, <2>4, <2>5, <2>6, <2>7
  <1>3. CASE /\ UNCHANGED <<windows, streak, escalated>>
             /\ pauses' \in Nat /\ pauses <= pauses'
    <2>1. ASSUME NEW i \in (Len(windows) - streak + 1)..Len(windows)
          PROVE  Explains(windows[i].low, windows[i].start, pauses')
      <3>1. streak <= Len(windows) /\ Explains(windows[i].low, windows[i].start, pauses)
        BY <2>1 DEF StreakInv
      <3>2. windows[i] \in WindowType
        BY <1>1, <3>1
      <3>3. /\ windows[i].low \in Int /\ windows[i].start \in Int /\ windows[i].low >= NoBeat
        BY <3>2, OversightConstants DEF WindowType, NoBeat
      <3> QED
        BY <1>1, <1>3, <3>1, <3>3, StillExplains
    <2> QED
      BY <1>3, <2>1 DEF StreakInv, Counts, UnderThrottle, Ineffective
  <1>4. CASE ~Tick
    <2>1. UNCHANGED <<windows, streak, escalated>> /\ pauses' \in {pauses, pauses + 1}
      BY <1>4 DEF OversightNext, Pause, PausedBeat, EnginesRun, AdminMetaCognitionMode,
         oversightVars, beatVars, schedulerVars, metaVars
    <2> QED
      BY <1>1, <1>3, <2>1
  <1>5. Tick => pauses' = pauses
    BY DEF Tick
  <1> QED
    BY <1>1, <1>2, <1>3, <1>4, <1>5

-----------------------------------------------------------------------------
(***************************************************************************)
(* The inductive invariant of Oversight, and what follows from it.         *)
(***************************************************************************)
WatchInv == OversightTypeOK /\ BeatInv /\ ToldInv /\ OpenInv

LEMMA WatchInit == OversightInit => WatchInv /\ StreakInv /\ DecisionInv
  <1> SUFFICES ASSUME OversightInit
               PROVE  WatchInv /\ StreakInv /\ DecisionInv
    OBVIOUS
  <1>1. /\ throttled = [e \in {} |-> FALSE] /\ DOMAIN throttled = {}
        /\ windows = <<>> /\ emissions = <<>> /\ decisions = <<>>
        /\ \A S : <<>> \in Seq(S)
        /\ Len(<<>>) = 0 /\ DOMAIN decisions = {}
    BY DEF OversightInit
  <1>2. open \in OpenType /\ open.load = 0 /\ open.count = 0 /\ Whole * 0 = 0
    BY OversightConstants DEF OversightInit, OpenType, NoWindow, NoBeat
  <1>3. SchedulerTypes
    <2> HIDE DEF OpenType, WindowType
    <2> QED
      BY <1>1, <1>2, OversightConstants DEF OversightInit, SchedulerTypes, WindowsKept, NoBeat
  <1>4. MetaTypes
    BY <1>1, OversightConstants DEF OversightInit, MetaTypes, DecisionsKept
  <1>5. BeatInv /\ ToldInv /\ OpenInv
    BY <1>1, <1>2 DEF OversightInit, BeatInv, ToldInv, OpenInv, NoBeat
  <1>6. StreakInv
    <2>1. (0 - 0 + 1)..0 = {}
      OBVIOUS
    <2> QED
      BY <1>1, <2>1 DEF OversightInit, StreakInv
  <1>7. DecisionInv
    <2>1. warned * Ignorable = 0
      BY OversightConstants DEF OversightInit
    <2> QED
      BY <1>1, <2>1, OversightConstants DEF OversightInit, DecisionInv, AllUsed, Gathering
  <1> QED
    BY <1>3, <1>4, <1>5, <1>6, <1>7 DEF WatchInv, OversightTypeOK

LEMMA WatchStep == WatchInv /\ [OversightNext]_oversightVars => WatchInv'
  <1> SUFFICES ASSUME WatchInv, [OversightNext]_oversightVars
               PROVE  WatchInv'
    OBVIOUS
  <1>1. SchedulerTypes /\ MetaTypes /\ BeatInv /\ ToldInv /\ OpenInv
    BY DEF WatchInv, OversightTypeOK
  <1>2. SchedulerTypes' /\ BeatInv'
    BY <1>1, TickTypes, EnginesTypes, QuietTypes DEF OversightNext
  <1>3. MetaTypes'
    BY <1>1, MetaTypesStep
  <1>4. ToldInv'
    BY <1>1, ToldStep
  <1>5. OpenInv'
    BY <1>1, OpenStep
  <1> QED
    BY <1>2, <1>3, <1>4, <1>5 DEF WatchInv, OversightTypeOK

LEMMA WatchCorrect == OversightSpec => []WatchInv
  <1>1. OversightInit => WatchInv
    BY WatchInit
  <1> QED
    BY <1>1, WatchStep, PTL DEF OversightSpec

\* Type correctness of the watchers: a window in progress is not full, no streak is
\* due, the histories are bounded, and every load fits the window it belongs to.
THEOREM OversightTypeCorrect == OversightSpec => []OversightTypeOK
  <1>1. WatchInv => OversightTypeOK
    BY DEF WatchInv
  <1> QED
    BY <1>1, WatchCorrect, PTL

\* Every Ignorable ignored suggestions give one warning, whatever happens between
\* them.  The tracker keeps DecisionsKept decisions, so a larger threshold would
\* never be reached.
THEOREM WarningsCorrect ==
  ASSUME Ignorable <= DecisionsKept
  PROVE  OversightSpec => []WarningsEarned
  <1>1. OversightInit => DecisionInv
    BY WatchInit
  <1>2. WatchInv /\ DecisionInv /\ [OversightNext]_oversightVars => DecisionInv'
    BY DecisionStep DEF WatchInv, OversightTypeOK
  <1>3. WatchInv /\ DecisionInv => WarningsEarned
    BY WarningsCounted DEF WatchInv, OversightTypeOK
  <1> QED
    BY <1>1, <1>2, <1>3, WatchCorrect, PTL DEF OversightSpec

LEMMA StreakCorrect ==
  ASSUME Escalate <= WindowsKept
  PROVE  OversightSpec => []StreakInv
  <1>1. OversightInit => StreakInv
    BY WatchInit
  <1>2. WatchInv /\ StreakInv /\ [OversightNext]_oversightVars => StreakInv'
    BY StreakStep DEF WatchInv, OversightTypeOK
  <1> QED
    BY <1>1, <1>2, WatchCorrect, PTL DEF OversightSpec

\* A window that counts and holds no more load than it can has not recovered by the
\* least effect.
LEMMA CountsLittle ==
    ASSUME NEW w \in WindowType, Ineffective(w)
    PROVE  w.to - w.from < LeastEffect
  <1> DEFINE most == Window * Whole
             gain == w.to - w.from
             load == w.load
  <1>1. /\ most \in Nat /\ gain \in Int /\ load \in Nat /\ LeastEffect \in Nat
        /\ load <= most
    <2>1. Window \in Nat /\ Whole \in Nat /\ LeastEffect \in Nat
      BY OversightConstants
    <2>2. w.load \in 0..(Whole * Window) /\ w.to \in 0..100 /\ w.from \in 0..100
      BY DEF WindowType
    <2> QED
      BY <2>1, <2>2
  <1>2. gain * most < LeastEffect * load
    <2>1. gain * Window * Whole = gain * most
      BY <1>1, OversightConstants
    <2> QED
      BY <2>1 DEF Ineffective
  <1> HIDE DEF most, gain, load
  <1>3. SUFFICES ASSUME gain >= LeastEffect
                 PROVE  FALSE
    BY <1>1 DEF gain
  <1>4. LeastEffect * load <= LeastEffect * most
    <2>1. load * LeastEffect <= most * LeastEffect
      BY <1>1, Multiplied
    <2> QED
      BY <1>1, <2>1
  <1>5. LeastEffect * most <= gain * most
    <2>1. gain \in Nat
      BY <1>1, <1>3
    <2> QED
      BY <1>1, <1>3, <2>1, Multiplied
  <1>6. LeastEffect * load \in Int /\ LeastEffect * most \in Int /\ gain * most \in Int
    BY <1>1
  <1> QED
    BY <1>2, <1>4, <1>5, <1>6

\* An ineffective_throttle event reports Escalate windows in a row, none reported
\* before, in each of which throttling has let the budget recover by less than the
\* least effect, and each of which some engine went through throttled because the
\* budget was low at one of its beats.  The windows reported are looked up in the
\* history, which keeps WindowsKept of them.
THEOREM EscalationsCorrect ==
  ASSUME Escalate <= WindowsKept
  PROVE  OversightSpec => EscalationEarned
  <1>1. ASSUME WatchInv, StreakInv, OversightNext, escalated' # escalated
        PROVE  /\ Len(windows') >= Escalate
               /\ \A i \in (Len(windows') - Escalate + 1)..Len(windows') :
                   LET w == windows'[i] IN
                   /\ w.start > escalated /\ w.to - w.from < LeastEffect
                   /\ w.low # NoBeat
                   /\ \E e \in Engines : w.low + Period[e] * (pauses + 1) >= w.start
    <2>1. SchedulerTypes /\ BeatInv /\ ToldInv /\ OpenInv
      BY <1>1 DEF WatchInv, OversightTypeOK
    <2>2. Tick
      BY <1>1 DEF OversightNext, Pause, PausedBeat, EnginesRun, AdminMetaCognitionMode, schedulerVars
    <2>3. PICK w \in WindowType :
            /\ windows' = Kept(Append(windows, w), WindowsKept)
            /\ Earned(w) /\ streak + 1 = Escalate
      BY <1>1, <2>1, <2>2, StreakTick
    <2>4. /\ streak \in Nat /\ Escalate \in Nat /\ WindowsKept \in Nat /\ streak < WindowsKept
      BY <2>1, <2>3, OversightConstants DEF SchedulerTypes, WindowsKept
    <2>5. /\ Len(windows') \in Nat /\ Escalate <= Len(windows')
          /\ \A i \in (Len(windows') - streak)..Len(windows') : Earned(windows'[i])
      BY <1>1, <2>1, <2>3, <2>4, LongerStreak
    <2>6. SchedulerTypes'
      BY <2>1, <2>2, TickTypes
    <2>7. ASSUME NEW i \in (Len(windows') - Escalate + 1)..Len(windows')
          PROVE  Earned(windows'[i]) /\ windows'[i] \in WindowType
      <3>1. i \in (Len(windows') - streak)..Len(windows') /\ i \in 1..Len(windows')
        BY <2>3, <2>4, <2>5
      <3>2. windows' \in Seq(WindowType)
        BY <2>6 DEF SchedulerTypes
      <3> QED
        BY <2>5, <3>1, <3>2
    <2>8. \A i \in (Len(windows') - Escalate + 1)..Len(windows') :
            LET u == windows'[i] IN
            /\ u.start > escalated /\ u.to - u.from < LeastEffect
            /\ u.low # NoBeat
            /\ \E e \in Engines : u.low + Period[e] * (pauses + 1) >= u.start
      BY <2>7, CountsLittle DEF Earned, Counts, Explains
    <2> QED
      BY <2>4, <2>5, <2>8
  <1>2. WatchInv /\ StreakInv /\ [OversightNext]_oversightVars =>
          [escalated' # escalated =>
            /\ Len(windows') >= Escalate
            /\ \A i \in (Len(windows') - Escalate + 1)..Len(windows') :
                LET w == windows'[i] IN
                /\ w.start > escalated /\ w.to - w.from < LeastEffect
                /\ w.low # NoBeat
                /\ \E e \in Engines : w.low + Period[e] * (pauses + 1) >= w.start]_oversightVars
    BY <1>1
  <1> QED
    BY <1>2, WatchCorrect, StreakCorrect, PTL DEF OversightSpec, EscalationEarned

\* No run of Escalate windows that an event should report stands in the history
\* unreported: the streak never loses count.
NoneMissed ==
    ~ /\ Len(windows) >= Escalate
      /\ \A i \in (Len(windows) - Escalate + 1)..Len(windows) : Counts(windows[i])

\* CoherenceScheduler._close_window emits one as soon as there is cause to.
THEOREM EscalationsComplete ==
  ASSUME Escalate <= WindowsKept
  PROVE  OversightSpec => []NoneMissed
  <1>1. ASSUME WatchInv, StreakInv
        PROVE  NoneMissed
    <2> SUFFICES ASSUME Len(windows) >= Escalate,
                        \A i \in (Len(windows) - Escalate + 1)..Len(windows) : Counts(windows[i])
                 PROVE  FALSE
      BY DEF NoneMissed
    <2>1. /\ streak \in Nat /\ streak < Escalate /\ Escalate \in Nat /\ Len(windows) \in Nat
      <3>1. windows \in Seq(WindowType)
        BY <1>1 DEF WatchInv, OversightTypeOK, SchedulerTypes
      <3>2. streak \in 0..(Escalate - 1)
        BY <1>1 DEF WatchInv, OversightTypeOK, SchedulerTypes
      <3> HIDE DEF WindowType
      <3> QED
        BY <3>1, <3>2, OversightConstants
    <2>2. Len(windows) > streak /\ Len(windows) - streak \in (Len(windows) - Escalate + 1)..Len(windows)
      BY <2>1
    <2>3. ~Counts(windows[Len(windows) - streak])
      BY <1>1, <2>2 DEF StreakInv
    <2> QED
      BY <2>2, <2>3
  <1> QED
    BY <1>1, WatchCorrect, StreakCorrect, PTL

\* "We always record the decision regardless of mode" holds of every mode there is:
\* as long as no operator has changed it, each suggestion called for is recorded.
RecordedInEveryMode == mode # "text" => unrecorded = 0

\* Until then MetaCognitionLoop.compute and its tracker leave out no suggestion.
THEOREM SuggestionsRecorded == OversightSpec => []RecordedInEveryMode
  <1>1. OversightInit => RecordedInEveryMode
    BY DEF OversightInit, RecordedInEveryMode
  <1>2. WatchInv /\ RecordedInEveryMode /\ [OversightNext]_oversightVars => RecordedInEveryMode'
    <2> SUFFICES ASSUME WatchInv, RecordedInEveryMode, [OversightNext]_oversightVars
                 PROVE  RecordedInEveryMode'
      OBVIOUS
    <2>1. MetaTypes
      BY DEF WatchInv, OversightTypeOK
    <2>2. CASE EnginesRun
      <3>1. mode' = mode /\ (mode # "text" => unrecorded' = unrecorded)
        BY <2>1, <2>2, ComputeIs DEF EnginesRun
      <3> QED
        BY <3>1 DEF RecordedInEveryMode
    <2>3. CASE ~EnginesRun
      BY <2>3 DEF RecordedInEveryMode, OversightNext, Pause, PausedBeat, Tick, AdminMetaCognitionMode,
         oversightVars, metaVars
    <2> QED
      BY <2>2, <2>3
  <1> QED
    BY <1>1, <1>2, WatchCorrect, PTL DEF OversightSpec
=============================================================================
