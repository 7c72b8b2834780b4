------------------------------ MODULE Lifecycle ------------------------------
(***************************************************************************)
(* The life of one process, from the end of AxiomaApp.setup to the end of   *)
(* AxiomaApp.shutdown: the main task, which starts the services, runs the   *)
(* heartbeat and tears everything down; the heartbeat; the signal handler;  *)
(* and RegistryClient, started by the main task and then a task of its own. *)
(*                                                                         *)
(* A step is what a task does between two awaits.  A heartbeat that is      *)
(* behind its schedule does not await at all, and nobody else moves.  What  *)
(* goes on inside the bridge is AgoraBridge; here it is connected, cancels  *)
(* its replies, logs out, and may be given up on while it logs out.         *)
(***************************************************************************)
EXTENDS Naturals, FiniteSets

CONSTANTS
    Replies,      \* reply tasks of the bridge
    MaxBeats,     \* run(beats = MaxBeats), in a bounded run
    MaxBackoff,   \* registry_retry_max_seconds, in units of the initial 5 s
    MaxLate,      \* bound on the beats that overrun their period
    MaxMoods      \* bound on the changes of the registry's condition

ASSUME LifecycleAssumption ==
    {MaxBeats, MaxBackoff, MaxLate, MaxMoods} \subseteq Nat /\ MaxBackoff > 0

VARIABLES
    bounded,   \* --beats or --seconds was given
    main,      \* where the main task is
    signal,    \* none, sent, or handled
    shutdown,  \* _shutdown_event
    running,   \* Heartbeat._running
    heart,     \* Heartbeat.run: off, new, beating, or over
    beats,     \* beats left in a bounded run
    busy       \* the loop does not sleep: it has just begun, or is behind

\* The services.
VARIABLES
    bridge,    \* the Agora bridge; gone once start_services has dropped it
    replying,  \* the reply tasks that are alive
    ollama,    \* the client the reply tasks use
    http       \* the HTTP server

\* RegistryClient, and the registry.
VARIABLES
    agent,     \* agent_id is set
    degraded,
    client,    \* where RegistryClient's task is
    backoff,
    mood       \* how the registry answers: ok, reject, fail, or not with JSON

\* What happened, for the bounds and the properties.
VARIABLES
    overruns,  \* beats that overran
    moods      \* changes of mood

mainVars == <<bounded, main, shutdown>>
heartVars == <<running, heart, beats, busy, overruns>>
serviceVars == <<bridge, replying, ollama, http>>
registryVars == <<agent, degraded, client, backoff>>
moodVars == <<mood, moods>>
vars == <<mainVars, signal, heartVars, serviceVars, registryVars, moodVars>>

Starting == {"bridge", "unbridge", "http", "register", "peers", "launch"}
Teardown == {"stopBridge", "logout", "closeOllama", "stopRegistry", "stopHttp"}
Moods == {"ok", "reject", "fail", "garbage"}

Init ==
    /\ bounded \in BOOLEAN /\ main = "bridge" /\ signal = "none" /\ shutdown = FALSE
    /\ running = FALSE /\ heart = "off" /\ beats = MaxBeats /\ busy = FALSE
    /\ bridge \in {"none", "starting"} /\ replying = {}
    /\ ollama \in {"none", "open"} /\ http \in {"none", "off"}
    /\ agent = FALSE /\ degraded = FALSE /\ client \in {"none", "off"} /\ backoff = 1
    /\ mood \in Moods
    /\ overruns = 0 /\ moods = 0

\* An open-ended run waits for the heartbeat or for _shutdown_event; a bounded one
\* is the heartbeat.
Woken == main = "run" /\ (heart = "over" \/ (~bounded /\ shutdown))

\* A heartbeat that does not sleep leaves no turn to anybody else.
MyTurn == ~(busy /\ heart = "beating" /\ running)

(***************************************************************************)
(* The world: signals, and the registry's condition.                        *)
(***************************************************************************)
SignalSent ==
    /\ signal = "none" /\ main # "done" /\ signal' = "sent"
    /\ UNCHANGED <<mainVars, heartVars, serviceVars, registryVars, moodVars>>

SignalHandled_HeartOnly ==
    /\ MyTurn /\ signal = "sent" /\ main # "done"
    /\ signal' = "handled" /\ running' = FALSE
    /\ UNCHANGED <<bounded, main, shutdown, heart, beats, busy, overruns,
                   serviceVars, registryVars, moodVars>>

\* _shutdown_handler, a callback of the event loop.
SignalHandled ==
    /\ MyTurn /\ signal = "sent" /\ main # "done"
    /\ signal' = "handled" /\ shutdown' = TRUE /\ running' = FALSE
    /\ UNCHANGED <<bounded, main, heart, beats, busy, overruns,
                   serviceVars, registryVars, moodVars>>

RegistryChanges ==
    /\ moods < MaxMoods /\ moods' = moods + 1
    /\ \E x \in Moods \ {mood} : mood' = x
    /\ UNCHANGED <<mainVars, signal, heartVars, serviceVars, registryVars>>

(***************************************************************************)
(* start_services.                                                         *)
(***************************************************************************)
StartBridge ==
    /\ MyTurn /\ main = "bridge"
    /\ \/ bridge = "none" /\ main' = "http" /\ UNCHANGED bridge
       \/ bridge = "starting" /\ bridge' = "up" /\ main' = "http"
       \/ bridge = "starting" /\ bridge' = "failed" /\ main' = "unbridge"
    /\ UNCHANGED <<bounded, shutdown, signal, heartVars, replying, ollama, http,
                   registryVars, moodVars>>

\* The bridge that failed to start is stopped and dropped.
StartBridgeFailed ==
    /\ MyTurn /\ main = "unbridge"
    /\ bridge' = "gone" /\ main' = "http"
    /\ UNCHANGED <<bounded, shutdown, signal, heartVars, replying, ollama, http,
                   registryVars, moodVars>>

\* The server is given five seconds, and things go on whatever has become of it.  One
\* that cannot bind its port exits, which ends the loop: the main task is cancelled
\* where it waits, and tears down what there is.
StartHttp ==
    /\ MyTurn /\ main = "http"
    /\ \/ /\ http' \in (IF http = "off" THEN {"serving", "ended"} ELSE {http})
          /\ main' = IF client = "none" THEN "launch" ELSE "register"
       \/ http = "off" /\ http' = "ended" /\ main' = "stopBridge"
    /\ UNCHANGED <<bounded, shutdown, signal, heartVars, bridge, replying, ollama,
                   registryVars, moodVars>>

\* _try_register_with_backoff, up to where it goes for the peers; an answer that
\* is not JSON raises through its caller.
Registers == mood = "ok" /\ agent' = TRUE /\ degraded' = FALSE
Degrades == mood \in {"reject", "fail"} /\ degraded' = TRUE /\ UNCHANGED agent

Register ==
    /\ MyTurn /\ main = "register"
    /\ \/ Registers /\ main' = "peers" /\ UNCHANGED client
       \/ Degrades /\ main' = "launch" /\ client' = "loop"
       \/ /\ mood = "garbage" /\ main' = "stopBridge"
          /\ UNCHANGED <<agent, degraded, client>>
    /\ UNCHANGED <<bounded, shutdown, signal, heartVars, serviceVars, backoff, moodVars>>

Peers ==
    /\ MyTurn /\ main = "peers"
    /\ main' = "launch" /\ client' = "loop"
    /\ UNCHANGED <<bounded, shutdown, signal, heartVars, serviceVars, agent, degraded,
                   backoff, moodVars>>

(***************************************************************************)
(* run, and the heartbeat.                                                 *)
(***************************************************************************)
\* A bounded run calls Heartbeat.run itself; an open-ended one makes it a task,
\* which begins on a later turn.
Launch ==
    /\ MyTurn /\ main = "launch"
    /\ main' = "run" /\ heart' = "new"
    /\ UNCHANGED <<bounded, shutdown, signal, running, beats, busy, overruns,
                   serviceVars, registryVars, moodVars>>

\* Whatever stop() has said before is forgotten.
HeartBegins ==
    /\ heart = "new"
    /\ heart' = "beating" /\ running' = TRUE /\ busy' = TRUE
    /\ UNCHANGED <<mainVars, signal, beats, overruns, serviceVars, registryVars, moodVars>>

\* A loop that sleeps lets a main task go first that has been woken.
Beat ==
    /\ heart = "beating" /\ running
    /\ busy \/ ~Woken
    /\ IF bounded THEN beats > 0 /\ beats' = beats - 1 ELSE UNCHANGED beats
    /\ \/ busy' = FALSE /\ UNCHANGED overruns
       \/ overruns < MaxLate /\ busy' = TRUE /\ overruns' = overruns + 1
    /\ UNCHANGED <<mainVars, signal, running, heart, serviceVars, registryVars, moodVars>>

\* A beat in which the substrate raises, which nobody catches before the main task,
\* ends the loop; so does the last of the ten million beats of an open-ended run.
HeartBreaks ==
    /\ heart = "beating" /\ running
    /\ busy \/ ~Woken
    /\ bounded => beats > 0
    /\ heart' = "over"
    /\ UNCHANGED <<mainVars, signal, running, beats, busy, overruns,
                   serviceVars, registryVars, moodVars>>

HeartEnds ==
    /\ heart = "beating"
    /\ ~running \/ (bounded /\ beats = 0)
    /\ heart' = "over"
    /\ UNCHANGED <<mainVars, signal, running, beats, busy, overruns,
                   serviceVars, registryVars, moodVars>>

\* What did not end is cancelled.
RunEnds ==
    /\ MyTurn /\ Woken
    /\ heart' = "over" /\ running' = FALSE /\ main' = "stopBridge"
    /\ UNCHANGED <<bounded, shutdown, signal, beats, busy, overruns, serviceVars,
                   registryVars, moodVars>>

(***************************************************************************)
(* A reply, while the bridge is up.                                        *)
(***************************************************************************)
ReplyBegins(r) ==
    /\ MyTurn /\ bridge = "up" /\ r \notin replying
    /\ replying' = replying \cup {r}
    /\ UNCHANGED <<mainVars, signal, heartVars, bridge, ollama, http, registryVars, moodVars>>

ReplyEnds(r) ==
    /\ MyTurn /\ r \in replying
    /\ replying' = replying \ {r}
    /\ UNCHANGED <<mainVars, signal, heartVars, bridge, ollama, http, registryVars, moodVars>>

(***************************************************************************)
(* shutdown.                                                               *)
(***************************************************************************)
StopBridge_LogoutFirst ==
    /\ MyTurn /\ main = "stopBridge" /\ shutdown' = TRUE
    /\ \/ bridge = "up" /\ bridge' = "closing" /\ main' = "logout"
       \/ bridge # "up" /\ main' = "closeOllama" /\ UNCHANGED bridge
    /\ UNCHANGED <<bounded, signal, heartVars, replying, ollama, http, registryVars, moodVars>>

\* bridge.stop: nothing new is taken on, and the replies are cancelled.
StopBridge ==
    /\ MyTurn /\ main = "stopBridge" /\ shutdown' = TRUE
    /\ \/ /\ bridge = "up" /\ bridge' = "closing" /\ UNCHANGED main
       \/ /\ bridge = "closing" /\ replying = {} /\ main' = "logout" /\ UNCHANGED bridge
       \/ /\ bridge \in {"none", "gone"} /\ main' = "closeOllama" /\ UNCHANGED bridge
    /\ UNCHANGED <<bounded, signal, heartVars, replying, ollama, http, registryVars, moodVars>>

\* The log out comes through, or five seconds are over.
Logout ==
    /\ MyTurn /\ main = "logout"
    /\ bridge' \in {"stopped", "abandoned"} /\ main' = "closeOllama"
    /\ UNCHANGED <<bounded, shutdown, signal, heartVars, replying, ollama, http,
                   registryVars, moodVars>>

CloseOllama ==
    /\ MyTurn /\ main = "closeOllama"
    /\ ollama' = IF ollama = "open" THEN "closed" ELSE ollama
    /\ main' = "stopRegistry"
    /\ UNCHANGED <<bounded, shutdown, signal, heartVars, bridge, replying, http,
                   registryVars, moodVars>>

\* registry.stop cancels the task wherever it waits.
StopRegistry ==
    /\ MyTurn /\ main = "stopRegistry"
    /\ client' = IF client \in {"none", "dead"} THEN client ELSE "ended"
    /\ main' = "stopHttp"
    /\ UNCHANGED <<bounded, shutdown, signal, heartVars, serviceVars, agent, degraded, backoff,
                   moodVars>>

\* The server sees should_exit, or is cancelled after five seconds.
StopHttp ==
    /\ MyTurn /\ main = "stopHttp"
    /\ http' = IF http = "serving" THEN "ended" ELSE http
    /\ main' = "done"
    /\ UNCHANGED <<bounded, shutdown, signal, heartVars, bridge, replying, ollama,
                   registryVars, moodVars>>

(***************************************************************************)
(* RegistryClient._heartbeat_loop.                                         *)
(***************************************************************************)
Twice_NoCap(b) == 2 * b
Twice(b) == IF 2 * b > MaxBackoff THEN MaxBackoff ELSE 2 * b

\* Another try to register, after the last back-off.
RetryRegister_GiveUp ==
    /\ MyTurn /\ client = "loop" /\ ~agent
    /\ \/ Registers /\ client' = "peers" /\ UNCHANGED backoff
       \/ Degrades /\ backoff' = Twice(backoff) /\ client' = "ended"
       \/ mood = "garbage" /\ client' = "dead" /\ UNCHANGED <<agent, degraded, backoff>>
    /\ UNCHANGED <<mainVars, signal, heartVars, serviceVars, moodVars>>

RetryRegister ==
    /\ MyTurn /\ client = "loop" /\ ~agent
    /\ \/ Registers /\ client' = "peers" /\ UNCHANGED backoff
       \/ Degrades /\ backoff' = Twice(backoff) /\ client' = "asleep"
       \/ mood = "garbage" /\ client' = "dead" /\ UNCHANGED <<agent, degraded, backoff>>
    /\ UNCHANGED <<mainVars, signal, heartVars, serviceVars, moodVars>>

\* The peers are fetched, whatever comes of it; the back-off starts afresh.
RetryPeers ==
    /\ MyTurn /\ client = "peers"
    /\ client' = "loop" /\ backoff' = 1
    /\ UNCHANGED <<mainVars, signal, heartVars, serviceVars, agent, degraded, moodVars>>

\* _tick_heartbeat: any failure is logged and passed over.
TickHeartbeat ==
    /\ MyTurn /\ client = "loop" /\ agent
    /\ degraded' = (degraded /\ mood # "ok") /\ client' = "asleep"
    /\ UNCHANGED <<mainVars, signal, heartVars, serviceVars, agent, backoff, moodVars>>

ClientWakes ==
    /\ MyTurn /\ client = "asleep" /\ client' = "loop"
    /\ UNCHANGED <<mainVars, signal, heartVars, serviceVars, agent, degraded, backoff, moodVars>>

-----------------------------------------------------------------------------
MainSteps ==
    \/ StartBridge \/ StartBridgeFailed \/ StartHttp \/ Register \/ Peers \/ Launch
    \/ RunEnds \/ StopBridge \/ Logout \/ CloseOllama \/ StopRegistry \/ StopHttp

ClientSteps == RetryRegister \/ RetryPeers \/ TickHeartbeat \/ ClientWakes
HeartBeats == HeartBegins \/ Beat \/ HeartEnds

Next ==
    \/ SignalSent \/ SignalHandled \/ RegistryChanges
    \/ MainSteps \/ HeartBeats \/ HeartBreaks \/ ClientSteps
    \/ \E r \in Replies : ReplyBegins(r) \/ ReplyEnds(r)

Spec == Init /\ [][Next]_vars

\* The event loop serves every task in turn when the heartbeat sleeps, as it does
\* after its last overrun, and each await has a timeout; the heartbeat beats.
\* Nobody has to send a signal, the registry need not change, and the heartbeat
\* need not break off.
FairSpec ==
    /\ Spec
    /\ WF_vars(SignalHandled) /\ WF_vars(MainSteps) /\ WF_vars(HeartBeats)
    /\ WF_vars(ClientSteps) /\ \A r \in Replies : WF_vars(ReplyEnds(r))

-----------------------------------------------------------------------------
\* Every variable has its type.
TypeOK ==
    /\ bounded \in BOOLEAN /\ main \in Starting \cup {"run"} \cup Teardown \cup {"done"}
    /\ signal \in {"none", "sent", "handled"} /\ shutdown \in BOOLEAN
    /\ running \in BOOLEAN /\ heart \in {"off", "new", "beating", "over"}
    /\ beats \in 0..MaxBeats /\ busy \in BOOLEAN
    /\ bridge \in {"none", "starting", "up", "failed", "gone", "closing", "stopped", "abandoned"}
    /\ replying \subseteq Replies /\ ollama \in {"none", "open", "closed"}
    /\ http \in {"none", "off", "serving", "ended"}
    /\ agent \in BOOLEAN /\ degraded \in BOOLEAN
    /\ client \in {"none", "off", "loop", "peers", "asleep", "ended", "dead"}
    /\ backoff \in 1..MaxBackoff
    /\ mood \in Moods /\ moods \in 0..MaxMoods
    /\ overruns \in 0..MaxLate

\* "Late replies don't race against a torn-down Ollama client" (shutdown): none is
\* alive when it closes; and when shutdown is done nothing is left running,
\* whichever service failed to start or to stop, and whatever raised.
TornDownInOrder ==
    /\ ollama = "closed" => replying = {}
    /\ main = "done" =>
        /\ bridge \notin {"starting", "up", "failed", "closing"} /\ replying = {}
        /\ heart \in {"off", "over"} /\ http # "serving" /\ ollama # "open"
        /\ client \in {"none", "ended", "dead"}

\* Every signal leads to the end of the shutdown: no service that hangs or fails,
\* and no heartbeat that was behind for a while, keeps the process alive.
ShutdownEnds == signal # "none" ~> main = "done"

\* The registration is retried until it succeeds, as long as the registry is well
\* and the client has not died of an answer: a rejection or an outage before that
\* is not final.
RegistryRecovers ==
    mood = "ok" /\ main = "run" /\ client \notin {"none", "dead"}
        ~> agent \/ mood # "ok" \/ main # "run" \/ client = "dead"
=============================================================================
