---------------------------- MODULE AgoraSession ----------------------------
(***************************************************************************)
(* The session with the Agora hub: one token, shared by every REST request  *)
(* of the application, by the loop that refreshes it before it expires and  *)
(* by the WebSocket loop (RefreshingAgoraAgent over AgoraAgent).            *)
(*                                                                         *)
(* A task gives way to the others wherever the code awaits: an answer of    *)
(* the hub, the authentication lock, a sleep.  What lies between two awaits *)
(* is one step.  A refresh or a login is asked, granted or refused by the   *)
(* hub, and heard of later, for what others do in between matters; of any   *)
(* other request only the outcome does.                                     *)
(*                                                                         *)
(* Tokens are numbered in the order the hub issues them, 0 for none.        *)
(***************************************************************************)
EXTENDS Naturals, FiniteSets

CONSTANTS
    Requests,    \* REST requests of the application, the logout included
    Start,       \* the task that runs AgoraAgent.start
    Ws,          \* the WebSocket loop
    Proactive,   \* the proactive refresh loop
    NoTask,      \* nobody holds the lock
    MaxToken,    \* bound on the tokens the hub issues
    MaxLost      \* bound on lost requests, lost answers and failed connects

ASSUME SessionAssumption ==
    /\ MaxToken \in Nat \ {0}
    /\ MaxLost \in Nat
    /\ {Start, Ws, Proactive, NoTask} \cap Requests = {}
    /\ Start # Ws /\ Start # Proactive /\ Ws # Proactive
    /\ NoTask \notin {Start, Ws, Proactive}

Tokens == 1..MaxToken
Callers == Requests \cup {Start, Ws}   \* they call the recovering _req
Tasks == Callers \cup {Proactive}
Posters == Requests \cup {Start}      \* whose requests change something at the hub

VARIABLES
    token,      \* AgoraClient.token
    near,       \* its exp is within the margin, or past
    password,   \* AgoraAgent._password
    running,    \* AgoraAgent._running
    lock,       \* the holder of _auth_lock
    pc,         \* where each task is
    used        \* the token it saw refused (token_used), or about to expire

\* The hub and the wire.
VARIABLES
    issued,     \* the last token issued
    status,     \* of each token: live, expired, or revoked (rotated away)
    secret,     \* the password the hub accepts
    first,      \* the first login must change it: no, yes, yes and we have no other
    net,        \* each task's outstanding request and its answer
    lost

\* What happened, for the properties.
VARIABLES
    done,       \* how often the hub carried out a task's request
    renewals    \* how often holders of the lock renewed the session because
                \* of each token

session == <<token, near>>
local == <<session, password, running, lock, pc, used>>
hub == <<issued, status, secret, first>>
history == <<done, renewals>>
vars == <<local, hub, net, lost, history>>

Locked == {"refresh", "relogin", "keepRefresh", "keepLogin"}
PC == Locked \cup
      {"idle", "first", "lock", "second", "done",                   \* _req
       "boot", "bootAgain", "ready", "started", "failed",           \* Start
       "off", "connect", "open", "asleep", "ownRefresh", "ownLogin", "dead",
       "napping", "keepLock", "ended", "cancelled"}

Kinds == {"call", "change", "refresh", "login"}
Codes == {"ok", "auth", "denied", "lost"}
Rejected == {"auth", "denied"}     \* AgoraError; a lost one is httpx's own error

Message == [st: {"none", "asked", "answered"}, kind: Kinds,
            tok: 0..MaxToken, code: Codes, new: 0..MaxToken]
Silence == [st |-> "none", kind |-> "call", tok |-> 0, code |-> "ok", new |-> 0]
Request(k, t) == [Silence EXCEPT !.st = "asked", !.kind = k, !.tok = t]

Answer(a) == net[a].code
Heard(a) == net[a].st = "answered"
Accepts(t) == t \in 1..issued /\ status[t] = "live"

Revoked(t) == t \in 1..issued /\ status[t] = "revoked"

CallKind(a) == IF a = Start THEN "change" ELSE "call"

Init ==
    /\ token = 0 /\ near = FALSE /\ password = "old" /\ running = FALSE /\ lock = NoTask
    /\ pc = [a \in Tasks |-> IF a = Start THEN "boot"
                             ELSE IF a \in Requests THEN "idle" ELSE "off"]
    /\ used = [a \in Tasks |-> 0]
    /\ issued = 0 /\ status = [t \in Tokens |-> "live"]
    /\ secret = "old" /\ first \in {"no", "change", "stuck"}
    /\ net = [a \in Tasks |-> IF a = Start THEN Request("login", 0) ELSE Silence]
    /\ lost = 0
    /\ done = [a \in Posters |-> 0] /\ renewals = [t \in 0..MaxToken |-> 0]

(***************************************************************************)
(* The hub.                                                                *)
(***************************************************************************)
Reply(a, c, t) == net' = [net EXCEPT ![a].st = "answered", ![a].code = c, ![a].new = t]

\* What becomes of a call or a change of password that is on its way: the hub
\* carries it out, finds its token expired or revoked, or refuses it otherwise;
\* or the connection breaks, before or after the hub saw it.
CarryOut(a) ==
    /\ Accepts(net[a].tok)
    /\ secret' = IF net[a].kind = "change" THEN "new" ELSE secret
    /\ done' = IF a \in Posters THEN [done EXCEPT ![a] = @ + 1] ELSE done

Outcome(a, c) ==
    /\ \/ c = "ok" /\ CarryOut(a) /\ UNCHANGED lost
       \/ c = "auth" /\ ~Accepts(net[a].tok) /\ UNCHANGED <<secret, done, lost>>
       \/ c = "denied" /\ UNCHANGED <<secret, done, lost>>
       \/ /\ c = "lost" /\ lost < MaxLost /\ lost' = lost + 1
          /\ CarryOut(a) \/ UNCHANGED <<secret, done>>
    /\ UNCHANGED <<issued, status, first, renewals>>

\* A refresh rotates the token: the old one is dead from then on.
HubIssues(a) ==
    /\ net[a].st = "asked" /\ issued < MaxToken
    /\ \/ /\ net[a].kind = "refresh" /\ Accepts(net[a].tok)
          /\ status' = [status EXCEPT ![net[a].tok] = "revoked"]
       \/ net[a].kind = "login" /\ password = secret /\ UNCHANGED status
    /\ issued' = issued + 1
    /\ Reply(a, "ok", issued + 1)
    /\ UNCHANGED <<local, secret, first, lost, history>>

HubRefuses(a) ==
    /\ net[a].st = "asked" /\ net[a].kind \in {"refresh", "login"}
    /\ Reply(a, "denied", 0)
    /\ UNCHANGED <<local, hub, lost, history>>

Lose(a) ==
    /\ net[a].st # "none" /\ net[a].kind \in {"refresh", "login"}
    /\ Answer(a) # "lost" /\ lost < MaxLost
    /\ lost' = lost + 1
    /\ Reply(a, "lost", 0)
    /\ UNCHANGED <<local, hub, history>>

\* Only the token in use grows old: one that was replaced may as well have
\* expired just before.
Expire ==
    /\ token # 0 /\ status[token] # "expired"
    /\ \/ ~near /\ near' = TRUE /\ UNCHANGED status
       \/ /\ near /\ status[token] = "live" /\ UNCHANGED near
          /\ status' = [status EXCEPT ![token] = "expired"]
    /\ UNCHANGED <<token, password, running, lock, pc, used,
                   issued, secret, first, net, lost, history>>

(***************************************************************************)
(* A request that recovers the session: RefreshingAgoraAgent._req.          *)
(***************************************************************************)
Goto(a, p) == pc' = [pc EXCEPT ![a] = p]
Ask(a, k, t) == net' = [net EXCEPT ![a] = Request(k, t)]
Hang(a) == net' = [net EXCEPT ![a] = Silence]

\* What the caller does when _req returns or raises.
Onward(a, c) ==
    \/ a \in Requests /\ Goto(a, "done") /\ Hang(a) /\ UNCHANGED password
    \/ a = Start /\ c = "ok" /\ password' = "new" /\ Goto(a, "bootAgain") /\ Ask(a, "login", 0)
    \/ a = Start /\ c # "ok" /\ Goto(a, "failed") /\ Hang(a) /\ UNCHANGED password
    \/ a = Ws /\ c = "ok" /\ Goto(a, "asleep") /\ Hang(a) /\ UNCHANGED password
    \/ a = Ws /\ c \in Rejected /\ Goto(a, "ownRefresh") /\ Ask(a, "refresh", token)
       /\ UNCHANGED password
    \/ a = Ws /\ c = "lost" /\ Goto(a, "dead") /\ Hang(a) /\ UNCHANGED password

Return(a, c) == used' = [used EXCEPT ![a] = 0] /\ Onward(a, c)

Send(a) ==
    /\ used' = [used EXCEPT ![a] = token]
    /\ Goto(a, "first") /\ Ask(a, CallKind(a), token)

Begin(r) ==
    /\ pc[r] = "idle" /\ token # 0
    /\ Send(r)
    /\ UNCHANGED <<session, password, running, lock, hub, lost, history>>

FirstAnswer_RetryLost(a) ==
    /\ pc[a] = "first"
    /\ \E c \in Codes :
        /\ Outcome(a, c)
        /\ \/ c \in {"auth", "lost"} /\ Goto(a, "lock") /\ Hang(a) /\ UNCHANGED <<password, used>>
           \/ c \notin {"auth", "lost"} /\ Return(a, c)
    /\ UNCHANGED <<session, running, lock>>

FirstAnswer(a) ==
    /\ pc[a] = "first"
    /\ \E c \in Codes :
        /\ Outcome(a, c)
        /\ \/ c = "auth" /\ Goto(a, "lock") /\ Hang(a) /\ UNCHANGED <<password, used>>
           \/ c # "auth" /\ Return(a, c)
    /\ UNCHANGED <<session, running, lock>>

Recover_Always(a) ==
    /\ pc[a] = "lock" /\ lock = NoTask
    /\ lock' = a /\ Goto(a, "refresh") /\ Ask(a, "refresh", token)
    /\ UNCHANGED <<session, password, running, used, hub, lost, history>>

\* _recover_session, once it holds the lock.
Recover(a) ==
    /\ pc[a] = "lock" /\ lock = NoTask
    /\ \/ token # used[a] /\ Goto(a, "second") /\ Ask(a, CallKind(a), token) /\ UNCHANGED lock
       \/ token = used[a] /\ lock' = a /\ Goto(a, "refresh") /\ Ask(a, "refresh", token)
    /\ UNCHANGED <<session, password, running, used, hub, lost, history>>

Install(a) == token' = net[a].new /\ near' = FALSE
Renew(a) ==
    /\ Install(a)
    /\ renewals' = [renewals EXCEPT ![used[a]] = @ + 1]

Refreshed(a) ==
    /\ pc[a] = "refresh" /\ Heard(a)
    /\ \/ /\ Answer(a) = "ok" /\ Renew(a) /\ lock' = NoTask
          /\ Goto(a, "second") /\ Ask(a, CallKind(a), token') /\ UNCHANGED <<password, used>>
       \/ /\ Answer(a) \in Rejected /\ Goto(a, "relogin") /\ Ask(a, "login", 0)
          /\ UNCHANGED <<session, password, lock, used, renewals>>
       \/ /\ Answer(a) = "lost" /\ lock' = NoTask /\ Return(a, "lost")
          /\ UNCHANGED <<session, renewals>>
    /\ UNCHANGED <<running, hub, lost, done>>

LoggedIn_KeepLock(a) ==
    /\ pc[a] = "relogin" /\ Heard(a)
    /\ \/ /\ Answer(a) = "ok" /\ Renew(a) /\ lock' = NoTask
          /\ Goto(a, "second") /\ Ask(a, CallKind(a), token') /\ UNCHANGED <<password, used>>
       \/ Answer(a) # "ok" /\ Return(a, Answer(a)) /\ UNCHANGED <<lock, session, renewals>>
    /\ UNCHANGED <<running, hub, lost, done>>

LoggedIn(a) ==
    /\ pc[a] = "relogin" /\ Heard(a)
    /\ lock' = NoTask
    /\ \/ /\ Answer(a) = "ok" /\ Renew(a)
          /\ Goto(a, "second") /\ Ask(a, CallKind(a), token') /\ UNCHANGED <<password, used>>
       \/ Answer(a) # "ok" /\ Return(a, Answer(a)) /\ UNCHANGED <<session, renewals>>
    /\ UNCHANGED <<running, hub, lost, done>>

SecondAnswer(a) ==
    /\ pc[a] = "second"
    /\ \E c \in Codes : Outcome(a, c) /\ Return(a, c)
    /\ UNCHANGED <<session, running, lock>>

(***************************************************************************)
(* AgoraAgent.start: log in, change a first password, connect.              *)
(***************************************************************************)
Launch == running' = TRUE /\ pc' = [pc EXCEPT ![Start] = "ready", ![Ws] = "connect"]

BootLogin ==
    /\ pc[Start] = "boot" /\ Heard(Start)
    /\ \/ /\ Answer(Start) = "ok" /\ first = "change"
          /\ Install(Start) /\ used' = [used EXCEPT ![Start] = net[Start].new]
          /\ Goto(Start, "first") /\ Ask(Start, "change", net[Start].new)
          /\ UNCHANGED running
       \/ /\ Answer(Start) = "ok" /\ first = "no"
          /\ Install(Start) /\ Launch /\ Hang(Start) /\ UNCHANGED used
       \/ /\ Answer(Start) = "ok" /\ first = "stuck"
          /\ Install(Start) /\ Goto(Start, "failed") /\ Hang(Start)
          /\ UNCHANGED <<running, used>>
       \/ /\ Answer(Start) # "ok" /\ Goto(Start, "failed") /\ Hang(Start)
          /\ UNCHANGED <<session, running, used>>
    /\ UNCHANGED <<password, lock, hub, lost, history>>

BootLoginAgain ==
    /\ pc[Start] = "bootAgain" /\ Heard(Start) /\ Hang(Start)
    /\ \/ Answer(Start) = "ok" /\ Install(Start) /\ Launch
       \/ Answer(Start) # "ok" /\ Goto(Start, "failed") /\ UNCHANGED <<session, running>>
    /\ UNCHANGED <<password, lock, used, hub, lost, history>>

\* wait_ready, which gives up after 10 s and leaves the WebSocket loop behind.
Ready ==
    /\ pc[Start] = "ready"
    /\ \/ pc[Ws] = "open" /\ pc' = [pc EXCEPT ![Start] = "started", ![Proactive] = "napping"]
       \/ pc[Ws] # "open" /\ Goto(Start, "failed")
    /\ UNCHANGED <<session, password, running, lock, used, hub, net, lost, history>>

(***************************************************************************)
(* AgoraAgent._ws_loop.                                                    *)
(***************************************************************************)
WsConnect ==
    /\ pc[Ws] = "connect"
    /\ \/ /\ Accepts(token) /\ Goto(Ws, "open") /\ UNCHANGED <<used, net, lost>>
       \/ /\ ~Accepts(token) /\ Send(Ws) /\ UNCHANGED lost
       \/ /\ lost < MaxLost /\ lost' = lost + 1 /\ Send(Ws)
    /\ UNCHANGED <<session, password, running, lock, hub, history>>

\* Closed by the hub with an ordinary code, or with an error or code 4001.
WsCloses ==
    /\ pc[Ws] = "open"
    /\ \/ Goto(Ws, "asleep") /\ UNCHANGED <<used, net>>
       \/ Send(Ws)
    /\ UNCHANGED <<session, password, running, lock, hub, lost, history>>

WsWakes ==
    /\ pc[Ws] = "asleep" /\ Goto(Ws, "connect")
    /\ UNCHANGED <<session, password, running, lock, used, hub, net, lost, history>>

WsRefreshed_Dropped ==
    /\ pc[Ws] = "ownRefresh" /\ Heard(Ws)
    /\ \/ Answer(Ws) = "ok" /\ Goto(Ws, "asleep") /\ Hang(Ws)
       \/ Answer(Ws) \in Rejected /\ Goto(Ws, "ownLogin") /\ Ask(Ws, "login", 0)
       \/ Answer(Ws) = "lost" /\ Goto(Ws, "dead") /\ Hang(Ws)
    /\ UNCHANGED <<session, password, running, lock, used, hub, lost, history>>

\* The rest of _reauth_quiet, which takes no lock.
WsRefreshed ==
    /\ pc[Ws] = "ownRefresh" /\ Heard(Ws)
    /\ \/ Answer(Ws) = "ok" /\ Install(Ws) /\ Goto(Ws, "asleep") /\ Hang(Ws)
       \/ Answer(Ws) \in Rejected /\ Goto(Ws, "ownLogin") /\ Ask(Ws, "login", 0) /\ UNCHANGED session
       \/ Answer(Ws) = "lost" /\ Goto(Ws, "dead") /\ Hang(Ws) /\ UNCHANGED session
    /\ UNCHANGED <<password, running, lock, used, hub, lost, history>>

WsLoggedIn ==
    /\ pc[Ws] = "ownLogin" /\ Heard(Ws) /\ Hang(Ws)
    /\ \/ Answer(Ws) = "ok" /\ Install(Ws) /\ Goto(Ws, "asleep")
       \/ Answer(Ws) \in Rejected /\ Goto(Ws, "asleep") /\ UNCHANGED session
       \/ Answer(Ws) = "lost" /\ Goto(Ws, "dead") /\ UNCHANGED session
    /\ UNCHANGED <<password, running, lock, used, hub, lost, history>>

(***************************************************************************)
(* RefreshingAgoraAgent._proactive_refresh_loop.                            *)
(***************************************************************************)
ProactiveWakes ==
    /\ pc[Proactive] = "napping" /\ near
    /\ Goto(Proactive, "keepLock")
    /\ UNCHANGED <<session, password, running, lock, used, hub, net, lost, history>>

\* Looks again once it holds the lock.
ProactiveLocks ==
    /\ pc[Proactive] = "keepLock" /\ lock = NoTask
    /\ \/ /\ near /\ lock' = Proactive
          /\ Goto(Proactive, "keepRefresh") /\ Ask(Proactive, "refresh", token)
          /\ used' = [used EXCEPT ![Proactive] = token]
       \/ /\ ~near /\ Goto(Proactive, "napping") /\ UNCHANGED <<lock, net, used>>
    /\ UNCHANGED <<session, password, running, hub, lost, history>>

Forget == used' = [used EXCEPT ![Proactive] = 0]

ProactiveRefreshed ==
    /\ pc[Proactive] = "keepRefresh" /\ Heard(Proactive)
    /\ \/ /\ Answer(Proactive) = "ok" /\ Renew(Proactive) /\ lock' = NoTask
          /\ Goto(Proactive, "napping") /\ Hang(Proactive) /\ Forget
       \/ /\ Answer(Proactive) \in Rejected
          /\ Goto(Proactive, "keepLogin") /\ Ask(Proactive, "login", 0)
          /\ UNCHANGED <<session, lock, used, renewals>>
       \/ /\ Answer(Proactive) = "lost" /\ lock' = NoTask
          /\ Goto(Proactive, "ended") /\ Hang(Proactive) /\ Forget /\ UNCHANGED <<session, renewals>>
    /\ UNCHANGED <<password, running, hub, lost, done>>

ProactiveLoggedIn ==
    /\ pc[Proactive] = "keepLogin" /\ Heard(Proactive) /\ Hang(Proactive)
    /\ lock' = NoTask /\ Forget
    /\ \/ Answer(Proactive) = "ok" /\ Renew(Proactive) /\ Goto(Proactive, "napping")
       \/ /\ Answer(Proactive) \in Rejected /\ Goto(Proactive, "napping")
          /\ UNCHANGED <<session, renewals>>
       \/ /\ Answer(Proactive) = "lost" /\ Goto(Proactive, "ended")
          /\ UNCHANGED <<session, renewals>>
    /\ UNCHANGED <<password, running, hub, lost, done>>

\* stop(): both loops are cancelled wherever they await; the lock is released.
\* What they had asked may still reach the hub.
Stop ==
    /\ pc[Start] \in {"started", "failed"} /\ pc[Ws] # "cancelled"
    /\ running' = FALSE
    /\ pc' = [pc EXCEPT ![Ws] = "cancelled", ![Proactive] = "cancelled"]
    /\ lock' = IF lock \in {Ws, Proactive} THEN NoTask ELSE lock
    /\ net' = [a \in Tasks |-> IF a \in {Ws, Proactive} /\ Heard(a) THEN Silence ELSE net[a]]
    /\ used' = [used EXCEPT ![Ws] = 0, ![Proactive] = 0]
    /\ UNCHANGED <<session, password, hub, lost, history>>

-----------------------------------------------------------------------------
HubServes(a) == HubIssues(a) \/ HubRefuses(a)
CallerSteps(a) == FirstAnswer(a) \/ Refreshed(a) \/ LoggedIn(a) \/ SecondAnswer(a)
StartSteps == BootLogin \/ BootLoginAgain \/ Ready
WsSteps == WsConnect \/ WsCloses \/ WsWakes \/ WsRefreshed \/ WsLoggedIn
ProactiveSteps == ProactiveWakes \/ ProactiveRefreshed \/ ProactiveLoggedIn

Next ==
    \/ \E a \in Tasks : HubServes(a) \/ Lose(a)
    \/ Expire
    \/ \E r \in Requests : Begin(r)
    \/ \E a \in Callers : CallerSteps(a) \/ Recover(a)
    \/ StartSteps \/ WsSteps \/ ProactiveSteps \/ ProactiveLocks
    \/ Stop

Spec == Init /\ [][Next]_vars

-----------------------------------------------------------------------------
\* Every variable has its type, and the lock is held exactly by the task that
\* is between taking and releasing it (agora_session.py: _recover_session,
\* _proactive_refresh_loop).
TypeOK ==
    /\ token \in 0..MaxToken /\ password \in {"old", "new"} /\ running \in BOOLEAN
    /\ lock \in Tasks \cup {NoTask}
    /\ pc \in [Tasks -> PC] /\ used \in [Tasks -> 0..MaxToken]
    /\ near \in BOOLEAN
    /\ issued \in 0..MaxToken /\ status \in [Tokens -> {"live", "expired", "revoked"}]
    /\ secret \in {"old", "new"}
    /\ first \in {"no", "change", "stuck"}
    /\ net \in [Tasks -> Message] /\ lost \in 0..MaxLost
    /\ done \in [Posters -> Nat] /\ renewals \in [0..MaxToken -> Nat]
    /\ \A a \in Tasks : pc[a] \in Locked <=> lock = a

\* A burst of requests that fail with one token causes exactly one recovery, the
\* proactive loop's refresh of that token included, however the WebSocket loop's
\* own refreshes fall between (_recover_session's look at the token under the
\* lock).
OneRenewal == \A t \in Tokens : renewals[t] <= 1

\* A request is retried only after the hub refused its token, and with another
\* token: the hub never carries one out twice, so no reply is posted twice to a
\* thread (AgoraSession._req).
RetriesSound ==
    /\ \A a \in Posters : done[a] <= 1
    /\ \A a \in Callers : pc[a] = "second" /\ net[a].st # "none" => net[a].tok # used[a]

\* Unless an answer was lost, the client's credentials are the hub's: a token that
\* was rotated away stays in use only while the answer that carries its successor
\* is on its way, and no password stays that was changed.
CredentialsFollow ==
    /\ Revoked(token) /\ lost = 0 /\ running =>
        \E a \in Tasks : /\ Heard(a) /\ Answer(a) = "ok" /\ net[a].kind = "refresh"
                         /\ net[a].tok = token /\ pc[a] # "cancelled"
    /\ password # secret => lost > 0

\* "capped-backoff reconnect" (agora_bridge.py, client.py): while the agent runs,
\* its WebSocket loop has not ended.
LoopReconnects == running => pc[Ws] # "dead"
=============================================================================
