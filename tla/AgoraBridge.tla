---------------------------- MODULE AgoraBridge ----------------------------
(***************************************************************************)
(* The Agora bridge: messages come in over the WebSocket, one task per      *)
(* message asks the responder and posts the reply, a semaphore limits how   *)
(* many do so at once, and load above a second limit is shed.  The          *)
(* application stops the bridge at any time, and waits a few seconds only.  *)
(*                                                                         *)
(* What one task does between two awaits is one step.  How the session      *)
(* behind a post is kept alive is AgoraSession; here a post goes through,   *)
(* is rejected, or fails with or without having reached the hub.           *)
(***************************************************************************)
EXTENDS Naturals, Sequences, FiniteSets, SequencesExt

CONSTANTS
    Messages,       \* what other citizens and we ourselves post
    MaxConcurrent,  \* _max_concurrent
    MaxQueued,      \* _max_queued
    MaxAgain        \* bound: messages the hub sends again, after a reconnect

ASSUME BridgeAssumption ==
    /\ MaxConcurrent \in Nat \ {0} /\ MaxQueued \in Nat /\ MaxAgain \in Nat
    /\ MaxConcurrent <= MaxQueued

VARIABLES
    kind,       \* what each message is: see Replies
    again,      \* how many the hub has sent again
    seen,       \* AgoraAgent._seen
    inbox,      \* AgoraAgent.inbox
    starter,    \* where AgoraBridge.start is
    loop,       \* _loop_task
    task,       \* the reply task of each message
    queue,      \* those that wait for the semaphore, in order
    stopper,    \* where AgoraBridge.stop is
    posts       \* the replies the hub carried out for each message

vars == <<kind, again, seen, inbox, starter, loop, task, queue, stopper, posts>>

Kinds == {"thread", "whisper", "masked", "own", "blank", "broken"}
Working == {"generating", "posting"}
Live == Working \cup {"waiting"}
InFlight == {m \in Messages : task[m] \in Live \cup {"finished"}}
Holders_Leak == {m \in Messages : task[m] \in Working \cup {"finished", "gone"}}
Holders == {m \in Messages : task[m] \in Working}

Init ==
    /\ kind \in [Messages -> Kinds]
    /\ again = 0
    /\ seen = {} /\ inbox = <<>>
    /\ starter = "connecting" /\ loop = "none"
    /\ task = [m \in Messages |-> "none"] /\ queue = <<>>
    /\ stopper = "none"
    /\ posts = [m \in Messages |-> <<>>]

(***************************************************************************)
(* start: connect, subscribe, start the loop; either call may raise.        *)
(***************************************************************************)
StartConnects ==
    /\ starter = "connecting" /\ stopper = "none"
    /\ starter' \in {"subscribing", "failed"}
    /\ UNCHANGED <<kind, again, seen, inbox, loop, task, queue, stopper, posts>>

StartSubscribes ==
    /\ starter = "subscribing" /\ stopper = "none"
    /\ \/ starter' = "started" /\ loop' = "running"
       \/ starter' = "failed" /\ UNCHANGED loop
    /\ UNCHANGED <<kind, again, seen, inbox, task, queue, stopper, posts>>

Arrives(m) ==
    \/ m \notin seen /\ UNCHANGED again
    \/ m \in seen /\ again < MaxAgain /\ again' = again + 1

Deliver_NotSeen(m) ==
    /\ starter \in {"subscribing", "started"} /\ stopper = "none"
    /\ Arrives(m)
    /\ seen' = seen \cup {m} /\ inbox' = Append(inbox, m)
    /\ UNCHANGED <<kind, starter, loop, task, queue, stopper, posts>>

\* _dispatch, in stream mode: a message seen before is dropped.
Deliver(m) ==
    /\ starter \in {"subscribing", "started"} /\ stopper = "none"
    /\ Arrives(m)
    /\ seen' = seen \cup {m}
    /\ inbox' = IF m \in seen THEN inbox ELSE Append(inbox, m)
    /\ UNCHANGED <<kind, starter, loop, task, queue, stopper, posts>>

(***************************************************************************)
(* _run_loop.                                                              *)
(***************************************************************************)
LoopTakes_OneMore ==
    /\ loop = "running" /\ stopper = "none" /\ inbox # <<>>
    /\ inbox' = Tail(inbox)
    /\ LET m == Head(inbox) IN
       \/ kind[m] = "broken" /\ loop' = "dead" /\ UNCHANGED <<task, queue>>
       \/ kind[m] \in {"own", "blank"} /\ UNCHANGED <<loop, task, queue>>
       \/ /\ kind[m] \in {"thread", "whisper", "masked"}
          /\ Cardinality(InFlight) > MaxQueued
          /\ UNCHANGED <<loop, task, queue>>
       \/ /\ kind[m] \in {"thread", "whisper", "masked"}
          /\ Cardinality(InFlight) <= MaxQueued
          /\ task' = [task EXCEPT ![m] = "waiting"] /\ queue' = Append(queue, m)
          /\ UNCHANGED loop
    /\ UNCHANGED <<kind, again, seen, starter, stopper, posts>>

LoopTakes ==
    /\ loop = "running" /\ stopper = "none" /\ inbox # <<>>
    /\ inbox' = Tail(inbox)
    /\ LET m == Head(inbox) IN
       \/ kind[m] = "broken" /\ loop' = "dead" /\ UNCHANGED <<task, queue>>
       \/ kind[m] \in {"own", "blank"} /\ UNCHANGED <<loop, task, queue>>
       \/ /\ kind[m] \in {"thread", "whisper", "masked"}
          /\ Cardinality(InFlight) >= MaxQueued      \* shed
          /\ UNCHANGED <<loop, task, queue>>
       \/ /\ kind[m] \in {"thread", "whisper", "masked"}
          /\ Cardinality(InFlight) < MaxQueued
          /\ task' = [task EXCEPT ![m] = "waiting"] /\ queue' = Append(queue, m)
          /\ UNCHANGED loop
    /\ UNCHANGED <<kind, again, seen, starter, stopper, posts>>

(***************************************************************************)
(* _handle and _handle_inner, the reply task of message m.                  *)
(***************************************************************************)
NotCancelled == stopper \in {"none", "loop"}
Becomes(m, s) == task' = [task EXCEPT ![m] = s]

Acquire(m) ==
    /\ NotCancelled /\ queue # <<>> /\ m = Head(queue)
    /\ Cardinality(Holders) < MaxConcurrent
    /\ Becomes(m, "generating") /\ queue' = Tail(queue)
    /\ UNCHANGED <<kind, again, seen, inbox, starter, loop, stopper, posts>>

\* The responder's text; silence when it raises or returns nothing.
Generate(m) ==
    /\ NotCancelled /\ task[m] = "generating"
    /\ Becomes(m, "posting") \/ Becomes(m, "finished")
    /\ UNCHANGED <<kind, again, seen, inbox, starter, loop, queue, stopper, posts>>

\* A whisper goes back to its author; without one to name, to the thread.
Audience(m) == IF kind[m] = "whisper" THEN "author" ELSE "thread"

HubPosts(m) == posts' = [posts EXCEPT ![m] = Append(@, Audience(m))]

\* The hub carries it out; or rejects it, or the call fails on the way there or
\* back.
Post(m) ==
    /\ NotCancelled /\ task[m] = "posting" /\ Becomes(m, "finished")
    /\ HubPosts(m) \/ UNCHANGED posts
    /\ UNCHANGED <<kind, again, seen, inbox, starter, loop, queue, stopper>>

\* The done callback, on a later turn of the event loop.
Discard(m) ==
    /\ task[m] = "finished" /\ Becomes(m, "gone")
    /\ UNCHANGED <<kind, again, seen, inbox, starter, loop, queue, stopper, posts>>

(***************************************************************************)
(* stop, called once start has returned or failed; a second call returns at *)
(* once.  That the application waits for it a few seconds only is Lifecycle. *)
(***************************************************************************)
StopBegins ==
    /\ starter \in {"started", "failed"} /\ stopper = "none"
    /\ stopper' = IF loop = "none" THEN "tasks" ELSE "loop"
    /\ UNCHANGED <<kind, again, seen, inbox, starter, loop, task, queue, posts>>

StopCancels ==
    /\ stopper = "loop"
    /\ loop' = IF loop = "running" THEN "ended" ELSE loop
    /\ stopper' = "tasks" /\ queue' = <<>>
    /\ UNCHANGED <<kind, again, seen, inbox, starter, task, posts>>

Cancelled_WorkingOnly(m) ==
    /\ stopper \in {"tasks", "closed"} /\ task[m] \in Working /\ Becomes(m, "finished")
    /\ \/ task[m] = "posting" /\ HubPosts(m)
       \/ UNCHANGED posts
    /\ UNCHANGED <<kind, again, seen, inbox, starter, loop, queue, stopper>>

\* A cancelled task ends where it awaits; a post may have reached the hub.
Cancelled(m) ==
    /\ stopper \in {"tasks", "closed"} /\ task[m] \in Live /\ Becomes(m, "finished")
    /\ \/ task[m] = "posting" /\ HubPosts(m)
       \/ UNCHANGED posts
    /\ UNCHANGED <<kind, again, seen, inbox, starter, loop, queue, stopper>>

\* Every task has ended: log out, close the client.
StopCloses ==
    /\ stopper = "tasks" /\ \A m \in Messages : task[m] \notin Live
    /\ stopper' = "closed"
    /\ UNCHANGED <<kind, again, seen, inbox, starter, loop, task, queue, posts>>

-----------------------------------------------------------------------------
TaskSteps(m) == Acquire(m) \/ Generate(m) \/ Post(m) \/ Discard(m) \/ Cancelled(m)

Next ==
    \/ StartConnects \/ StartSubscribes
    \/ \E m \in Messages : Deliver(m) \/ TaskSteps(m)
    \/ LoopTakes
    \/ StopBegins \/ StopCancels \/ StopCloses

Spec == Init /\ [][Next]_vars

\* The event loop runs what can run; the responder and the hub answer or fail
\* (both clients have timeouts).  Nobody has to deliver a message or to stop.
Fairness ==
    /\ WF_vars(LoopTakes) /\ WF_vars(StopCancels) /\ WF_vars(StopCloses)
    /\ \A m \in Messages : WF_vars(TaskSteps(m))
FairSpec == Spec /\ Fairness

(***************************************************************************)
(* The bridge implements Replies.                                          *)
(***************************************************************************)
Owed(m) == m \in Range(inbox) \/ task[m] \in Live
Fate == [m \in Messages |->
    IF posts[m] # <<>> THEN "answered"
    ELSE IF m \notin seen THEN "unseen"
    ELSE IF Owed(m) THEN "owed" ELSE "aside"]

Promise == INSTANCE Replies WITH fate <- Fate, answers <- posts,
                                 open <- stopper # "closed"

\* Every step of the bridge is one that Replies allows, or changes nothing there:
\* no message is answered twice, in the wrong place, after it was set aside or
\* after stop has returned, however deliveries, tasks and the stop interleave.
ImplementsReplies == Promise!Spec

\* Every variable has its type; no more replies are generated or posted at once
\* and no more reply tasks exist than the two limits say, and the semaphore's
\* queue holds the tasks that wait (AgoraBridge._sem, _inflight).
TypeOK ==
    /\ kind \in [Messages -> Kinds] /\ again \in 0..MaxAgain
    /\ seen \subseteq Messages /\ inbox \in Seq(Messages)
    /\ starter \in {"connecting", "subscribing", "started", "failed"}
    /\ loop \in {"none", "running", "dead", "ended"}
    /\ task \in [Messages -> Live \cup {"none", "finished", "gone"}]
    /\ queue \in Seq(Messages)
    /\ stopper \in {"none", "loop", "tasks", "closed"}
    /\ posts \in [Messages -> Seq({"thread", "author"})]
    /\ Cardinality(Holders) <= MaxConcurrent /\ Cardinality(InFlight) <= MaxQueued
    /\ NotCancelled => Range(queue) = {m \in Messages : task[m] = "waiting"}

\* A message that is taken in is answered or set aside, unless the bridge is
\* stopped or its loop has died of a message it could not read.
Settled == \A m \in Messages :
    Fate[m] = "owed" ~> Fate[m] # "owed" \/ stopper # "none" \/ loop \in {"none", "dead"}

\* A stop that was begun ends: the tasks it cancels are awaited, not forgotten.
StopEnds == stopper = "loop" ~> stopper = "closed"
=============================================================================
