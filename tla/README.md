# Axioma, specified

TLA+ specifications of the control logic of Axioma (`src/axioma`): a process that
ticks a simulated substrate ten times a second, measures it, perturbs and repairs
it, keeps snapshots of it, and lets operators and peers talk to it. TLC checks the
models on small instances; TLAPS proves theorems about them for all values of their
constants. Paths below are relative to `src/axioma` unless they say otherwise.

Contents: [the system](#the-system), [modules](#modules), [runs](#runs),
[fairness](#fairness), [refinement](#refinement), [proofs](#proofs),
[where code and text differ](#where-code-and-text-differ),
[what is not modelled](#what-is-not-modelled), [what could follow](#what-could-follow).

## The system

One asyncio process. `AxiomaApp` (`runtime/app.py`) builds every part and registers
it on one `AxiomaContext` (`observability/context.py`), which is both the registry of
parts and the event bus. The parts run in three ways:

- **in the beat.** `Heartbeat.tick` calls recovery, substrate, ring buffer, coherence
  scheduler, compose and the measurement engines one after the other. There is no
  `await` in it, so a beat is atomic to everything else in the loop;
- **between beats**, as asyncio tasks: HTTP handlers, snapshot tasks, Agora bridge and
  session, peer replies, registry heartbeat;
- **in another thread**: the file watcher of the tool executor, in a process that calls
  `start_watcher`. The operator shell does not; the method is there for who embeds the
  executor.

| Component | State | Operations | Talks to | Hard behaviour | What makes it correct |
|---|---|---|---|---|---|
| Heartbeat (`runtime/heartbeat.py`) | beat number, paused beats left, zone | tick, pause, run, stop | every engine, snapshot manager | two paths through a beat; pause may come from operator or recovery; catching up without yielding | what must happen each beat happens in both paths, in order |
| Recovery protocol (`substrate/recovery.py`) | state, countdown, saved parameters, running event, history, escalator, learner | handle_recovery_request, tick, start, restore, settle durability | monitor's request, HTTP force, cadence, substrate parameters | requests in and between beats, restart in a recovery, pending durability | parameters come back; recoveries end, in order, after their full course |
| Fragmentation monitor (`measurement/fragmentation_monitor.py`) | stage, episode, history | compute | ring buffer, recovery protocol | throttled and warm-up beats, first request of an episode | one episode is settled once, requests follow the stage |
| Coherence scheduler (`scheduler/coherence_scheduler.py`) | budget, throttles, E13 window and streak | throttle_for, tick, close window | PNEUMA, every engine | budget moves between due beats | slow engines lose nothing; an escalation reports fresh windows that were throttled |
| Perturbation scheduler (`measurement/perturbation_scheduler.py`) | battery index, event in flight, history | compute, inject_now | substrate, cadence, delta-phi | operator event over an event in flight; throttling | every event applied as often as declared, the battery in turn |
| Delta-phi engine (`measurement/delta_phi_engine.py`) | open windows, readings | event handler, compute | theta_short | overlapping windows, periods that meet rarely | one reading an event, in time, of fresh samples |
| Compose cadence and function (`compose/`) | window, recovery flag, last compose, memoized external state, zone | event handlers, should_compose, compose | heartbeat, substrate | cadences that change between beats tested by remainder | no gap longer than a period |
| Theta, raw MI, cascade, plasticity, curvature, AOS-G (`measurement/`) | windows, current value, auto-tuned threshold | compute | ring buffer, compose | warm-up; thresholds that tune themselves | read-only; a value belongs to one beat |
| Meta-cognition (`measurement/meta_cognition_loop.py`) | assessments, suggestion records | compute, record | recovery protocol, escalation | bookkeeping of suggestions the protocol decides on | one warning for each run of ignored ones |
| Snapshot manager (`persistence/snapshot.py`) | components, last result; directories and the `current` link on disk | register, take, prune, load | heartbeat task, app | a crash or failing disk between any two steps; pruning | `current` is always loadable and never goes back |
| Tool executor, shell (`self_expansion/tool_executor.py`, `tools/shell.py`) | routing table, servers, modules, registry file | register, load, unload, reload, watch, restore, execute | watcher thread, disk | two threads, one lock; a file written while read; crash in a restore | tables agree; the registry brings back what was loaded |
| Agora bridge, session, client (`interface/agora*`) | socket, token, subscriptions, seen ids, replies in flight | start, stop, intake, reply, refresh, reconnect | hub, peer conversation | load shedding, one token and many refreshers, duplicates | one answer a message in its place, one renewal a token |
| Peer conversation (`interface/peer_conversation.py`) | histories, tasks in flight | respond, tool loop, recovery turn | Ollama, tool executor | concurrent replies to one history | a reply has its own context, a bounded cost and an end |
| Calibration (`interface/calibration.py`) | active sessions | start, label, end | disk | failing write | an ended session is on disk |
| Registry client (`interface/registry_client.py`) | agent id, degraded, peers | register, heartbeat, stop | registry | retries, stop while waiting | registration is retried until it succeeds |
| HTTP API (`interface/http_api.py`) | token, history of rejections | admin and read handlers | all of the above | runs between beats | admin calls have the effect of one call |
| Lifecycle (`runtime/app.py`) | done flags, tasks | setup, run, shutdown | all | any service missing, half started or hanging; bounded waits; a heartbeat that does not yield | torn down in order; every signal ends the process |
| Event bus (`observability/context.py`) | subscribers | emit, emit_sync | all | failing subscriber, coroutine subscriber | every subscriber is called |
| Substrate (`substrate/`) | organ states, drive, beat number | tick | heartbeat | floating-point dynamics | (numeric) |
| Infrastructure, configuration, pre-built tools | none that lives on | calls | services | – | – |

`PROJECT.json` lists, under `hazards`, what in this code is hard to test, at the line
where it bites, with the properties that would catch it.

## Modules

| Module | Models | A step is |
|---|---|---|
| `Recovery` | `RecoveryProtocol`, `FragmentationMonitor`, the part of `Heartbeat.tick` around them, two admin handlers | half a tick: the protocol's countdown with the substrate, then the monitor with all its request reaches; the operator acts between ticks |
| `SnapshotStore` | `SnapshotManager`, the persistence step of the heartbeat, on-demand takes, restart | each write, rename, link swap and removal; the process may die between any two, and each may fail |
| `Archive` | nothing of the code: what the store promises to a process that boots | a take appears, or returns |
| `ToolExecutor` | `ToolExecutor`, the shell's boot and its load and unload commands, the watcher thread that `start_watcher` adds | each access to shared state that is not under the lock, of one of two threads; an author edits the files; the process may die |
| `Perturbation` | `PerturbationScheduler`, `DeltaPhiEngine`, `CadenceController`, throttling, theta_short's warm-up, the beat around them | one part the beat calls, in the order `Heartbeat.tick` and `app.py:219` give; operator and recovery act between beats |
| `AgoraSession` | `RefreshingAgoraAgent`, and of `AgoraAgent` the start, the WebSocket loop and its own reauthentication | what a task does between two awaits; the hub answers, refuses or is lost |
| `Replies` | nothing of the code: what the bridge promises the other citizens | one message's fate |
| `AgoraBridge` | `AgoraBridge`, and `AgoraAgent._dispatch` with its inbox | what a task does between two awaits |
| `Conversation` | `PeerConversationHandler.respond_text`, the tool loop and the recovery turn | what a reply does between two awaits |
| `Lifecycle` | `AxiomaApp.start_services`, `run` and `shutdown`, `Heartbeat.run` and `stop`, the signal handler, `RegistryClient` | what a task does between two awaits |
| `Oversight` | `CoherenceScheduler` with its effectiveness windows (E13), `MetaCognitionLoop`, `SuggestionTracker`, one admin handler | half a beat: the scheduler's tick, then the engines |

`MC<Module>` gives each model its values for TLC, `<Module>Proofs` holds its theorems
(`RuntimeProofs` those of both `Lifecycle` and `Oversight`; `Replies` and
`Archive` have none). The variables of each module are commented
with the attribute they stand for; `PROJECT.json` maps every definition to its lines.
Variants named `Operator_Something` stand before the operator they vary: each is a slip
that code could contain, and breaks the property it is listed with.

The models meet where the components do: a Stage-4 recovery pauses the heartbeat
(`Pause` in `SnapshotStore`, `Perturbation` and `Oversight`); the reply a bridge task
generates is a reply of `Conversation`; its post is a request of `AgoraSession`; what the
bridge's `stop` does inside is one wait of `Lifecycle`. Each model leaves to its
neighbour what the neighbour decides, as a free choice among the outcomes it can have.

**Recovery.** Organ weights, drive noise, MNEME's `alpha_p` and the perturbation
magnitude are each a number of reductions applied, 0 being the value at boot: the code
multiplies and restores by copy, so what matters is whether a copy was taken before or
after a reduction. `operatorCalls`, `forces`, `starts`, `interrupted`, `episodeFirst`
and an event's `countFrom` are observers; `forces` counts the requests that said force, whatever
the protocol makes of them. The monitor's stage
is a free choice, since it follows from correlations of organ states.

**SnapshotStore.** A file holds the beat it was written in. Names are second, label and
daily flag, ordered as the strings are. A label is compared as text, which differs from
the number at a power of ten; the instance starts at beat 8 so that it passes 10. Crash
means death of the process, the disk keeping what was done: `snapshot.py` syncs the
temporary directory and not its parent, and nothing here says what a power loss does.

**ToolExecutor.** A server is the number of its registration, which stands for the unique
module name the code generates. Reading, validating and executing a file is one step: the
thread holds what it read. Two writes of the author make a file, so the watcher can meet
a half-written one. The watcher is modelled as started once the boot is over. `Path.write_text` is one step, `os.replace` is another, over one
temporary name for both threads. A server lists a tool name once, and one process uses a
registry file.

**Perturbation.** An event is the number of its injection. `applied`, `cutShort`,
`quietSince`, `skipped` and `failed` are observers. A computation of `theta_short` that raises
is logged and leaves its last value current, which delta-phi then samples under its old beat;
`failed` holds the beats in which that happened. The budget takes three values, one for each
combination of thresholds the modelled engines can tell apart. The scheduler is enabled;
`RecoveryStateChange` stands for the protocol's event of whatever cause. In the real
configuration the cadences are 5, 30 and 60 beats, the scheduler's period is 600; the
assumptions keep what matters of that, that the cadences are multiples of one another
and the period is even (with an odd period a throttled scheduler would skip turns).

**AgoraSession.** Tokens are numbered as the hub issues them; `status` is what the hub
thinks of each. A refresh or a login is asked, answered and heard in three steps, for
other tasks move in between and what is renewed must be the token the asker saw; of any
other request only the outcome matters, and it is one step with the answer. `near` is
"the token's `exp` is within the margin". `_auth_lock` is `lock`; a task that waits for
it is at `lock` or `keepLock`. A lost request or answer raises one of httpx's errors, which are
not `AgoraError`. `done` and `renewals` are observers. `Stop` cancels the two loops; that the bridge's `stop` has
by then cancelled reply tasks, some of them inside a request, is left to `AgoraBridge`: here a
request is not cancelled, and may go on after the stop. The hub is external: it rotates a
token when it refreshes it, and knows one password.

**AgoraBridge.** A message has one of six kinds, of which the code distinguishes: a reply
goes to the thread or to the author, or there is none; the intake may die of it. `seen` is
`AgoraAgent._seen`, a set that only grows. A reply task is none, waiting, generating,
posting, finished (its done callback has yet to run) or gone; `queue` is the semaphore's. `stop` cancels
and awaits the loop, cancels and awaits the tasks, and closes.

**Conversation.** A turn is who speaks and which message it is about; a text is the number
of the request that brought it. A set of tool calls is its signature, since all the
repetition guard sees of it is that. `asked` and `ran` are observers.

**Lifecycle.** `main` is the program counter of `AxiomaApp` from the end of `setup` to the
end of `shutdown`, `heart` that of `Heartbeat.run`. `busy` says that the heartbeat does not
sleep before its next beat, because it is behind, so that nobody else has a turn
(`MyTurn`). The registry's condition, `mood`, changes freely; "garbage" is an answer with
status 200 that is not JSON, which raises through `_try_register_with_backoff`. A time-out
of 5 s is the choice between an awaited end and giving up. `HeartBreaks` is the beat in which
`substrate.tick` raises, the one part of a beat that `Heartbeat.tick` does not guard, and the
end of an open-ended run after its 10,000,000 beats. A server that cannot bind its port exits
the process from its task, as uvicorn does, which cancels the main task into its `finally`.

**Oversight.** The budget is in percent, the load of a window in parts of `Whole`, so that
shares of engines stay integers; the comparisons are multiplied out. `low`, `escalated`,
`ignored`, `warned` and `unrecorded` are observers. What the assessment reads of the
monitor, the protocol and delta-phi is a free choice in each beat.

## Runs

All bounds are constants named in the configurations. `CHECK_DEADLOCK FALSE` is set
everywhere because the models stop at their bounds or, as a process does, at their end.

| Run | Distinct states | Shows |
|---|---|---|
| `recovery` | 2,029,049 | reductions are accounted for, recoveries take their full course through pauses, history in order, durability settled in time, a forced request and nothing else starts a recovery over; a recovery ends |
| `snapshot` | 477,531 | the store implements `Archive`; `current` is complete and of one beat, pruning spares what it must |
| `tools` | 626,162 | tables agree, nothing orphaned, the registry follows, no second import outside the known race, what was loaded survives |
| `perturbation` | 13,603,231 | overlapping events applied, recorded and composed as declared under throttling and a failure of theta |
| `agora_session` | 4,909,501 | the lock has one holder, one renewal for one token, no request carried out twice, the client keeps the credentials the hub accepts |
| `agora_bridge` | 370,024 | the bridge implements `Replies`; what is taken in is settled; a stop ends |
| `conversation` | 834,056 | every reply has its own context, a bounded cost and an end |
| `lifecycle` | 826,896 | torn down in order; every signal ends the process; registration is retried |
| `oversight` | 562,283 | an escalation reports three fresh throttled windows; one warning for each run of ignored suggestions |
| `recovery_pristine` | violated | force over a recovery loses the boot values |
| `agora_reconnect` | violated | the WebSocket loop dies of a connection error while it reauthenticates |
| `oversight_mode` | violated | a mode set over HTTP ends suggestions and their record |

Why the bounds suffice:

- *Recovery*, 9 beats, duration 2, history of 2, watchdog 5: three whole recoveries and the
  start of a fourth fit, so the history drops an event, an event is settled by episode and
  another by watchdog, and a pause falls into each state. Two operator calls: one to
  force over a running recovery and one to do it again.
- *SnapshotStore*, two components, three ticks with one pause, one on-demand take, one
  crash and one failure, two rolling snapshots: a crash during a take is followed by a
  whole take and its pruning. The component names are symmetric.
- *ToolExecutor*, two files, both of which list a tool the other or the built-in server
  has; three imports, four edits, two commands, one failing import, one crash: both
  threads can be in the middle of a load, an unload or a reload of the same file, and a
  restart restores two modules. Three commands (4.6 million states) also pass.
- *Perturbation*, 14 beats with periods 6 (scheduler), 5 (window), 3 (delta-phi), 2, 4
  and 8 (cadences), events of 1 and 3 beats: two turns of the battery, an operator event
  at any beat and so before, in and after the scheduled ones, windows that close in
  throttled and unthrottled beats, and a whole recovery between two perturbations. One
  failure of theta in any beat, the one in which a window should close among them.
- *AgoraSession*, two requests, the start and both loops over three tokens with one loss:
  the boot's token can be renewed twice, so that a task may come with the token before the
  last; two requests are what it takes to race for the lock, and a third caller with a
  lock of its own there is not. The two requests are symmetric.
- *AgoraBridge*, three messages of all 216 combinations of kinds, one reply at a time, two
  in flight, one delivery again: the third is shed, the second waits for the semaphore,
  and each can be delivered again before, while and after it is answered. Liveness is
  checked, so there is no symmetry.
- *Conversation*, two replies to two peers over a history of two turns, so that one reply
  drops the question of the other while it awaits; four rounds and a limit of three, so
  that guard and cap can each come first.
- *Lifecycle*, two replies, two beats of a bounded run, one overrun, two changes of mood, a
  back-off of up to 3: every service can be there or not, and a registry can fail, recover
  and fail again.
- *Oversight*, 13 beats with windows of 3 and an escalation after three: one escalation and
  a window after it; a low-priority engine of period 4, longer than a window; a pause over
  any of its beats; two changes of the budget over three values. Warnings after two
  ignored suggestions, so that two of them can be emitted.

## Fairness

- *Recovery*: `WF_vars(Tick)`. `Heartbeat.run` is a loop that calls `tick` and sleeps;
  protocol, scheduler, compose and engines are called in a `try` of their own each, so
  none of them ends it. `stop` does, and so would `substrate.tick`, which is not guarded
  (`heartbeat.py:261`): the claim is about a heartbeat that goes on, and such an end is in
  `Lifecycle`. As long as a tick can be taken one is. Operator calls and the monitor's
  choices have no fairness.
- *AgoraBridge*: the intake, the two steps of `stop` and each reply task are weakly fair:
  asyncio runs every ready task, `asyncio.Semaphore` serves its waiters in order, and
  responder and hub answer or raise because both clients have timeouts. Nobody need
  deliver a message or call `stop`.
- *Conversation*: the steps of a reply after its first are weakly fair; each request to
  the model and each tool call is awaited with a timeout.
- *Lifecycle*: signal handler, main task, heartbeat, registry task and the end of each
  reply are weakly fair. A heartbeat behind its schedule starves the others only as long as
  it is behind, and `MaxLate` bounds how many beats overrun: a machine too slow for every
  beat would starve them for ever, and nothing is claimed of it. Signals, the registry's
  condition and a beat that breaks off have no fairness.

`AgoraSession` has no liveness run: with fairness its graph of 4.9 million states is out
of reach, and smaller instances lack the races it is about.

## Refinement

`Replies` says what the other citizens see: a message is unseen, owed, set aside or
answered, once, in its place, while the bridge is open. `AgoraBridge` implements it under
the mapping `fate <- Fate`, `answers <- posts`, `open <- stopper # "closed"`: a message
is answered when the hub has carried out a post for it; else unseen until `_seen` holds
it; else owed while it is in the inbox or has a live task; else set aside, whether shed,
blank, our own, failed, or cancelled. Shedding, a failing responder and a cancellation are
thus one step, `SetAside`, and everything in between stutters. TLC checks it for three
messages, `BridgeImplements` proves it for any.

`Archive` says what a process that boots can rely on, whenever the one before it died:
`load_latest` finds nothing or all parts of one beat; what it finds is replaced as a whole,
by a later take of no earlier beat; and a take that has returned is there. `SnapshotStore`
implements it under `latest <- Latest`, `take <- link.take`: `Latest` is what a boot would
load at that moment, found by name as the code does. The swap of the link is `Publish`, the
return of a take `Confirm`, and every other step of a take, failure, crash, restart and
pruning stutters. `StoreImplements` proves it.

## Proofs

Proved with TLAPS for every value of the constants that the named assumptions allow (one
`ASSUME` in each module). Each module of proofs has one inductive invariant, a lemma for
each action that keeps it, and the theorems that follow from it; where it has more than
one, each rests on the ones before it. A theorem that is about a property of a run is
followed by the property's name; the other ones state a property of their own, given
before the theorem, which TLC checked on the same instances before it was proved.

`RecoveryProofs`
- `TypeCorrect`, `ParamsCorrect` (`ParamsAccounted`), `CourseCorrect`
  (`RunsFullCourse`), `HistoryOrdered`, `DurabilityIsTimely`, `PendingIsOfEpisode` and the
  three together, `HistorySettledCorrect` (`HistorySettled`), `ForceOnly`
  (`OnlyForceInterrupts`, in both directions): the safety properties of `recovery`. None is inductive as it
  stands; what is added is that a running recovery has saved parameters and a countdown
  above zero (`TypeInv`), that the beats since its start and its countdown add up to its
  duration and that it starts after everything in the history has ended (`CourseInv`), and
  that an episode's first request lies in the past (`DurabilityInv`). The proofs abstract
  the steps to a few kinds (a tick, a start, an idle step) and prove each kind once.
- `PristineCorrect`: what `recovery_pristine` refutes holds if no force interrupts.

`SnapshotStoreProofs`
- `TypeCorrect`, `CurrentIsComplete` (`CurrentComplete`), `ReturnedStays`,
  `PruningSpares` (`PruneSpares`). `StoreInv` relates the step of the
  take to its directory (`JobInv`), says that a take has one directory, whose files are all
  of one beat and whose name is not younger than the clock (`DirsInv`), and that what is
  to be pruned is not published and has enough directories after it (`PruneInv`), which
  survives a pruning that goes in name order.
- Hypothesis: `MaxPerSecond <= RollingKeep`. Names of one second are ordered by the digits
  of the beat, so with more than `rolling_keep` takes in one second the take in progress
  could come first in name order and be pruned by itself. `JobSpared` is the counting
  argument that it is not.
- `DiskIsBounded`, `PrunedOnReturn`, under the same hypothesis: there are at most
  `rolling_keep` rolling directories, plus one for each disk operation that failed, each
  crash and the take in progress, and a returning take has made up for the crashes. That
  the failures do not go away is what the code does: a directory `rmtree` could not remove
  is met again by the next pruning, but the bound does not rest on it. `CountInv` says how
  far the count is at each step of a take and what pruning will leave of it; it needs that
  no two directories share a name (`NamesInv`), since the names that pruning keeps are
  counted by their places in name order.
- `StoreImplements` (`ImplementsArchive`), under the same hypothesis: `AgeInv` says that
  nothing on the disk is of a beat to come, and that what the swap is about to publish is of
  this beat and of a take not published before; that what the link names is the only
  directory of its name is `NamesInv` again.

`ToolExecutorProofs`
- `TypeCorrect`: needs that a call in progress holds the file its step needs (`CallInv`).
- `RoutesCorrect` (`RouteConsistent`): needs that the registration of a module is
  fresh when it is made (`FreshInv`): each import takes a new number, and two threads
  about to register hold different ones, so no server is registered twice.
- `OnRecord` (`OnRecordOnce`), `RegistryKept` (`RegistryFollows`), `CrashSurvived`
  (`SurvivesCrash`): one invariant, `ExecInv`. `RecordInv` holds for any overlap: a module
  being registered has no record and shares its number with no other, and one being
  unloaded has left the table before its record says so. The rest is about calls that do
  not overlap. `FileInv`: what a call read of the records is still true when it uses it,
  what it is about to write is what they say, and outside a save the file follows them.
  `BootInv` and `PromiseInv`: a promised file is whole, and loaded or still ahead of a
  running restore, which is why the crash that interrupts a restore is excluded. The steps
  are first summarised variable by variable (`CallIs`, `StepIs`); each part of the
  invariant is proved from the summaries.

`PerturbationProofs`
- `TypeCorrect`: needs that no event number, sample or reading is ahead of its counter
  (`Counted`).
- `AppliedCorrect` (`AppliedAsDeclared`): an event was applied, and has still to be
  applied, as often as declared; one that was cut short, less often; for every period,
  length and battery.
- `ReadingsCorrect` (`OneReading`): every event is being recorded or was read once. The
  windows that close in one run of the engine are finalized in some order; that the order
  names each of them once follows by counting.
- `SamplesAreFresh` (`FreshSamples`): every sample is of a theta measured in its own beat,
  or of an earlier one in a beat in which theta_short failed. Needs that delta-phi is due
  only in beats in which theta_short is: where the budget halves theta_short's rate it
  halves delta-phi's too, and a multiple of `2p` is even.
- `CadenceCorrect` (`CadenceKept`): the multiples of the recovery period are multiples of
  the other two (`Divides`), so each is composed under any cadence (`CadenceInv`); the
  cadence window is that of the last event and covers all earlier ones. With the last
  multiple before a beat at most a period away (`LastMultiple`), the bound follows. That an
  event never bears a stamp older than the last beat needs that no beat was paused
  (`ClockInv`).
- `NothingLost` (`DelayedNotLost`): a throttled engine still runs at the multiples of twice
  its period (`SamplingIsDue`), so a window that is open after such a warm beat had not
  ended, or theta_short failed in that beat (`ReadInv`, `WarmInv`); due beats of the scheduler are even, so a throttle never
  takes one, and the place in the battery counts its events (`ScheduleInv`).

`AgoraSessionProofs`
- `TypeCorrect`, `RenewedOnce` (`OneRenewal`), `RetriesAreSound` (`RetriesSound`).
  `SessionInv` adds that a token on its way to a task has never been in use, that one that
  was renewed is in use no more, and that the holder of the lock does not want to renew a
  renewed one (`TokenInv`): this is where the look at the token under the lock counts. A
  request that still tries has not been carried out (`DoneInv`); one at its second try
  carries another token than the refused one (`SecondInv`).
- `CredentialsKept` (`CredentialsFollow`): on top of `SessionInv`, `RotationInv` says that
  nobody has asked the hub to rotate away a token that is still on its way, so whatever
  arrives may be put in use; and that a token in use was rotated away only for an answer
  that is. `PlaceInv` ties an outstanding refresh or login to a task that waits for it.
  Every step of one task is shown to be of one kind (`Turn`), which keeps the three.
- `LoopsEndByLoss`: the two loops end only by a lost request or answer (`LossInv`). It is
  the other half of `agora_reconnect`: refusals, however many and in whatever order, do
  not break the reconnect the code promises, errors of the transport do.
- `LockIsNotStuck`: the holder of the lock waits for the hub and for nothing else
  (`AskedInv`), so tasks never wait for each other. That the hub answers is for its
  timeouts to see to.

`AgoraBridgeProofs`
- `TypeCorrect`: the two load limits, the semaphore's queue included.
- `BridgeImplements` (`ImplementsReplies`): `BridgeInv` adds that a message is in the
  inbox once and before it has a task, that a task belongs to a message that can be
  answered, and that only a task that has ended has posted.
- `AnsweredWhereAsked`, `SettledForGood`: what `Replies` promises, carried over to the
  bridge through the refinement. Each post is the only one to its message and in its
  place; what was answered or set aside is final, and nothing is posted once `stop` has
  returned.

`ConversationProofs`
- `TypeCorrect`, `OwnContextKept` (`OwnContext`): the history kept for a peer is about that
  peer (`HistoryInv`).
- `LoopIsBounded` (`LoopBounded`): requests go with iterations (`CountInv`), and the count
  of repetitions is the length of the run at the end of what was dispatched (`RunInv`).
- `ConversationKept`: each turn is in a history at most once, an answer stands after its
  question where both are left (`OrderInv`), and only complete answers that say something
  are there (`SpokenInv`), for any number of replies at once and any bound on the history.

`RuntimeProofs`, of `Lifecycle`
- `TypeCorrect`, `TornDown` (`TornDownInOrder`): replies live only while the bridge is up or
  being closed, which goes with the place of the main task (`BridgeInv`), and what has been
  closed stays closed (`TeardownInv`).

`RuntimeProofs`, of `Oversight`
- `OversightTypeCorrect` (`OversightTypeOK`): that the load of a window fits the beats it
  lasted, and that no event is ahead of the beat it is emitted in (`BeatInv`).
- `EscalationsCorrect` (`EscalationEarned`): an `ineffective_throttle` event reports
  windows that were throttled for a reason, did not help, and were not reported before.
  `StreakInv` says that the streak is the length of the run of such windows at the end of
  the history, not shorter and not longer. That there was a reason is the hard part: an
  engine counts as throttled until it asks again, so a window may owe its load to a budget
  that has long recovered. `ToldInv` bounds how long, a period of the engine and one more
  for each paused beat, and `OpenInv` carries that into the window in progress.
- `EscalationsComplete`: by the other half of `StreakInv`, no such run is left unreported.
- Hypothesis of these two: `Escalate <= WindowsKept`, the history holds a whole streak. It
  is a `deque(maxlen=20)`, and the configured streak is 3; nothing in the code relates
  them, and a streak configured beyond 20 would read windows that are gone.
- `WarningsCorrect` (`WarningsEarned`): one warning for each run of ignored suggestions.
  Decisions are all used or all ignored, until a warning clears them (`DecisionInv`).
  Hypothesis: `Ignorable <= DecisionsKept`, which are 5 and 50 in the code.
- `SuggestionsRecorded`: what `oversight_mode` refutes holds as long as no operator has
  changed the mode.

Model-checked only: liveness (`RecoveryExits`, `Settled`, `StopEnds`, `RepliesEnd`,
`ShutdownEnds`, `RegistryRecovers`), which like ENABLED is outside the prover's reach. Every
safety property of a passing run is a theorem. No module uses recursive operators.

## Where code and text differ

Each is a run whose one property states what the text says, and fails.

- `recovery.py:779` saves "pristine values", which after a forced request over a running
  recovery are the reduced ones; they never come back (`recovery_pristine`).
- `agora_bridge.py:11` promises a "capped-backoff reconnect"; `_ws_loop` ends for good when
  the hub cannot be reached while it reauthenticates (`agora_reconnect`).
- `meta_cognition_loop.py:385` says "We always record the decision regardless of mode";
  after `/admin/meta_cognition/mode` was called nothing is recorded (`oversight_mode`).

Found earlier, and no longer runs of their own; the models keep the behaviour, and the
properties are stated so as to allow for it:

- `recovery.py:129` counts rejections "in a single continuous fragmentation episode", but
  the count survives the episode; `recovery.py:886` gives durability 1.0 because "no
  fragmentation occurred", also where it never stopped.
- `heartbeat.py:76` lets paused beats run persistence; they do not. `snapshot.py:99` keeps
  the last N snapshots; leftovers of crashes count.
- `tool_executor.py:254` is idempotent on the path in "an auto_load + watcher race"; it is
  not. `tool_executor.py:5` has capabilities survive restarts; a crash in a restore loses some.

Seen while modelling, not stated as runs:

- An injection during a pause is stamped with the last beat before it, so its cadence
  window may be over when beats resume; a scheduled injection is lost, not deferred, when
  an event is in flight; a throttled multi-beat event is applied every other beat;
  `inject_now(target_override=...)` records a target it does not use; a delta-phi reading's
  `beat_no` counts samples as beats.
- A dip of the budget that lasts one beat can end in an `ineffective_throttle`: what an
  engine was last told counts until it asks again, a whole period later.
  `/scheduler/effectiveness` converts the bound method `ineffective_streak` to `int`, a
  `TypeError`. Nothing outside the tests subscribes to `ineffective_throttle` or to
  `meta_cognition_suggestion`. The confidence of a suggestion is that of the most frequent
  recent assessment, which need not be the one suggested upon.
- A registry that answers 200 without JSON raises out of `start`, though
  `registry_client.py:97` says it never raises; a registered agent never registers again;
  the first wait after the first failure is two initial back-offs.
- A signal that comes before a bounded run has begun is forgotten, because `Heartbeat.run`
  sets `_running`; `/admin/shutdown` only emits an event nobody subscribes to.
- `agora_bridge.py:131` calls one bad event harmless to the loop, but the handler stands
  outside of it. All masked authors share one history, "anonymous".
  The id of a tool result is `tc.id or ""`, that of its call `call_<i>_<j>` when it has none.
- `AxiomaApp` registers no component with the snapshot manager and never loads a snapshot:
  every restart starts afresh.

## What is not modelled

- Floating-point dynamics and statistics: substrate, compose function and zone, theta, raw
  MI, cascade, curvature, plasticity, the AOS-G gap and its threshold tuner, the durability
  learner. They have no concurrency of their own, a beat is atomic, and nothing
  but thresholds of their results reaches the control that is modelled. There the result is
  a free choice, so that what is shown does not rest on the numerics. An engine that raises
  is logged and passed over; that is modelled where another part reads what it should have
  computed, in `theta_short`, and so is a substrate that raises. An exception of the recovery
  protocol, the monitor or the two schedulers, whose code raises nothing of its own, is not.
- Thin clients (Ollama, stores, GPU, the rest of the Agora client), logging, metrics,
  configuration, inspection tools, read-only HTTP handlers, the pre-built tools and the
  validator's rules: a call each, without state that lives on.
- `setup` of the application, which runs before anything else does; the event-bus path of
  the conversation, which only tests use; calibration sessions, of which one whose file
  cannot be written is ended all the same.
- Saving and loading of single components, since the application does neither.
- Wall-clock time: a beat is the unit; seconds occur only in snapshot names. Power loss,
  clocks that step back, several processes on one directory.
- The repository's `data/` directory, which is most of its code by lines: experiments on
  rules and compositions, run by hand, which the program does not import. With the
  numerics and thin clients they are why the models map a small part of all lines, and most
  of `recovery.py`, `heartbeat.py`, `snapshot.py`, `agora_session.py`, `agora_bridge.py`,
  `registry_client.py`, `coherence_scheduler.py` and `meta_cognition_loop.py`.

## What could follow

Liveness of `AgoraSession` on an abstraction of the hub; calibration sessions beside
`Conversation`; a restart in the middle of a recovery, once the application loads snapshots.
