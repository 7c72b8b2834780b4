------------------------- MODULE ToolExecutorProofs -------------------------
(***************************************************************************)
(* TLAPS proofs about ToolExecutor, for every value of its constants: any   *)
(* tools, any files, any overlap between the tools they list, any number of *)
(* loads, commands, failures and crashes.                                   *)
(***************************************************************************)
EXTENDS ToolExecutor, FiniteSetTheorems, TLAPS

\* What TypeOK needs to be inductive: a call past its first steps has its file,
\* and its module, and only the shell's calls unload.
CallInv ==
    /\ \A t \in Thread : pc[t] \in {"scan", "scanning", "import", "register", "record"}
                         => cur[t].file \in Files
    /\ \A t \in Thread : pc[t] \in {"register", "record"} => cur[t].id \in Module
    /\ \A t \in Thread : op[t] = "load" => cur[t].file \in Files
    /\ \A t \in Thread : op[t] \in {"unload", "reload"}
                         => /\ pc[t] \in {"unregister", "mark", "write", "replace", "forget"}
                            /\ cur[t].file \in Files
                            /\ cur[t].id \in Module
                            /\ status[cur[t].id] # "none"
    /\ \A t \in Thread : pc[t] \in {"unregister", "mark", "forget"}
                         => op[t] \in {"unload", "reload"}
    /\ op[Watcher] = IF pc[Watcher] = "idle" THEN "none" ELSE "load"

TypeInv == TypeOK /\ CallInv

\* What RouteConsistent needs: a module that is about to be registered is new.
FreshInv ==
    /\ loads \in 0..MaxLoads
    /\ servers \subseteq 0..loads
    /\ \A t \in Thread : pc[t] = "register" =>
         /\ cur[t].id \in 1..loads
         /\ cur[t].id \notin servers
         /\ \A u \in Thread \ {t} : pc[u] = "register" => cur[u].id # cur[t].id

-----------------------------------------------------------------------------
(***************************************************************************)
(* Types                                                                   *)
(***************************************************************************)

LEMMA ModuleFacts ==
    /\ MaxLoads \in Nat /\ Server = 0..MaxLoads /\ Module \subseteq Server
    /\ IsFiniteSet(Module)
    /\ NoCall \in Call
    /\ NoServer \notin Server
  <1>1. MaxLoads \in Nat
    BY ToolAssumption
  <1>2. Server = 0..MaxLoads /\ Module \subseteq Server /\ NoServer \notin Server
    BY <1>1 DEF Server, Module, BuiltInServer, NoServer
  <1>3. IsFiniteSet(Module)
    BY <1>1, FS_Interval DEF Module
  <1>4. NoCall \in Call
    BY DEF NoCall, Call
  <1> QED
    BY <1>1, <1>2, <1>3, <1>4

\* The number of records is a number.
LEMMA KeysFinite == Cardinality(Keys) \in Nat
  <1>1. Keys \subseteq Module
    BY DEF Keys
  <1> QED
    BY <1>1, ModuleFacts, FS_Subset, FS_CardinalityType

\* The active records make up a registry content.
LEMMA EntriesType ==
    ASSUME TypeOK
    PROVE  Entries \in SUBSET (Module \X Files)
  <1> SUFFICES ASSUME NEW m \in Module, status[m] = "active"
               PROVE  <<m, source[m]>> \in Module \X Files
    BY DEF Entries
  <1> QED
    BY DEF TypeOK

\* Leaving a call keeps the types, whoever leaves.
LEMMA LeaveType ==
    ASSUME TypeInv, NEW t \in Thread, pc[t] \notin {"idle", "restore"}, Leave(t)
    PROVE  /\ pc' \in [Thread -> Step]
           /\ op' \in [Thread -> {"none", "load", "unload", "reload", "restore"}]
           /\ cur' \in [Thread -> Call]
           /\ known' \subseteq Files
           /\ pc'[t] \in {"idle", "restore"} /\ op'[t] = "none"
           /\ \A u \in Thread \ {t} :
                pc'[u] = pc[u] /\ op'[u] = op[u] /\ cur'[u] = cur[u]
           /\ t = Watcher => pc'[t] = "idle"
  <1>1. pc' \in [Thread -> Step] /\ pc'[t] \in {"idle", "restore"}
    BY DEF Leave, Goto, TypeInv, TypeOK, Step
  <1>2. op' \in [Thread -> {"none", "load", "unload", "reload", "restore"}] /\ op'[t] = "none"
    BY DEF Leave, TypeInv, TypeOK
  <1>3. cur' \in [Thread -> Call]
    BY ModuleFacts DEF Leave, TypeInv, TypeOK, Call
  <1>4. known' \subseteq Files
    BY DEF Leave, TypeInv, TypeOK, CallInv
  <1>5. \A u \in Thread \ {t} : pc'[u] = pc[u] /\ op'[u] = op[u] /\ cur'[u] = cur[u]
    BY DEF Leave, Goto, TypeInv, TypeOK
  <1>6. t = Watcher => pc'[t] = "idle"
    BY DEF Leave, Goto, TypeInv, TypeOK, CallInv
  <1> QED
    BY <1>1, <1>2, <1>3, <1>4, <1>5, <1>6

\* A call that leaves keeps what is known of the calls.
LEMMA LeaveCalls ==
    ASSUME TypeInv, NEW t \in Thread, pc[t] \notin {"idle", "restore"}, Leave(t),
           UNCHANGED <<status, source>>
    PROVE  CallInv'
  BY LeaveType DEF CallInv, TypeInv, Thread, Shell, Watcher

\* Entering one, too.
LEMMA EnterType ==
    ASSUME TypeInv, NEW t \in Thread, NEW c \in {"load", "unload", "reload", "restore"},
           NEW f \in Files, NEW m \in Server \cup {NoServer},
           NEW s \in Step, Enter(t, c, f, m, s)
    PROVE  /\ pc' = [pc EXCEPT ![t] = s] /\ pc' \in [Thread -> Step]
           /\ op' = [op EXCEPT ![t] = c]
           /\ op' \in [Thread -> {"none", "load", "unload", "reload", "restore"}]
           /\ cur' \in [Thread -> Call]
           /\ cur'[t].file = f /\ cur'[t].id = m
           /\ \A u \in Thread \ {t} : cur'[u] = cur[u]
           /\ raced' \in BOOLEAN
  <1>1. [NoCall EXCEPT !.file = f, !.id = m] \in Call
    BY ModuleFacts DEF Call
  <1>2. raced' \in BOOLEAN
    BY DEF Enter, TypeInv, TypeOK
  <1> QED
    BY <1>1, <1>2 DEF Enter, Goto, TypeInv, TypeOK, Call, NoCall

LEMMA EnterCalls ==
    ASSUME TypeInv, NEW t \in Thread, NEW c \in {"load", "unload", "reload", "restore"},
           NEW f \in Files, NEW m \in Server \cup {NoServer}, NEW s \in Step,
           Enter(t, c, f, m, s), UNCHANGED <<status, source>>,
           t = Watcher => c = "load",
           \/ c \in {"load", "restore"} /\ s = "scan"
           \/ /\ c \in {"unload", "reload"} /\ s = "unregister"
              /\ m \in Module /\ status[m] # "none"
    PROVE  CallInv'
  <1>1. /\ pc' = [pc EXCEPT ![t] = s]
        /\ op' = [op EXCEPT ![t] = c]
        /\ cur'[t].file = f /\ cur'[t].id = m
        /\ \A u \in Thread \ {t} : cur'[u] = cur[u]
    BY EnterType
  <1>2. s \notin {"idle", "register", "record", "mark", "forget"}
    OBVIOUS
  <1> QED
    BY <1>1, <1>2 DEF CallInv, TypeInv, TypeOK, Thread, Shell, Watcher

LEMMA TypeInit == Init => TypeInv
  <1> SUFFICES ASSUME Init
               PROVE  TypeInv
    OBVIOUS
  <1>1. TypeOK
    <2>1. /\ servers \subseteq Server
          /\ owns \in [Server -> SUBSET Tools]
          /\ route \in [Tools -> Server \cup {NoServer}]
          /\ offered \subseteq Tools \X Server
      BY ToolAssumption DEF Init, Server
    <2>2. cur \in [Thread -> Call] /\ pc \in [Thread -> Step]
      BY ModuleFacts DEF Init, Step
    <2>3. /\ status \in [Module -> {"none", "active", "unloaded"}]
          /\ source \in [Module -> Files \cup {NoFile}]
          /\ \A m \in Module : status[m] = "none" <=> source[m] = NoFile
      BY DEF Init
    <2> QED
      BY <2>1, <2>2, <2>3 DEF Init, TypeOK
  <1>2. CallInv
    BY DEF Init, CallInv, Thread, Shell, Watcher
  <1> QED
    BY <1>1, <1>2 DEF TypeInv

\* The table keeps its types.
LEMMA RegisterType ==
    ASSUME TypeOK, NEW s \in Server, NEW names \in SUBSET Tools, Register(s, names)
    PROVE  /\ servers' \subseteq Server
           /\ owns' \in [Server -> SUBSET Tools]
           /\ route' \in [Tools -> Server \cup {NoServer}]
           /\ offered' \subseteq Tools \X Server
  <1>1. servers' \subseteq Server
    BY DEF Register, TypeOK
  <1>2. owns' \in [Server -> SUBSET Tools]
    BY DEF Register, TypeOK
  <1>3. route' \in [Tools -> Server \cup {NoServer}]
    BY DEF Register, TypeOK
  <1>4. offered' \subseteq Tools \X Server
    BY DEF Register, TypeOK
  <1> QED
    BY <1>1, <1>2, <1>3, <1>4

LEMMA UnregisterType ==
    ASSUME TypeOK, NEW s \in Server, Unregister(s)
    PROVE  /\ servers' \subseteq Server
           /\ owns' \in [Server -> SUBSET Tools]
           /\ route' \in [Tools -> Server \cup {NoServer}]
           /\ offered' \subseteq Tools \X Server
  <1>1. CASE s \in servers
    BY <1>1 DEF Unregister, TypeOK
  <1>2. CASE s \notin servers
    BY <1>2 DEF Unregister, TypeOK, tableVars
  <1> QED
    BY <1>1, <1>2

LEMMA TypeStep == TypeInv /\ [Next]_vars => TypeInv'
  <1> SUFFICES ASSUME TypeInv, [Next]_vars
               PROVE  TypeInv'
    OBVIOUS
  <1>a. TypeOK /\ CallInv
    BY DEF TypeInv
  <1> USE DEF TypeInv, tableVars, moduleVars, threadVars, diskVars, restoreVars,
              boundVars, seenVars
  <1>1. ASSUME NEW f \in Files, CommandLoad(f) PROVE TypeInv'
    <2>1. Enter(Shell, "load", f, NoServer, "scan") /\ Shell \in Thread /\ "scan" \in Step
      BY <1>1 DEF CommandLoad, Thread, Step
    <2>2. /\ pc' \in [Thread -> Step] /\ cur' \in [Thread -> Call] /\ raced' \in BOOLEAN
          /\ op' \in [Thread -> {"none", "load", "unload", "reload", "restore"}]
      BY <2>1, EnterType
    <2>3. TypeOK'
      BY <1>1, <2>2 DEF CommandLoad, Command, TypeOK
    <2>4. CallInv'
      BY <1>1, <2>1, EnterCalls DEF CommandLoad, Shell, Watcher
    <2> QED
      BY <2>3, <2>4
  <1>2. ASSUME NEW f \in Files, WatcherPoll(f) PROVE TypeInv'
    <2>1. CASE ~Active(f)
      <3>1. /\ Enter(Watcher, "load", f, NoServer, "scan")
            /\ Watcher \in Thread /\ "scan" \in Step
        BY <1>2, <2>1 DEF WatcherPoll, Thread, Step
      <3>2. /\ pc' \in [Thread -> Step] /\ cur' \in [Thread -> Call] /\ raced' \in BOOLEAN
            /\ op' \in [Thread -> {"none", "load", "unload", "reload", "restore"}]
        BY <3>1, EnterType
      <3>3. TypeOK'
        BY <1>2, <2>1, <3>2 DEF WatcherPoll, TypeOK
      <3>4. CallInv'
        BY <1>2, <3>1, EnterCalls DEF WatcherPoll
      <3> QED
        BY <3>3, <3>4
    <2>2. CASE Active(f)
      BY <1>2, <2>2 DEF WatcherPoll, TypeOK, CallInv
    <2> QED
      BY <2>1, <2>2
  <1>3. ASSUME NEW f \in Files, Author(f) PROVE TypeInv'
    BY <1>3 DEF Author, TypeOK, CallInv
  <1>4. ASSUME NEW m \in Module, CommandUnload(m) PROVE TypeInv'
    <2>1. source[m] \in Files
      BY <1>4 DEF CommandUnload, TypeOK
    <2>2. PICK c \in {"unload", "reload"} : Enter(Shell, c, source[m], m, "unregister")
      BY <1>4 DEF CommandUnload
    <2>3. Shell \in Thread /\ "unregister" \in Step /\ m \in Server
      BY ModuleFacts DEF Thread, Step
    <2>4. /\ pc' \in [Thread -> Step] /\ cur' \in [Thread -> Call] /\ raced' \in BOOLEAN
          /\ op' \in [Thread -> {"none", "load", "unload", "reload", "restore"}]
      BY <2>1, <2>2, <2>3, EnterType
    <2>5. TypeOK'
      BY <1>4, <2>4 DEF CommandUnload, Command, TypeOK
    <2>6. CallInv'
      BY <1>4, <2>1, <2>2, <2>3, EnterCalls DEF CommandUnload, Shell, Watcher
    <2> QED
      BY <2>5, <2>6
  <1>5. ASSUME NEW s \in Server, CommandUnregister(s) PROVE TypeInv'
    <2>1. TypeOK'
      BY <1>5, UnregisterType DEF CommandUnregister, Command, TypeOK
    <2> QED
      BY <1>5, <2>1 DEF CommandUnregister, CallInv
  <1>6. ASSUME NEW t \in Thread, CallStep(t) PROVE TypeInv'
    <2>1. CASE ScanStart(t)
      <3>0. At(t, "scan") /\ pc[t] \notin {"idle", "restore"}
        BY <2>1 DEF ScanStart, At
      <3>1. CASE Leave(t)
        BY <2>1, <3>0, <3>1, LeaveType, LeaveCalls DEF ScanStart, TypeOK
      <3>2. CASE ~Leave(t)
        <4>1. cur' \in [Thread -> Call] /\ \A u \in Thread :
                cur'[u].file = cur[u].file /\ cur'[u].id = cur[u].id
          BY <2>1, <3>2, KeysFinite DEF ScanStart, TypeOK, Call, Active
        <4>2. pc' = [pc EXCEPT ![t] = "scanning"] /\ "scanning" \in Step
          BY <2>1, <3>2 DEF ScanStart, Goto, Step
        <4> QED
          BY <2>1, <3>0, <3>2, <4>1, <4>2 DEF ScanStart, TypeOK, CallInv, At
      <3> QED
        BY <3>1, <3>2
    <2>2. CASE ScanEnd(t)
      <3>0. At(t, "scanning") /\ pc[t] \notin {"idle", "restore"}
        BY <2>2 DEF ScanEnd, At
      <3>1. CASE Leave(t)
        BY <2>2, <3>0, <3>1, LeaveType, LeaveCalls DEF ScanEnd, TypeOK
      <3>2. CASE ~Leave(t)
        <4>1. pc' = [pc EXCEPT ![t] = "import"] /\ UNCHANGED <<op, cur, known>>
          BY <2>2, <3>2 DEF ScanEnd, Goto
        <4>2. TypeOK'
          BY <2>2, <4>1 DEF ScanEnd, TypeOK, Step
        <4>3. CallInv'
          BY <2>2, <3>0, <4>1 DEF ScanEnd, TypeOK, CallInv, At
        <4> QED
          BY <4>2, <4>3
      <3> QED
        BY <3>1, <3>2
    <2>3. CASE Import(t)
      <3>1. loads + 1 \in Module
        BY <2>3, ModuleFacts DEF Import, Module, TypeOK
      <3>2. /\ cur' \in [Thread -> Call] /\ cur'[t].id = loads + 1
            /\ cur'[t].file = cur[t].file
            /\ \A u \in Thread \ {t} : cur'[u] = cur[u]
        <4>1. cur[t] \in Call /\ loads + 1 \in Server
          BY <3>1, ModuleFacts DEF TypeOK
        <4>2. /\ [cur[t] EXCEPT !.id = loads + 1] \in Call
              /\ [cur[t] EXCEPT !.id = loads + 1].file = cur[t].file
              /\ [cur[t] EXCEPT !.id = loads + 1].id = loads + 1
          BY <4>1 DEF Call
        <4>3. cur' = [cur EXCEPT ![t] = [cur[t] EXCEPT !.id = loads + 1]]
          BY <2>3 DEF Import
        <4> QED
          BY <4>2, <4>3 DEF TypeOK
      <3>3. pc' = [pc EXCEPT ![t] = "register"] /\ "register" \in Step
        BY <2>3 DEF Import, Goto, Step
      <3>4. TypeOK'
        BY <2>3, <3>2, <3>3 DEF Import, TypeOK
      <3>5. CallInv'
        <4>1. \A u \in Thread : cur'[u].file = cur[u].file
          BY <3>2
        <4>2. At(t, "import") /\ UNCHANGED <<op, status>>
          BY <2>3 DEF Import
        <4> QED
          BY <3>1, <3>2, <3>3, <4>1, <4>2 DEF TypeOK, CallInv, At
      <3> QED
        BY <3>4, <3>5
    <2>4. CASE ImportFails(t)
      <3>0. Leave(t) /\ pc[t] \notin {"idle", "restore"} /\ fails' \in Nat
        BY <2>4 DEF ImportFails, At, TypeOK
      <3> QED
        BY <2>4, <3>0, LeaveType, LeaveCalls DEF ImportFails, TypeOK
    <2>5. CASE RegisterServer(t)
      <3>1. cur[t].id \in Server /\ cur[t].file \in Files
            /\ Provides[cur[t].file] \in SUBSET Tools
        BY <2>5, ModuleFacts, ToolAssumption DEF RegisterServer, At, CallInv
      <3>2. TypeOK'
        BY <2>5, <3>1, RegisterType DEF RegisterServer, TypeOK, Goto, Step
      <3>3. CallInv'
        BY <2>5 DEF RegisterServer, TypeOK, CallInv, At, Goto
      <3> QED
        BY <3>2, <3>3
    <2>6. CASE Record(t)
      <3>1. cur[t].id \in Module /\ cur[t].file \in Files
        BY <2>6 DEF Record, At, CallInv
      <3>2. cur' \in [Thread -> Call] /\ \A u \in Thread :
              cur'[u].file = cur[u].file /\ cur'[u].id = cur[u].id
        BY <2>6, <3>1, EntriesType DEF Record, TypeOK, Call
      <3>3. pc' = [pc EXCEPT ![t] = "write"] /\ "write" \in Step
        BY <2>6 DEF Record, Goto, Step
      <3>4. /\ status' = [status EXCEPT ![cur[t].id] = "active"]
            /\ source' = [source EXCEPT ![cur[t].id] = cur[t].file]
            /\ cur[t].file # NoFile
        BY <2>6, <3>1, ToolAssumption DEF Record
      <3>5. TypeOK'
        BY <2>6, <3>1, <3>2, <3>3, <3>4 DEF Record, TypeOK
      <3>6. CallInv'
        BY <2>6, <3>1, <3>2, <3>3, <3>4 DEF Record, TypeOK, CallInv, At
      <3> QED
        BY <3>5, <3>6
    <2>7. CASE UnregisterServer(t)
      <3>1. cur[t].id \in Server
        BY <2>7, ModuleFacts DEF UnregisterServer, At, CallInv
      <3>2. TypeOK'
        BY <2>7, <3>1, UnregisterType DEF UnregisterServer, TypeOK, Goto, Step
      <3>3. CallInv'
        BY <2>7 DEF UnregisterServer, TypeOK, CallInv, At, Goto
      <3> QED
        BY <3>2, <3>3
    <2>8. CASE MarkUnloaded(t)
      <3>1. cur[t].id \in Module /\ status[cur[t].id] # "none"
        BY <2>8 DEF MarkUnloaded, At, CallInv
      <3>2. cur' \in [Thread -> Call] /\ \A u \in Thread :
              cur'[u].file = cur[u].file /\ cur'[u].id = cur[u].id
        BY <2>8, EntriesType DEF MarkUnloaded, TypeOK, Call
      <3>3. pc' = [pc EXCEPT ![t] = "write"] /\ "write" \in Step
        BY <2>8 DEF MarkUnloaded, Goto, Step
      <3>4. TypeOK'
        BY <2>8, <3>1, <3>2, <3>3 DEF MarkUnloaded, TypeOK
      <3>5. CallInv'
        BY <2>8, <3>1, <3>2, <3>3 DEF MarkUnloaded, TypeOK, CallInv, At
      <3> QED
        BY <3>4, <3>5
    <2>9. CASE Forget(t)
      <3>1. cur[t].id \in Module /\ cur[t].file \in Files
        BY <2>9 DEF Forget, At, CallInv
      <3>2. t = Shell /\ op[Watcher] \in {"none", "load"}
        BY <2>9 DEF Forget, At, CallInv, Thread
      <3>3. TypeOK'
        BY <2>9, <3>1 DEF Forget, TypeOK, Goto, Step
      <3>4. CallInv'
        BY <2>9, <3>1, <3>2
        DEF Forget, TypeOK, CallInv, At, Goto, Thread, Shell, Watcher
      <3> QED
        BY <3>3, <3>4
    <2>10. CASE SaveWrite(t)
      <3>1. TypeOK'
        BY <2>10 DEF SaveWrite, TypeOK, Goto, Step, Call
      <3>2. CallInv'
        BY <2>10 DEF SaveWrite, TypeOK, CallInv, At, Goto
      <3> QED
        BY <3>1, <3>2
    <2>11. CASE SaveReplace(t)
      <3>0. /\ pc[t] \notin {"idle", "restore"}
            /\ registry' \subseteq Module \X Files
            /\ tmp' \subseteq SUBSET (Module \X Files)
            /\ promised' \subseteq Files
        BY <2>11 DEF SaveReplace, At, TypeOK, CallInv
      <3>1. CASE Leave(t)
        BY <2>11, <3>0, <3>1, LeaveType, LeaveCalls DEF SaveReplace, TypeOK
      <3>2. CASE ~Leave(t)
        <4>1. op[t] = "reload" /\ Goto(t, "forget") /\ UNCHANGED <<op, cur, known>>
          BY <2>11, <3>2 DEF SaveReplace
        <4> QED
          BY <2>11, <3>0, <4>1 DEF SaveReplace, TypeOK, CallInv, At, Goto, Step
      <3> QED
        BY <3>1, <3>2
    <2> QED
      BY <1>6, <2>1, <2>2, <2>3, <2>4, <2>5, <2>6, <2>7, <2>8, <2>9, <2>10, <2>11
      DEF CallStep
  <1>7. ASSUME RestoreNext PROVE TypeInv'
    <2>1. PICK f \in todo : todo' = todo \ {f} /\ Enter(Shell, "restore", f, NoServer, "scan")
      BY <1>7 DEF RestoreNext
    <2>2. f \in Files /\ Shell \in Thread /\ "scan" \in Step /\ todo' \subseteq Files
      BY <2>1 DEF TypeOK, Thread, Step
    <2>3. /\ pc' \in [Thread -> Step] /\ cur' \in [Thread -> Call] /\ raced' \in BOOLEAN
          /\ op' \in [Thread -> {"none", "load", "unload", "reload", "restore"}]
      BY <2>1, <2>2, EnterType
    <2>4. TypeOK'
      BY <1>7, <2>2, <2>3 DEF RestoreNext, TypeOK
    <2>5. CallInv'
      BY <1>7, <2>1, <2>2, EnterCalls DEF RestoreNext, Shell, Watcher
    <2> QED
      BY <2>4, <2>5
  <1>8. ASSUME RestoreSaves PROVE TypeInv'
    <2>1. cur' \in [Thread -> Call] /\ \A u \in Thread :
            cur'[u].file = cur[u].file /\ cur'[u].id = cur[u].id
      BY <1>8, EntriesType DEF RestoreSaves, TypeOK, Call, Thread
    <2>2. TypeOK'
      BY <1>8, <2>1 DEF RestoreSaves, TypeOK, Goto, Step
    <2>3. CallInv'
      BY <1>8, <2>1
      DEF RestoreSaves, TypeOK, CallInv, At, Goto, Thread, Shell, Watcher
    <2> QED
      BY <2>2, <2>3
  <1>9. ASSUME RestoreDone PROVE TypeInv'
    <2>1. TypeOK'
      BY <1>9 DEF RestoreDone, TypeOK, Goto, Step
    <2>2. CallInv'
      BY <1>9 DEF RestoreDone, TypeOK, CallInv, At, Goto, Thread, Shell, Watcher
    <2> QED
      BY <2>1, <2>2
  <1>10. ASSUME CrashAndBoot PROVE TypeInv'
    <2>1. TypeOK'
      <3>1. /\ servers' \subseteq Server
            /\ owns' \in [Server -> SUBSET Tools]
            /\ route' \in [Tools -> Server \cup {NoServer}]
            /\ offered' \subseteq Tools \X Server
        BY <1>10, ToolAssumption DEF CrashAndBoot, Booted, Server
      <3>2. cur' \in [Thread -> Call] /\ pc' \in [Thread -> Step]
        BY <1>10, ModuleFacts DEF CrashAndBoot, Booted, Step
      <3>3. /\ status' \in [Module -> {"none", "active", "unloaded"}]
            /\ source' \in [Module -> Files \cup {NoFile}]
            /\ \A m \in Module : status'[m] = "none" <=> source'[m] = NoFile
            /\ op' \in [Thread -> {"none", "load", "unload", "reload", "restore"}]
        BY <1>10 DEF CrashAndBoot, Booted
      <3>4. todo' \subseteq Files /\ dupes' \in BOOLEAN
        BY <1>10 DEF CrashAndBoot, TypeOK
      <3>5. up' \in BOOLEAN /\ cut' \in BOOLEAN /\ known' \subseteq Files /\ crashes' \in Nat
        <4>1. cut' \in BOOLEAN
          BY <1>10 DEF CrashAndBoot
        <4>2. up' \in BOOLEAN /\ known' \subseteq Files
          BY <1>10 DEF CrashAndBoot, Booted
        <4>3. crashes' \in Nat
          BY <1>10 DEF CrashAndBoot, TypeOK
        <4> QED
          BY <4>1, <4>2, <4>3
      <3> QED
        BY <1>10, <3>1, <3>2, <3>3, <3>4, <3>5 DEF CrashAndBoot, TypeOK
    <2>2. CallInv'
      BY <1>10 DEF CrashAndBoot, Booted, CallInv, Thread, Shell, Watcher
    <2> QED
      BY <2>1, <2>2
  <1>11. CASE UNCHANGED vars
    BY <1>11 DEF vars, TypeOK, CallInv
  <1> QED
    BY <1>1, <1>2, <1>3, <1>4, <1>5, <1>6, <1>7, <1>8, <1>9, <1>10, <1>11 DEF Next

\* Every variable stays in its range, for every instance.
THEOREM TypeCorrect == Spec => []TypeOK
  <1>1. TypeInv => TypeOK
    BY DEF TypeInv
  <1> QED
    BY TypeInit, TypeStep, <1>1, PTL DEF Spec

-----------------------------------------------------------------------------
(***************************************************************************)
(* The three tables                                                        *)
(***************************************************************************)

\* A step that leaves the imports alone and brings no call to its registration.
Calm ==
    /\ loads' = loads
    /\ \A t \in Thread : pc'[t] = "register" =>
         pc[t] = "register" /\ cur'[t].id = cur[t].id

\* What the steps of the system do to the tables.
LEMMA StepKinds ==
    ASSUME TypeInv, [Next]_vars
    PROVE  \/ \E t \in Thread : Import(t)
           \/ \E t \in Thread : RegisterServer(t)
           \/ Calm /\ \E s \in Server : Unregister(s)
           \/ CrashAndBoot
           \/ Calm /\ UNCHANGED tableVars
  <1>a. TypeOK /\ CallInv
    BY DEF TypeInv
  <1>1. ASSUME NEW t \in Thread, Leave(t), UNCHANGED loads PROVE Calm
    BY <1>1, <1>a DEF Leave, Goto, Calm, TypeOK
  <1>2. ASSUME NEW t \in Thread, NEW c, NEW f, NEW m, NEW s \in {"scan", "unregister"},
               Enter(t, c, f, m, s), UNCHANGED loads
        PROVE  Calm
    BY <1>2, <1>a DEF Enter, Goto, Calm, TypeOK
  <1>3. ASSUME NEW t \in Thread, NEW s \in Step \ {"register"}, Goto(t, s),
               UNCHANGED loads, \A u \in Thread : cur'[u].id = cur[u].id
        PROVE  Calm
    BY <1>3, <1>a DEF Goto, Calm, TypeOK
  <1>4. ASSUME UNCHANGED <<loads, pc, cur>> PROVE Calm
    BY <1>4 DEF Calm
  <1>5. ASSUME NEW f \in Files, CommandLoad(f) PROVE Calm /\ UNCHANGED tableVars
    <2>1. Enter(Shell, "load", f, NoServer, "scan") /\ UNCHANGED <<tableVars, loads>>
      BY <1>5 DEF CommandLoad
    <2> QED
      BY <2>1, <1>2 DEF Thread
  <1>6. ASSUME NEW f \in Files, WatcherPoll(f) PROVE Calm /\ UNCHANGED tableVars
    <2>1. UNCHANGED <<tableVars, loads>> /\
          (UNCHANGED <<pc, cur>> \/ Enter(Watcher, "load", f, NoServer, "scan"))
      BY <1>6 DEF WatcherPoll, threadVars, boundVars
    <2> QED
      BY <2>1, <1>2, <1>4 DEF Thread
  <1>7. ASSUME NEW f \in Files, Author(f) PROVE Calm /\ UNCHANGED tableVars
    BY <1>7, <1>4 DEF Author, threadVars
  <1>8. ASSUME NEW m \in Module, CommandUnload(m) PROVE Calm /\ UNCHANGED tableVars
    <2>1. PICK c \in {"unload", "reload"} : Enter(Shell, c, source[m], m, "unregister")
      BY <1>8 DEF CommandUnload
    <2>2. UNCHANGED <<tableVars, loads>>
      BY <1>8 DEF CommandUnload
    <2>3. source[m] \in Files \cup {NoFile} /\ m \in Server \cup {NoServer}
      BY <1>a, ModuleFacts DEF TypeOK
    <2> QED
      BY <2>1, <2>2, <2>3, <1>2 DEF Thread
  <1>9. ASSUME NEW s \in Server, CommandUnregister(s) PROVE Calm /\ Unregister(s)
    BY <1>9, <1>4 DEF CommandUnregister, threadVars
  <1>10. ASSUME NEW t \in Thread, CallStep(t)
         PROVE  \/ Import(t)
                \/ RegisterServer(t)
                \/ Calm /\ \E s \in Server : Unregister(s)
                \/ Calm /\ UNCHANGED tableVars
    <2>1. CASE ScanStart(t)
      <3>1. UNCHANGED <<tableVars, loads>>
        BY <2>1 DEF ScanStart, boundVars
      <3>2. CASE Leave(t)
        BY <3>1, <3>2, <1>1
      <3>3. CASE ~Leave(t)
        <4>1. Goto(t, "scanning") /\ \A u \in Thread : cur'[u].id = cur[u].id
          BY <2>1, <3>3, <1>a DEF ScanStart, TypeOK, Call
        <4> QED
          BY <3>1, <4>1, <1>3 DEF Step
      <3> QED
        BY <3>2, <3>3
    <2>2. CASE ScanEnd(t)
      <3>1. /\ UNCHANGED <<tableVars, loads>>
            /\ Leave(t) \/ (Goto(t, "import") /\ UNCHANGED cur)
        BY <2>2 DEF ScanEnd, boundVars
      <3> QED
        BY <3>1, <1>1, <1>3 DEF Step
    <2>3. CASE ImportFails(t)
      BY <2>3, <1>1 DEF ImportFails
    <2>4. CASE Record(t)
      <3>1. /\ UNCHANGED <<tableVars, loads>>
            /\ Goto(t, "write") /\ \A u \in Thread : cur'[u].id = cur[u].id
        BY <2>4, <1>a DEF Record, TypeOK, Call, boundVars
      <3> QED
        BY <3>1, <1>3 DEF Step
    <2>5. CASE UnregisterServer(t)
      <3>1. /\ Goto(t, "mark") /\ UNCHANGED <<cur, loads>>
            /\ Unregister(cur[t].id)
        BY <2>5 DEF UnregisterServer, boundVars
      <3>2. cur[t].id \in Server
        BY <2>5, <1>a, ModuleFacts DEF UnregisterServer, At, CallInv
      <3> QED
        BY <3>1, <3>2, <1>3 DEF Step
    <2>6. CASE MarkUnloaded(t)
      <3>1. /\ UNCHANGED <<tableVars, loads>>
            /\ Goto(t, "write") /\ \A u \in Thread : cur'[u].id = cur[u].id
        BY <2>6, <1>a DEF MarkUnloaded, TypeOK, Call, boundVars
      <3> QED
        BY <3>1, <1>3 DEF Step
    <2>7. CASE Forget(t)
      <3>1. Goto(t, "scan") /\ UNCHANGED <<cur, loads, tableVars>>
        BY <2>7 DEF Forget, boundVars
      <3> QED
        BY <3>1, <1>3 DEF Step
    <2>8. CASE SaveWrite(t)
      <3>1. Goto(t, "replace") /\ UNCHANGED <<cur, loads, tableVars>>
        BY <2>8 DEF SaveWrite, boundVars
      <3> QED
        BY <3>1, <1>3 DEF Step
    <2>9. CASE SaveReplace(t)
      <3>1. /\ UNCHANGED <<tableVars, loads>>
            /\ Leave(t) \/ (Goto(t, "forget") /\ UNCHANGED cur)
        BY <2>9 DEF SaveReplace, boundVars
      <3> QED
        BY <3>1, <1>1, <1>3 DEF Step
    <2> QED
      BY <1>10, <2>1, <2>2, <2>3, <2>4, <2>5, <2>6, <2>7, <2>8, <2>9 DEF CallStep
  <1>11. ASSUME RestoreNext PROVE Calm /\ UNCHANGED tableVars
    <2>1. PICK f \in todo : Enter(Shell, "restore", f, NoServer, "scan")
      BY <1>11 DEF RestoreNext
    <2>2. f \in Files /\ UNCHANGED <<tableVars, loads>>
      BY <1>11, <1>a DEF RestoreNext, TypeOK, boundVars
    <2> QED
      BY <2>1, <2>2, <1>2 DEF Thread
  <1>12. ASSUME RestoreSaves PROVE Calm /\ UNCHANGED tableVars
    <2>1. /\ Goto(Shell, "write") /\ UNCHANGED <<loads, tableVars>>
          /\ \A u \in Thread : cur'[u].id = cur[u].id
      BY <1>12, <1>a DEF RestoreSaves, TypeOK, Call, Thread, boundVars
    <2> QED
      BY <2>1, <1>3 DEF Step, Thread
  <1>13. ASSUME RestoreDone PROVE Calm /\ UNCHANGED tableVars
    <2>1. Goto(Shell, "idle") /\ UNCHANGED <<loads, tableVars, cur>>
      BY <1>13 DEF RestoreDone, boundVars
    <2> QED
      BY <2>1, <1>3 DEF Step, Thread
  <1>14. ASSUME UNCHANGED vars PROVE Calm /\ UNCHANGED tableVars
    BY <1>14, <1>4 DEF vars, threadVars, boundVars
  <1> QED
    BY <1>5, <1>6, <1>7, <1>8, <1>9, <1>10, <1>11, <1>12, <1>13, <1>14 DEF Next

\* Registering a new server takes its names from all the others.
LEMMA RegisterKeeps ==
    ASSUME TypeOK, RouteConsistent, NEW s \in Server, s \notin servers,
           NEW names \in SUBSET Tools, Register(s, names)
    PROVE  RouteConsistent'
  <1>1. NoServer \notin Server
    BY ModuleFacts
  <1>2. ASSUME NEW r \in servers' PROVE owns'[r] = {t \in Tools : route'[t] = r}
    <2>1. CASE r = s
      <3>1. owns'[r] = names
        BY <2>1 DEF Register
      <3>2. \A t \in Tools : route[t] # s
        BY <1>1 DEF RouteConsistent
      <3>3. \A t \in Tools : route'[t] = r <=> t \in names
        BY <2>1, <3>2 DEF Register
      <3> QED
        BY <3>1, <3>3
    <2>2. CASE r # s
      <3>1. r \in servers /\ r \in Server
        BY <2>2 DEF Register, TypeOK
      <3>2. owns'[r] = owns[r] \ names
        BY <2>2, <3>1 DEF Register
      <3>3. owns[r] = {t \in Tools : route[t] = r}
        BY <3>1 DEF RouteConsistent
      <3>4. \A t \in Tools : route'[t] = r <=> t \notin names /\ route[t] = r
        BY <2>2 DEF Register
      <3> QED
        BY <3>2, <3>3, <3>4
    <2> QED
      BY <2>1, <2>2
  <1>3. \A t \in Tools : route'[t] \in servers' \cup {NoServer}
    BY DEF Register, RouteConsistent
  <1>4. offered' = {<<t, route'[t]>> : t \in {u \in Tools : route'[u] # NoServer}}
    <2>1. offered = {<<t, route[t]>> : t \in {u \in Tools : route[u] # NoServer}}
      BY DEF RouteConsistent
    <2>2. offered' = {d \in offered : d[1] \notin names} \cup {<<t, s>> : t \in names}
      BY DEF Register
    <2>3. \A t \in Tools : route'[t] = IF t \in names THEN s ELSE route[t]
      BY DEF Register
    <2>4. s # NoServer
      BY <1>1
    <2> QED
      BY <2>1, <2>2, <2>3, <2>4
  <1> QED
    BY <1>2, <1>3, <1>4 DEF RouteConsistent

\* Unregistering one takes away exactly the names it still owns.
LEMMA UnregisterKeeps ==
    ASSUME TypeOK, RouteConsistent, NEW s \in Server, Unregister(s)
    PROVE  RouteConsistent' /\ servers' \subseteq servers
  <1>1. CASE s \notin servers
    BY <1>1 DEF Unregister, tableVars, RouteConsistent
  <1>2. CASE s \in servers
    <2>1. /\ servers' = servers \ {s} /\ owns' = owns
          /\ route' = [t \in Tools |-> IF t \in owns[s] THEN NoServer ELSE route[t]]
          /\ offered' = {d \in offered : ~(d[2] = s /\ d[1] \in owns[s])}
      BY <1>2 DEF Unregister
    <2>2. owns[s] = {t \in Tools : route[t] = s}
      BY <1>2 DEF RouteConsistent
    <2>3. \A t \in Tools : route'[t] = IF route[t] = s THEN NoServer ELSE route[t]
      BY <2>1, <2>2
    <2>4. NoServer \notin Server /\ servers \subseteq Server
      BY ModuleFacts DEF TypeOK
    <2>5. \A r \in servers' : owns'[r] = {t \in Tools : route'[t] = r}
      <3>1. ASSUME NEW r \in servers' PROVE owns'[r] = {t \in Tools : route'[t] = r}
        <4>1. r # s /\ r # NoServer /\ owns'[r] = {t \in Tools : route[t] = r}
          BY <2>1, <2>4 DEF RouteConsistent
        <4> QED
          BY <4>1, <2>3
      <3> QED
        BY <3>1
    <2>6. \A t \in Tools : route'[t] \in servers' \cup {NoServer}
      BY <2>1, <2>3 DEF RouteConsistent
    <2>7. offered' = {<<t, route'[t]>> : t \in {u \in Tools : route'[u] # NoServer}}
      <3>1. offered = {<<t, route[t]>> : t \in {u \in Tools : route[u] # NoServer}}
        BY DEF RouteConsistent
      <3>2. offered' = {d \in offered : d[2] # s}
        BY <2>1, <2>2, <3>1
      <3> QED
        BY <2>3, <3>1, <3>2
    <2> QED
      BY <2>1, <2>5, <2>6, <2>7 DEF RouteConsistent
  <1> QED
    BY <1>1, <1>2

RouteInv == TypeInv /\ FreshInv /\ RouteConsistent

LEMMA RouteInit == Init => RouteInv
  <1> SUFFICES ASSUME Init
               PROVE  RouteInv
    OBVIOUS
  <1>1. FreshInv
    BY ModuleFacts DEF Init, FreshInv, BuiltInServer
  <1>2. RouteConsistent
    <2>1. BuiltIn \subseteq Tools /\ BuiltInServer # NoServer
      BY ToolAssumption DEF BuiltInServer, NoServer
    <2>2. /\ servers = {BuiltInServer} /\ owns[BuiltInServer] = BuiltIn
          /\ \A t \in Tools : route[t] = IF t \in BuiltIn THEN BuiltInServer ELSE NoServer
          /\ offered = {<<t, BuiltInServer>> : t \in BuiltIn}
      BY DEF Init, Server
    <2> QED
      BY <2>1, <2>2 DEF RouteConsistent
  <1> QED
    BY <1>1, <1>2, TypeInit DEF RouteInv

LEMMA RouteStep == RouteInv /\ [Next]_vars => RouteInv'
  <1> SUFFICES ASSUME RouteInv, [Next]_vars
               PROVE  RouteInv'
    OBVIOUS
  <1>a. TypeInv /\ TypeOK /\ CallInv /\ FreshInv /\ RouteConsistent
    BY DEF RouteInv, TypeInv
  <1>b. TypeInv'
    BY <1>a, TypeStep
  <1>c. loads \in Nat /\ MaxLoads \in Nat
    BY <1>a, ModuleFacts DEF TypeOK
  <1>1. ASSUME NEW t \in Thread, Import(t) PROVE FreshInv' /\ RouteConsistent'
    <2>1. /\ loads < MaxLoads /\ loads' = loads + 1
          /\ UNCHANGED tableVars
          /\ pc' = [pc EXCEPT ![t] = "register"]
          /\ cur'[t].id = loads + 1
          /\ \A u \in Thread \ {t} : cur'[u] = cur[u]
      BY <1>1, <1>a DEF Import, Goto, TypeOK, Call
    <2>2. FreshInv'
      BY <2>1, <1>a, <1>c DEF FreshInv, TypeOK, tableVars
    <2>3. RouteConsistent'
      BY <2>1, <1>a DEF RouteConsistent, tableVars
    <2> QED
      BY <2>2, <2>3
  <1>2. ASSUME NEW t \in Thread, RegisterServer(t) PROVE FreshInv' /\ RouteConsistent'
    <2>1. /\ pc[t] = "register" /\ pc' = [pc EXCEPT ![t] = "record"]
          /\ Register(cur[t].id, Provides[cur[t].file])
          /\ UNCHANGED <<cur, loads>>
      BY <1>2 DEF RegisterServer, At, Goto, boundVars
    <2>2. /\ cur[t].id \in Server /\ cur[t].id \notin servers /\ cur[t].id \in 1..loads
          /\ Provides[cur[t].file] \in SUBSET Tools
      BY <2>1, <1>a, ModuleFacts, ToolAssumption DEF CallInv, FreshInv
    <2>3. RouteConsistent'
      BY <2>1, <2>2, <1>a, RegisterKeeps
    <2>4. servers' = servers \cup {cur[t].id}
      BY <2>1 DEF Register
    <2>5. FreshInv'
      <3>1. servers' \subseteq 0..loads
        <4>1. cur[t].id \in 0..loads /\ servers \subseteq 0..loads
          BY <2>2, <1>a, <1>c DEF FreshInv
        <4> QED
          BY <4>1, <2>1, <2>4
      <3>2. ASSUME NEW u \in Thread, pc'[u] = "register"
            PROVE  u # t /\ pc[u] = "register" /\ cur[u].id \notin servers'
        <4>1. u # t /\ pc[u] = "register"
          BY <2>1, <3>2, <1>a DEF TypeOK
        <4> QED
          BY <4>1, <2>1, <2>4, <1>a DEF FreshInv
      <3>3. \A u \in Thread : pc'[u] = "register" => pc[u] = "register"
        BY <3>2
      <3> QED
        BY <2>1, <3>1, <3>2, <3>3, <1>a DEF FreshInv
    <2> QED
      BY <2>3, <2>5
  <1>3. ASSUME NEW s \in Server, Calm, Unregister(s) PROVE FreshInv' /\ RouteConsistent'
    <2>1. RouteConsistent' /\ servers' \subseteq servers
      BY <1>3, <1>a, UnregisterKeeps
    <2> QED
      BY <2>1, <1>3, <1>a, <1>c DEF FreshInv, Calm
  <1>4. ASSUME CrashAndBoot PROVE FreshInv' /\ RouteConsistent'
    <2>1. BuiltIn \subseteq Tools /\ BuiltInServer # NoServer /\ BuiltInServer = 0
      BY ToolAssumption DEF BuiltInServer, NoServer
    <2>2. /\ servers' = {BuiltInServer} /\ owns'[BuiltInServer] = BuiltIn
          /\ \A t \in Tools : route'[t] = IF t \in BuiltIn THEN BuiltInServer ELSE NoServer
          /\ offered' = {<<t, BuiltInServer>> : t \in BuiltIn}
      BY <1>4 DEF CrashAndBoot, Booted, Server
    <2>3. loads' = loads /\ \A t \in Thread : pc'[t] # "register"
      BY <1>4 DEF CrashAndBoot
    <2>4. RouteConsistent'
      BY <2>1, <2>2 DEF RouteConsistent
    <2>5. FreshInv'
      BY <2>1, <2>2, <2>3, <1>a, <1>c DEF FreshInv
    <2> QED
      BY <2>4, <2>5
  <1>5. ASSUME Calm, UNCHANGED tableVars PROVE FreshInv' /\ RouteConsistent'
    <2>1. FreshInv'
      BY <1>5, <1>a, <1>c DEF FreshInv, Calm, tableVars
    <2>2. RouteConsistent'
      BY <1>5, <1>a DEF RouteConsistent, tableVars
    <2> QED
      BY <2>1, <2>2
  <1> QED
    BY <1>a, <1>b, <1>1, <1>2, <1>3, <1>4, <1>5, StepKinds DEF RouteInv

\* Whatever the two threads load, unload, reload and crash, in whatever order, a
\* tool name is routed to the one server that owns it and offered exactly once.
THEOREM RoutesCorrect == Spec => []RouteConsistent
  <1>1. RouteInv => RouteConsistent
    BY DEF RouteInv
  <1> QED
    BY RouteInit, RouteStep, <1>1, PTL DEF Spec

-----------------------------------------------------------------------------
(***************************************************************************)
(* Records, copies and the registry file                                   *)
(***************************************************************************)

Registering == {"register", "record"}
Loading == {"scan", "scanning", "import"} \cup Registering
Saving == {"write", "replace"}
Unloads(t) == op[t] \in {"unload", "reload"}

\* A module that is being registered has no record yet; one that is being unloaded
\* has left the table before its record says so; and a server without an active
\* record is one whose record comes next.
RecordInv ==
    /\ \A t \in Thread : pc[t] \in Registering =>
         /\ cur[t].id \in 1..loads /\ status[cur[t].id] = "none"
         /\ \A u \in Thread \ {t} : pc[u] \in Registering => cur[u].id # cur[t].id
    /\ \A m \in Module : status[m] # "none" => m <= loads
    /\ \A t \in Thread : Unloads(t) /\ pc[t] # "unregister" => cur[t].id \notin servers
    /\ \A t \in Thread : Unloads(t) => source[cur[t].id] = cur[t].file
    /\ \A t \in Thread : Unloads(t) /\ pc[t] \in Saving \cup {"forget"} =>
         status[cur[t].id] = "unloaded"
    /\ \A m \in Module \cap servers :
         status[m] = "active" \/ \E t \in Thread : pc[t] = "record" /\ cur[t].id = m

Follows ==
    /\ {e[2] : e \in Entries} \subseteq {e[2] : e \in registry}
    /\ \A m \in Module : status[m] = "unloaded" => <<m, source[m]>> \notin registry

\* Calls that do not overlap.
SoloInv == ~raced => ~(Busy(Shell) /\ Busy(Watcher))

\* Then what a call has read of the records is still true, what it is about to write
\* is what they say, and only while it writes does the file not follow them.
FileInv == ~raced =>
    /\ \A m, n \in Module : status[m] = "active" /\ status[n] = "active"
                            /\ source[m] = source[n] => m = n
    /\ \A t \in Thread : pc[t] = "scanning" =>
         cur[t].keys = Cardinality(Keys) /\ (cur[t].seen <=> Active(cur[t].file))
    /\ \A t \in Thread : pc[t] \in {"import"} \cup Registering => ~Active(cur[t].file)
    /\ \A t \in Thread : pc[t] \in Saving => cur[t].data = Entries
    /\ \A t \in Thread : pc[t] = "replace" => tmp = {cur[t].data}
    /\ (\E t \in Thread : pc[t] \in Saving) \/ Follows

\* The shell restores until the process is up, the watcher rests until then, and a
\* promised file is whole.
BootInv ==
    /\ ~up => pc[Watcher] = "idle"
    /\ ~up <=> (pc[Shell] = "restore" \/ op[Shell] = "restore")
    /\ pc[Shell] \in {"idle", "restore"} => op[Shell] = "none"
    /\ \A f \in promised : disk[f] = "whole"

\* A promised file is loaded, or on its way in a restore; the registry names it
\* except while a restore writes the registry anew.
Kept(f) ==
    \/ Active(f)
    \/ ~up /\ (f \in todo \/ (pc[Shell] \in Loading /\ cur[Shell].file = f))

Promises ==
    /\ \A f \in promised : Kept(f)
    /\ up => promised \subseteq {e[2] : e \in registry}
    /\ \A t \in Thread : op[t] = "load" /\ pc[t] \in Saving => Active(cur[t].file)

PromiseInv == ~raced /\ ~cut /\ fails = 0 => Promises

-----------------------------------------------------------------------------
(***************************************************************************)
(* What each step of a call does, variable by variable                     *)
(***************************************************************************)

Own(t) == \A u \in Thread \ {t} : pc'[u] = pc[u] /\ op'[u] = op[u] /\ cur'[u] = cur[u]
SameCall(t) == op'[t] = op[t] /\ cur'[t].file = cur[t].file /\ cur'[t].id = cur[t].id
Move(t, a, b) == pc[t] = a /\ pc'[t] = b /\ Own(t)
Around == <<todo, up, dupes, disk, raced, cut>>
Records == <<status, source, servers, loads>>
Saved == <<registry, tmp, promised>>
Leaves(t) == Leave(t) /\ Own(t) /\ pc'[t] = (IF op[t] = "restore" THEN "restore" ELSE "idle")
             /\ op'[t] = "none" /\ pc'[t] \in {"idle", "restore"}

LEMMA LeaveIs ==
    ASSUME TypeInv, NEW t \in Thread, pc[t] \notin {"idle", "restore"}, Leave(t)
    PROVE  Leaves(t)
  <1>1. Own(t) /\ op'[t] = "none" /\ pc'[t] \in {"idle", "restore"}
    BY LeaveType DEF Own
  <1>2. pc'[t] = (IF op[t] = "restore" THEN "restore" ELSE "idle")
    BY DEF Leave, Goto, TypeInv, TypeOK
  <1> QED
    BY <1>1, <1>2 DEF Leaves

\* A step that goes on in its call, with its locals as they were.
LEMMA GoesOn ==
    ASSUME TypeOK, NEW t \in Thread, NEW s, Goto(t, s), UNCHANGED <<op, cur>>
    PROVE  Own(t) /\ SameCall(t) /\ pc'[t] = s /\ cur'[t] = cur[t]
  BY DEF Goto, TypeOK, Own, SameCall

ScanStarts(t) ==
    /\ UNCHANGED <<Around, Records, Saved, fails>>
    /\ \/ Leaves(t) /\ pc[t] = "scan" /\ disk[cur[t].file] = "absent"
       \/ /\ Move(t, "scan", "scanning") /\ SameCall(t)
          /\ cur'[t].keys = Cardinality(Keys) /\ cur'[t].seen = Active(cur[t].file)

ScanEnds(t) ==
    /\ UNCHANGED <<Around, Records, Saved, fails>>
    /\ pc[t] = "scanning"
    /\ \/ Leaves(t) /\ cur[t].keys # Cardinality(Keys)
       \/ Leaves(t) /\ (cur[t].seen \/ Active(cur[t].file))
       \/ /\ Move(t, "scanning", "import") /\ SameCall(t)
          /\ ~cur[t].seen \/ ~Active(cur[t].file)

Imports(t) ==
    /\ UNCHANGED <<Around, Saved, fails, status, source, servers>>
    /\ Move(t, "import", "register")
    /\ loads < MaxLoads /\ loads' = loads + 1
    /\ op'[t] = op[t] /\ cur'[t].file = cur[t].file /\ cur'[t].id = loads + 1

ImportEnds(t) ==
    /\ UNCHANGED <<Around, Records, Saved>>
    /\ Leaves(t) /\ pc[t] = "import"
    /\ (disk[cur[t].file] # "whole" /\ fails' = fails) \/ fails' = fails + 1

Registers(t) ==
    /\ UNCHANGED <<Around, Saved, fails, status, source, loads>>
    /\ Move(t, "register", "record") /\ SameCall(t)
    /\ servers' = servers \cup {cur[t].id}

RecordsIt(t) ==
    /\ UNCHANGED <<Around, Saved, fails, servers, loads>>
    /\ Move(t, "record", "write") /\ SameCall(t)
    /\ status' = [status EXCEPT ![cur[t].id] = "active"]
    /\ source' = [source EXCEPT ![cur[t].id] = cur[t].file]
    /\ cur'[t].data = Entries \cup {<<cur[t].id, cur[t].file>>}

Unregisters(t) ==
    /\ UNCHANGED <<Around, Saved, fails, status, source, loads>>
    /\ Move(t, "unregister", "mark") /\ SameCall(t)
    /\ servers' = servers \ {cur[t].id}

Marks(t) ==
    /\ UNCHANGED <<Around, registry, tmp, fails, source, servers, loads>>
    /\ Move(t, "mark", "write") /\ SameCall(t)
    /\ status' = [status EXCEPT ![cur[t].id] = "unloaded"]
    /\ cur'[t].data = {e \in Entries : e[1] # cur[t].id}
    /\ promised' = promised \ {cur[t].file}

Forgets(t) ==
    /\ UNCHANGED <<Around, Saved, fails, servers, loads>>
    /\ Move(t, "forget", "scan") /\ cur'[t] = cur[t] /\ op'[t] = "load"
    /\ status' = [status EXCEPT ![cur[t].id] = "none"]
    /\ source' = [source EXCEPT ![cur[t].id] = NoFile]

Writes(t) ==
    /\ UNCHANGED <<Around, Records, registry, promised, fails>>
    /\ Move(t, "write", "replace") /\ SameCall(t) /\ cur'[t] = cur[t]
    /\ tmp' = {cur[t].data}

Replaces(t) ==
    /\ UNCHANGED <<Around, Records, fails>> /\ pc[t] = "replace"
    /\ \/ Leaves(t) /\ op[t] # "reload"
       \/ Leaves(t) /\ tmp = {}
       \/ Move(t, "replace", "forget") /\ SameCall(t) /\ op[t] = "reload"
    /\ \/ /\ registry' \in tmp
          /\ promised' = IF op[t] = "load" /\ disk[cur[t].file] = "whole"
                         THEN promised \cup {cur[t].file}
                         ELSE promised
       \/ tmp = {} /\ UNCHANGED <<registry, promised>>

LEMMA CallIs ==
    ASSUME TypeInv, NEW t \in Thread, CallStep(t)
    PROVE  \/ ScanStarts(t) \/ ScanEnds(t) \/ Imports(t) \/ ImportEnds(t) \/ Registers(t)
           \/ RecordsIt(t) \/ Unregisters(t) \/ Marks(t) \/ Forgets(t) \/ Writes(t)
           \/ Replaces(t)
  <1>a. TypeOK /\ CallInv
    BY DEF TypeInv
  <1> USE DEF At, tableVars, moduleVars, diskVars, restoreVars, boundVars, seenVars,
              Around, Records, Saved
  <1>1. CASE ScanStart(t)
    <2>1. UNCHANGED <<Around, Records, Saved, fails>> /\ pc[t] = "scan"
      BY <1>1 DEF ScanStart
    <2>2. CASE disk[cur[t].file] = "absent"
      <3>1. Leave(t)
        BY <1>1, <2>2 DEF ScanStart
      <3> QED
        BY <2>1, <2>2, <3>1, LeaveIs DEF ScanStarts
    <2>3. CASE disk[cur[t].file] # "absent"
      <3>1. /\ cur' = [cur EXCEPT ![t].keys = Cardinality(Keys),
                                  ![t].seen = Active(cur[t].file)]
            /\ Goto(t, "scanning") /\ UNCHANGED op
        BY <1>1, <2>3 DEF ScanStart
      <3>2. /\ cur'[t].keys = Cardinality(Keys) /\ cur'[t].seen = Active(cur[t].file)
            /\ cur'[t].file = cur[t].file /\ cur'[t].id = cur[t].id
            /\ \A u \in Thread \ {t} : cur'[u] = cur[u]
        <4>1. cur[t] \in Call
          BY <1>a DEF TypeOK
        <4> QED
          BY <1>a, <3>1, <4>1 DEF TypeOK, Call
      <3>3. Move(t, "scan", "scanning") /\ SameCall(t)
        BY <1>a, <2>1, <3>1, <3>2 DEF Goto, TypeOK, Move, Own, SameCall
      <3> QED
        BY <2>1, <3>2, <3>3 DEF ScanStarts
    <2> QED
      BY <2>2, <2>3
  <1>2. CASE ScanEnd(t)
    <2>1. UNCHANGED <<Around, Records, Saved, fails>> /\ pc[t] = "scanning"
      BY <1>2 DEF ScanEnd
    <2>2. CASE Leave(t)
      <3>1. cur[t].keys # Cardinality(Keys) \/ cur[t].seen \/ Active(cur[t].file)
        <4>1. CASE Goto(t, "import")
          BY <2>1, <2>2, <4>1, LeaveIs DEF Goto, Leaves, TypeInv, TypeOK
        <4> QED
          BY <1>2, <4>1 DEF ScanEnd
      <3> QED
        BY <2>1, <2>2, <3>1, LeaveIs DEF ScanEnds
    <2>3. CASE ~Leave(t)
      <3>1. /\ ~cur[t].seen \/ ~Active(cur[t].file)
            /\ Goto(t, "import") /\ UNCHANGED <<op, cur>>
        BY <1>2, <2>3 DEF ScanEnd
      <3> QED
        BY <1>a, <2>1, <3>1, GoesOn DEF ScanEnds, Move
    <2> QED
      BY <2>2, <2>3
  <1>3. CASE Import(t)
    <2>1. /\ cur'[t].id = loads + 1 /\ cur'[t].file = cur[t].file
          /\ \A u \in Thread \ {t} : cur'[u] = cur[u]
      <3>1. cur[t] \in Call /\ cur' = [cur EXCEPT ![t].id = loads + 1]
        BY <1>3, <1>a DEF Import, TypeOK
      <3> QED
        BY <1>a, <3>1 DEF TypeOK, Call
    <2> QED
      BY <1>3, <1>a, <2>1 DEF Import, Imports, Move, Own, Goto, TypeOK
  <1>4. CASE ImportFails(t)
    BY <1>4, LeaveIs DEF ImportFails, ImportEnds
  <1>5. CASE RegisterServer(t)
    BY <1>5, <1>a, GoesOn DEF RegisterServer, Registers, Register, Move
  <1>6. CASE Record(t)
    <2>1. /\ cur'[t].data = Entries \cup {<<cur[t].id, cur[t].file>>}
          /\ cur'[t].id = cur[t].id /\ cur'[t].file = cur[t].file
          /\ \A u \in Thread \ {t} : cur'[u] = cur[u]
      <3>1. /\ cur[t] \in Call
            /\ cur' = [cur EXCEPT ![t].data = Entries \cup {<<cur[t].id, cur[t].file>>}]
        BY <1>6, <1>a DEF Record, TypeOK
      <3> QED
        BY <1>a, <3>1 DEF TypeOK, Call
    <2> QED
      BY <1>6, <1>a, <2>1 DEF Record, RecordsIt, Move, Own, SameCall, Goto, TypeOK
  <1>7. CASE UnregisterServer(t)
    <2>1. servers' = servers \ {cur[t].id}
      BY <1>7 DEF UnregisterServer, Unregister
    <2> QED
      BY <1>7, <1>a, <2>1, GoesOn DEF UnregisterServer, Unregisters, Move
  <1>8. CASE MarkUnloaded(t)
    <2>1. /\ cur'[t].data = {e \in Entries : e[1] # cur[t].id}
          /\ cur'[t].id = cur[t].id /\ cur'[t].file = cur[t].file
          /\ \A u \in Thread \ {t} : cur'[u] = cur[u]
      <3>1. /\ cur[t] \in Call
            /\ cur' = [cur EXCEPT ![t].data = {e \in Entries : e[1] # cur[t].id}]
        BY <1>8, <1>a DEF MarkUnloaded, TypeOK
      <3> QED
        BY <1>a, <3>1 DEF TypeOK, Call
    <2> QED
      BY <1>8, <1>a, <2>1 DEF MarkUnloaded, Marks, Move, Own, SameCall, Goto, TypeOK
  <1>9. CASE Forget(t)
    BY <1>9, <1>a DEF Forget, Forgets, Move, Own, Goto, TypeOK
  <1>10. CASE SaveWrite(t)
    BY <1>10, <1>a, GoesOn DEF SaveWrite, Writes, Move
  <1>11. CASE SaveReplace(t)
    <2>1. UNCHANGED <<Around, Records, fails>> /\ pc[t] = "replace"
      BY <1>11 DEF SaveReplace
    <2>2. \/ Leave(t) /\ op[t] # "reload"
          \/ Leave(t) /\ tmp = {}
          \/ Goto(t, "forget") /\ UNCHANGED <<op, cur>> /\ op[t] = "reload"
      BY <1>11 DEF SaveReplace
    <2>3. \/ Leaves(t) /\ op[t] # "reload"
          \/ Leaves(t) /\ tmp = {}
          \/ Move(t, "replace", "forget") /\ SameCall(t) /\ op[t] = "reload"
      BY <1>a, <2>1, <2>2, LeaveIs, GoesOn DEF Move
    <2>4. \/ /\ registry' \in tmp
             /\ promised' = IF op[t] = "load" /\ disk[cur[t].file] = "whole"
                            THEN promised \cup {cur[t].file}
                            ELSE promised
          \/ tmp = {} /\ UNCHANGED <<registry, promised>>
      BY <1>11 DEF SaveReplace
    <2> QED
      BY <2>1, <2>3, <2>4 DEF Replaces
  <1> QED
    BY <1>1, <1>2, <1>3, <1>4, <1>5, <1>6, <1>7, <1>8, <1>9, <1>10, <1>11 DEF CallStep

\* A call that begins.
Begins(t, c, f, m, s) ==
    /\ pc[t] \in {"idle", "restore"} /\ pc'[t] = s /\ Own(t)
    /\ op'[t] = c /\ cur'[t].file = f /\ cur'[t].id = m
    /\ raced' = (raced \/ \E u \in Thread \ {t} : Busy(u))

LEMMA EnterIs ==
    ASSUME TypeInv, NEW t \in Thread, NEW c \in {"load", "unload", "reload", "restore"},
           NEW f \in Files, NEW m \in Server \cup {NoServer}, NEW s \in Step,
           Enter(t, c, f, m, s), pc[t] \in {"idle", "restore"}
    PROVE  Begins(t, c, f, m, s)
  <1>a. TypeOK
    BY DEF TypeInv
  <1>1. /\ cur'[t].file = f /\ cur'[t].id = m
        /\ \A u \in Thread \ {t} : cur'[u] = cur[u]
        /\ pc' = [pc EXCEPT ![t] = s] /\ op' = [op EXCEPT ![t] = c]
    BY EnterType
  <1>2. Own(t) /\ pc'[t] = s /\ op'[t] = c
    BY <1>a, <1>1 DEF TypeOK, Own
  <1>3. raced' = (raced \/ \E u \in Thread \ {t} : Busy(u))
    BY DEF Enter
  <1> QED
    BY <1>1, <1>2, <1>3 DEF Begins

\* The steps that add no server and change no record.
LEMMA RecordKept ==
    ASSUME TypeInv, RecordInv, NEW t \in Thread, Own(t), UNCHANGED <<status, source, loads>>,
           servers' \subseteq servers,
           pc'[t] \notin Registering, pc[t] # "record",
           Unloads(t)' => /\ cur'[t].id \in Module /\ source[cur'[t].id] = cur'[t].file
                          /\ pc'[t] # "unregister" => cur'[t].id \notin servers'
                          /\ pc'[t] \in Saving \cup {"forget"}
                               => status[cur'[t].id] = "unloaded"
    PROVE  RecordInv'
  <1>1. \A u \in Thread : pc'[u] \in Registering =>
          /\ u # t /\ pc[u] \in Registering /\ cur'[u] = cur[u]
          /\ \A w \in Thread \ {u} : pc'[w] \in Registering
               => pc[w] \in Registering /\ cur'[w] = cur[w]
    BY DEF Own
  <1>2. \A u \in Thread \ {t} : /\ pc'[u] = pc[u] /\ cur'[u] = cur[u]
                                /\ Unloads(u)' <=> Unloads(u)
    BY DEF Own, Unloads
  <1>3. \A m \in Module \cap servers' :
          status[m] = "active" \/ \E u \in Thread : pc'[u] = "record" /\ cur'[u].id = m
    BY <1>2 DEF RecordInv
  <1>4. \A u \in Thread : pc'[u] \in Registering =>
         /\ cur'[u].id \in 1..loads' /\ status'[cur'[u].id] = "none"
         /\ \A w \in Thread \ {u} : pc'[w] \in Registering => cur'[w].id # cur'[u].id
    BY <1>1 DEF RecordInv
  <1>5. \A u \in Thread : Unloads(u)' =>
          /\ source'[cur'[u].id] = cur'[u].file
          /\ pc'[u] # "unregister" => cur'[u].id \notin servers'
          /\ pc'[u] \in Saving \cup {"forget"} => status'[cur'[u].id] = "unloaded"
    BY <1>2 DEF RecordInv
  <1> QED
    BY <1>3, <1>4, <1>5 DEF RecordInv

LEMMA RecordCall ==
    ASSUME TypeInv, RecordInv, NEW t \in Thread, CallStep(t)
    PROVE  RecordInv'
  <1>a. TypeOK /\ CallInv
    BY DEF TypeInv
  <1>b. loads \in Nat /\ Shell # Watcher /\ Thread = {Shell, Watcher}
    BY <1>a DEF TypeOK, Thread, Shell, Watcher
  <1>c. \A u \in Thread : Unloads(u) => /\ cur[u].id \in Module /\ status[cur[u].id] # "none"
                                        /\ pc[u] \notin Loading /\ u = Shell
    BY <1>a, <1>b DEF CallInv, Unloads, Loading, Registering
  <1>d. status \in [Module -> {"none", "active", "unloaded"}]
        /\ source \in [Module -> Files \cup {NoFile}]
    BY <1>a DEF TypeOK
  <1>e. \A u \in Thread : pc[u] \in Registering => cur[u].id \in Module
    BY <1>a DEF CallInv, Registering
  \* The calls that end.
  <1>1. ASSUME Leaves(t), UNCHANGED Records, pc[t] # "record" PROVE RecordInv'
    <2>1. /\ Own(t) /\ ~Unloads(t)' /\ UNCHANGED <<status, source, loads, servers>>
          /\ pc'[t] \notin Registering
      BY <1>1 DEF Leaves, Records, Unloads, Registering
    <2> QED
      BY <1>1, <2>1, RecordKept
  \* The steps that go on and change neither records nor the table.
  <1>2. ASSUME NEW a, NEW b, Move(t, a, b), SameCall(t), UNCHANGED Records,
               a # "record", b \notin Registering, b # "unregister", a # "unregister",
               b \in Saving \cup {"forget"} => a \in Saving
        PROVE  RecordInv'
    <2>1. /\ Own(t) /\ UNCHANGED <<status, source, loads, servers>>
          /\ pc'[t] = b /\ pc[t] = a
          /\ Unloads(t)' <=> Unloads(t)
          /\ cur'[t].file = cur[t].file /\ cur'[t].id = cur[t].id
      BY <1>2 DEF Move, SameCall, Records, Unloads
    <2>2. Unloads(t) => /\ source[cur[t].id] = cur[t].file
                        /\ cur[t].id \notin servers
                        /\ a \in Saving => status[cur[t].id] = "unloaded"
      BY <1>2, <2>1 DEF RecordInv
    <2> QED
      BY <1>2, <1>c, <2>1, <2>2, RecordKept
  <1>3. CASE ScanStarts(t)
    <2>1. CASE Leaves(t) /\ pc[t] = "scan"
      BY <1>1, <1>3, <2>1 DEF ScanStarts
    <2>2. CASE Move(t, "scan", "scanning") /\ SameCall(t)
      BY <1>2, <1>3, <2>2 DEF ScanStarts, Registering, Saving
    <2> QED
      BY <1>3, <2>1, <2>2 DEF ScanStarts
  <1>4. CASE ScanEnds(t)
    <2>1. CASE Leaves(t)
      BY <1>1, <1>4, <2>1 DEF ScanEnds
    <2>2. CASE Move(t, "scanning", "import") /\ SameCall(t)
      BY <1>2, <1>4, <2>2 DEF ScanEnds, Registering, Saving
    <2> QED
      BY <1>4, <2>1, <2>2 DEF ScanEnds
  <1>5. CASE ImportEnds(t)
    BY <1>1, <1>5 DEF ImportEnds
  <1>6. CASE Writes(t)
    BY <1>2, <1>6 DEF Writes, Registering, Saving
  <1>7. CASE Replaces(t)
    <2>1. CASE Leaves(t)
      BY <1>1, <1>7, <2>1 DEF Replaces
    <2>2. CASE Move(t, "replace", "forget") /\ SameCall(t)
      BY <1>2, <1>7, <2>2 DEF Replaces, Registering, Saving
    <2> QED
      BY <1>7, <2>1, <2>2 DEF Replaces
  <1>8. CASE Unregisters(t)
    <2>1. /\ Own(t) /\ UNCHANGED <<status, source, loads>> /\ servers' = servers \ {cur[t].id}
          /\ pc[t] = "unregister" /\ pc'[t] = "mark" /\ op'[t] = op[t]
          /\ cur'[t].file = cur[t].file /\ cur'[t].id = cur[t].id
      BY <1>8 DEF Unregisters, Move, SameCall
    <2>2. Unloads(t)' => /\ cur'[t].id \in Module /\ source[cur'[t].id] = cur'[t].file
                         /\ cur'[t].id \notin servers'
      BY <1>c, <2>1 DEF RecordInv, Unloads
    <2> QED
      BY <2>1, <2>2, RecordKept DEF Registering, Saving
  \* The import takes the next number: no record and no other call has it.
  <1>9. CASE Imports(t)
    <2>1. /\ Own(t) /\ UNCHANGED <<status, source, servers>> /\ loads' = loads + 1
          /\ pc[t] = "import" /\ pc'[t] = "register" /\ op'[t] = op[t]
          /\ cur'[t].id = loads + 1 /\ loads < MaxLoads
      BY <1>9 DEF Imports, Move
    <2>2. loads + 1 \in Module /\ status[loads + 1] = "none"
      BY <1>b, <1>d, <2>1, ModuleFacts DEF RecordInv, Module
    <2>3. \A u \in Thread \ {t} : pc'[u] \in Registering =>
            cur'[u].id \in 1..loads /\ status[cur'[u].id] = "none"
      BY <2>1 DEF RecordInv, Own
    <2>4. \A u \in Thread : pc'[u] \in Registering =>
            /\ cur'[u].id \in 1..loads' /\ status'[cur'[u].id] = "none"
            /\ \A w \in Thread \ {u} : pc'[w] \in Registering => cur'[w].id # cur'[u].id
      <3>1. ASSUME NEW u \in Thread, pc'[u] \in Registering
            PROVE  cur'[u].id \in 1..loads' /\ status'[cur'[u].id] = "none"
        BY <1>b, <2>1, <2>2, <2>3, <3>1
      <3>2. ASSUME NEW u \in Thread, pc'[u] \in Registering,
                   NEW w \in Thread \ {u}, pc'[w] \in Registering
            PROVE  cur'[w].id # cur'[u].id
        BY <1>b, <2>1, <2>3, <3>2
      <3> QED
        BY <3>1, <3>2
    <2>5. \A m \in Module : status'[m] # "none" => m <= loads'
      BY <1>b, <2>1 DEF RecordInv, Module
    <2>6. \A u \in Thread : Unloads(u)' => /\ u # t /\ Unloads(u) /\ cur'[u] = cur[u]
                                           /\ pc'[u] = pc[u]
      BY <1>c, <2>1 DEF Own, Unloads, Loading
    <2>7. \A m \in Module \cap servers' :
            status'[m] = "active" \/ \E u \in Thread : pc'[u] = "record" /\ cur'[u].id = m
      BY <2>1 DEF RecordInv, Own
    <2> QED
      BY <2>1, <2>4, <2>5, <2>6, <2>7 DEF RecordInv
  \* The server enters the table; its record comes next.
  <1>10. CASE Registers(t)
    <2>1. /\ Own(t) /\ UNCHANGED <<status, source, loads>>
          /\ servers' = servers \cup {cur[t].id}
          /\ pc[t] = "register" /\ pc'[t] = "record" /\ op'[t] = op[t]
          /\ cur'[t].file = cur[t].file /\ cur'[t].id = cur[t].id
      BY <1>10 DEF Registers, Move, SameCall
    <2>2. \A u \in Thread : /\ cur'[u].id = cur[u].id /\ cur'[u].file = cur[u].file
                            /\ Unloads(u)' <=> Unloads(u)
                            /\ u # t => pc'[u] = pc[u]
                            /\ pc'[u] \in Registering <=> pc[u] \in Registering
      BY <2>1 DEF Own, Unloads, Registering
    <2>3. \A u \in Thread : Unloads(u) => u # t /\ cur[u].id # cur[t].id
      BY <1>c, <2>1 DEF RecordInv, Registering, Loading
    <2>4. \A m \in Module \cap servers' :
            status'[m] = "active" \/ \E u \in Thread : pc'[u] = "record" /\ cur'[u].id = m
      <3>1. SUFFICES ASSUME NEW m \in Module \cap servers', m # cur[t].id
                     PROVE  \/ status'[m] = "active"
                            \/ \E u \in Thread : pc'[u] = "record" /\ cur'[u].id = m
        BY <2>1
      <3> QED
        BY <2>1, <2>2, <3>1 DEF RecordInv
    <2>5. \A u \in Thread : Unloads(u)' /\ pc'[u] # "unregister" => cur'[u].id \notin servers'
      BY <2>1, <2>2, <2>3 DEF RecordInv
    <2>6. \A u \in Thread : Unloads(u)' =>
            /\ source'[cur'[u].id] = cur'[u].file
            /\ pc'[u] \in Saving \cup {"forget"} => status'[cur'[u].id] = "unloaded"
      BY <2>1, <2>2, <2>3 DEF RecordInv
    <2>7. \A u \in Thread : pc'[u] \in Registering =>
            /\ cur'[u].id \in 1..loads' /\ status'[cur'[u].id] = "none"
            /\ \A w \in Thread \ {u} : pc'[w] \in Registering => cur'[w].id # cur'[u].id
      BY <2>1, <2>2 DEF RecordInv
    <2> QED
      BY <2>1, <2>4, <2>5, <2>6, <2>7 DEF RecordInv
  <1>11. CASE RecordsIt(t)
    <2>1. /\ Own(t) /\ UNCHANGED <<servers, loads>>
          /\ pc[t] = "record" /\ pc'[t] = "write" /\ op'[t] = op[t]
          /\ cur'[t].file = cur[t].file /\ cur'[t].id = cur[t].id
          /\ cur[t].id \in Module
          /\ status'[cur[t].id] = "active"
          /\ \A m \in Module \ {cur[t].id} : status'[m] = status[m] /\ source'[m] = source[m]
      BY <1>11, <1>d, <1>e DEF RecordsIt, Move, SameCall, Registering
    <2>2. \A u \in Thread : /\ cur'[u].id = cur[u].id /\ cur'[u].file = cur[u].file
                            /\ Unloads(u)' <=> Unloads(u)
                            /\ u # t => pc'[u] = pc[u]
                            /\ pc'[u] \in Registering => pc[u] \in Registering /\ u # t
      BY <2>1 DEF Own, Unloads, Registering
    <2>3. \A u \in Thread : Unloads(u) => u # t /\ cur[u].id \in Module \ {cur[t].id}
      BY <1>c, <2>1 DEF RecordInv, Registering, Loading
    <2>4. \A u \in Thread \ {t} : pc[u] \in Registering => cur[u].id \in Module \ {cur[t].id}
      BY <1>e, <2>1 DEF RecordInv, Registering
    <2>5. cur[t].id <= loads
      BY <1>b, <2>1 DEF RecordInv, Registering
    <2>6. \A m \in Module : status'[m] # "none" => m <= loads'
      BY <2>1, <2>5 DEF RecordInv
    <2>7. \A m \in Module \cap servers' :
            status'[m] = "active" \/ \E u \in Thread : pc'[u] = "record" /\ cur'[u].id = m
      <3>1. SUFFICES ASSUME NEW m \in Module \cap servers, m # cur[t].id
                     PROVE  \/ status'[m] = "active"
                            \/ \E u \in Thread : pc'[u] = "record" /\ cur'[u].id = m
        BY <2>1
      <3> QED
        BY <2>1, <2>2, <3>1 DEF RecordInv
    <2>8. \A u \in Thread : Unloads(u)' =>
            /\ source'[cur'[u].id] = cur'[u].file
            /\ pc'[u] # "unregister" => cur'[u].id \notin servers'
            /\ pc'[u] \in Saving \cup {"forget"} => status'[cur'[u].id] = "unloaded"
      BY <2>1, <2>2, <2>3 DEF RecordInv
    <2>9. \A u \in Thread : pc'[u] \in Registering =>
            /\ cur'[u].id \in 1..loads' /\ status'[cur'[u].id] = "none"
            /\ \A w \in Thread \ {u} : pc'[w] \in Registering => cur'[w].id # cur'[u].id
      BY <2>1, <2>2, <2>4 DEF RecordInv
    <2> QED
      BY <2>6, <2>7, <2>8, <2>9 DEF RecordInv
  \* The server has left the table, so its record may say so.
  <1>12. CASE Marks(t)
    <2>1. /\ Own(t) /\ UNCHANGED <<servers, loads, source>>
          /\ pc[t] = "mark" /\ pc'[t] = "write" /\ op'[t] = op[t]
          /\ cur'[t].file = cur[t].file /\ cur'[t].id = cur[t].id
          /\ status' = [status EXCEPT ![cur[t].id] = "unloaded"]
      BY <1>12 DEF Marks, Move, SameCall
    <2>2. Unloads(t)
      BY <1>a, <2>1 DEF CallInv, Unloads
    <2>3. /\ cur[t].id \in Module /\ status'[cur[t].id] = "unloaded"
          /\ \A m \in Module \ {cur[t].id} : status'[m] = status[m]
          /\ cur[t].id \notin servers /\ status[cur[t].id] # "none"
      BY <1>c, <1>d, <2>1, <2>2 DEF RecordInv
    <2>4. \A u \in Thread : /\ cur'[u].id = cur[u].id /\ cur'[u].file = cur[u].file
                            /\ Unloads(u)' <=> Unloads(u)
                            /\ u # t => pc'[u] = pc[u]
                            /\ pc'[u] \in Registering => pc[u] \in Registering /\ u # t
      BY <2>1 DEF Own, Unloads, Registering
    <2>5. \A u \in Thread : pc[u] \in Registering => cur[u].id \in Module \ {cur[t].id}
      BY <1>e, <2>3 DEF RecordInv
    <2>6. \A m \in Module : status'[m] # "none" => m <= loads'
      BY <2>1, <2>3 DEF RecordInv
    <2>7. \A m \in Module \cap servers' :
            status'[m] = "active" \/ \E u \in Thread : pc'[u] = "record" /\ cur'[u].id = m
      <3>1. SUFFICES ASSUME NEW m \in Module \cap servers, m # cur[t].id
                     PROVE  \/ status'[m] = "active"
                            \/ \E u \in Thread : pc'[u] = "record" /\ cur'[u].id = m
        BY <2>1, <2>3
      <3> QED
        BY <2>1, <2>3, <2>4, <3>1 DEF RecordInv
    <2>8. \A u \in Thread : Unloads(u)' =>
            /\ source'[cur'[u].id] = cur'[u].file
            /\ pc'[u] # "unregister" => cur'[u].id \notin servers'
            /\ pc'[u] \in Saving \cup {"forget"} => status'[cur'[u].id] = "unloaded"
      <3>1. \A u \in Thread : Unloads(u) => u = t
        BY <1>c, <2>2
      <3> QED
        BY <2>1, <2>3, <2>4, <3>1 DEF RecordInv
    <2>9. \A u \in Thread : pc'[u] \in Registering =>
            /\ cur'[u].id \in 1..loads' /\ status'[cur'[u].id] = "none"
            /\ \A w \in Thread \ {u} : pc'[w] \in Registering => cur'[w].id # cur'[u].id
      BY <2>1, <2>3, <2>4, <2>5 DEF RecordInv
    <2> QED
      BY <2>6, <2>7, <2>8, <2>9 DEF RecordInv
  <1>13. CASE Forgets(t)
    <2>1. /\ Own(t) /\ UNCHANGED <<servers, loads>>
          /\ pc[t] = "forget" /\ pc'[t] = "scan" /\ op'[t] = "load"
          /\ cur'[t] = cur[t]
          /\ status' = [status EXCEPT ![cur[t].id] = "none"]
      BY <1>13 DEF Forgets, Move
    <2>2. Unloads(t)
      BY <1>a, <2>1 DEF CallInv, Unloads
    <2>3. /\ cur[t].id \in Module /\ status'[cur[t].id] = "none"
          /\ \A m \in Module \ {cur[t].id} : status'[m] = status[m]
          /\ cur[t].id \notin servers /\ status[cur[t].id] # "none"
      BY <1>c, <1>d, <2>1, <2>2 DEF RecordInv
    <2>4. \A u \in Thread : /\ cur'[u] = cur[u]
                            /\ u # t => pc'[u] = pc[u]
                            /\ pc'[u] \in Registering => pc[u] \in Registering /\ u # t
      BY <2>1 DEF Own, Registering
    <2>5. \A u \in Thread : pc[u] \in Registering => cur[u].id \in Module \ {cur[t].id}
      BY <1>e, <2>3 DEF RecordInv
    <2>6. \A m \in Module : status'[m] # "none" => m <= loads'
      BY <2>1, <2>3 DEF RecordInv
    <2>7. \A m \in Module \cap servers' :
            status'[m] = "active" \/ \E u \in Thread : pc'[u] = "record" /\ cur'[u].id = m
      <3>1. SUFFICES ASSUME NEW m \in Module \cap servers, m # cur[t].id
                     PROVE  \/ status'[m] = "active"
                            \/ \E u \in Thread : pc'[u] = "record" /\ cur'[u].id = m
        BY <2>1, <2>3
      <3> QED
        BY <2>1, <2>3, <2>4, <3>1 DEF RecordInv
    <2>8. \A u \in Thread : ~Unloads(u)'
      BY <1>c, <2>1, <2>2 DEF Own, Unloads
    <2>9. \A u \in Thread : pc'[u] \in Registering =>
            /\ cur'[u].id \in 1..loads' /\ status'[cur'[u].id] = "none"
            /\ \A w \in Thread \ {u} : pc'[w] \in Registering => cur'[w].id # cur'[u].id
      BY <2>1, <2>3, <2>4, <2>5 DEF RecordInv
    <2> QED
      BY <2>6, <2>7, <2>8, <2>9 DEF RecordInv
  <1> QED
    BY <1>3, <1>4, <1>5, <1>6, <1>7, <1>8, <1>9, <1>10, <1>11, <1>12, <1>13, CallIs

\* The steps outside the calls.
Rest == <<status, source, servers, loads, registry, tmp, promised, fails, up, disk, cut>>

Loads(t, f) ==
    /\ Begins(t, "load", f, NoServer, "scan") /\ pc[t] = "idle" /\ up
    /\ UNCHANGED <<Rest, todo>>

Drops(m) ==
    /\ \E c \in {"unload", "reload"} : Begins(Shell, c, source[m], m, "unregister")
    /\ pc[Shell] = "idle" /\ up /\ status[m] # "none"
    /\ UNCHANGED <<Rest, todo>>

Restores(f) ==
    /\ Begins(Shell, "restore", f, NoServer, "scan") /\ pc[Shell] = "restore"
    /\ todo' = todo \ {f}
    /\ UNCHANGED Rest

SavesAgain ==
    /\ Move(Shell, "restore", "write") /\ op'[Shell] = "restore"
    /\ cur'[Shell].data = Entries
    /\ todo = {}
    /\ UNCHANGED <<Rest, todo, raced>>

Starts ==
    /\ Move(Shell, "restore", "idle") /\ SameCall(Shell) /\ cur'[Shell] = cur[Shell]
    /\ todo = {} /\ up'
    /\ UNCHANGED <<Records, Saved, fails, disk, cut, todo, raced>>

Edits(f) ==
    /\ disk' \in [Files -> {"absent", "partial", "whole"}]
    /\ \A g \in Files \ {f} : disk'[g] = disk[g]
    /\ promised' = promised \ {f}
    /\ UNCHANGED <<threadVars, Records, registry, tmp, fails, cut, todo, raced, up>>

Shrinks ==
    /\ servers' \subseteq servers
    /\ UNCHANGED <<threadVars, status, source, loads, Saved, fails, disk, cut, todo, raced, up>>

LEMMA StepIs ==
    ASSUME TypeInv, [Next]_vars
    PROVE  \/ \E t \in Thread : CallStep(t)
           \/ \E t \in Thread, f \in Files : Loads(t, f)
           \/ \E m \in Module : Drops(m)
           \/ \E f \in Files : Restores(f) \/ Edits(f)
           \/ SavesAgain
           \/ Starts
           \/ Shrinks
           \/ CrashAndBoot
  <1>a. TypeOK
    BY DEF TypeInv
  <1>b. Shell \in Thread /\ Watcher \in Thread /\ NoServer \in Server \cup {NoServer}
        /\ {"scan", "unregister"} \subseteq Step
    BY DEF Thread, Step
  <1> USE DEF tableVars, moduleVars, diskVars, restoreVars, boundVars, seenVars, Records,
              Saved, Rest
  <1>1. ASSUME NEW f \in Files, CommandLoad(f) PROVE Loads(Shell, f)
    <2>1. /\ Enter(Shell, "load", f, NoServer, "scan") /\ pc[Shell] = "idle" /\ up
          /\ UNCHANGED <<Rest, todo>>
      BY <1>1 DEF CommandLoad, Command, Busy
    <2> QED
      BY <1>b, <2>1, EnterIs DEF Loads
  <1>2. ASSUME NEW f \in Files, WatcherPoll(f) PROVE Shrinks \/ Loads(Watcher, f)
    <2>1. CASE Active(f)
      BY <1>2, <2>1 DEF WatcherPoll, Shrinks
    <2>2. CASE ~Active(f)
      <3>1. /\ Enter(Watcher, "load", f, NoServer, "scan") /\ pc[Watcher] = "idle" /\ up
            /\ UNCHANGED <<Rest, todo>>
        BY <1>2, <2>2 DEF WatcherPoll, Busy
      <3> QED
        BY <1>b, <3>1, EnterIs DEF Loads
    <2> QED
      BY <2>1, <2>2
  <1>3. ASSUME NEW f \in Files, Author(f) PROVE Edits(f)
    <2>1. /\ disk' \in [Files -> {"absent", "partial", "whole"}]
          /\ \A g \in Files \ {f} : disk'[g] = disk[g]
      BY <1>3, <1>a DEF Author, TypeOK
    <2> QED
      BY <1>3, <2>1 DEF Author, Edits
  <1>4. ASSUME NEW m \in Module, CommandUnload(m) PROVE Drops(m)
    <2>1. PICK c \in {"unload", "reload"} : Enter(Shell, c, source[m], m, "unregister")
      BY <1>4 DEF CommandUnload
    <2>2. pc[Shell] = "idle" /\ up /\ status[m] # "none" /\ UNCHANGED <<Rest, todo>>
      BY <1>4 DEF CommandUnload, Command, Busy
    <2>3. source[m] \in Files /\ m \in Server \cup {NoServer}
      BY <2>2, <1>a, ModuleFacts DEF TypeOK
    <2>4. Begins(Shell, c, source[m], m, "unregister")
      BY <1>b, <2>1, <2>2, <2>3, EnterIs
    <2> QED
      BY <2>2, <2>4 DEF Drops
  <1>5. ASSUME NEW s \in Server, CommandUnregister(s) PROVE Shrinks
    BY <1>5 DEF CommandUnregister, Unregister, Shrinks
  <1>6. ASSUME RestoreNext PROVE \E f \in Files : Restores(f)
    <2>1. PICK f \in todo : todo' = todo \ {f} /\ Enter(Shell, "restore", f, NoServer, "scan")
      BY <1>6 DEF RestoreNext
    <2>2. f \in Files /\ pc[Shell] = "restore" /\ UNCHANGED Rest
      BY <1>6, <1>a DEF RestoreNext, At, TypeOK
    <2> QED
      BY <1>b, <2>1, <2>2, EnterIs DEF Restores
  <1>7. ASSUME RestoreSaves PROVE SavesAgain
    <2>1. /\ pc[Shell] = "restore" /\ todo = {} /\ UNCHANGED <<Rest, todo, raced>>
          /\ op' = [op EXCEPT ![Shell] = "restore"]
          /\ cur' = [cur EXCEPT ![Shell].data = Entries]
          /\ pc' = [pc EXCEPT ![Shell] = "write"]
      BY <1>7 DEF RestoreSaves, At, Goto
    <2>2. cur'[Shell].data = Entries /\ \A u \in Thread \ {Shell} : cur'[u] = cur[u]
      BY <1>a, <1>b, <2>1 DEF TypeOK, Call
    <2> QED
      BY <1>a, <1>b, <2>1, <2>2 DEF SavesAgain, Move, Own, TypeOK
  <1>8. ASSUME RestoreDone PROVE Starts
    <2>1. /\ pc[Shell] = "restore" /\ todo = {} /\ up' /\ Goto(Shell, "idle")
          /\ UNCHANGED <<op, cur, Records, Saved, fails, disk, cut, todo, raced>>
      BY <1>8 DEF RestoreDone, At
    <2> QED
      BY <1>a, <1>b, <2>1, GoesOn DEF Starts, Move
  <1>9. ASSUME UNCHANGED vars PROVE Shrinks
    BY <1>9 DEF vars, threadVars, Shrinks
  <1>10. CASE Next
    BY <1>10, <1>b, <1>1, <1>2, <1>3, <1>4, <1>5, <1>6, <1>7, <1>8 DEF Next
  <1> QED
    BY <1>9, <1>10

\* A command, the watcher, a restore and a crash keep the records as a call does.
LEMMA RecordStep ==
    ASSUME TypeInv, RecordInv, [Next]_vars
    PROVE  RecordInv'
  <1>a. TypeOK /\ CallInv
    BY DEF TypeInv
  <1>b. Shell \in Thread /\ loads \in Nat
    BY <1>a DEF Thread, TypeOK
  <1>c. source \in [Module -> Files \cup {NoFile}]
    BY <1>a DEF TypeOK
  <1>d. \A t \in Thread : Unloads(t) =>
          cur[t].id \in Module /\ pc[t] \notin {"idle", "restore"}
    BY <1>a DEF CallInv, Unloads
  <1>1. ASSUME NEW t \in Thread, NEW f \in Files, Loads(t, f) PROVE RecordInv'
    <2>1. /\ Own(t) /\ UNCHANGED <<status, source, loads, servers>>
          /\ pc'[t] = "scan" /\ pc[t] = "idle" /\ op'[t] = "load"
      BY <1>1 DEF Loads, Begins, Rest
    <2> QED
      BY <2>1, RecordKept DEF Registering, Unloads
  <1>2. ASSUME NEW m \in Module, Drops(m) PROVE RecordInv'
    <2>1. /\ Own(Shell) /\ UNCHANGED <<status, source, loads, servers>>
          /\ pc'[Shell] = "unregister" /\ pc[Shell] = "idle"
          /\ cur'[Shell].file = source[m] /\ cur'[Shell].id = m
      BY <1>2 DEF Drops, Begins, Rest
    <2> QED
      BY <1>b, <2>1, RecordKept DEF Registering, Saving
  <1>3. ASSUME NEW f \in Files, Restores(f) PROVE RecordInv'
    <2>1. /\ Own(Shell) /\ UNCHANGED <<status, source, loads, servers>>
          /\ pc'[Shell] = "scan" /\ pc[Shell] = "restore" /\ op'[Shell] = "restore"
      BY <1>3 DEF Restores, Begins, Rest
    <2> QED
      BY <1>b, <2>1, RecordKept DEF Registering, Unloads
  <1>4. ASSUME SavesAgain PROVE RecordInv'
    <2>1. /\ Own(Shell) /\ UNCHANGED <<status, source, loads, servers>>
          /\ pc'[Shell] = "write" /\ pc[Shell] = "restore" /\ op'[Shell] = "restore"
      BY <1>4 DEF SavesAgain, Move, Rest
    <2> QED
      BY <1>b, <2>1, RecordKept DEF Registering, Unloads
  <1>5. ASSUME Starts PROVE RecordInv'
    <2>1. /\ Own(Shell) /\ UNCHANGED <<status, source, loads, servers>>
          /\ pc'[Shell] = "idle" /\ pc[Shell] = "restore" /\ op'[Shell] = op[Shell]
      BY <1>5 DEF Starts, Move, SameCall, Records
    <2> QED
      BY <1>b, <1>d, <2>1, RecordKept DEF Registering, Unloads
  <1>6. ASSUME UNCHANGED <<pc, op, cur, status, source, loads>>, servers' \subseteq servers
        PROVE  RecordInv'
    BY <1>6 DEF RecordInv, Unloads
  <1>7. ASSUME NEW f \in Files, Edits(f) PROVE RecordInv'
    BY <1>6, <1>7 DEF Edits, threadVars, Records
  <1>8. ASSUME Shrinks PROVE RecordInv'
    BY <1>6, <1>8 DEF Shrinks, threadVars
  <1>9. ASSUME CrashAndBoot PROVE RecordInv'
    <2>1. /\ \A t \in Thread : pc'[t] \in {"idle", "restore"} /\ op'[t] = "none"
          /\ \A m \in Module : status'[m] = "none"
          /\ servers' = {BuiltInServer} /\ BuiltInServer \notin Module
      BY <1>9 DEF CrashAndBoot, Booted, BuiltInServer, Module
    <2> QED
      BY <2>1 DEF RecordInv, Registering, Unloads
  <1> QED
    BY <1>1, <1>2, <1>3, <1>4, <1>5, <1>7, <1>8, <1>9, RecordCall, StepIs

-----------------------------------------------------------------------------
(***************************************************************************)
(* The registry file, while calls do not overlap                           *)
(***************************************************************************)

\* Calls that overlap are remembered.
LEMMA SoloStep ==
    ASSUME TypeInv, SoloInv, [Next]_vars
    PROVE  /\ SoloInv' /\ (raced => raced')
           /\ \A t \in Thread : CallStep(t) /\ ~raced' =>
                ~raced /\ \A u \in Thread \ {t} : pc[u] = "idle" /\ pc'[u] = "idle"
  <1>a. Thread = {Shell, Watcher} /\ Shell # Watcher
    BY DEF Thread, Shell, Watcher
  <1>1. ASSUME NEW t \in Thread, CallStep(t)
        PROVE  Own(t) /\ UNCHANGED raced /\ pc[t] # "idle"
    BY <1>1, CallIs DEF ScanStarts, ScanEnds, Imports, ImportEnds, Registers, RecordsIt,
       Unregisters, Marks, Forgets, Writes, Replaces, Around, Leaves, Move
  <1>2. \A t \in Thread : CallStep(t) /\ ~raced' =>
          ~raced /\ \A u \in Thread \ {t} : pc[u] = "idle" /\ pc'[u] = "idle"
    BY <1>a, <1>1 DEF SoloInv, Busy, Own
  <1>3. ASSUME NEW t \in Thread, CallStep(t) PROVE SoloInv' /\ (raced => raced')
    BY <1>a, <1>1, <1>2, <1>3 DEF SoloInv, Busy
  <1>4. ASSUME NEW t \in Thread, NEW c, NEW f, NEW m, NEW s, Begins(t, c, f, m, s)
        PROVE  SoloInv' /\ (raced => raced')
    <2>1. raced => raced'
      BY <1>4 DEF Begins
    <2>2. ~raced' => \A u \in Thread \ {t} : pc'[u] = "idle"
      BY <1>4 DEF Begins, Own, Busy
    <2> QED
      BY <1>a, <2>1, <2>2 DEF SoloInv, Busy
  <1>5. ASSUME NEW f \in Files, Restores(f) PROVE SoloInv' /\ (raced => raced')
    BY <1>a, <1>4, <1>5 DEF Restores
  <1>6. ASSUME NEW f \in Files, Edits(f) PROVE SoloInv' /\ (raced => raced')
    BY <1>6 DEF Edits, threadVars, SoloInv, Busy
  <1>7. ASSUME SavesAgain \/ Starts PROVE SoloInv' /\ (raced => raced')
    BY <1>a, <1>7 DEF SavesAgain, Starts, Move, Own, SoloInv, Busy
  <1>8. ASSUME Shrinks PROVE SoloInv' /\ (raced => raced')
    BY <1>8 DEF Shrinks, threadVars, SoloInv, Busy
  <1>9. ASSUME CrashAndBoot PROVE SoloInv' /\ (raced => raced')
    <2>1. pc'[Watcher] = "idle" /\ UNCHANGED raced
      BY <1>a, <1>9 DEF CrashAndBoot, Booted
    <2> QED
      BY <2>1 DEF SoloInv, Busy
  <1>10. ASSUME NEW m \in Module, Drops(m) PROVE SoloInv' /\ (raced => raced')
    BY <1>a, <1>4, <1>10 DEF Drops
  <1>11. ASSUME NEW t \in Thread, NEW f \in Files, Loads(t, f)
         PROVE  SoloInv' /\ (raced => raced')
    BY <1>a, <1>4, <1>11 DEF Loads
  <1> QED
    BY <1>2, <1>3, <1>5, <1>6, <1>7, <1>8, <1>9, <1>10, <1>11, StepIs

\* What the records say only depends on the records.
LEMMA SameRecords ==
    ASSUME UNCHANGED <<status, source>>
    PROVE  UNCHANGED <<Entries, Keys>> /\ \A f \in Files : Active(f)' <=> Active(f)
  BY DEF Entries, Keys, Active

\* A step of one thread, the other at rest before and after, that changes no record.
LEMMA FileKept ==
    ASSUME NEW t \in Thread, UNCHANGED <<status, source>>, FileInv, ~raced, ~raced',
           TypeOK',
           \A u \in Thread \ {t} : pc'[u] = "idle",
           pc'[t] = "scanning" =>
             /\ cur'[t].keys = Cardinality(Keys)
             /\ cur'[t].seen <=> Active(cur'[t].file),
           pc'[t] \in {"import"} \cup Registering =>
             cur'[t].file \in Files /\ ~Active(cur'[t].file),
           pc'[t] \in Saving => cur'[t].data = Entries,
           pc'[t] = "replace" => tmp' = {cur'[t].data},
           pc'[t] \in Saving \/ Follows'
    PROVE  FileInv'
  <1>1. UNCHANGED <<Entries, Keys>> /\ \A f \in Files : Active(f)' <=> Active(f)
    BY SameRecords
  <1>2. \A u \in Thread : pc'[u] # "idle" => u = t
    OBVIOUS
  <1>3. \A m, n \in Module : status'[m] = "active" /\ status'[n] = "active"
                             /\ source'[m] = source'[n] => m = n
    BY DEF FileInv
  <1>4. \A u \in Thread : pc'[u] = "scanning" =>
          cur'[u].keys = Cardinality(Keys)' /\ (cur'[u].seen <=> Active(cur[u].file)')
    BY <1>1, <1>2 DEF Active
  <1>5. \A u \in Thread : pc'[u] \in {"import"} \cup Registering => ~Active(cur[u].file)'
    BY <1>1, <1>2 DEF Registering, Active
  <1>6. \A u \in Thread : pc'[u] \in Saving => cur'[u].data = Entries'
    BY <1>1, <1>2 DEF Saving
  <1>7. \A u \in Thread : pc'[u] = "replace" => tmp' = {cur'[u].data}
    BY <1>2
  <1> QED
    BY <1>3, <1>4, <1>5, <1>6, <1>7 DEF FileInv

\* A call keeps the file: what it read of the records still holds when it uses it.
LEMMA FileCall ==
    ASSUME TypeInv, TypeInv', RecordInv, FileInv, NEW t \in Thread, CallStep(t),
           ~raced, ~raced', \A u \in Thread \ {t} : pc[u] = "idle" /\ pc'[u] = "idle"
    PROVE  FileInv'
  <1>a. TypeOK /\ CallInv /\ TypeOK' /\ CallInv'
    BY DEF TypeInv
  <1>b. /\ status \in [Module -> {"none", "active", "unloaded"}]
        /\ source \in [Module -> Files \cup {NoFile}]
        /\ \A m \in Module : status[m] = "none" <=> source[m] = NoFile
    BY <1>a DEF TypeOK
  <1>c. \A u \in Thread \ {t} : pc'[u] = "idle" /\ pc[u] \notin Saving
    BY DEF Saving
  <1>d. pc[t] \notin Saving => Follows
    BY <1>c DEF FileInv
  \* The records, the registry and the thread's own reading stay.
  <1>e. ASSUME UNCHANGED <<status, source, registry>>, Follows PROVE Follows'
    BY <1>e DEF Follows, Entries
  <1>1. ASSUME UNCHANGED <<status, source, registry>>, pc[t] \notin Saving,
               pc'[t] \notin Saving \cup {"scanning", "import"} \cup Registering
        PROVE  FileInv'
    <2>1. Follows'
      BY <1>1, <1>d, <1>e
    <2> QED
      BY <1>1, <1>a, <1>c, <2>1, FileKept DEF Saving
  <1>2. CASE ScanStarts(t)
    <2>1. UNCHANGED <<status, source, registry>> /\ pc[t] \notin Saving /\ pc[t] = "scan"
      BY <1>2 DEF ScanStarts, Records, Saved, Move, Leaves, Saving
    <2>2. CASE Leaves(t)
      BY <1>1, <2>1, <2>2 DEF Leaves, Saving, Registering
    <2>3. CASE ~Leaves(t)
      <3>1. /\ pc'[t] = "scanning" /\ cur'[t].keys = Cardinality(Keys)
            /\ cur'[t].seen = Active(cur[t].file) /\ cur'[t].file = cur[t].file
        BY <1>2, <2>3 DEF ScanStarts, Move, SameCall
      <3>2. Follows' /\ (cur'[t].seen <=> Active(cur'[t].file))
        BY <1>d, <1>e, <2>1, <3>1
      <3>3. pc'[t] \notin Saving /\ pc'[t] \notin {"import"} \cup Registering
        BY <3>1 DEF Saving, Registering
      <3> QED
        BY <1>a, <1>c, <2>1, <3>1, <3>2, <3>3, FileKept
    <2> QED
      BY <2>2, <2>3
  <1>3. CASE ScanEnds(t)
    <2>1. UNCHANGED <<status, source, registry>> /\ pc[t] \notin Saving /\ pc[t] = "scanning"
      BY <1>3 DEF ScanEnds, Records, Saved, Saving
    <2>2. CASE Leaves(t)
      BY <1>1, <2>1, <2>2 DEF Leaves, Saving, Registering
    <2>3. CASE ~Leaves(t)
      <3>1. /\ pc'[t] = "import" /\ cur'[t].file = cur[t].file
            /\ ~cur[t].seen \/ ~Active(cur[t].file)
        BY <1>3, <2>3 DEF ScanEnds, Move, SameCall
      <3>2. ~Active(cur[t].file)
        BY <2>1, <3>1 DEF FileInv
      <3>3. ~Active(cur'[t].file) /\ cur'[t].file \in Files
        BY <1>a, <2>1, <3>1, <3>2 DEF CallInv
      <3>4. Follows' /\ pc'[t] \notin Saving
        BY <1>d, <1>e, <2>1, <3>1 DEF Saving
      <3> QED
        BY <1>a, <1>c, <2>1, <3>1, <3>3, <3>4, FileKept
    <2> QED
      BY <2>2, <2>3
  <1>4. CASE ImportEnds(t)
    <2>1. UNCHANGED <<status, source, registry>> /\ pc[t] \notin Saving
          /\ pc'[t] \in {"idle", "restore"}
      BY <1>4 DEF ImportEnds, Records, Saved, Saving, Leaves
    <2> QED
      BY <1>1, <2>1 DEF Saving, Registering
  \* From the scan to the record the file has no active module.
  <1>5. ASSUME NEW a \in {"import", "register"}, NEW b \in Registering, Move(t, a, b),
               cur'[t].file = cur[t].file, UNCHANGED <<status, source, registry>>
        PROVE  FileInv'
    <2>1. pc[t] = a /\ pc'[t] = b
      BY <1>5 DEF Move
    <2>2. ~Active(cur[t].file) /\ cur[t].file \in Files
      BY <1>a, <2>1 DEF FileInv, CallInv, Registering
    <2>3. ~Active(cur'[t].file) /\ cur'[t].file \in Files
      BY <1>5, <2>2
    <2>4. Follows' /\ pc'[t] \notin Saving /\ pc'[t] # "scanning" /\ pc'[t] # "replace"
      BY <1>5, <1>d, <1>e, <2>1 DEF Saving, Registering
    <2> QED
      BY <1>5, <1>a, <1>c, <2>3, <2>4, FileKept
  <1>6. CASE Imports(t)
    BY <1>5, <1>6 DEF Imports, Saved, Registering
  <1>7. CASE Registers(t)
    BY <1>5, <1>7 DEF Registers, Saved, Registering, SameCall
  <1>8. CASE Unregisters(t)
    <2>1. UNCHANGED <<status, source, registry>> /\ pc[t] = "unregister" /\ pc'[t] = "mark"
      BY <1>8 DEF Unregisters, Saved, Move
    <2> QED
      BY <1>1, <2>1 DEF Saving, Registering
  <1>9. CASE Writes(t)
    <2>1. /\ UNCHANGED <<status, source, registry>> /\ pc[t] = "write" /\ pc'[t] = "replace"
          /\ cur'[t] = cur[t] /\ tmp' = {cur[t].data}
      BY <1>9 DEF Writes, Records, Move
    <2>2. cur'[t].data = Entries /\ tmp' = {cur'[t].data}
      BY <2>1 DEF FileInv, Saving
    <2>3. pc'[t] \in Saving /\ pc'[t] \notin {"import"} \cup Registering /\ pc'[t] # "scanning"
      BY <2>1 DEF Saving, Registering
    <2> QED
      BY <1>a, <1>c, <2>1, <2>2, <2>3, FileKept
  \* The registry is what the records say.
  <1>10. CASE Replaces(t)
    <2>1. UNCHANGED <<status, source>> /\ pc[t] = "replace"
          /\ pc'[t] \in {"idle", "restore", "forget"}
      BY <1>10 DEF Replaces, Records, Leaves, Move
    <2>2. tmp = {Entries}
      BY <2>1 DEF FileInv, Saving
    <2>3. registry' = Entries
      BY <1>10, <2>2 DEF Replaces
    <2>4. Follows'
      BY <2>1, <2>3 DEF Follows, Entries
    <2>5. pc'[t] \notin Saving \cup {"scanning", "import"} \cup Registering
      BY <2>1 DEF Saving, Registering
    <2> QED
      BY <1>a, <1>c, <2>1, <2>4, <2>5, FileKept
  <1>11. CASE RecordsIt(t)
    <2>1. /\ pc[t] = "record" /\ pc'[t] = "write"
          /\ status' = [status EXCEPT ![cur[t].id] = "active"]
          /\ source' = [source EXCEPT ![cur[t].id] = cur[t].file]
          /\ cur'[t].data = Entries \cup {<<cur[t].id, cur[t].file>>}
      BY <1>11 DEF RecordsIt, Move
    <2>2. /\ cur[t].id \in Module /\ status[cur[t].id] = "none"
          /\ cur[t].file \in Files /\ ~Active(cur[t].file)
      BY <1>a, <2>1 DEF CallInv, RecordInv, FileInv, Registering
    <2>3. /\ status'[cur[t].id] = "active" /\ source'[cur[t].id] = cur[t].file
          /\ \A m \in Module \ {cur[t].id} : status'[m] = status[m] /\ source'[m] = source[m]
      BY <1>b, <2>1, <2>2
    <2>4. \A m, n \in Module : status'[m] = "active" /\ status'[n] = "active"
                               /\ source'[m] = source'[n] => m = n
      BY <2>2, <2>3 DEF FileInv, Active
    <2>5. Entries' = Entries \cup {<<cur[t].id, cur[t].file>>}
      BY <2>2, <2>3 DEF Entries
    <2>6. /\ \A u \in Thread : pc'[u] # "scanning" /\ pc'[u] # "replace"
          /\ \A u \in Thread : pc'[u] \notin {"import"} \cup Registering
          /\ \A u \in Thread : pc'[u] \in Saving => u = t
          /\ pc'[t] \in Saving
      BY <1>c, <2>1 DEF Saving, Registering
    <2> QED
      BY <2>1, <2>4, <2>5, <2>6 DEF FileInv
  <1>12. CASE Marks(t)
    <2>1. /\ pc[t] = "mark" /\ pc'[t] = "write" /\ source' = source
          /\ status' = [status EXCEPT ![cur[t].id] = "unloaded"]
          /\ cur'[t].data = {e \in Entries : e[1] # cur[t].id}
      BY <1>12 DEF Marks, Move
    <2>2. cur[t].id \in Module
      BY <1>a, <2>1 DEF CallInv
    <2>3. /\ status'[cur[t].id] = "unloaded"
          /\ \A m \in Module \ {cur[t].id} : status'[m] = status[m]
      BY <1>b, <2>1, <2>2
    <2>4. \A m, n \in Module : status'[m] = "active" /\ status'[n] = "active"
                               /\ source'[m] = source'[n] => m = n
      BY <2>1, <2>2, <2>3 DEF FileInv
    <2>5. Entries' = {e \in Entries : e[1] # cur[t].id}
      BY <2>1, <2>2, <2>3 DEF Entries
    <2>6. /\ \A u \in Thread : pc'[u] # "scanning" /\ pc'[u] # "replace"
          /\ \A u \in Thread : pc'[u] \notin {"import"} \cup Registering
          /\ \A u \in Thread : pc'[u] \in Saving => u = t
          /\ pc'[t] \in Saving
      BY <1>c, <2>1 DEF Saving, Registering
    <2> QED
      BY <2>1, <2>4, <2>5, <2>6 DEF FileInv
  \* The forgotten record was no longer active.
  <1>13. CASE Forgets(t)
    <2>1. /\ pc[t] = "forget" /\ pc'[t] = "scan" /\ registry' = registry
          /\ status' = [status EXCEPT ![cur[t].id] = "none"]
          /\ source' = [source EXCEPT ![cur[t].id] = NoFile]
      BY <1>13 DEF Forgets, Move, Saved
    <2>2. Unloads(t) /\ cur[t].id \in Module
      BY <1>a, <2>1 DEF CallInv, Unloads
    <2>3. status[cur[t].id] = "unloaded"
      BY <2>1, <2>2 DEF RecordInv
    <2>4. /\ status'[cur[t].id] = "none"
          /\ \A m \in Module \ {cur[t].id} : status'[m] = status[m] /\ source'[m] = source[m]
      BY <1>b, <2>1, <2>2
    <2>5. \A m, n \in Module : status'[m] = "active" /\ status'[n] = "active"
                               /\ source'[m] = source'[n] => m = n
      BY <2>2, <2>4 DEF FileInv
    <2>6. Entries' = Entries
      BY <2>2, <2>3, <2>4 DEF Entries
    <2>7. Follows'
      <3>1. Follows
        BY <1>d, <2>1 DEF Saving
      <3> QED
        BY <2>1, <2>2, <2>4, <2>6, <3>1 DEF Follows
    <2>8. /\ \A u \in Thread : pc'[u] # "scanning" /\ pc'[u] \notin Saving
          /\ \A u \in Thread : pc'[u] \notin {"import"} \cup Registering /\ pc'[u] # "replace"
      BY <1>c, <2>1 DEF Saving, Registering
    <2> QED
      BY <2>5, <2>7, <2>8 DEF FileInv
  <1> QED
    BY <1>2, <1>3, <1>4, <1>6, <1>7, <1>8, <1>9, <1>10, <1>11, <1>12, <1>13, CallIs

\* Whoever begins a call while the other rests finds the file up to date.
LEMMA FileStep ==
    ASSUME TypeInv, TypeInv', RecordInv, SoloInv, SoloInv', FileInv, [Next]_vars
    PROVE  FileInv'
  <1> SUFFICES ASSUME ~raced'
               PROVE  FileInv'
    BY DEF FileInv
  <1>a. TypeOK'
    BY DEF TypeInv
  <1>b. ~raced
    BY SoloStep
  <1>c. Thread = {Shell, Watcher} /\ Shell # Watcher
    BY DEF Thread, Shell, Watcher
  <1>1. ASSUME NEW t \in Thread, CallStep(t) PROVE FileInv'
    BY <1>1, SoloStep, FileCall
  \* The registry and the records stay while a thread that was not in a call moves.
  <1>2. ASSUME NEW t \in Thread, Own(t), UNCHANGED <<status, source, registry>>,
               pc[t] \in {"idle", "restore"}, \A u \in Thread \ {t} : pc[u] = "idle",
               pc'[t] \notin {"scanning", "import", "replace"} \cup Registering,
               pc'[t] \in Saving => cur'[t].data = Entries
        PROVE  FileInv'
    <2>1. Follows
      BY <1>b, <1>2 DEF FileInv, Saving
    <2>2. Follows' /\ \A u \in Thread \ {t} : pc'[u] = "idle"
      BY <1>2, <2>1 DEF Follows, Entries, Own
    <2> QED
      BY <1>a, <1>b, <1>2, <2>2, FileKept
  <1>3. ASSUME NEW t \in Thread, NEW c, NEW f, NEW m, NEW s \in {"scan", "unregister"},
               Begins(t, c, f, m, s), UNCHANGED <<status, source, registry>>
        PROVE  FileInv'
    <2>1. /\ Own(t) /\ pc[t] \in {"idle", "restore"} /\ pc'[t] = s
          /\ \A u \in Thread \ {t} : pc[u] = "idle"
      BY <1>3 DEF Begins, Busy
    <2> QED
      BY <1>2, <1>3, <2>1 DEF Registering, Saving
  <1>4. ASSUME NEW t \in Thread, NEW f \in Files, Loads(t, f) PROVE FileInv'
    BY <1>3, <1>4 DEF Loads, Rest
  <1>5. ASSUME NEW m \in Module, Drops(m) PROVE FileInv'
    BY <1>c, <1>3, <1>5 DEF Drops, Rest
  <1>6. ASSUME NEW f \in Files, Restores(f) PROVE FileInv'
    BY <1>c, <1>3, <1>6 DEF Restores, Rest
  <1>7. ASSUME pc[Shell] = "restore" PROVE \A u \in Thread \ {Shell} : pc[u] = "idle"
    BY <1>b, <1>c, <1>7 DEF SoloInv, Busy
  <1>8. CASE SavesAgain
    <2>1. /\ Own(Shell) /\ pc[Shell] = "restore" /\ pc'[Shell] = "write"
          /\ UNCHANGED <<status, source, registry>> /\ cur'[Shell].data = Entries
      BY <1>8 DEF SavesAgain, Move, Rest
    <2> QED
      BY <1>c, <1>2, <1>7, <2>1 DEF Registering
  <1>9. CASE Starts
    <2>1. /\ Own(Shell) /\ pc[Shell] = "restore" /\ pc'[Shell] = "idle"
          /\ UNCHANGED <<status, source, registry>>
      BY <1>9 DEF Starts, Move, Records, Saved
    <2> QED
      BY <1>c, <1>2, <1>7, <2>1 DEF Registering, Saving
  <1>10. ASSUME UNCHANGED <<pc, op, cur, status, source, registry, tmp>> PROVE FileInv'
    BY <1>b, <1>10 DEF FileInv, Follows, Entries, Keys, Active
  <1>11. ASSUME NEW f \in Files, Edits(f) PROVE FileInv'
    BY <1>10, <1>11 DEF Edits, threadVars, Records
  <1>12. CASE Shrinks
    BY <1>10, <1>12 DEF Shrinks, threadVars, Saved
  \* A process starts with no record.
  <1>13. CASE CrashAndBoot
    <2>1. /\ \A t \in Thread : pc'[t] \in {"idle", "restore"}
          /\ \A m \in Module : status'[m] = "none"
      BY <1>13 DEF CrashAndBoot, Booted
    <2>2. Follows'
      BY <2>1 DEF Follows, Entries
    <2> QED
      BY <2>1, <2>2 DEF FileInv, Registering, Saving
  <1> QED
    BY <1>1, <1>4, <1>5, <1>6, <1>8, <1>9, <1>11, <1>12, <1>13, StepIs

-----------------------------------------------------------------------------
(***************************************************************************)
(* Boot, and the promises                                                  *)
(***************************************************************************)

LEMMA BootStep ==
    ASSUME TypeInv, BootInv, [Next]_vars
    PROVE  BootInv'
  <1>a. TypeOK /\ CallInv
    BY DEF TypeInv
  <1>b. Thread = {Shell, Watcher} /\ Shell # Watcher
    BY DEF Thread, Shell, Watcher
  \* A step inside a call: it never begins or ends a restore.
  <1>1. ASSUME NEW t \in Thread, Own(t), UNCHANGED up, pc[t] \notin {"idle", "restore"},
               \/ Leaves(t)
               \/ pc'[t] \notin {"idle", "restore"} /\ op'[t] = op[t]
               \/ pc'[t] \notin {"idle", "restore"} /\ op[t] # "restore" /\ op'[t] = "load",
               \A f \in promised' : disk'[f] = "whole"
        PROVE  BootInv'
    <2>1. CASE t = Watcher
      <3>1. up /\ pc'[Shell] = pc[Shell] /\ op'[Shell] = op[Shell]
        BY <1>b, <1>1, <2>1 DEF BootInv, Own
      <3> QED
        BY <1>1, <3>1 DEF BootInv
    <2>2. CASE t = Shell
      <3>1. pc'[Watcher] = pc[Watcher]
        BY <1>b, <1>1, <2>2 DEF Own
      <3>2. /\ ~up <=> (pc'[Shell] = "restore" \/ op'[Shell] = "restore")
            /\ pc'[Shell] \in {"idle", "restore"} => op'[Shell] = "none"
        BY <1>1, <2>2 DEF BootInv, Leaves
      <3> QED
        BY <1>1, <3>1, <3>2 DEF BootInv
    <2> QED
      BY <1>b, <2>1, <2>2
  <1>2. ASSUME NEW t \in Thread, CallStep(t) PROVE BootInv'
    <2>1. Own(t) /\ UNCHANGED <<up, disk>> /\ pc[t] \notin {"idle", "restore"}
      BY <1>2, CallIs DEF ScanStarts, ScanEnds, Imports, ImportEnds, Registers, RecordsIt,
         Unregisters, Marks, Forgets, Writes, Replaces, Around, Leaves, Move
    <2>2. \/ Leaves(t)
          \/ pc'[t] \notin {"idle", "restore"} /\ op'[t] = op[t]
          \/ pc[t] = "forget" /\ pc'[t] = "scan" /\ op'[t] = "load"
      BY <1>2, CallIs DEF ScanStarts, ScanEnds, Imports, ImportEnds, Registers, RecordsIt,
         Unregisters, Marks, Forgets, Writes, Replaces, SameCall, Move
    <2>3. pc[t] = "forget" => op[t] # "restore"
      BY <1>a DEF CallInv
    <2>4. promised' \subseteq promised \/ (promised' = promised \cup {cur[t].file}
                                           /\ disk[cur[t].file] = "whole")
      BY <1>2, CallIs DEF ScanStarts, ScanEnds, Imports, ImportEnds, Registers, RecordsIt,
         Unregisters, Marks, Forgets, Writes, Replaces, Saved
    <2>5. \A f \in promised' : disk'[f] = "whole"
      BY <2>1, <2>4 DEF BootInv
    <2> QED
      BY <1>1, <2>1, <2>2, <2>3, <2>5
  <1>3. ASSUME NEW t \in Thread, NEW f \in Files, Loads(t, f) PROVE BootInv'
    <2>1. /\ up /\ pc'[t] = "scan" /\ op'[t] = "load" /\ Own(t)
          /\ UNCHANGED <<up, disk, promised>>
      BY <1>3 DEF Loads, Begins, Rest
    <2> QED
      BY <1>b, <2>1 DEF BootInv, Own
  <1>4. ASSUME NEW m \in Module, Drops(m) PROVE BootInv'
    <2>1. /\ up /\ pc'[Shell] = "unregister" /\ op'[Shell] \in {"unload", "reload"}
          /\ Own(Shell) /\ UNCHANGED <<up, disk, promised>>
      BY <1>4 DEF Drops, Begins, Rest
    <2> QED
      BY <1>b, <2>1 DEF BootInv, Own
  <1>5. ASSUME NEW f \in Files, Restores(f) PROVE BootInv'
    <2>1. /\ pc[Shell] = "restore" /\ pc'[Shell] = "scan" /\ op'[Shell] = "restore"
          /\ Own(Shell) /\ UNCHANGED <<up, disk, promised>>
      BY <1>5 DEF Restores, Begins, Rest
    <2> QED
      BY <1>b, <2>1 DEF BootInv, Own
  <1>6. CASE SavesAgain
    <2>1. /\ pc[Shell] = "restore" /\ pc'[Shell] = "write" /\ op'[Shell] = "restore"
          /\ Own(Shell) /\ UNCHANGED <<up, disk, promised>>
      BY <1>6 DEF SavesAgain, Move, Rest
    <2> QED
      BY <1>b, <2>1 DEF BootInv, Own
  <1>7. CASE Starts
    <2>1. /\ pc[Shell] = "restore" /\ pc'[Shell] = "idle" /\ op'[Shell] = op[Shell]
          /\ up' /\ UNCHANGED <<disk, promised>>
      BY <1>7 DEF Starts, Move, SameCall, Saved
    <2> QED
      BY <1>b, <2>1 DEF BootInv
  <1>8. ASSUME NEW f \in Files, Edits(f) PROVE BootInv'
    <2>1. \A g \in promised' : disk'[g] = disk[g] /\ g \in promised
      BY <1>8, <1>a DEF Edits, TypeOK
    <2> QED
      BY <1>8, <2>1 DEF Edits, threadVars, BootInv
  <1>9. CASE Shrinks
    BY <1>9 DEF Shrinks, threadVars, Saved, BootInv
  <1>10. CASE CrashAndBoot
    <2>1. /\ ~up' /\ pc'[Shell] = "restore" /\ pc'[Watcher] = "idle"
          /\ op'[Shell] = "none" /\ UNCHANGED <<disk, promised>>
      BY <1>10, <1>b DEF CrashAndBoot, Booted
    <2> QED
      BY <2>1 DEF BootInv
  <1> QED
    BY <1>2, <1>3, <1>4, <1>5, <1>6, <1>7, <1>8, <1>9, <1>10, StepIs

\* A call keeps the promises: it loads the file it restores, and unloads no other.
LEMMA PromiseCall ==
    ASSUME TypeInv, RecordInv, FileInv, BootInv, PromiseInv, NEW t \in Thread, CallStep(t),
           ~raced, ~cut', fails' = 0, \A u \in Thread \ {t} : pc[u] = "idle" /\ pc'[u] = "idle"
    PROVE  Promises'
  <1> USE DEF Promises
  <1>a. TypeOK /\ CallInv
    BY DEF TypeInv
  <1>b. /\ status \in [Module -> {"none", "active", "unloaded"}]
        /\ source \in [Module -> Files \cup {NoFile}]
        /\ fails \in Nat /\ promised \subseteq Files
    BY <1>a DEF TypeOK
  <1>c. /\ UNCHANGED <<todo, up, disk, cut>> /\ Own(t)
        /\ fails' = fails \/ fails' = fails + 1
    BY CallIs DEF ScanStarts, ScanEnds, Imports, ImportEnds, Registers, RecordsIt,
       Unregisters, Marks, Forgets, Writes, Replaces, Around, Leaves, Move
  <1>d. fails = 0 /\ UNCHANGED fails /\ ~cut
    BY <1>b, <1>c
  <1>e. /\ \A f \in promised : Kept(f) /\ disk[f] = "whole"
        /\ up => promised \subseteq {e[2] : e \in registry}
        /\ op[t] = "load" /\ pc[t] \in Saving => Active(cur[t].file)
    BY <1>d DEF PromiseInv, BootInv, Kept
  <1>f. Shell # Watcher /\ (t # Shell => pc[Shell] = "idle") /\ Thread = {Shell, Watcher}
        /\ \A u \in Thread \ {t} : pc'[u] \notin Saving
    BY DEF Thread, Shell, Watcher, Saving
  \* The steps that change no record.
  <1>1. ASSUME UNCHANGED <<status, source, promised, registry>>,
               pc[t] \in Loading => \/ pc'[t] \in Loading /\ cur'[t].file = cur[t].file
                                    \/ cur[t].file \in promised => Active(cur[t].file),
               op'[t] = "load" /\ pc'[t] \in Saving =>
                 op[t] = "load" /\ pc[t] \in Saving /\ cur'[t].file = cur[t].file
        PROVE  Promises'
    <2>1. ASSUME NEW f \in promised PROVE Kept(f)'
      <3>1. Kept(f)
        BY <1>e
      <3>2. CASE Active(f)
        BY <1>1, <3>2 DEF Kept, Active
      <3>3. CASE ~up /\ f \in todo
        BY <1>c, <3>3 DEF Kept
      <3>4. CASE ~Active(f) /\ ~up /\ pc[Shell] \in Loading /\ cur[Shell].file = f
        <4>1. t = Shell
          BY <1>f, <3>4 DEF Loading, Registering
        <4>2. pc'[Shell] \in Loading /\ cur'[Shell].file = f
          BY <1>1, <3>4, <4>1
        <4> QED
          BY <1>c, <3>4, <4>2 DEF Kept
      <3> QED
        BY <3>1, <3>2, <3>3, <3>4 DEF Kept
    <2>2. \A u \in Thread : op'[u] = "load" /\ pc'[u] \in Saving => Active(cur[u].file)'
      BY <1>1, <1>e, <1>f DEF Active
    <2> QED
      BY <1>1, <1>c, <1>e, <2>1, <2>2
  <1>2. CASE ScanStarts(t)
    <2>1. UNCHANGED <<status, source, promised, registry>> /\ pc[t] = "scan"
      BY <1>2 DEF ScanStarts, Records, Saved, Move
    <2>2. CASE Leaves(t) /\ disk[cur[t].file] = "absent"
      BY <1>1, <1>e, <2>1, <2>2 DEF Leaves, Saving
    <2>3. CASE Move(t, "scan", "scanning") /\ SameCall(t)
      BY <1>1, <2>1, <2>3 DEF Move, SameCall, Loading, Saving
    <2> QED
      BY <1>2, <2>2, <2>3 DEF ScanStarts
  <1>3. CASE ScanEnds(t)
    <2>1. UNCHANGED <<status, source, promised, registry>> /\ pc[t] = "scanning"
      BY <1>3 DEF ScanEnds, Records, Saved
    <2>2. cur[t].keys = Cardinality(Keys) /\ (cur[t].seen <=> Active(cur[t].file))
      BY <2>1 DEF FileInv
    <2>3. CASE Leaves(t) /\ (cur[t].seen \/ Active(cur[t].file))
      BY <1>1, <2>1, <2>2, <2>3 DEF Leaves, Saving
    <2>4. CASE Move(t, "scanning", "import") /\ SameCall(t)
      BY <1>1, <2>1, <2>4 DEF Move, SameCall, Loading, Saving
    <2> QED
      BY <1>3, <2>2, <2>3, <2>4 DEF ScanEnds
  <1>4. CASE ImportEnds(t)
    <2>1. UNCHANGED <<status, source, promised, registry>> /\ Leaves(t) /\ pc[t] = "import"
          /\ disk[cur[t].file] # "whole"
      BY <1>4, <1>d DEF ImportEnds, Records, Saved
    <2> QED
      BY <1>1, <1>e, <2>1 DEF Leaves, Saving
  <1>5. CASE Imports(t)
    <2>1. /\ UNCHANGED <<status, source, promised, registry>>
          /\ pc'[t] = "register" /\ cur'[t].file = cur[t].file
      BY <1>5 DEF Imports, Saved, Move
    <2> QED
      BY <1>1, <2>1 DEF Loading, Registering, Saving
  <1>6. CASE Registers(t)
    <2>1. /\ UNCHANGED <<status, source, promised, registry>>
          /\ pc'[t] = "record" /\ cur'[t].file = cur[t].file
      BY <1>6 DEF Registers, Saved, Move, SameCall
    <2> QED
      BY <1>1, <2>1 DEF Loading, Registering, Saving
  <1>7. CASE Unregisters(t)
    <2>1. /\ UNCHANGED <<status, source, promised, registry>>
          /\ pc[t] = "unregister" /\ pc'[t] = "mark"
      BY <1>7 DEF Unregisters, Saved, Move
    <2> QED
      BY <1>1, <2>1 DEF Loading, Registering, Saving
  <1>8. CASE Writes(t)
    <2>1. /\ UNCHANGED <<status, source, promised, registry>>
          /\ pc[t] = "write" /\ pc'[t] = "replace" /\ cur'[t] = cur[t] /\ op'[t] = op[t]
      BY <1>8 DEF Writes, Records, Move, SameCall
    <2> QED
      BY <1>1, <2>1 DEF Loading, Registering, Saving
  \* The replaced registry names every active file; a load adds its own.
  <1>9. CASE Replaces(t)
    <2>1. /\ UNCHANGED <<status, source>> /\ pc[t] = "replace"
          /\ pc'[t] \in {"idle", "restore", "forget"}
      BY <1>9 DEF Replaces, Records, Leaves, Move
    <2>2. tmp = {Entries}
      BY <2>1 DEF FileInv, Saving
    <2>3. /\ registry' = Entries
          /\ promised' \subseteq promised \cup {cur[t].file}
          /\ op[t] # "load" => promised' \subseteq promised
      BY <1>9, <2>2 DEF Replaces
    <2>4. \A f \in promised' : Kept(f) /\ f \in Files
      BY <1>a, <1>b, <1>e, <2>1, <2>3 DEF Kept, Saving, CallInv
    <2>5. ASSUME NEW f \in promised' PROVE Kept(f)' /\ (up' => f \in {e[2] : e \in registry'})
      <3>1. pc[Shell] \notin Loading
        BY <1>f, <2>1 DEF Loading, Registering
      <3>2. Active(f) \/ (~up /\ f \in todo)
        BY <2>4, <3>1 DEF Kept
      <3>3. Kept(f)'
        BY <1>c, <2>1, <3>2 DEF Kept, Active
      <3>4. Active(f) => f \in {e[2] : e \in Entries}
        <4>1. SUFFICES ASSUME NEW m \in Module, status[m] = "active", source[m] = f
                       PROVE  f \in {e[2] : e \in Entries}
          BY DEF Active
        <4>2. <<m, f>> \in Entries /\ <<m, f>>[2] = f
          BY <4>1 DEF Entries
        <4> QED
          BY <4>2
      <3> QED
        BY <1>c, <2>3, <3>2, <3>3, <3>4
    <2>6. \A u \in Thread : pc'[u] \notin Saving
      BY <1>f, <2>1 DEF Saving
    <2> QED
      BY <2>5, <2>6
  \* The loaded file is active now.
  <1>10. CASE RecordsIt(t)
    <2>1. /\ UNCHANGED <<promised, registry>> /\ cur'[t].file = cur[t].file
          /\ pc[t] = "record" /\ pc'[t] = "write"
          /\ status' = [status EXCEPT ![cur[t].id] = "active"]
          /\ source' = [source EXCEPT ![cur[t].id] = cur[t].file]
      BY <1>10 DEF RecordsIt, Saved, Move, SameCall
    <2>2. cur[t].id \in Module /\ status[cur[t].id] = "none"
      BY <1>a, <2>1 DEF CallInv, RecordInv, Registering
    <2>3. /\ status'[cur[t].id] = "active" /\ source'[cur[t].id] = cur[t].file
          /\ \A m \in Module \ {cur[t].id} : status'[m] = status[m] /\ source'[m] = source[m]
      BY <1>b, <2>1, <2>2
    <2>4. Active(cur[t].file)' /\ \A f \in Files : Active(f) => Active(f)'
      BY <2>1, <2>2, <2>3 DEF Active
    <2>5. ASSUME NEW f \in promised PROVE Kept(f)'
      <3>1. CASE Active(f)
        BY <1>b, <2>4, <3>1 DEF Kept
      <3>2. CASE ~up /\ f \in todo
        BY <1>c, <3>2 DEF Kept
      <3>3. CASE pc[Shell] \in Loading /\ cur[Shell].file = f
        <4>1. t = Shell
          BY <1>f, <3>3 DEF Loading, Registering
        <4>2. \E m \in Module : status'[m] = "active" /\ source'[m] = f
          BY <2>2, <2>3, <3>3, <4>1
        <4> QED
          BY <4>2 DEF Kept, Active
      <3> QED
        BY <1>e, <3>1, <3>2, <3>3 DEF Kept
    <2>6. \A u \in Thread : pc'[u] \in Saving => Active(cur[u].file)'
      BY <1>f, <2>1, <2>2, <2>3 DEF Active
    <2> QED
      BY <1>c, <1>e, <2>1, <2>5, <2>6
  \* Unloading breaks the one promise about its own file.
  <1>11. CASE Marks(t)
    <2>1. /\ UNCHANGED <<source, registry>> /\ promised' = promised \ {cur[t].file}
          /\ pc[t] = "mark" /\ op'[t] = op[t]
          /\ status' = [status EXCEPT ![cur[t].id] = "unloaded"]
      BY <1>11 DEF Marks, Move, SameCall
    <2>2. Unloads(t) /\ cur[t].id \in Module /\ source[cur[t].id] = cur[t].file
      BY <1>a, <2>1 DEF CallInv, Unloads, RecordInv
    <2>3. \A m \in Module \ {cur[t].id} : status'[m] = status[m]
      BY <1>b, <2>1, <2>2
    <2>4. ASSUME NEW f \in promised' PROVE Kept(f)'
      <3>1. CASE Active(f)
        BY <2>1, <2>2, <2>3, <3>1 DEF Kept, Active
      <3>2. CASE ~up /\ f \in todo
        BY <1>c, <3>2 DEF Kept
      <3>3. pc[Shell] \notin Loading
        BY <1>f, <2>1 DEF Loading, Registering
      <3> QED
        BY <1>e, <2>1, <3>1, <3>2, <3>3 DEF Kept
    <2>5. \A u \in Thread : ~(op'[u] = "load" /\ pc'[u] \in Saving)
      BY <1>f, <2>1, <2>2 DEF Unloads
    <2> QED
      BY <1>c, <1>e, <2>1, <2>4, <2>5
  \* The record that reload forgets was no longer active.
  <1>12. CASE Forgets(t)
    <2>1. /\ UNCHANGED <<promised, registry>> /\ pc[t] = "forget" /\ pc'[t] = "scan"
          /\ status' = [status EXCEPT ![cur[t].id] = "none"]
          /\ source' = [source EXCEPT ![cur[t].id] = NoFile]
      BY <1>12 DEF Forgets, Saved, Move
    <2>2. Unloads(t) /\ cur[t].id \in Module /\ status[cur[t].id] = "unloaded"
      BY <1>a, <2>1 DEF CallInv, Unloads, RecordInv
    <2>3. \A m \in Module \ {cur[t].id} : status'[m] = status[m] /\ source'[m] = source[m]
      BY <1>b, <2>1, <2>2
    <2>4. ASSUME NEW f \in promised PROVE Kept(f)'
      <3>1. CASE Active(f)
        BY <2>2, <2>3, <3>1 DEF Kept, Active
      <3>2. CASE ~up /\ f \in todo
        BY <1>c, <3>2 DEF Kept
      <3>3. pc[Shell] \notin Loading
        BY <1>f, <2>1 DEF Loading, Registering
      <3> QED
        BY <1>e, <3>1, <3>2, <3>3 DEF Kept
    <2>5. \A u \in Thread : pc'[u] \notin Saving
      BY <1>f, <2>1 DEF Saving
    <2> QED
      BY <1>c, <1>e, <2>1, <2>4, <2>5
  <1> QED
    BY <1>2, <1>3, <1>4, <1>5, <1>6, <1>7, <1>8, <1>9, <1>10, <1>11, <1>12, CallIs

LEMMA PromiseStep ==
    ASSUME TypeInv, RecordInv, SoloInv, FileInv, BootInv, PromiseInv, [Next]_vars
    PROVE  PromiseInv'
  <1> SUFFICES ASSUME ~raced', ~cut', fails' = 0
               PROVE  Promises'
    BY DEF PromiseInv
  <1> USE DEF Promises
  <1>a. TypeOK /\ Thread = {Shell, Watcher} /\ Shell # Watcher /\ promised \subseteq Files
    BY DEF TypeInv, TypeOK, Thread, Shell, Watcher
  <1>b. ~raced
    BY SoloStep
  <1>1. ASSUME NEW t \in Thread, CallStep(t)
        PROVE  Promises'
    <2>1. \A u \in Thread \ {t} : pc[u] = "idle" /\ pc'[u] = "idle"
      BY <1>1, SoloStep
    <2> QED
      BY <1>1, <1>b, <2>1, PromiseCall
  \* Outside the calls no module fails.
  <1>c. ASSUME fails = 0, ~cut
        PROVE  /\ \A f \in promised : Kept(f) /\ disk[f] = "whole"
               /\ up => promised \subseteq {e[2] : e \in registry}
               /\ \A t \in Thread : op[t] = "load" /\ pc[t] \in Saving => Active(cur[t].file)
    BY <1>b, <1>c DEF PromiseInv, BootInv
  \* A thread that was in no call begins one, with nothing to save in it.
  <1>2. ASSUME NEW t \in Thread, Own(t), UNCHANGED <<Rest, todo>>,
               pc[t] \notin Loading, ~(op'[t] = "load" /\ pc'[t] \in Saving)
        PROVE  Promises'
    <2>1. UNCHANGED <<status, source, registry, promised, fails, up, cut, todo>>
      BY <1>2 DEF Rest
    <2>2. /\ \A f \in promised : Kept(f)
          /\ up => promised \subseteq {e[2] : e \in registry}
          /\ \A u \in Thread : op[u] = "load" /\ pc[u] \in Saving => Active(cur[u].file)
      BY <1>c, <2>1
    <2>3. ASSUME NEW f \in promised PROVE Kept(f)'
      <3>1. CASE Active(f)
        BY <2>1, <3>1 DEF Kept, Active
      <3>2. CASE ~up /\ f \in todo
        BY <2>1, <3>2 DEF Kept
      <3>3. CASE ~up /\ pc[Shell] \in Loading /\ cur[Shell].file = f
        <4>1. pc'[Shell] = pc[Shell] /\ cur'[Shell] = cur[Shell]
          BY <1>2, <1>a, <3>3 DEF Own
        <4> QED
          BY <2>1, <3>3, <4>1 DEF Kept
      <3> QED
        BY <2>2, <3>1, <3>2, <3>3 DEF Kept
    <2>4. \A u \in Thread : op'[u] = "load" /\ pc'[u] \in Saving => Active(cur[u].file)'
      BY <1>2, <2>1, <2>2 DEF Own, Active
    <2> QED
      BY <2>1, <2>2, <2>3, <2>4
  <1>3. ASSUME NEW t \in Thread, NEW f \in Files, Loads(t, f)
        PROVE  Promises'
    <2>1. Own(t) /\ UNCHANGED <<Rest, todo>> /\ pc[t] = "idle" /\ pc'[t] = "scan"
      BY <1>3 DEF Loads, Begins
    <2> QED
      BY <1>2, <2>1 DEF Loading, Registering, Saving
  <1>4. ASSUME NEW m \in Module, Drops(m)
        PROVE  Promises'
    <2>1. Own(Shell) /\ UNCHANGED <<Rest, todo>> /\ pc[Shell] = "idle"
          /\ pc'[Shell] = "unregister" /\ Shell \in Thread
      BY <1>4, <1>a DEF Drops, Begins
    <2> QED
      BY <1>2, <2>1 DEF Loading, Registering, Saving
  <1>5. CASE SavesAgain
    <2>1. Own(Shell) /\ UNCHANGED <<Rest, todo>> /\ pc[Shell] = "restore"
          /\ op'[Shell] = "restore" /\ Shell \in Thread
      BY <1>5, <1>a DEF SavesAgain, Move
    <2> QED
      BY <1>2, <2>1 DEF Loading, Registering
  \* The file leaves the list to be loaded.
  <1>6. ASSUME NEW g \in Files, Restores(g)
        PROVE  Promises'
    <2>1. /\ Own(Shell) /\ pc[Shell] = "restore" /\ pc'[Shell] = "scan"
          /\ op'[Shell] = "restore" /\ cur'[Shell].file = g /\ todo' = todo \ {g}
          /\ UNCHANGED <<status, source, registry, promised, fails, up, cut>>
      BY <1>6 DEF Restores, Begins, Rest
    <2>2. /\ \A f \in promised : Kept(f)
          /\ \A u \in Thread : op[u] = "load" /\ pc[u] \in Saving => Active(cur[u].file)
      BY <1>c, <2>1
    <2>3. ~up
      BY <2>1 DEF BootInv
    <2>4. ASSUME NEW f \in promised PROVE Kept(f)'
      <3>1. CASE Active(f)
        BY <2>1, <3>1 DEF Kept, Active
      <3>2. CASE f \in todo
        BY <2>1, <2>3, <3>2 DEF Kept, Loading
      <3> QED
        BY <2>1, <2>2, <3>1, <3>2 DEF Kept, Loading, Registering
    <2>5. \A u \in Thread : op'[u] = "load" /\ pc'[u] \in Saving => Active(cur[u].file)'
      BY <2>1, <2>2 DEF Own, Active
    <2> QED
      BY <2>1, <2>3, <2>4, <2>5
  \* Every promised file is loaded again, and the registry names it.
  <1>7. CASE Starts
    <2>1. /\ Own(Shell) /\ pc[Shell] = "restore" /\ pc'[Shell] = "idle"
          /\ op'[Shell] = op[Shell] /\ cur'[Shell] = cur[Shell] /\ todo = {}
          /\ UNCHANGED <<status, source, registry, promised, fails, cut, raced>>
      BY <1>7 DEF Starts, Move, SameCall, Records, Saved
    <2>2. \A f \in promised : Active(f)
      BY <1>c, <2>1 DEF Kept, Loading, Registering
    <2>3. pc[Watcher] = "idle"
      BY <2>1 DEF BootInv
    <2>4. Follows
      BY <1>a, <1>b, <2>1, <2>3 DEF FileInv, Saving
    <2>5. ASSUME NEW f \in promised PROVE Kept(f)' /\ f \in {e[2] : e \in registry'}
      <3>1. PICK m \in Module : status[m] = "active" /\ source[m] = f
        BY <2>2 DEF Active
      <3>2. <<m, f>> \in Entries /\ <<m, f>>[2] = f
        BY <3>1 DEF Entries
      <3>3. f \in {e[2] : e \in registry}
        BY <2>4, <3>2 DEF Follows
      <3> QED
        BY <2>1, <3>1, <3>3 DEF Kept, Active
    <2>6. \A u \in Thread : pc'[u] \notin Saving
      BY <1>a, <2>1, <2>3 DEF Own, Saving
    <2> QED
      BY <2>1, <2>5, <2>6
  <1>8. ASSUME UNCHANGED <<pc, op, cur, status, source, registry, fails, up, cut, todo>>,
               promised' \subseteq promised
        PROVE  Promises'
    BY <1>8, <1>c DEF Kept, Active
  <1>9. ASSUME NEW g \in Files, Edits(g)
        PROVE  Promises'
    BY <1>8, <1>9 DEF Edits, threadVars, Records
  <1>10. CASE Shrinks
    BY <1>8, <1>10 DEF Shrinks, threadVars, Saved
  \* The crash found the process up: the restore has every promised file ahead of it.
  <1>11. CASE CrashAndBoot
    <2>1. /\ cut' = (cut \/ ~up) /\ UNCHANGED <<fails, promised, registry>> /\ ~up'
          /\ todo' = {e[2] : e \in {d \in registry : disk[d[2]] # "absent"}}
          /\ \A t \in Thread : op'[t] = "none"
      BY <1>11 DEF CrashAndBoot, Booted, diskVars
    <2>2. promised \subseteq {e[2] : e \in registry} /\ \A f \in promised : disk[f] = "whole"
      BY <1>c, <2>1
    <2>3. \A f \in promised : f \in todo'
      BY <2>1, <2>2
    <2> QED
      BY <2>1, <2>3 DEF Kept
  <1> QED
    BY <1>1, <1>3, <1>4, <1>5, <1>6, <1>7, <1>9, <1>10, <1>11, StepIs

-----------------------------------------------------------------------------
ExecInv == TypeInv /\ RecordInv /\ SoloInv /\ FileInv /\ BootInv /\ PromiseInv

LEMMA ExecInit == Init => ExecInv
  <1> SUFFICES ASSUME Init
               PROVE  ExecInv
    OBVIOUS
  <1>1. /\ \A t \in Thread : pc[t] = "idle" /\ op[t] = "none"
        /\ Shell \in Thread /\ Watcher \in Thread
        /\ \A m \in Module : status[m] = "none"
        /\ servers = {BuiltInServer} /\ BuiltInServer \notin Module
        /\ up /\ promised = {}
    BY DEF Init, Thread, Module, BuiltInServer
  <1>2. RecordInv
    BY <1>1 DEF RecordInv, Registering, Unloads
  <1>3. FileInv
    BY <1>1 DEF FileInv, Follows, Entries, Registering, Saving
  <1>4. SoloInv /\ BootInv
    BY <1>1 DEF SoloInv, Busy, BootInv
  <1>5. PromiseInv
    BY <1>1 DEF PromiseInv, Promises
  <1> QED
    BY <1>2, <1>3, <1>4, <1>5, TypeInit DEF ExecInv

LEMMA ExecStep == ExecInv /\ [Next]_vars => ExecInv'
  <1> SUFFICES ASSUME ExecInv, [Next]_vars
               PROVE  ExecInv'
    OBVIOUS
  <1>1. TypeInv /\ RecordInv /\ SoloInv /\ FileInv /\ BootInv /\ PromiseInv
    BY DEF ExecInv
  <1>2. TypeInv'
    BY <1>1, TypeStep
  <1>3. RecordInv' /\ SoloInv' /\ BootInv' /\ PromiseInv'
    BY <1>1, RecordStep, SoloStep, BootStep, PromiseStep
  <1>4. FileInv'
    BY <1>1, <1>2, <1>3, FileStep
  <1> QED
    BY <1>2, <1>3, <1>4 DEF ExecInv

LEMMA ExecAlways == Spec => []ExecInv
  BY ExecInit, ExecStep, PTL DEF Spec

\* No server is left in the table without a record, whatever the threads do and
\* whenever the process dies; and calls that do not overlap never import a file twice.
THEOREM OnRecord == Spec => []OnRecordOnce
  <1>1. ExecInv => OnRecordOnce
    <2> SUFFICES ASSUME ExecInv
                 PROVE  OnRecordOnce
      OBVIOUS
    <2>1. Quiet => \A m \in Module \cap servers : status[m] = "active"
      BY DEF ExecInv, RecordInv, Quiet, Idle
    <2>2. ASSUME ~raced, NEW f \in Files PROVE Cardinality(Copies(f)) <= 1
      <3>1. \A m, n \in Copies(f) : m = n
        BY <2>2 DEF ExecInv, FileInv, Copies
      <3>2. CASE Copies(f) = {}
        BY <3>2, FS_EmptySet
      <3>3. ASSUME NEW m \in Copies(f) PROVE Cardinality(Copies(f)) = 1
        <4>1. Copies(f) = {m}
          BY <3>1, <3>3
        <4> QED
          BY <4>1, FS_Singleton
      <3> QED
        BY <3>2, <3>3
    <2> QED
      BY <2>1, <2>2 DEF OnRecordOnce
  <1> QED
    BY ExecAlways, <1>1, PTL

\* Between calls that do not overlap, the registry file names every active module's
\* file and no unloaded module.
THEOREM RegistryKept == Spec => []RegistryFollows
  <1>1. ExecInv => RegistryFollows
    BY DEF ExecInv, FileInv, Follows, Saving, Quiet, Idle, RegistryFollows
  <1> QED
    BY ExecAlways, <1>1, PTL

\* A crash loses no module that was saved as loaded, except by an overlap, by another
\* crash during the restore, or by an import that raises.
THEOREM CrashSurvived == Spec => []SurvivesCrash
  <1>1. ExecInv => SurvivesCrash
    <2> SUFFICES ASSUME ExecInv, Quiet, ~raced, ~cut, fails = 0, NEW f \in promised
                 PROVE  Active(f)
      BY DEF SurvivesCrash
    <2>1. pc[Shell] = "idle" /\ Kept(f)
      BY DEF ExecInv, PromiseInv, Promises, Quiet, Idle, Thread
    <2>2. up
      BY <2>1 DEF ExecInv, BootInv
    <2> QED
      BY <2>1, <2>2 DEF Kept
  <1> QED
    BY ExecAlways, <1>1, PTL
=============================================================================
