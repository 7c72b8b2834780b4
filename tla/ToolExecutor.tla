---------------------------- MODULE ToolExecutor ----------------------------
(***************************************************************************)
(* ToolExecutor: the routing table of tool names, the hot-loading of        *)
(* generated modules, and the registry file that brings them back after a   *)
(* restart.                                                                 *)
(*                                                                         *)
(* Two threads run it: the one that serves commands and boots the process,  *)
(* and the file watcher, in a process that starts it (start_watcher) after  *)
(* its boot.  Only the routing table is under a lock.  Between any two      *)
(* steps below the other thread may run, and the process may die.           *)
(*                                                                         *)
(* A server is the number of its registration; the dynamic ones stand for   *)
(* their unique module names, 0 for the pre-built tools.                    *)
(***************************************************************************)
EXTENDS Integers, FiniteSets

CONSTANTS
    Tools,      \* tool names
    Files,      \* generated modules, by source path
    Provides,   \* the tools a file's GeneratedServer lists
    BuiltIn,    \* the tools of the pre-built servers
    MaxLoads,   \* bound on imports
    MaxEdits,   \* bound on what the author does to the files
    MaxCommands, \* bound on commands
    MaxFail,    \* bound on modules that raise when imported
    MaxCrash    \* bound on crashes

NoFile == "no file"

ASSUME ToolAssumption ==
    /\ Provides \in [Files -> SUBSET Tools]
    /\ BuiltIn \subseteq Tools
    /\ NoFile \notin Files
    /\ {MaxLoads, MaxEdits, MaxCommands, MaxFail, MaxCrash} \subseteq Nat

Shell == "shell"
Watcher == "watcher"
Thread == {Shell, Watcher}

BuiltInServer == 0
Module == 1..MaxLoads
Server == Module \cup {BuiltInServer}
NoServer == -1

VARIABLES
    servers,     \* ToolExecutor._servers
    owns,        \* ServerEntry.tool_names and .tools
    route,       \* ToolExecutor._route
    offered,     \* ToolExecutor._tools: pairs of a tool and its server
    status,      \* status of each module in _dynamic_modules, or "none"
    source,      \* its source_path
    known,       \* the watcher's known files
    todo,        \* the files restore_from_registry has yet to load
    dupes,       \* it dropped duplicate entries
    up           \* the process has finished restore_from_registry

VARIABLES
    pc,          \* the next step of each thread
    op,          \* the call it is in
    cur          \* that call's local variables

VARIABLES
    disk,        \* the generated files: "absent", "partial" or "whole"
    registry,    \* dynamic_registry.json: its active entries
    tmp          \* dynamic_registry.json.tmp: {} or the singleton of a content

VARIABLES        \* observers and bounds
    loads, edits, commands, fails, crashes,
    raced,       \* both threads were inside a call at once
    cut,         \* a crash interrupted a restore
    promised     \* files saved as loaded, and neither unloaded nor edited since

tableVars == <<servers, owns, route, offered>>
moduleVars == <<status, source>>
threadVars == <<pc, op, cur>>
diskVars == <<registry, tmp>>
restoreVars == <<todo, dupes, up>>
boundVars == <<loads, edits, commands, fails, crashes>>
seenVars == <<raced, cut, promised>>
vars == <<tableVars, moduleVars, known, restoreVars, threadVars, disk, diskVars,
          boundVars, seenVars>>

NoCall == [file |-> NoFile, id |-> NoServer, keys |-> 0, seen |-> FALSE,
           data |-> {}]

Active(f) == \E m \in Module : status[m] = "active" /\ source[m] = f
Entries == {<<m, source[m]>> : m \in {n \in Module : status[n] = "active"}}
Keys == {m \in Module : status[m] # "none"}

\* A process starts with the pre-built servers and no dynamic module.
Booted ==
    /\ servers' = {BuiltInServer}
    /\ owns' = [s \in Server |-> IF s = BuiltInServer THEN BuiltIn ELSE {}]
    /\ route' = [t \in Tools |-> IF t \in BuiltIn THEN BuiltInServer ELSE NoServer]
    /\ offered' = {<<t, BuiltInServer>> : t \in BuiltIn}
    /\ status' = [m \in Module |-> "none"]
    /\ source' = [m \in Module |-> NoFile]
    /\ op' = [t \in Thread |-> "none"]
    /\ cur' = [t \in Thread |-> NoCall]
    /\ up' = FALSE
    /\ known' = {}

Init ==
    /\ servers = {BuiltInServer}
    /\ owns = [s \in Server |-> IF s = BuiltInServer THEN BuiltIn ELSE {}]
    /\ route = [t \in Tools |-> IF t \in BuiltIn THEN BuiltInServer ELSE NoServer]
    /\ offered = {<<t, BuiltInServer>> : t \in BuiltIn}
    /\ status = [m \in Module |-> "none"]
    /\ source = [m \in Module |-> NoFile]
    /\ known = {}
    /\ todo = {}
    /\ dupes = FALSE
    /\ up = TRUE
    /\ pc = [t \in Thread |-> "idle"]
    /\ op = [t \in Thread |-> "none"]
    /\ cur = [t \in Thread |-> NoCall]
    /\ disk = [f \in Files |-> "absent"]
    /\ registry = {}
    /\ tmp = {}
    /\ loads = 0
    /\ edits = 0
    /\ commands = 0
    /\ fails = 0
    /\ crashes = 0
    /\ raced = FALSE
    /\ cut = FALSE
    /\ promised = {}

-----------------------------------------------------------------------------
(***************************************************************************)
(* The routing table, always changed under _registry_lock                  *)
(***************************************************************************)

\* Variant: a shadowed server keeps the names it lost.
Register_KeepNames(s, names) ==
    /\ servers' = servers \cup {s}
    /\ owns' = [owns EXCEPT ![s] = names]
    /\ route' = [t \in Tools |-> IF t \in names THEN s ELSE route[t]]
    /\ offered' = {d \in offered : d[1] \notin names} \cup {<<t, s>> : t \in names}

\* _register: the names it shares with earlier servers are taken from them.
Register(s, names) ==
    /\ servers' = servers \cup {s}
    /\ owns' = [r \in Server |-> IF r = s THEN names
                                 ELSE IF r \in servers THEN owns[r] \ names
                                 ELSE owns[r]]
    /\ route' = [t \in Tools |-> IF t \in names THEN s ELSE route[t]]
    /\ offered' = {d \in offered : d[1] \notin names} \cup {<<t, s>> : t \in names}

\* Variant: a server that has lost all its names is taken for a missing one.
Unregister_OnlyNamed(s) ==
    IF s \in servers /\ owns[s] # {}
    THEN /\ servers' = servers \ {s}
         /\ route' = [t \in Tools |-> IF t \in owns[s] THEN NoServer ELSE route[t]]
         /\ offered' = {d \in offered : ~(d[2] = s /\ d[1] \in owns[s])}
         /\ UNCHANGED owns
    ELSE UNCHANGED tableVars

\* The server leaves with the names it still has, if it is registered.
Unregister(s) ==
    IF s \in servers
    THEN /\ servers' = servers \ {s}
         /\ route' = [t \in Tools |-> IF t \in owns[s] THEN NoServer ELSE route[t]]
         /\ offered' = {d \in offered : ~(d[2] = s /\ d[1] \in owns[s])}
         /\ UNCHANGED owns
    ELSE UNCHANGED tableVars

-----------------------------------------------------------------------------
(***************************************************************************)
(* Calls                                                                   *)
(***************************************************************************)

At(t, step) == pc[t] = step

Goto(t, step) == pc' = [pc EXCEPT ![t] = step]

\* A call that returns or raises: the watcher remembers the file either way,
\* and restore goes on with its next entry.
Leave(t) ==
    /\ Goto(t, IF op[t] = "restore" THEN "restore" ELSE "idle")
    /\ op' = [op EXCEPT ![t] = "none"]
    /\ cur' = [cur EXCEPT ![t] = NoCall]
    /\ known' = IF t = Watcher THEN known \cup {cur[t].file} ELSE known

Busy(t) == pc[t] # "idle"

Enter(t, call, f, m, step) ==
    /\ Goto(t, step)
    /\ op' = [op EXCEPT ![t] = call]
    /\ cur' = [cur EXCEPT ![t] = [NoCall EXCEPT !.file = f, !.id = m]]
    /\ raced' = (raced \/ \E u \in Thread \ {t} : Busy(u))

Command ==
    /\ up
    /\ ~Busy(Shell)
    /\ commands < MaxCommands
    /\ commands' = commands + 1

CommandLoad(f) ==
    /\ Command
    /\ Enter(Shell, "load", f, NoServer, "scan")
    /\ UNCHANGED <<tableVars, moduleVars, known, restoreVars, disk, diskVars,
                   loads, edits, fails, crashes, cut, promised>>

CommandUnload(m) ==
    /\ Command
    /\ status[m] # "none"
    /\ \E call \in {"unload", "reload"} :
         Enter(Shell, call, source[m], m, "unregister")
    /\ UNCHANGED <<tableVars, moduleVars, known, restoreVars, disk, diskVars,
                   loads, edits, fails, crashes, cut, promised>>

\* unregister_server touches nothing but the table.
CommandUnregister(s) ==
    /\ Command
    /\ s \in servers
    /\ Unregister(s)
    /\ UNCHANGED <<moduleVars, known, restoreVars, threadVars, disk, diskVars,
                   loads, edits, fails, crashes, seenVars>>

\* The watcher's poll: a new file that is loaded already is only remembered.
WatcherPoll(f) ==
    /\ up
    /\ ~Busy(Watcher)
    /\ disk[f] # "absent"
    /\ f \notin known
    /\ \/ /\ Active(f)
          /\ known' = known \cup {f}
          /\ UNCHANGED <<threadVars, raced>>
       \/ /\ ~Active(f)
          /\ Enter(Watcher, "load", f, NoServer, "scan")
          /\ UNCHANGED known
    /\ UNCHANGED <<tableVars, moduleVars, restoreVars, disk, diskVars, boundVars,
                   cut, promised>>

-----------------------------------------------------------------------------
(***************************************************************************)
(* load_module                                                             *)
(***************************************************************************)

\* A file that is not there raises; else the loop over _dynamic_modules starts ...
ScanStart(t) ==
    /\ At(t, "scan")
    /\ IF disk[cur[t].file] = "absent"
       THEN Leave(t)
       ELSE /\ cur' = [cur EXCEPT ![t].keys = Cardinality(Keys),
                                  ![t].seen = Active(cur[t].file)]
            /\ Goto(t, "scanning")
            /\ UNCHANGED <<op, known>>
    /\ UNCHANGED <<tableVars, moduleVars, restoreVars, disk, diskVars, boundVars,
                   seenVars>>

\* ... and ends: a dictionary that changed its size under the loop raises, and
\* an entry whose status changed may have been read before or after.
ScanEnd(t) ==
    /\ At(t, "scanning")
    /\ \/ /\ cur[t].keys # Cardinality(Keys)
          /\ Leave(t)
       \/ /\ cur[t].keys = Cardinality(Keys)
          /\ cur[t].seen \/ Active(cur[t].file)
          /\ Leave(t)
       \/ /\ cur[t].keys = Cardinality(Keys)
          /\ ~cur[t].seen \/ ~Active(cur[t].file)
          /\ Goto(t, "import")
          /\ UNCHANGED <<op, cur, known>>
    /\ UNCHANGED <<tableVars, moduleVars, restoreVars, disk, diskVars, boundVars,
                   seenVars>>

\* validate_static, the import and GeneratedServer(): a file that is not
\* whole, or whose code raises, leaves nothing behind.
Import(t) ==
    /\ At(t, "import")
    /\ disk[cur[t].file] = "whole"
    /\ loads < MaxLoads
    /\ loads' = loads + 1
    /\ cur' = [cur EXCEPT ![t].id = loads + 1]
    /\ Goto(t, "register")
    /\ UNCHANGED <<tableVars, moduleVars, known, restoreVars, op, disk, diskVars,
                   edits, commands, fails, crashes, seenVars>>

ImportFails(t) ==
    /\ At(t, "import")
    /\ \/ disk[cur[t].file] # "whole" /\ UNCHANGED fails
       \/ disk[cur[t].file] = "whole" /\ fails < MaxFail /\ fails' = fails + 1
    /\ Leave(t)
    /\ UNCHANGED <<tableVars, moduleVars, restoreVars, disk, diskVars, loads, edits,
                   commands, crashes, seenVars>>

RegisterServer(t) ==
    /\ At(t, "register")
    /\ Register(cur[t].id, Provides[cur[t].file])
    /\ Goto(t, "record")
    /\ UNCHANGED <<moduleVars, known, restoreVars, op, cur, disk, diskVars,
                   boundVars, seenVars>>

\* Variant: the record does not say which file it came from.
Record_NoSource(t) ==
    /\ At(t, "record")
    /\ status' = [status EXCEPT ![cur[t].id] = "active"]
    /\ cur' = [cur EXCEPT ![t].data = Entries \cup {<<cur[t].id, cur[t].file>>}]
    /\ Goto(t, "write")
    /\ UNCHANGED <<tableVars, source, known, restoreVars, op, disk, diskVars,
                   boundVars, seenVars>>

\* Variant: the registry's content is composed before the record is added.
Record_SavedFirst(t) ==
    /\ At(t, "record")
    /\ status' = [status EXCEPT ![cur[t].id] = "active"]
    /\ source' = [source EXCEPT ![cur[t].id] = cur[t].file]
    /\ cur' = [cur EXCEPT ![t].data = Entries]
    /\ Goto(t, "write")
    /\ UNCHANGED <<tableVars, known, restoreVars, op, disk, diskVars, boundVars,
                   seenVars>>

\* The record is added and the registry's new content is composed.
Record(t) ==
    /\ At(t, "record")
    /\ status' = [status EXCEPT ![cur[t].id] = "active"]
    /\ source' = [source EXCEPT ![cur[t].id] = cur[t].file]
    /\ cur' = [cur EXCEPT ![t].data = Entries \cup {<<cur[t].id, cur[t].file>>}]
    /\ Goto(t, "write")
    /\ UNCHANGED <<tableVars, known, restoreVars, op, disk, diskVars, boundVars,
                   seenVars>>

-----------------------------------------------------------------------------
(***************************************************************************)
(* unload_module and reload_module                                         *)
(***************************************************************************)

UnregisterServer(t) ==
    /\ At(t, "unregister")
    /\ Unregister(cur[t].id)
    /\ Goto(t, "mark")
    /\ UNCHANGED <<moduleVars, known, restoreVars, op, cur, disk, diskVars,
                   boundVars, seenVars>>

\* Variant: the registry's content is composed before the status changes.
MarkUnloaded_Late(t) ==
    /\ At(t, "mark")
    /\ status' = [status EXCEPT ![cur[t].id] = "unloaded"]
    /\ cur' = [cur EXCEPT ![t].data = Entries]
    /\ promised' = promised \ {cur[t].file}
    /\ Goto(t, "write")
    /\ UNCHANGED <<tableVars, source, known, restoreVars, op, disk, diskVars,
                   boundVars, raced, cut>>

MarkUnloaded(t) ==
    /\ At(t, "mark")
    /\ status' = [status EXCEPT ![cur[t].id] = "unloaded"]
    /\ cur' = [cur EXCEPT ![t].data = {e \in Entries : e[1] # cur[t].id}]
    /\ promised' = promised \ {cur[t].file}
    /\ Goto(t, "write")
    /\ UNCHANGED <<tableVars, source, known, restoreVars, op, disk, diskVars,
                   boundVars, raced, cut>>

\* reload_module forgets the old record and loads the file again.
Forget(t) ==
    /\ At(t, "forget")
    /\ status' = [status EXCEPT ![cur[t].id] = "none"]
    /\ source' = [source EXCEPT ![cur[t].id] = NoFile]
    /\ Goto(t, "scan")
    /\ op' = [op EXCEPT ![t] = "load"]
    /\ UNCHANGED <<tableVars, known, restoreVars, cur, disk, diskVars, boundVars,
                   seenVars>>

-----------------------------------------------------------------------------
(***************************************************************************)
(* _save_dynamic_registry and restore_from_registry                        *)
(***************************************************************************)

\* Both threads write one temporary file.
SaveWrite(t) ==
    /\ At(t, "write")
    /\ tmp' = {cur[t].data}
    /\ Goto(t, "replace")
    /\ UNCHANGED <<tableVars, moduleVars, known, restoreVars, op, cur, disk,
                   registry,
                   boundVars, seenVars>>

\* Whoever comes second finds it gone and raises.
SaveReplace(t) ==
    /\ At(t, "replace")
    /\ \/ /\ registry' \in tmp
          /\ tmp' = {}
          /\ promised' = IF op[t] = "load" /\ disk[cur[t].file] = "whole"
                         THEN promised \cup {cur[t].file}
                         ELSE promised
          /\ IF op[t] = "reload"
             THEN Goto(t, "forget") /\ UNCHANGED <<op, cur, known>>
             ELSE Leave(t)
       \/ /\ tmp = {}
          /\ Leave(t)
          /\ UNCHANGED <<diskVars, promised>>
    /\ UNCHANGED <<tableVars, moduleVars, restoreVars, disk, boundVars, raced, cut>>

\* The entries load one by one, and each load saves a registry of what is
\* loaded so far.
RestoreNext ==
    /\ At(Shell, "restore")
    /\ \E f \in todo :
         /\ todo' = todo \ {f}
         /\ Enter(Shell, "restore", f, NoServer, "scan")
    /\ UNCHANGED <<tableVars, moduleVars, known, dupes, up, disk, diskVars,
                   boundVars,
                   cut, promised>>

\* If duplicates were dropped the registry is saved once more.
RestoreSaves ==
    /\ At(Shell, "restore")
    /\ todo = {}
    /\ dupes
    /\ dupes' = FALSE
    /\ op' = [op EXCEPT ![Shell] = "restore"]
    /\ cur' = [cur EXCEPT ![Shell].data = Entries]
    /\ Goto(Shell, "write")
    /\ UNCHANGED <<tableVars, moduleVars, known, todo, up, disk, diskVars,
                   boundVars, seenVars>>

\* The watcher starts with the files that are there.
RestoreDone ==
    /\ At(Shell, "restore")
    /\ todo = {}
    /\ ~dupes
    /\ up' = TRUE
    /\ known' = {f \in Files : disk[f] # "absent"}
    /\ Goto(Shell, "idle")
    /\ UNCHANGED <<tableVars, moduleVars, todo, dupes, op, cur, disk, diskVars,
                   boundVars, seenVars>>

-----------------------------------------------------------------------------
(***************************************************************************)
(* The files' author, and crashes                                          *)
(***************************************************************************)

\* A file appears, is finished, or is deleted.
Author(f) ==
    /\ edits < MaxEdits
    /\ edits' = edits + 1
    /\ disk' = [disk EXCEPT ![f] = CASE @ = "absent"  -> "partial"
                                     [] @ = "partial" -> "whole"
                                     [] @ = "whole"   -> "absent"]
    /\ promised' = promised \ {f}
    /\ UNCHANGED <<tableVars, moduleVars, known, restoreVars, threadVars, diskVars,
                   loads, commands, fails, crashes, raced, cut>>

\* The process dies and is started again.  Restore takes each file of an active
\* entry once, if it is still there.
CrashAndBoot ==
    LET there == {e \in registry : disk[e[2]] # "absent"}
    IN /\ crashes < MaxCrash
       /\ crashes' = crashes + 1
       /\ Booted
       /\ pc' = [t \in Thread |-> IF t = Shell THEN "restore" ELSE "idle"]
       /\ todo' = {e[2] : e \in there}
       /\ dupes' = (Cardinality({e[2] : e \in there}) < Cardinality(there))
       /\ cut' = (cut \/ ~up)
       /\ UNCHANGED <<disk, diskVars, loads, edits, commands, fails, raced,
                      promised>>

CallStep(t) ==
    \/ ScanStart(t)
    \/ ScanEnd(t)
    \/ Import(t)
    \/ ImportFails(t)
    \/ RegisterServer(t)
    \/ Record(t)
    \/ UnregisterServer(t)
    \/ MarkUnloaded(t)
    \/ Forget(t)
    \/ SaveWrite(t)
    \/ SaveReplace(t)

Next ==
    \/ \E f \in Files : CommandLoad(f) \/ WatcherPoll(f) \/ Author(f)
    \/ \E m \in Module : CommandUnload(m)
    \/ \E s \in Server : CommandUnregister(s)
    \/ \E t \in Thread : CallStep(t)
    \/ RestoreNext
    \/ RestoreSaves
    \/ RestoreDone
    \/ CrashAndBoot

Spec == Init /\ [][Next]_vars
-----------------------------------------------------------------------------
(***************************************************************************)
(* Properties                                                              *)
(***************************************************************************)

Idle(t) == pc[t] = "idle"
Quiet == \A t \in Thread : Idle(t)

Call == [file : Files \cup {NoFile}, id : Server \cup {NoServer}, keys : Nat,
         seen : BOOLEAN, data : SUBSET (Module \X Files)]
Step == {"idle", "restore", "scan", "scanning", "import", "register", "record",
         "unregister", "mark", "forget", "write", "replace"}

\* Every variable stays in its range, and each record names its file.
TypeOK ==
    /\ servers \subseteq Server
    /\ owns \in [Server -> SUBSET Tools]
    /\ route \in [Tools -> Server \cup {NoServer}]
    /\ offered \subseteq Tools \X Server
    /\ status \in [Module -> {"none", "active", "unloaded"}]
    /\ source \in [Module -> Files \cup {NoFile}]
    /\ \A m \in Module : status[m] = "none" <=> source[m] = NoFile
    /\ known \subseteq Files
    /\ todo \subseteq Files
    /\ dupes \in BOOLEAN /\ up \in BOOLEAN /\ raced \in BOOLEAN /\ cut \in BOOLEAN
    /\ pc \in [Thread -> Step]
    /\ op \in [Thread -> {"none", "load", "unload", "reload", "restore"}]
    /\ cur \in [Thread -> Call]
    /\ disk \in [Files -> {"absent", "partial", "whole"}]
    /\ registry \subseteq Module \X Files
    /\ tmp \subseteq SUBSET (Module \X Files)
    /\ loads \in Nat /\ edits \in Nat /\ commands \in Nat /\ fails \in Nat /\ crashes \in Nat
    /\ promised \subseteq Files

\* A tool name is routed to the one server that still owns it, and offered to
\* the model exactly once, with that server's definition: shadowing and
\* unloading, from either thread, keep the three tables together.
RouteConsistent ==
    /\ \A s \in servers : owns[s] = {t \in Tools : route[t] = s}
    /\ \A t \in Tools : route[t] \in servers \cup {NoServer}
    /\ offered = {<<t, route[t]>> : t \in {u \in Tools : route[u] # NoServer}}

\* As long as the two threads' calls do not overlap, the registry file names
\* every active module's file and no module that was unloaded.
RegistryFollows ==
    Quiet /\ ~raced =>
        /\ {e[2] : e \in Entries} \subseteq {e[2] : e \in registry}
        /\ \A m \in Module : status[m] = "unloaded" => <<m, source[m]>> \notin registry

Copies(f) == {m \in Module : status[m] = "active" /\ source[m] = f}

\* When no call is running, every generated server in the table has an active
\* record: none is left serving that cannot be unloaded any more.  As long as calls
\* do not overlap, a file is imported once: by a command, by the watcher or by the
\* restore.
OnRecordOnce ==
    /\ Quiet => \A m \in Module \cap servers : status[m] = "active"
    /\ ~raced => \A f \in Files : Cardinality(Copies(f)) <= 1

\* A file that was saved as loaded is loaded again after a crash, unless the calls
\* overlapped, the crash came during a restore, or its import raised.
SurvivesCrash ==
    Quiet /\ ~raced /\ ~cut /\ fails = 0 => \A f \in promised : Active(f)
=============================================================================
