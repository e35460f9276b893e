------------------------- MODULE ConfigurationReader -------------------------
(***************************************************************************)
(* conf/ConfigurationReader.h with the handler of DiskCache: what happens  *)
(* between a write of conf.json and the regions and the table that serve   *)
(* requests.  _reload runs on the main thread (DiskCache::init) and on the *)
(* watch thread, under the spin lock _guard.                               *)
(***************************************************************************)
EXTENDS Watcher, RegionManager

CONSTANTS
    MaxFragments, MaxHeads, MaxTails, MaxJumps,
    WordSize,    \* of the fragment capacity: 2^32
    NoPath, NoSize,
    Malformed,   \* a value that its conversion throws at
    TablePath,   \* the file of the table
    MaxFaults    \* bound: calls of the system that fail, and restarts of the process

ASSUME PathsAssumption ==
    /\ TablePath \in Paths /\ NoPath \notin Paths /\ Malformed \notin Paths
    /\ \A content \in Contents : \A entry \in content.regions :
        entry.path \in Paths \cup {NoPath, Malformed} /\ entry.type \in Types

Threads == {"main", "watch"}
Free == "free"

VARIABLES
    _guard,       \* the thread that holds it
    _handler,     \* "null", "half" while on_changed assigns it, "set"
    pc,           \* where each thread is
    conf,         \* local of _reload
    todo,         \* local of RegionManager::reload: the regions still to be loaded
    built,        \* local of RegionManager::reload: the map under construction
    creating,     \* local of Region::load: the file being created and then loaded
    fragment_tbl, \* the reload that set _fragment_tbl_ptr, 0 when null
    applied,      \* the content whose regions the map shows: history
    failed,       \* "last" when the last call of the handler threw, "before" when an earlier one: history
    failures,     \* calls of the system that failed: history
    restarts      \* times the process ended and was started again: history

localVars == <<conf, todo, built, creating>>
historyVars == <<applied, failed, failures, restarts>>
readerVars == <<_guard, _handler, pc, localVars, fragment_tbl, historyVars>>
vars == <<editorVars, watchVars, mapVars, files, request, crash, readerVars>>

-----------------------------------------------------------------------------
(* _read: the part of a content that its checks look at                    *)

\* Entries stand in the order in which they are read.
First(entries) == {e \in entries : \A other \in entries : e.place <= other.place}

\* An entry of "regions" without a path has NoPath, one without a size has NoSize; another size is a
\* number and a unit, here counted in blocks of 512 bytes.
unit_shifts == [mb |-> 20, gb |-> 30, tb |-> 40]
_parse_size(size) == size.number * 2^(unit_shifts[size.unit] - 9)

FragmentCapacity(entry) ==
    IF entry.size = NoSize THEN MaxFragments ELSE (_parse_size(entry.size) \div 2^entry.type) % WordSize

\* Malformed: a path that is empty or no string; a size of fewer than two characters, beyond a float
\* or no string.
\* What is thrown then is not the invalid_argument that _read declares.
EntryThrows(entry) == entry.path = Malformed \/ (entry.path # NoPath /\ entry.size = Malformed)

EntryValid(entry) ==
    /\ entry.path \notin {NoPath, Malformed} /\ entry.size # Malformed
    /\ entry.size # NoSize => entry.size.unit \in DOMAIN unit_shifts /\ FragmentCapacity(entry) <= MaxFragments

\* Malformed: a number that is negative, too large or no number.
TablesThrow(content) ==
    \/ content.heads = Malformed
    \/ content.heads <= MaxHeads /\ content.tails = Malformed
    \/ content.heads <= MaxHeads /\ content.tails # Malformed /\ content.tails <= MaxTails /\ content.jumps = Malformed

TablesValid(content) ==
    /\ content.heads # Malformed /\ content.heads <= MaxHeads
    /\ content.tails # Malformed /\ content.tails <= MaxTails
    /\ content.jumps # Malformed /\ content.jumps <= MaxJumps

EntriesValid(content) == \A entry \in content.regions : EntryValid(entry)

\* The first entry that is not valid decides, then the tables.
ReadThrows(content) ==
    IF EntriesValid(content) THEN TablesThrow(content)
    ELSE \A entry \in First({e \in content.regions : ~EntryValid(e)}) : EntryThrows(entry)

Refused(content) == ~(EntriesValid(content) /\ TablesValid(content)) /\ ~ReadThrows(content)

Valid(content) == content \in Contents /\ EntriesValid(content) /\ TablesValid(content)

Metas(content) == content.regions

-----------------------------------------------------------------------------

StartPc == [t \in Threads |-> IF t = "main" THEN "construct" ELSE "poll"]

Init ==
    /\ WatcherInit
    /\ RegionManagerInit
    /\ _guard = Free
    /\ _handler = "null"
    /\ pc = StartPc
    /\ conf = [t \in Threads |-> NoContent]
    /\ todo = [t \in Threads |-> {}]
    /\ built = [t \in Threads |-> EmptyMap]
    /\ creating = [t \in Threads |-> NoPath]
    /\ fragment_tbl = 0
    /\ applied = NoContent /\ failed = "no" /\ failures = 0
    /\ restarts = 0

Goto(t, from, to) == pc[t] = from /\ pc' = [pc EXCEPT ![t] = to]

\* conf.json, the watch, the map, the files and the process stay as they are.
Elsewhere == UNCHANGED <<editorVars, watchVars, mapVars, files, crash>>

\* Mutant: lock does not wait.
LockNever(t) ==
    /\ Goto(t, "lock", "parse")
    /\ _guard' = t
    /\ UNCHANGED <<_handler, localVars, fragment_tbl, historyVars>> /\ Elsewhere

Lock(t) ==
    /\ Goto(t, "lock", "parse")
    /\ _guard = Free
    /\ _guard' = t
    /\ UNCHANGED <<_handler, localVars, fragment_tbl, historyVars>> /\ Elsewhere

\* Mutant: the returns of _reload leave reload without unlocking.
ReadsNothingLocked(t) ==
    /\ Goto(t, "parse", IF t = "main" THEN "done" ELSE "return")
    /\ file = Truncated \/ _handler = "null" \/ (file \in Contents /\ Refused(file))
    /\ UNCHANGED <<_guard, _handler, localVars, fragment_tbl, historyVars>> /\ Elsewhere

\* The returns of _reload before the handler is called.
ReadsNothing(t) ==
    /\ Goto(t, "parse", "unlock")
    /\ file = Truncated \/ _handler = "null" \/ (file \in Contents /\ Refused(file))
    /\ UNCHANGED <<_guard, _handler, localVars, fragment_tbl, historyVars>> /\ Elsewhere

Reads(t) ==
    /\ Goto(t, "parse", "call")
    /\ _handler # "null" /\ Valid(file)
    /\ conf' = [conf EXCEPT ![t] = file]
    /\ UNCHANGED <<_guard, _handler, todo, built, creating, fragment_tbl, historyVars>> /\ Elsewhere

\* _read throws what it does not declare.
ReadTerminates(t) ==
    /\ Goto(t, "parse", "crashed")
    /\ _handler # "null" /\ file \in Contents /\ ReadThrows(file)
    /\ crash' = "terminate"
    /\ UNCHANGED <<_guard, _handler, localVars, fragment_tbl, historyVars>>
    /\ UNCHANGED <<editorVars, watchVars, mapVars, files>>

\* The call of _handler, up to the callback of _clear.
CallHandler(t) ==
    /\ _handler = "set"
    /\ Goto(t, "call", "release")
    /\ Clear
    /\ failed' = IF failed = "no" THEN "no" ELSE "before"
    /\ UNCHANGED <<_guard, _handler, conf, todo, built, creating, fragment_tbl, applied, failures, restarts>>
    /\ UNCHANGED <<editorVars, watchVars, files, crash>>

\* A function that is half assigned has no code to call.
CallHalf(t) ==
    /\ _handler = "half"
    /\ Goto(t, "call", "crashed")
    /\ crash' = "handler"
    /\ UNCHANGED <<_guard, _handler, localVars, fragment_tbl, historyVars>>
    /\ UNCHANGED <<editorVars, watchVars, mapVars, files>>

\* The callback of _clear.
Release(t) ==
    /\ pc[t] = "release"
    /\ TearDown
    /\ UNCHANGED <<_guard, _handler, pc, localVars, fragment_tbl, historyVars>>
    /\ UNCHANGED <<editorVars, watchVars, files, crash>>

ClearReturns(t) ==
    /\ Goto(t, "release", "load")
    /\ Cleared
    /\ todo' = [todo EXCEPT ![t] = Metas(conf[t])]
    /\ built' = [built EXCEPT ![t] = EmptyMap]
    /\ UNCHANGED <<_guard, _handler, conf, creating, fragment_tbl, historyVars>>
    /\ UNCHANGED <<editorVars, watchVars, files, crash>>

\* The meta whose region is loaded next.
NextMetas(t) == First(todo[t])

Load(t) ==
    /\ pc[t] = "load"
    /\ \E meta \in NextMetas(t) :
        /\ Opens(meta.path) /\ ~AddFails(built[t], meta)
        /\ LoadRegion(meta)
        /\ todo' = [todo EXCEPT ![t] = @ \ {meta}]
        /\ built' = [built EXCEPT ![t] = Added(@, meta)]
    /\ creating' = [creating EXCEPT ![t] = NoPath]
    /\ UNCHANGED <<_guard, _handler, pc, conf, fragment_tbl, historyVars>>
    /\ UNCHANGED <<editorVars, watchVars, files, crash>>

CreateRegion(t) ==
    /\ Goto(t, "load", "create")
    /\ \E meta \in NextMetas(t) :
        /\ ~FileExists(meta.path)
        /\ CreateFile(meta.path, NextStage["absent"])
        /\ creating' = [creating EXCEPT ![t] = meta.path]
    /\ UNCHANGED <<_guard, _handler, conf, todo, built, fragment_tbl, historyVars>>
    /\ UNCHANGED <<editorVars, watchVars, mapVars, crash>>

WriteRegion(t) ==
    LET stage == NextStage[files[creating[t]]] IN
    /\ Goto(t, "create", IF stage = "whole" THEN "load" ELSE "create")
    /\ CreateFile(creating[t], stage)
    /\ UNCHANGED <<_guard, _handler, localVars, fragment_tbl, historyVars>>
    /\ UNCHANGED <<editorVars, watchVars, mapVars, crash>>

\* The runtime_error that _reload catches.
Throws(t, from) ==
    /\ Goto(t, from, "unlock")
    /\ failed' = "last"
    /\ creating' = [creating EXCEPT ![t] = NoPath]
    /\ UNCHANGED <<_guard, _handler, conf, todo, built, fragment_tbl, applied, restarts>>
    /\ UNCHANGED <<editorVars, watchVars, crash>>

\* A call of the system fails: open, fstat, mmap, or a write of create_ptr, which leaves the file as it is.
CallFails == failures + restarts < MaxFaults /\ failures' = failures + 1

LoadThrows(t) ==
    /\ \/ todo[t] # {} /\ Throws(t, "load")
       \/ Throws(t, "create")
    /\ CallFails
    /\ UNCHANGED <<mapVars, files>>

\* The region is loaded, and its ring has a node of that path.
AddThrows(t) ==
    /\ Throws(t, "load")
    /\ \E meta \in NextMetas(t) : Opens(meta.path) /\ AddFails(built[t], meta) /\ LoadRegion(meta)
    /\ UNCHANGED <<files, failures>>

\* The file that an interrupted create_ptr has left is shorter than the header.
TooSmallThrows(t) ==
    /\ Throws(t, "load")
    /\ \E meta \in NextMetas(t) : TooSmall(meta.path)
    /\ UNCHANGED <<mapVars, files, failures>>

\* It has its size but no header: from_ptr throws invalid_argument, which RegionManager::reload does not declare.
Terminates(t) ==
    /\ Goto(t, "load", "crashed")
    /\ \E meta \in NextMetas(t) : InvalidVersion(meta.path)
    /\ crash' = "terminate"
    /\ UNCHANGED <<_guard, _handler, localVars, fragment_tbl, historyVars>>
    /\ UNCHANGED <<editorVars, watchVars, mapVars, files>>

Publishes(t) ==
    /\ todo[t] = {}
    /\ Goto(t, "load", "tables")
    /\ Publish(built[t])
    /\ applied' = conf[t]
    /\ UNCHANGED <<_guard, _handler, localVars, fragment_tbl, failed, failures, restarts>>
    /\ UNCHANGED <<editorVars, watchVars, files, crash>>

LoadTables(t) ==
    /\ Goto(t, "tables", "unlock")
    /\ ~TooSmall(TablePath)
    /\ CreateFile(TablePath, "whole")
    /\ fragment_tbl' = clears
    /\ UNCHANGED <<_guard, _handler, localVars, historyVars>>
    /\ UNCHANGED <<editorVars, watchVars, mapVars, crash>>

TableLoadThrows(t) ==
    /\ Throws(t, "tables")
    /\ \/ Opens(TablePath) /\ CallFails
       \/ TooSmall(TablePath) /\ UNCHANGED failures
    /\ UNCHANGED <<mapVars, files>>

\* FragmentTable::create_ptr does not declare the runtime_error that it throws when open, or the
\* write of the whole table, fails.
TablesTerminate(t) ==
    /\ Goto(t, "tables", "crashed")
    /\ ~FileExists(TablePath)
    /\ \/ UNCHANGED files
       \/ CreateFile(TablePath, "empty")
    /\ CallFails
    /\ crash' = "terminate"
    /\ UNCHANGED <<_guard, _handler, localVars, fragment_tbl, applied, failed, restarts>>
    /\ UNCHANGED <<editorVars, watchVars, mapVars>>

Unlock(t) ==
    /\ Goto(t, "unlock", IF t = "main" THEN "done" ELSE "return")
    /\ _guard' = Free
    /\ conf' = [conf EXCEPT ![t] = NoContent]
    /\ todo' = [todo EXCEPT ![t] = {}]
    /\ built' = [built EXCEPT ![t] = EmptyMap]
    /\ UNCHANGED <<_handler, creating, fragment_tbl, historyVars>> /\ Elsewhere

ReloadStep(t) ==
    \/ Lock(t) \/ ReadsNothing(t) \/ Reads(t) \/ ReadTerminates(t) \/ CallHandler(t) \/ CallHalf(t) \/ Release(t) \/ ClearReturns(t)
    \/ Load(t) \/ CreateRegion(t) \/ WriteRegion(t) \/ LoadThrows(t) \/ AddThrows(t) \/ TooSmallThrows(t) \/ Terminates(t)
    \/ Publishes(t) \/ LoadTables(t) \/ TableLoadThrows(t) \/ TablesTerminate(t) \/ Unlock(t)

-----------------------------------------------------------------------------
(* The two threads                                                         *)

\* The constructor of ConfigurationReader: its reload has no handler to call.
Construct ==
    /\ Goto("main", "construct", "on_changed")
    /\ watch_start
    /\ UNCHANGED <<_guard, _handler, localVars, fragment_tbl, historyVars>>
    /\ UNCHANGED <<editorVars, mapVars, files, crash>>

\* on_changed, from the constructor of DiskCache: an assignment of a function, without the guard.
OnChanged ==
    /\ \/ Goto("main", "on_changed", "assigning") /\ _handler' = "half"
       \/ Goto("main", "assigning", "init") /\ _handler' = "set"
    /\ UNCHANGED <<_guard, localVars, fragment_tbl, historyVars>> /\ Elsewhere

\* DiskCache::init
InitReloads ==
    /\ Goto("main", "init", "lock")
    /\ UNCHANGED <<_guard, _handler, localVars, fragment_tbl, historyVars>> /\ Elsewhere

WatchEvent ==
    /\ pc["watch"] = "poll"
    /\ \/ (Dropped \/ FirstOfTwo \/ clear_change_lock) /\ UNCHANGED pc
       \/ SecondOfTwo /\ pc' = [pc EXCEPT !["watch"] = "lock"]
    /\ UNCHANGED <<_guard, _handler, localVars, fragment_tbl, historyVars>>
    /\ UNCHANGED <<editorVars, mapVars, files, crash>>

WatchReturns ==
    /\ Goto("watch", "return", "poll")
    /\ CallbackReturns
    /\ UNCHANGED <<_guard, _handler, localVars, fragment_tbl, historyVars>>
    /\ UNCHANGED <<editorVars, mapVars, files, crash>>

Running == crash = "no"

MainStep == Running /\ UNCHANGED request /\ (Construct \/ OnChanged \/ InitReloads \/ ReloadStep("main"))
WatchStep == Running /\ UNCHANGED request /\ (WatchEvent \/ WatchReturns \/ ReloadStep("watch"))

RequestsStep ==
    /\ Running
    /\ \E r \in Requests : RequestStep(r)
    /\ UNCHANGED <<editorVars, watchVars, files, readerVars>>

\* A write while no process runs is as one right before it ended.
EditorStep ==
    /\ Running
    /\ Truncate \/ Finish
    /\ UNCHANGED <<mapVars, files, request, crash, readerVars>>

\* The process is killed or has crashed, and is started again: the files are all it finds. An event
\* of a write under way came before the watch.
Restart ==
    /\ failures + restarts < MaxFaults /\ restarts' = restarts + 1
    /\ changes' = 0 /\ missed' = (editing # NoContent)
    /\ _watch_running' = FALSE /\ _change_lock' = FALSE /\ _file_toggled' = FALSE
    /\ _regions_map' = EmptyMap /\ clearing' = FALSE /\ mapped' = {} /\ clears' = 0
    /\ old' = EmptyMap /\ freeing' = "nothing"
    /\ request' = [r \in Requests |-> Idle]
    /\ crash' = "no"
    /\ _guard' = Free /\ _handler' = "null"
    /\ pc' = StartPc
    /\ conf' = [t \in Threads |-> NoContent]
    /\ todo' = [t \in Threads |-> {}]
    /\ built' = [t \in Threads |-> EmptyMap] /\ creating' = [t \in Threads |-> NoPath]
    /\ fragment_tbl' = 0
    /\ applied' = NoContent /\ failed' = "no"
    /\ UNCHANGED <<editorVars, files, failures>>

Next == MainStep \/ WatchStep \/ RequestsStep \/ EditorStep \/ Restart

\* The scheduler runs both threads; a write that was begun is finished.
Spec ==
    /\ Init /\ [][Next]_vars
    /\ WF_vars(MainStep) /\ WF_vars(WatchStep) /\ WF_vars(EditorStep /\ Finish)

-----------------------------------------------------------------------------
(* Properties                                                              *)

\* conf/ConfigurationReader.h, RegionManager.h: the map never shows a region that is not mapped, nor one
\* of a file without a header; when no thread is in reload and no call of the handler has thrown, the
\* mapped regions are those of the map, which are the regions of one content, and the table was loaded
\* by the same reload.
RegionsWhole ==
    /\ RegionsOf(_regions_map) \subseteq mapped
    /\ \A r \in mapped : Opens(r.path)
    /\ _guard = Free /\ failed = "no" /\ applied # NoContent =>
        /\ mapped = RegionsOf(_regions_map)
        /\ \A t \in Types : {e.path : e \in {e \in Metas(applied) : e.type = t}} =
                            {r.path : r \in IF t \in DOMAIN _regions_map THEN _regions_map[t] ELSE {}}
        /\ fragment_tbl = clears

Reloading == \E t \in Threads : pc[t] \in {"release", "load", "create"}

\* The request that crashed had read a map that has been replaced since.
ReadReplaced(r) == request[r].since < clears \/ request[r].shows # _regions_map

\* RegionManager::get_region, Region::release_ptr, _read: a request meets a null ring only during a
\* reload, after one that failed, before the first, for a type that the applied content does not
\* have, or with a map that has been replaced since it read it; it meets a region that is released
\* or a ring or map that is freed only if _clear was called after it had read the map, before or
\* after get_region returned; a reload meets a half assigned handler only while on_changed runs; and
\* it is terminated only when a call of the system has failed, the process had ended while a file
\* was created, or the content is one at which a conversion throws.
CrashesOnlyInReload ==
    /\ crash = "no ring" =>
        \/ Reloading \/ failed = "last" \/ applied = NoContent
        \/ \E r \in Requests :
            /\ request[r].at = "crashed"
            /\ ReadReplaced(r) \/ request[r].type \notin {e.type : e \in Metas(applied)}
    /\ crash \in {"released", "freed"} => \E r \in Requests : request[r].at = "crashed" /\ request[r].since < clears
    /\ crash = "handler" => pc["main"] = "assigning"
    /\ crash = "terminate" => failures > 0 \/ restarts > 0 \/ (file \in Contents /\ ReadThrows(file))

\* Watcher.h, ConfigurationReader.h: in the end the regions are those of the file, unless an event of
\* a write was merged or dropped, the last load failed, the content is refused, or the process crashed.
AppliesLast ==
    <>[](applied = file \/ ~Valid(file) \/ missed \/ failed = "last" \/ ~Running)

==============================================================================
