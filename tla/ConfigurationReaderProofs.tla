---------------------- MODULE ConfigurationReaderProofs ----------------------
(***************************************************************************)
(* What ConfigurationReader.tla guarantees for all contents of conf.json,  *)
(* all numbers of writes, requests, failing calls and restarts.  Three     *)
(* facts carry it: the guard is held by the thread that is inside reload   *)
(* (GuardHeld), so that the map, the mapped regions and the files change   *)
(* in one reload at a time; where that reload stands says what the mapped  *)
(* regions are (MapOf, Clearing, Building, Serving); and a file without a  *)
(* header is being created by it, unless a call of the system has failed   *)
(* or the process was restarted (FilesWhole).                              *)
(***************************************************************************)
EXTENDS ConfigurationReader, TLAPS

Regions == [path : Paths, clear : Nat]

Entries == UNION {Metas(c) : c \in Contents}

IsMap(map) == DOMAIN map \subseteq Types /\ map \in [DOMAIN map -> SUBSET Regions]

\* Where the guard is held.
Held == {"parse", "call", "release", "load", "create", "tables", "unlock", "crashed"}

Places == Held \cup {"construct", "on_changed", "assigning", "init", "lock", "done", "poll", "return"}

Maps == UNION {[S -> SUBSET Regions] : S \in SUBSET Types}

Steps == {"idle", "typed", "read", "copied", "found", "holds", "crashed"}

RequestStates ==
    [at : Steps, type : Types \cup {NoType}, region : Regions \cup {NoRegion}, shows : Maps, since : Nat]

ReaderTypes ==
    /\ _guard \in Threads \cup {Free}
    /\ _handler \in {"null", "half", "set"}
    /\ pc \in [Threads -> Places]
    /\ conf \in [Threads -> Contents \cup {NoContent}]
    /\ todo \in [Threads -> SUBSET Entries]
    /\ DOMAIN built = Threads /\ built = [t \in Threads |-> built[t]] /\ (\A t \in Threads : IsMap(built[t]))
    /\ IsMap(_regions_map) /\ IsMap(old)
    /\ freeing \in {"nothing", "ring", "map"}
    /\ creating \in [Threads -> Paths \cup {NoPath}]
    /\ mapped \subseteq Regions
    /\ request \in [Requests -> RequestStates]
    /\ files \in [Paths -> {"absent", "empty", "sized", "headed", "whole"}]
    /\ clears \in Nat /\ failures \in Nat /\ restarts \in Nat
    /\ failed \in {"no", "last", "before"}
    /\ applied \in Contents \cup {NoContent}
    /\ crash \in {"no", "no ring", "released", "freed", "handler", "terminate"}

\* The guard is held by the thread inside reload.
GuardHeld == \A t \in Threads : pc[t] \in Held <=> _guard = t

\* A map has the types and, for each, the paths of some entries.
Shows(map, entries) ==
    /\ DOMAIN map = {e.type : e \in entries}
    /\ \A t \in DOMAIN map : {r.path : r \in map[t]} = {e.path : e \in {e \in entries : e.type = t}}

\* The regions of the map are mapped, and the files of mapped regions have a header.
MapWhole == RegionsOf(_regions_map) \subseteq mapped /\ (\A r \in mapped : Opens(r.path))

\* While _clear releases regions the map is empty, and what is mapped is in the rings not cleared yet;
\* the ring that is being freed has released all of its own.
Clearing ==
    /\ clearing <=> \E t \in Threads : pc[t] = "release"
    /\ \A t \in Threads : pc[t] = "release" =>
        /\ _regions_map = EmptyMap
        /\ failed = "no" => mapped \subseteq RegionsOf(old)
    /\ freeing = "ring" => clearing /\ \A t \in DOMAIN old : NextRing(t) => old[t] \cap mapped = {}
    /\ freeing = "map" => clearing /\ old = EmptyMap

\* The content that a reload applies.
Accepted ==
    \A t \in Threads : pc[t] \in {"call", "release", "load", "create", "tables"} =>
        conf[t] \in Contents /\ \A e \in Metas(conf[t]) : e.path \in Paths /\ e.type \in Types

\* The map under construction shows the entries whose regions are loaded.
Building ==
    \A t \in Threads : pc[t] \in {"load", "create"} =>
        /\ todo[t] \subseteq Metas(conf[t])
        /\ Shows(built[t], Metas(conf[t]) \ todo[t])
        /\ RegionsOf(built[t]) \subseteq mapped
        /\ failed = "no" => mapped = RegionsOf(built[t])

\* Outside _clear and load, the map shows the content applied last and nothing else is mapped, unless a call threw.
Serving ==
    (\A t \in Threads : pc[t] \notin {"release", "load", "create", "crashed"}) =>
        /\ failed = "no" => mapped = RegionsOf(_regions_map)
        /\ failed # "last" /\ applied # NoContent => Shows(_regions_map, Metas(applied))
        /\ failed = "no" /\ applied # NoContent /\ (\A t \in Threads : pc[t] # "tables") =>
            fragment_tbl = clears

\* What a request has read of the map is mapped, or _clear was called since.
Sound(q) ==
    q.at \in {"read", "copied", "found", "holds"} =>
        /\ q.since <= clears
        /\ clearing => q.since < clears
        /\ \/ q.since < clears
           \/ q.at \in {"read", "copied"} /\ RegionsOf(q.shows) \subseteq mapped
           \/ q.at \in {"found", "holds"} /\ q.region \in mapped
        /\ q.at = "copied" => q.type \in DOMAIN q.shows

HoldsMapped == \A r \in Requests : Sound(request[r])

\* The file that is being created, and the only one without a header if nothing has failed.
FilesWhole ==
    /\ \A t \in Threads : pc[t] = "create" => creating[t] \in Paths /\ files[creating[t]] \in {"empty", "sized", "headed"}
    /\ failures = 0 /\ restarts = 0 =>
        \A p \in Paths : files[p] \in {"empty", "sized"} =>
            \E t \in Threads : pc[t] = "create" /\ creating[t] = p

Handlers == _handler = "half" => pc["main"] = "assigning"

\* How the process ended.
Crashes == (\E t \in Threads : pc[t] = "crashed") => ~Running

ReaderInv ==
    /\ ReaderTypes /\ GuardHeld /\ MapWhole /\ Clearing /\ Accepted /\ Building /\ Serving
    /\ HoldsMapped /\ FilesWhole /\ Handlers /\ Crashes /\ CrashesOnlyInReload

-----------------------------------------------------------------------------
(* The map under construction.                                             *)

LEMMA EmptyShows == IsMap(EmptyMap) /\ Shows(EmptyMap, {}) /\ RegionsOf(EmptyMap) = {}
  BY DEF IsMap, EmptyMap, Shows, RegionsOf

LEMMA MapRegions ==
  ASSUME NEW map, IsMap(map)
  PROVE  RegionsOf(map) \subseteq Regions
<1>1. \A t \in DOMAIN map : map[t] \subseteq Regions
  BY DEF IsMap
<1>. QED BY <1>1 DEF RegionsOf

\* add_node adds the region of meta and nothing else.
LEMMA AddedRegions ==
  ASSUME NEW map, IsMap(map), NEW meta, meta.path \in Paths, meta.type \in Types, clears \in Nat
  PROVE  /\ IsMap(Added(map, meta))
         /\ RegionsOf(Added(map, meta)) = RegionsOf(map) \cup {[path |-> meta.path, clear |-> clears]}
<1>1. DOMAIN Added(map, meta) = DOMAIN map \cup {meta.type}
  BY DEF Added
<1>2. ASSUME NEW t \in DOMAIN map, t # meta.type
      PROVE  Added(map, meta)[t] = map[t]
  BY <1>2 DEF Added
<1>3. Added(map, meta)[meta.type] = (IF meta.type \in DOMAIN map THEN map[meta.type] ELSE {})
                                    \cup {[path |-> meta.path, clear |-> clears]}
  BY DEF Added
<1>4. IsMap(Added(map, meta))
  <2>1. \A t \in DOMAIN map : map[t] \subseteq Regions
    BY DEF IsMap
  <2>2. \A t \in DOMAIN Added(map, meta) : Added(map, meta)[t] \subseteq Regions
    BY <1>1, <1>2, <1>3, <2>1 DEF Regions
  <2>3. Added(map, meta) = [t \in DOMAIN Added(map, meta) |-> Added(map, meta)[t]]
    BY DEF Added
  <2>. QED BY <1>1, <2>2, <2>3 DEF IsMap
<1>5. RegionsOf(Added(map, meta)) \subseteq RegionsOf(map) \cup {[path |-> meta.path, clear |-> clears]}
  BY <1>1, <1>2, <1>3 DEF RegionsOf
<1>6. RegionsOf(map) \cup {[path |-> meta.path, clear |-> clears]} \subseteq RegionsOf(Added(map, meta))
  BY <1>1, <1>2, <1>3 DEF RegionsOf
<1>. QED BY <1>4, <1>5, <1>6

\* Added shows what the map showed, and meta.
LEMMA AddedShows ==
  ASSUME NEW map, NEW entries, Shows(map, entries), NEW meta
  PROVE  Shows(Added(map, meta), entries \cup {meta})
<1>1. DOMAIN Added(map, meta) = DOMAIN map \cup {meta.type}
  BY DEF Added
<1>2. DOMAIN Added(map, meta) = {e.type : e \in entries \cup {meta}}
  BY <1>1 DEF Shows
<1>3. ASSUME NEW t \in DOMAIN Added(map, meta), t # meta.type
      PROVE  {r.path : r \in Added(map, meta)[t]} = {e.path : e \in {e \in entries \cup {meta} : e.type = t}}
  <2>1. t \in DOMAIN map /\ Added(map, meta)[t] = map[t]
    BY <1>1, <1>3 DEF Added
  <2>2. {e \in entries \cup {meta} : e.type = t} = {e \in entries : e.type = t}
    BY <1>3
  <2>. QED BY <2>1, <2>2 DEF Shows
<1>4. {r.path : r \in Added(map, meta)[meta.type]} =
      {e.path : e \in {e \in entries \cup {meta} : e.type = meta.type}}
  <2>. DEFINE before == IF meta.type \in DOMAIN map THEN map[meta.type] ELSE {}
              new == [path |-> meta.path, clear |-> clears]
  <2>1. {r.path : r \in before} = {e.path : e \in {e \in entries : e.type = meta.type}}
    <3>1. CASE meta.type \in DOMAIN map
      BY <3>1 DEF Shows
    <3>2. CASE meta.type \notin DOMAIN map
      BY <3>2 DEF Shows
    <3>. QED BY <3>1, <3>2
  <2>2. Added(map, meta)[meta.type] = before \cup {new}
    BY DEF Added
  <2>3. {e \in entries \cup {meta} : e.type = meta.type} = {e \in entries : e.type = meta.type} \cup {meta}
    OBVIOUS
  <2>4. new.path = meta.path
    OBVIOUS
  <2>. HIDE DEF before, new
  <2>5. {r.path : r \in before \cup {new}} = {r.path : r \in before} \cup {meta.path}
    BY <2>4
  <2>. QED BY <2>1, <2>2, <2>3, <2>5
<1>. QED BY <1>2, <1>3, <1>4 DEF Shows

LEMMA MapsAre ==
  ASSUME NEW map
  PROVE  IsMap(map) <=> map \in Maps
  BY DEF IsMap, Maps

LEMMA RequestUpdates ==
  ASSUME NEW q \in RequestStates, NEW at \in Steps
  PROVE  /\ [q EXCEPT !.at = at] \in RequestStates
         /\ [q EXCEPT !.at = at].at = at /\ [q EXCEPT !.at = at].since = q.since
         /\ [q EXCEPT !.at = at].type = q.type /\ [q EXCEPT !.at = at].shows = q.shows
         /\ [q EXCEPT !.at = at].region = q.region
  BY DEF RequestStates

-----------------------------------------------------------------------------
(* What a step of reload leaves alone.                                     *)

\* The other thread keeps its place and its locals.
OthersKeep(t) ==
    \A s \in Threads \ {t} :
        /\ pc'[s] = pc[s] /\ conf'[s] = conf[s]
        /\ todo'[s] = todo[s] /\ built'[s] = built[s] /\ creating'[s] = creating[s]

\* One thread at a time is where the guard is held.
LEMMA Alone ==
  ASSUME GuardHeld, NEW t \in Threads, pc[t] \in Held, NEW s \in Threads \ {t}
  PROVE  pc[s] \notin Held
  BY DEF GuardHeld

\* The files stay as they are, and so does where t is with them.
LEMMA FilesKeep ==
  ASSUME FilesWhole, NEW t \in Threads, OthersKeep(t), UNCHANGED <<files, failures, restarts>>,
         pc[t] # "create", pc'[t] # "create"
  PROVE  FilesWhole'
<1>1. ASSUME NEW s \in Threads, pc'[s] = "create"
      PROVE  creating'[s] \in Paths /\ files'[creating'[s]] \in {"empty", "sized", "headed"}
  BY <1>1 DEF FilesWhole, OthersKeep
<1>2. ASSUME NEW p \in Paths, failures = 0, restarts = 0, files[p] \in {"empty", "sized"}
      PROVE  \E s \in Threads : pc'[s] = "create" /\ creating'[s] = p
  <2>1. PICK s \in Threads : pc[s] = "create" /\ creating[s] = p
    BY <1>2 DEF FilesWhole
  <2>2. s # t
    BY <2>1
  <2>. QED BY <2>1, <2>2 DEF OthersKeep
<1>. QED BY <1>1, <1>2 DEF FilesWhole

\* The reload goes on loading, with the same map under construction.
LEMMA BuildingKeeps ==
  ASSUME Accepted, Building, NEW t \in Threads, OthersKeep(t), UNCHANGED <<conf, todo, built, mapped, failed>>,
         pc[t] \in {"load", "create"}, pc'[t] \in {"load", "create"}
  PROVE  Accepted' /\ Building'
<1>1. Accepted'
  BY DEF Accepted, OthersKeep
<1>2. Building'
  BY DEF Building, OthersKeep
<1>. QED BY <1>1, <1>2

LEMMA Stages ==
    NextStage["absent"] = "empty" /\ NextStage["empty"] = "sized" /\ NextStage["sized"] = "headed" /\ NextStage["headed"] = "whole"
  BY DEF NextStage

\* When the guard is free, or its holder has read nothing yet or is done, no thread is in the middle of a reload.
\* A step that only moves thread t among such places disturbs nothing.
Quiet(t) ==
    /\ UNCHANGED <<mapVars, files, request, crash, creating, fragment_tbl, historyVars>>
    /\ OthersKeep(t)
    /\ pc[t] \notin {"release", "load", "create", "tables", "crashed"}
    /\ pc'[t] \notin {"release", "load", "create", "tables", "crashed"}

LEMMA QuietKeeps ==
  ASSUME ReaderInv, NEW t \in Threads, Quiet(t), Running,
         ReaderTypes', GuardHeld', Handlers', Accepted'
  PROVE  ReaderInv'
<1>. USE DEF Quiet, OthersKeep, mapVars, oldVars, historyVars
<1>1. MapWhole'
  BY DEF ReaderInv, MapWhole, Opens
<1>2. Clearing'
  BY DEF ReaderInv, Clearing, NextRing, RegionsOf
<1>3. Building'
  BY DEF ReaderInv, Building
<1>4. Serving'
  BY DEF ReaderInv, Serving
<1>5. HoldsMapped'
  BY DEF ReaderInv, HoldsMapped, Sound
<1>6. FilesWhole'
  BY DEF ReaderInv, FilesWhole
<1>7. Crashes'
  BY DEF ReaderInv, Crashes, Running
<1>8. CrashesOnlyInReload'
  BY DEF CrashesOnlyInReload, Running
<1>. QED BY <1>1, <1>2, <1>3, <1>4, <1>5, <1>6, <1>7, <1>8 DEF ReaderInv

LEMMA LockKeeps ==
  ASSUME ReaderInv, Running, NEW t \in Threads, Lock(t) \/ ReadsNothing(t) \/ Reads(t), UNCHANGED request
  PROVE  ReaderInv'
<1>. USE DEF Lock, ReadsNothing, Reads, Goto, Elsewhere, localVars, historyVars
<1>1. Quiet(t)
  BY DEF Quiet, OthersKeep, ReaderInv, ReaderTypes
<1>2. ReaderTypes'
  <2>1. CASE Lock(t)
    BY <2>1 DEF ReaderInv, ReaderTypes, Places, Held, mapVars, oldVars
  <2>2. CASE ReadsNothing(t)
    BY <2>2 DEF ReaderInv, ReaderTypes, Places, Held, mapVars, oldVars
  <2>3. CASE Reads(t)
    <3>1. conf' \in [Threads -> Contents \cup {NoContent}]
      BY <2>3 DEF ReaderInv, ReaderTypes, Valid
    <3>2. pc' \in [Threads -> Places]
      BY <2>3 DEF ReaderInv, ReaderTypes, Places, Held
    <3>3. UNCHANGED <<_guard, _handler, todo, built, creating, fragment_tbl, historyVars, mapVars, files, crash, request>>
      BY <2>3
    <3>. QED BY ONLY <3>1, <3>2, <3>3, ReaderInv DEF ReaderInv, ReaderTypes, mapVars, oldVars, historyVars
  <2>. QED BY <2>1, <2>2, <2>3
<1>3. GuardHeld'
  BY DEF ReaderInv, ReaderTypes, GuardHeld, Held, Free, Threads
<1>4. Handlers'
  BY DEF ReaderInv, ReaderTypes, Handlers, Threads
<1>5. Accepted'
  <2>1. CASE Lock(t) \/ ReadsNothing(t)
    BY ZenonT(30), <2>1 DEF ReaderInv, ReaderTypes, Accepted
  <2>2. CASE Reads(t)
    <3>1. file \in Contents /\ \A e \in Metas(file) : e.path \in Paths /\ e.type \in Types
      BY <2>2, PathsAssumption DEF Valid, EntriesValid, Metas, EntryValid
    <3>2. /\ conf'[t] = file
          /\ \A s \in Threads \ {t} : conf'[s] = conf[s] /\ pc'[s] = pc[s]
      BY <2>2 DEF ReaderInv, ReaderTypes
    <3>. QED BY <3>1, <3>2 DEF ReaderInv, Accepted
  <2>. QED BY <2>1, <2>2
<1>. QED BY <1>1, <1>2, <1>3, <1>4, <1>5, QuietKeeps

LEMMA UnlockKeeps ==
  ASSUME ReaderInv, Running, NEW t \in Threads, Unlock(t), UNCHANGED request
  PROVE  ReaderInv'
<1>. USE DEF Unlock, Goto, Elsewhere, historyVars
<1>1. Quiet(t)
  BY DEF Quiet, OthersKeep, ReaderInv, ReaderTypes
<1>2. ReaderTypes'
  BY EmptyShows DEF ReaderInv, ReaderTypes, Places, Held, mapVars, oldVars
<1>3. GuardHeld'
  BY DEF ReaderInv, ReaderTypes, GuardHeld, Held, Free, Threads
<1>4. Handlers'
  BY DEF ReaderInv, ReaderTypes, Handlers, Threads
<1>5. Accepted'
  BY DEF ReaderInv, ReaderTypes, Accepted
<1>. QED BY <1>1, <1>2, <1>3, <1>4, <1>5, QuietKeeps

\* The main thread outside reload, and the watch thread outside its callback.
LEMMA StartKeeps ==
  ASSUME ReaderInv, Running, Construct \/ OnChanged \/ InitReloads \/ WatchEvent \/ WatchReturns, UNCHANGED request
  PROVE  ReaderInv'
<1>. USE DEF Construct, OnChanged, InitReloads, WatchEvent, WatchReturns, Goto, Elsewhere, localVars, historyVars
<1>1. \E t \in Threads : Quiet(t)
  <2>1. CASE Construct \/ OnChanged \/ InitReloads
    <3>1. Quiet("main")
      BY <2>1 DEF Quiet, OthersKeep, ReaderInv, ReaderTypes, Threads
    <3>. QED BY <3>1 DEF Threads
  <2>2. CASE WatchEvent \/ WatchReturns
    <3>1. Quiet("watch")
      BY <2>2 DEF Quiet, OthersKeep, ReaderInv, ReaderTypes, Threads
    <3>. QED BY <3>1 DEF Threads
  <2>. QED BY <2>1, <2>2
<1>2. ReaderTypes'
  <2>1. /\ UNCHANGED <<_guard, conf, todo, built, creating, fragment_tbl, applied, failed, failures, restarts>>
        /\ UNCHANGED <<_regions_map, clearing, old, freeing, mapped, clears, files, crash>>
    BY DEF mapVars, oldVars
  <2>2. _handler' \in {"null", "half", "set"}
    BY DEF ReaderInv, ReaderTypes
  <2>3. pc' \in [Threads -> Places]
    <3>1. ASSUME NEW t \in Threads, NEW from, NEW to \in Places, Goto(t, from, to)
          PROVE  pc' \in [Threads -> Places]
      BY <3>1 DEF ReaderInv, ReaderTypes
    <3>. HIDE DEF Goto
    <3>2. CASE Construct \/ OnChanged \/ InitReloads
      BY <3>1, <3>2 DEF Threads, Places
    <3>3. CASE WatchReturns
      BY <3>1, <3>3 DEF Threads, Places
    <3>4. CASE WatchEvent
      BY ZenonT(30), <3>4 DEF Threads, Places, ReaderInv, ReaderTypes
    <3>. QED BY <3>2, <3>3, <3>4
  <2>. HIDE DEF Construct, OnChanged, InitReloads, WatchEvent, WatchReturns
  <2>. QED BY <2>1, <2>2, <2>3 DEF ReaderInv, ReaderTypes
<1>3. GuardHeld'
  BY ZenonT(30) DEF ReaderInv, ReaderTypes, GuardHeld, Held, Free, Threads
<1>4. Handlers'
  <2>1. CASE Construct \/ OnChanged \/ InitReloads
    BY <2>1 DEF ReaderInv, ReaderTypes, Handlers, Threads
  <2>2. CASE WatchEvent
    <3>1. _handler' = _handler /\ pc'["main"] = pc["main"]
      BY <2>2 DEF ReaderInv, ReaderTypes, Threads
    <3>. QED BY <3>1 DEF ReaderInv, Handlers
  <2>3. CASE WatchReturns
    <3>1. _handler' = _handler /\ pc'["main"] = pc["main"]
      BY <2>3 DEF ReaderInv, ReaderTypes, Threads
    <3>. QED BY <3>1 DEF ReaderInv, Handlers
  <2>. QED BY <2>1, <2>2, <2>3
<1>5. Accepted'
  <2>1. CASE Construct \/ OnChanged \/ InitReloads
    BY ZenonT(30), <2>1 DEF ReaderInv, ReaderTypes, Accepted, Threads
  <2>2. CASE WatchEvent
    BY <2>2 DEF ReaderInv, ReaderTypes, Accepted, Threads
  <2>3. CASE WatchReturns
    BY <2>3 DEF ReaderInv, ReaderTypes, Accepted, Threads
  <2>. QED BY <2>1, <2>2, <2>3
<1>. QED BY <1>1, <1>2, <1>3, <1>4, <1>5, QuietKeeps

-----------------------------------------------------------------------------
(* The steps of the requests and of the editor.                             *)

\* A step that leaves the process and the files alone.
LEMMA EditorKeeps ==
  ASSUME ReaderInv, UNCHANGED <<mapVars, files, request, crash, readerVars>>, Running \/ UNCHANGED file
  PROVE  ReaderInv'
<1>. USE DEF mapVars, oldVars, readerVars, localVars, historyVars
<1>1. ReaderTypes'
  BY DEF ReaderInv, ReaderTypes, Places, Held
<1>2. GuardHeld'
  BY DEF ReaderInv, ReaderTypes, GuardHeld, Held, Free, Threads
<1>3. MapWhole'
  BY DEF ReaderInv, MapWhole, Opens
<1>4. Clearing'
  BY DEF ReaderInv, Clearing, Held, NextRing, RegionsOf
<1>5. Accepted'
  BY DEF ReaderInv, Accepted, Held
<1>6. Building'
  BY DEF ReaderInv, Building, Held
<1>7. Serving'
  BY DEF ReaderInv, Serving, Held
<1>8. HoldsMapped'
  BY DEF ReaderInv, HoldsMapped, Sound
<1>9. FilesWhole'
  BY DEF ReaderInv, FilesWhole, Held
<1>10. Handlers'
  BY DEF ReaderInv, Handlers, ReaderTypes, Threads
<1>11. Crashes'
  BY DEF ReaderInv, Crashes, Held, Running
<1>12. CrashesOnlyInReload'
  BY DEF ReaderInv, CrashesOnlyInReload, ReadReplaced, Running, Reloading
<1>. QED BY <1>1, <1>2, <1>3, <1>4, <1>5, <1>6, <1>7, <1>8, <1>9, <1>10, <1>11, <1>12 DEF ReaderInv

\* A step of a request.
LEMMA RequestKeeps ==
  ASSUME ReaderInv, Running, NEW r \in Requests, RequestStep(r), UNCHANGED <<files, readerVars>>
  PROVE  ReaderInv'
<1>. USE DEF mapVars, oldVars, readerVars, localVars, historyVars, RequestStep, Moves
<1>. DEFINE q == request[r]
<1>. q \in RequestStates
  BY DEF ReaderInv, ReaderTypes
<1>a. clears \in Nat /\ IsMap(_regions_map) /\ _regions_map \in Maps /\ EmptyMap \in Maps
  BY MapsAre, EmptyShows DEF ReaderInv, ReaderTypes
<1>b. Sound(q)
  BY DEF ReaderInv, HoldsMapped
<1>c. q.since \in Nat /\ q.shows \in Maps
  BY DEF RequestStates
<1>1. \E state \in RequestStates : Moves(r, state) /\ Sound(state)
  <2>1. CASE Guess(r)
    <3>1. PICK t \in DOMAIN _regions_map : Moves(r, [q EXCEPT !.at = "typed", !.type = t])
      BY <2>1 DEF Guess
    <3>2. t \in Types
      BY <1>a DEF IsMap
    <3>. HIDE DEF q
    <3>. DEFINE state == [q EXCEPT !.at = "typed", !.type = t]
    <3>3. state \in RequestStates /\ state.at = "typed"
      BY <3>2 DEF RequestStates, Steps
    <3>4. Moves(r, state)
      BY <3>1
    <3>. HIDE DEF state, Moves
    <3>. QED BY <3>3, <3>4 DEF Sound
  <2>2. ASSUME NEW t \in Types, ReadMap(r, t)
        PROVE  \E state \in RequestStates : Moves(r, state) /\ Sound(state)
    <3>. DEFINE state == [at |-> "read", type |-> t, region |-> NoRegion, shows |-> _regions_map, since |-> clears]
    <3>1. Moves(r, state) /\ ~clearing
      BY <2>2 DEF ReadMap
    <3>2. state \in RequestStates /\ state.at = "read" /\ state.since = clears /\ state.shows = _regions_map
      BY <1>a DEF RequestStates, Steps
    <3>3. RegionsOf(_regions_map) \subseteq mapped /\ clears <= clears
      BY <1>a DEF ReaderInv, MapWhole
    <3>. HIDE DEF state, Moves
    <3>4. Sound(state)
      BY <3>1, <3>2, <3>3 DEF Sound
    <3>. QED BY <3>1, <3>2, <3>4
  <2>3. CASE CopyMap(r)
    <3>1. /\ q.at = "read"
          /\ \/ Moves(r, [q EXCEPT !.at = "copied"]) /\ q.type \in DOMAIN q.shows
             \/ Moves(r, [q EXCEPT !.at = "crashed"])
      BY <2>3 DEF CopyMap, CrashesAs
    <3>. HIDE DEF q, Moves
    <3>2. CASE Moves(r, [q EXCEPT !.at = "copied"]) /\ q.type \in DOMAIN q.shows
      <4>. DEFINE state == [q EXCEPT !.at = "copied"]
      <4>1. /\ state \in RequestStates /\ state.at = "copied" /\ state.since = q.since
            /\ state.type = q.type /\ state.shows = q.shows
        BY RequestUpdates DEF Steps
      <4>2. Moves(r, state)
        BY <3>2
      <4>. HIDE DEF state
      <4>3. Sound(state)
        BY <1>b, <3>1, <3>2, <4>1 DEF Sound
      <4>. QED BY <4>1, <4>2, <4>3
    <3>3. CASE Moves(r, [q EXCEPT !.at = "crashed"])
      <4>. DEFINE state == [q EXCEPT !.at = "crashed"]
      <4>1. state \in RequestStates /\ state.at = "crashed"
        BY RequestUpdates DEF Steps
      <4>2. Moves(r, state)
        BY <3>3
      <4>. HIDE DEF state
      <4>. QED BY <4>1, <4>2 DEF Sound
    <3>. QED BY <3>1, <3>2, <3>3
  <2>4. CASE FindNode(r)
    <3>1. /\ q.at = "copied"
          /\ \/ \E region \in q.shows[q.type] : Moves(r, [q EXCEPT !.at = "found", !.region = region])
             \/ Moves(r, Idle)
      BY <2>4 DEF FindNode
    <3>2. CASE \E region \in q.shows[q.type] : Moves(r, [q EXCEPT !.at = "found", !.region = region])
      <4>1. PICK region \in q.shows[q.type] : Moves(r, [q EXCEPT !.at = "found", !.region = region])
        BY <3>2
      <4>2. q.type \in DOMAIN q.shows
        BY <1>b, <3>1 DEF Sound
      <4>3. region \in RegionsOf(q.shows) /\ region \in Regions
        BY <1>c, <4>2 DEF RegionsOf, Maps
      <4>. DEFINE state == [q EXCEPT !.at = "found", !.region = region]
      <4>4. Moves(r, state)
        BY <4>1
      <4>. HIDE DEF q, Moves
      <4>5. state \in RequestStates /\ state.at = "found" /\ state.since = q.since /\ state.region = region
        BY <4>3 DEF RequestStates, Steps
      <4>. HIDE DEF state
      <4>6. Sound(state)
        BY <1>b, <3>1, <4>3, <4>5 DEF Sound
      <4>. QED BY <4>4, <4>5, <4>6
    <3>3. CASE Moves(r, Idle)
      <4>1. Idle \in RequestStates /\ Idle.at = "idle"
        BY <1>a DEF Idle, RequestStates, Steps
      <4>. HIDE DEF Moves
      <4>. QED BY <3>3, <4>1 DEF Sound
    <3>. QED BY <3>1, <3>2, <3>3
  <2>5. CASE TakeRegion(r)
    <3>. DEFINE state == [q EXCEPT !.at = "holds"]
    <3>1. q.at = "found" /\ Moves(r, state)
      BY <2>5 DEF TakeRegion
    <3>. HIDE DEF q, Moves
    <3>2. state \in RequestStates /\ state.at = "holds" /\ state.since = q.since /\ state.region = q.region
      BY RequestUpdates DEF Steps
    <3>. HIDE DEF state
    <3>3. Sound(state)
      BY <1>b, <3>1, <3>2 DEF Sound
    <3>. QED BY <3>1, <3>2, <3>3
  <2>6. CASE UsesFreed(r) \/ Use(r)
    <3>1. Moves(r, Idle) \/ Moves(r, [q EXCEPT !.at = "crashed"])
      BY <2>6 DEF Use, UsesFreed, CrashesAs
    <3>2. Idle \in RequestStates /\ Idle.at = "idle"
      BY <1>a DEF Idle, RequestStates, Steps
    <3>. HIDE DEF q, Moves
    <3>3. CASE Moves(r, Idle)
      BY <3>2, <3>3 DEF Sound
    <3>4. CASE Moves(r, [q EXCEPT !.at = "crashed"])
      <4>. DEFINE state == [q EXCEPT !.at = "crashed"]
      <4>1. state \in RequestStates /\ state.at = "crashed"
        BY RequestUpdates DEF Steps
      <4>2. Moves(r, state)
        BY <3>4
      <4>. HIDE DEF state
      <4>. QED BY <4>1, <4>2 DEF Sound
    <3>. QED BY <3>1, <3>3, <3>4
  <2>. QED BY <2>1, <2>2, <2>3, <2>4, <2>5, <2>6
<1>2. ReaderTypes'
  <2>1. request' \in [Requests -> RequestStates]
    <3>1. \E state \in RequestStates : Moves(r, state)
      BY <1>1
    <3>. QED BY <3>1 DEF ReaderInv, ReaderTypes
  <2>2. crash' \in {"no", "no ring", "released", "freed", "handler", "terminate"}
    BY DEF Guess, ReadMap, CopyMap, FindNode, TakeRegion, UsesFreed, Use, CrashesAs, ReaderInv, ReaderTypes
  <2>. QED BY <2>1, <2>2 DEF ReaderInv, ReaderTypes
<1>3. GuardHeld'
  BY <1>1 DEF ReaderInv, ReaderTypes, GuardHeld, Held, Free, Threads
<1>4. MapWhole'
  BY <1>1 DEF ReaderInv, MapWhole, Opens
<1>5. Clearing'
  <2>1. UNCHANGED <<pc, failed, _regions_map, clearing, old, freeing, mapped>>
    OBVIOUS
  <2>. QED BY ONLY <2>1, ReaderInv DEF ReaderInv, Clearing, NextRing, RegionsOf
<1>6. Accepted'
  BY <1>1 DEF ReaderInv, Accepted, Held
<1>7. Building'
  BY <1>1 DEF ReaderInv, Building, Held
<1>8. Serving'
  BY <1>1 DEF ReaderInv, Serving, Held
<1>9. HoldsMapped'
  <2>1. PICK state \in RequestStates : Moves(r, state) /\ Sound(state)
    BY <1>1
  <2>2. request'[r] = state /\ \A s \in Requests \ {r} : request'[s] = request[s]
    BY <2>1 DEF ReaderInv, ReaderTypes
  <2>3. UNCHANGED <<clears, clearing, mapped>>
    OBVIOUS
  <2>4. ASSUME NEW p PROVE Sound(p)' <=> Sound(p)
    BY <2>3 DEF Sound
  <2>. QED BY <2>1, <2>2, <2>3, <2>4 DEF ReaderInv, HoldsMapped, Sound
<1>10. FilesWhole'
  BY <1>1 DEF ReaderInv, FilesWhole, Held
<1>11. Handlers'
  BY <1>1 DEF ReaderInv, Handlers, ReaderTypes, Threads
<1>12. Crashes'
  BY <1>1 DEF ReaderInv, Crashes, Held, Running
<1>13. CrashesOnlyInReload'
  <2>1. CASE UNCHANGED crash
    BY <2>1 DEF CrashesOnlyInReload, Running
  <2>2. ASSUME NEW end, CrashesAs(r, end)
        PROVE  /\ request'[r].at = "crashed" /\ request'[r].type = q.type /\ request'[r].shows = q.shows
               /\ request'[r].since = q.since
    <3>1. request'[r] = [q EXCEPT !.at = "crashed"]
      BY <2>2 DEF CrashesAs, ReaderInv, ReaderTypes
    <3>. HIDE DEF q
    <3>. QED BY <3>1, RequestUpdates DEF Steps
  <2>a. UNCHANGED <<pc, failed, failures, restarts, applied, clears, _regions_map>>
    OBVIOUS
  <2>3. CASE CopyMap(r) /\ ~UNCHANGED crash
    <3>1. CrashesAs(r, "no ring") /\ (MapGone(r) \/ q.type \notin DOMAIN q.shows)
      BY <2>3 DEF CopyMap
    <3>2. MapGone(r) => q.since < clears
      BY DEF MapGone
    <3>3. ASSUME ~Reloading, failed # "last", applied # NoContent, q.shows = _regions_map, q.type \notin DOMAIN q.shows
          PROVE  q.type \notin {e.type : e \in Metas(applied)}
      <4>1. \A s \in Threads : pc[s] \notin {"release", "load", "create", "crashed"}
        BY <3>3 DEF Reloading, ReaderInv, Crashes
      <4>. QED BY <3>3, <4>1 DEF ReaderInv, Serving, Shows
    <3>4. crash' = "no ring"
      BY <3>1 DEF CrashesAs
    <3>5. q = request[r]
      OBVIOUS
    <3>. HIDE DEF q
    <3>. QED BY ONLY <2>2, <2>a, <3>1, <3>2, <3>3, <3>4, <3>5, r \in Requests
         DEF CrashesOnlyInReload, Reloading, ReadReplaced
  <2>4. CASE UsesFreed(r)
    <3>1. CrashesAs(r, "freed") /\ q.since < clears
      BY <2>4 DEF UsesFreed, MapGone, RingGone
    <3>2. crash' = "freed"
      BY <3>1 DEF CrashesAs
    <3>. HIDE DEF q
    <3>. QED BY ONLY <2>2, <2>a, <3>1, <3>2, r \in Requests DEF CrashesOnlyInReload
  <2>5. CASE Use(r) /\ ~UNCHANGED crash
    <3>1. CrashesAs(r, "released") /\ q.at = "holds" /\ q.region \notin mapped
      BY <2>5 DEF Use
    <3>2. crash' = "released" /\ q.since < clears
      BY <1>b, <3>1 DEF CrashesAs, Sound
    <3>. HIDE DEF q
    <3>. QED BY ONLY <2>2, <2>a, <3>1, <3>2, r \in Requests DEF CrashesOnlyInReload
  <2>. QED BY <2>1, <2>3, <2>4, <2>5 DEF Guess, ReadMap, FindNode, TakeRegion
<1>. QED BY <1>2, <1>3, <1>4, <1>5, <1>6, <1>7, <1>8, <1>9, <1>10, <1>11, <1>12, <1>13 DEF ReaderInv

\* The regions of the map become those that _clear has to release.
LEMMA CallHandlerKeeps ==
  ASSUME ReaderInv, Running, NEW t \in Threads, CallHandler(t), UNCHANGED request
  PROVE  ReaderInv'
<1>. USE DEF CallHandler, Goto, localVars, mapVars, oldVars, historyVars, Clear, TearsDown
<1>1. OthersKeep(t)
  BY DEF OthersKeep, ReaderInv, ReaderTypes
<1>2. pc[t] = "call" /\ \A s \in Threads \ {t} : pc[s] \notin Held
  BY Alone DEF Held, ReaderInv
<1>3. ReaderTypes'
  <2>1. pc' \in [Threads -> Places]
    BY DEF ReaderInv, ReaderTypes, Places, Held
  <2>2. IsMap(old') /\ freeing' = freeing
    BY DEF ReaderInv, ReaderTypes
  <2>3. IsMap(_regions_map')
    BY EmptyShows
  <2>4. clears' \in Nat
    <3>1. clears' = clears + 1
      OBVIOUS
    <3>2. clears \in Nat
      BY DEF ReaderInv, ReaderTypes
    <3>. QED BY ONLY <3>1, <3>2
  <2>5. failed' \in {"no", "last", "before"}
    OBVIOUS
  <2>. QED BY <2>1, <2>2, <2>3, <2>4, <2>5 DEF ReaderInv, ReaderTypes
<1>4. GuardHeld'
  BY <1>1, <1>2 DEF ReaderInv, ReaderTypes, GuardHeld, Held, Free, Threads
<1>5. MapWhole'
  BY EmptyShows DEF ReaderInv, MapWhole, Opens
<1>6. Clearing'
  <2>1. \A s \in Threads : pc[s] \notin {"release", "load", "create", "crashed"}
    BY <1>2 DEF Held
  <2>2. failed' = "no" => mapped = RegionsOf(_regions_map)
    BY <2>1 DEF ReaderInv, Serving
  <2>3. pc'[t] = "release" /\ old' = _regions_map /\ clearing' /\ freeing' = freeing
    BY DEF ReaderInv, ReaderTypes
  <2>4. \A s \in Threads \ {t} : pc'[s] # "release"
    BY <1>1, <1>2 DEF OthersKeep, Held
  <2>5. freeing = "nothing"
    BY DEF ReaderInv, ReaderTypes, Clearing
  <2>. QED BY <2>2, <2>3, <2>4, <2>5 DEF Clearing
<1>7. Accepted'
  BY ZenonT(30), <1>1, <1>2 DEF ReaderInv, Accepted, Held, OthersKeep, ReaderTypes
<1>8. Building'
  BY ZenonT(30), <1>1, <1>2 DEF ReaderInv, Building, Held, OthersKeep, ReaderTypes
<1>9. Serving'
  BY <1>1, <1>2 DEF ReaderInv, Serving, Held, OthersKeep, ReaderTypes
<1>10. HoldsMapped'
  <2>1. clears \in Nat /\ clears' = clears + 1
    BY DEF ReaderInv, ReaderTypes
  <2>2. ASSUME NEW r \in Requests, request[r].at \in {"read", "copied", "found", "holds"}
        PROVE  request[r].since < clears' /\ (request[r].at = "copied" => request[r].type \in DOMAIN request[r].shows)
    <3>1. request[r].since \in Nat
      BY DEF ReaderInv, ReaderTypes, RequestStates
    <3>2. Sound(request[r])
      BY DEF ReaderInv, HoldsMapped
    <3>3. request[r].since <= clears /\ (request[r].at = "copied" => request[r].type \in DOMAIN request[r].shows)
      BY <2>2, <3>2 DEF Sound
    <3>4. request[r].since < clears'
      BY ONLY <2>1, <3>1, <3>3
    <3>. QED BY <3>3, <3>4
  <2>3. ASSUME NEW r \in Requests, request[r].at \in {"read", "copied", "found", "holds"}
        PROVE  request[r].since <= clears'
    <3>1. request[r].since \in Nat
      BY DEF ReaderInv, ReaderTypes, RequestStates
    <3>2. clears' \in Nat
      BY ONLY <2>1
    <3>3. request[r].since < clears'
      BY <2>2, <2>3
    <3>. QED BY ONLY <3>1, <3>2, <3>3
  <2>. QED BY <2>2, <2>3 DEF HoldsMapped, Sound
<1>11. FilesWhole'
  <2>1. pc'[t] # "create"
    BY DEF ReaderInv, ReaderTypes
  <2>. QED BY <1>1, <1>2, <2>1, FilesKeep DEF ReaderInv
<1>12. Handlers'
  BY <1>1, <1>2 DEF ReaderInv, Handlers, ReaderTypes, Threads
<1>13. Crashes'
  BY <1>1, <1>2 DEF ReaderInv, Crashes, Held, Running, OthersKeep, ReaderTypes
<1>14. CrashesOnlyInReload'
  BY <1>1, <1>2 DEF ReaderInv, CrashesOnlyInReload, Running
<1>. QED BY <1>3, <1>4, <1>5, <1>6, <1>7, <1>8, <1>9, <1>10, <1>11, <1>12, <1>13, <1>14 DEF ReaderInv

\* on_changed is assigning, and it runs on the main thread: the reload is that of the watch thread.
LEMMA CallHalfKeeps ==
  ASSUME ReaderInv, Running, NEW t \in Threads, CallHalf(t), UNCHANGED request
  PROVE  ReaderInv'
<1>. USE DEF CallHalf, Goto, localVars, mapVars, oldVars, historyVars
<1>1. OthersKeep(t)
  BY DEF OthersKeep, ReaderInv, ReaderTypes
<1>2. pc[t] = "call" /\ \A s \in Threads \ {t} : pc[s] \notin Held
  BY Alone DEF Held, ReaderInv
<1>3. ReaderTypes'
  BY <1>1, <1>2 DEF ReaderInv, ReaderTypes, Places, Held
<1>4. GuardHeld'
  BY <1>1, <1>2 DEF ReaderInv, ReaderTypes, GuardHeld, Held, Free, Threads
<1>5. MapWhole'
  BY <1>1, <1>2 DEF ReaderInv, MapWhole, Opens
<1>6. Clearing'
  BY <1>1, <1>2 DEF ReaderInv, Clearing, Held, OthersKeep, ReaderTypes
<1>7. Accepted'
  BY <1>1, <1>2 DEF ReaderInv, Accepted, Held, OthersKeep, ReaderTypes
<1>8. Building'
  BY ZenonT(30), <1>1, <1>2 DEF ReaderInv, Building, Held, OthersKeep, ReaderTypes
<1>9. Serving'
  BY <1>1, <1>2 DEF ReaderInv, Serving, Held, OthersKeep, ReaderTypes
<1>10. HoldsMapped'
  BY <1>1, <1>2 DEF ReaderInv, HoldsMapped, Sound
<1>11. FilesWhole'
  <2>1. pc'[t] # "create"
    BY DEF ReaderInv, ReaderTypes
  <2>. QED BY <1>1, <1>2, <2>1, FilesKeep DEF ReaderInv
<1>12. Handlers'
  BY <1>1, <1>2 DEF ReaderInv, Handlers, ReaderTypes, Threads
<1>13. Crashes'
  BY <1>1, <1>2 DEF ReaderInv, Crashes, Held, Running, OthersKeep, ReaderTypes
<1>14. CrashesOnlyInReload'
  <2>1. pc["main"] = "assigning" /\ t # "main"
    BY <1>2 DEF ReaderInv, Handlers
  <2>2. pc'["main"] = "assigning"
    BY <1>1, <2>1 DEF OthersKeep, Threads
  <2>. QED BY <2>2 DEF CrashesOnlyInReload
<1>. QED BY <1>3, <1>4, <1>5, <1>6, <1>7, <1>8, <1>9, <1>10, <1>11, <1>12, <1>13, <1>14 DEF ReaderInv

\* _read throws what it does not declare: nothing but the place of the thread changes.
LEMMA ReadTerminatesKeeps ==
  ASSUME ReaderInv, Running, NEW t \in Threads, ReadTerminates(t), UNCHANGED request
  PROVE  ReaderInv'
<1>. USE DEF ReadTerminates, Goto, localVars, mapVars, oldVars, historyVars
<1>1. OthersKeep(t)
  BY DEF OthersKeep, ReaderInv, ReaderTypes
<1>2. pc[t] = "parse" /\ \A s \in Threads \ {t} : pc[s] \notin Held
  BY Alone DEF Held, ReaderInv
<1>3. ReaderTypes'
  BY <1>1, <1>2 DEF ReaderInv, ReaderTypes, Places, Held
<1>4. GuardHeld'
  BY <1>1, <1>2 DEF ReaderInv, ReaderTypes, GuardHeld, Held, Free, Threads
<1>5. MapWhole'
  BY <1>1, <1>2 DEF ReaderInv, MapWhole, Opens
<1>6. Clearing'
  BY <1>1, <1>2 DEF ReaderInv, Clearing, Held, OthersKeep, ReaderTypes
<1>7. Accepted'
  BY <1>1, <1>2 DEF ReaderInv, Accepted, Held, OthersKeep, ReaderTypes
<1>8. Building'
  BY ZenonT(30), <1>1, <1>2 DEF ReaderInv, Building, Held, OthersKeep, ReaderTypes
<1>9. Serving'
  BY <1>1, <1>2 DEF ReaderInv, Serving, Held, OthersKeep, ReaderTypes
<1>10. HoldsMapped'
  BY <1>1, <1>2 DEF ReaderInv, HoldsMapped, Sound
<1>11. FilesWhole'
  <2>1. pc'[t] # "create"
    BY DEF ReaderInv, ReaderTypes
  <2>. QED BY <1>1, <1>2, <2>1, FilesKeep DEF ReaderInv
<1>12. Handlers'
  BY <1>1, <1>2 DEF ReaderInv, Handlers, ReaderTypes, Threads
<1>13. Crashes'
  BY <1>1, <1>2 DEF ReaderInv, Crashes, Held, Running, OthersKeep, ReaderTypes
<1>14. CrashesOnlyInReload'
  BY DEF CrashesOnlyInReload, editorVars
<1>. QED BY <1>3, <1>4, <1>5, <1>6, <1>7, <1>8, <1>9, <1>10, <1>11, <1>12, <1>13, <1>14 DEF ReaderInv

\* The rings that are not cleared yet hold what is mapped.
LEMMA TearDownKeeps ==
  ASSUME IsMap(old), freeing = "ring" => \A s \in DOMAIN old : NextRing(s) => old[s] \cap mapped = {},
         freeing \in {"nothing", "ring", "map"}, freeing = "map" => old = EmptyMap, clearing, TearDown
  PROVE  /\ IsMap(old') /\ mapped' \subseteq mapped /\ freeing' \in {"nothing", "ring", "map"}
         /\ mapped \subseteq RegionsOf(old) => mapped' \subseteq RegionsOf(old')
         /\ freeing' = "ring" => \A s \in DOMAIN old' : NextRing(s)' => old'[s] \cap mapped' = {}
         /\ freeing' = "map" => old' = EmptyMap
         /\ UNCHANGED <<_regions_map, clearing, clears>>
<1>. USE DEF TearDown, oldVars
<1>1. CASE ReleaseRegion
  BY <1>1 DEF ReleaseRegion, NextRing
<1>2. CASE FreeRing
  BY <1>2 DEF FreeRing, NextRing
<1>3. CASE RingFreed
  <2>1. /\ DOMAIN old' = {s \in DOMAIN old : ~NextRing(s)} /\ \A s \in DOMAIN old' : old'[s] = old[s]
        /\ freeing = "ring" /\ freeing' = "nothing" /\ UNCHANGED <<_regions_map, clearing, mapped, clears>>
        /\ old' = [s \in DOMAIN old' |-> old'[s]]
    BY <1>3 DEF RingFreed, Restrict
  <2>2. IsMap(old')
    BY <2>1 DEF IsMap
  <2>3. ASSUME mapped \subseteq RegionsOf(old)
        PROVE  mapped \subseteq RegionsOf(old')
    <3>. SUFFICES ASSUME NEW region \in mapped PROVE region \in RegionsOf(old')
      OBVIOUS
    <3>1. PICK s \in DOMAIN old : region \in old[s]
      BY <2>3 DEF RegionsOf
    <3>2. ~NextRing(s)
      BY <2>1, <3>1
    <3>. QED BY <2>1, <3>1, <3>2 DEF RegionsOf
  <2>. QED BY <2>1, <2>2, <2>3
<1>4. CASE FreeMap
  BY <1>4 DEF FreeMap
<1>. QED BY <1>1, <1>2, <1>3, <1>4

\* While _clear releases regions, the map shows none and requests that have read one did so before.
LEMMA ReleaseKeeps ==
  ASSUME ReaderInv, Running, NEW t \in Threads, Release(t), UNCHANGED request
  PROVE  ReaderInv'
<1>. USE DEF Release, Goto, localVars, mapVars, historyVars
<1>1. OthersKeep(t)
  BY DEF OthersKeep, ReaderInv, ReaderTypes
<1>2. pc[t] = "release" /\ (\A s \in Threads \ {t} : pc[s] \notin Held) /\ clearing
  <2>1. pc[t] = "release" /\ \A s \in Threads \ {t} : pc[s] \notin Held
    BY Alone DEF Held, ReaderInv
  <2>. QED BY <2>1 DEF ReaderInv, Clearing
<1>3. /\ IsMap(old') /\ mapped' \subseteq mapped /\ freeing' \in {"nothing", "ring", "map"}
      /\ mapped \subseteq RegionsOf(old) => mapped' \subseteq RegionsOf(old')
      /\ freeing' = "ring" => \A s \in DOMAIN old' : NextRing(s)' => old'[s] \cap mapped' = {}
      /\ freeing' = "map" => old' = EmptyMap
      /\ UNCHANGED <<_regions_map, clearing, clears>>
  BY <1>2, TearDownKeeps DEF ReaderInv, ReaderTypes, Clearing
<1>4. ReaderTypes'
  BY <1>3 DEF ReaderInv, ReaderTypes
<1>5. GuardHeld'
  BY <1>1, <1>2 DEF ReaderInv, ReaderTypes, GuardHeld, Held, Free, Threads
<1>6. MapWhole'
  <2>1. _regions_map' = EmptyMap
    BY <1>2, <1>3 DEF ReaderInv, Clearing
  <2>. QED BY <1>3, <2>1, EmptyShows DEF ReaderInv, MapWhole, Opens
<1>7. Clearing'
  <2>1. UNCHANGED <<pc, failed, _regions_map, clearing>>
    BY <1>3
  <2>. HIDE DEF Release
  <2>. QED BY <1>2, <1>3, <2>1 DEF ReaderInv, Clearing
<1>8. Accepted'
  BY <1>1, <1>2 DEF ReaderInv, Accepted, Held, OthersKeep, ReaderTypes
<1>9. Building'
  BY <1>1, <1>2 DEF ReaderInv, Building, Held, OthersKeep, ReaderTypes
<1>10. Serving'
  BY <1>1, <1>2 DEF ReaderInv, Serving, Held, OthersKeep, ReaderTypes
<1>11. HoldsMapped'
  BY <1>2, <1>3 DEF ReaderInv, HoldsMapped, Sound
<1>12. FilesWhole'
  <2>1. pc'[t] # "create"
    BY <1>2
  <2>. QED BY <1>1, <1>2, <2>1, FilesKeep DEF ReaderInv
<1>13. Handlers'
  BY <1>1, <1>2 DEF ReaderInv, Handlers, ReaderTypes, Threads
<1>14. Crashes'
  BY <1>1, <1>2 DEF ReaderInv, Crashes, Held, Running, OthersKeep, ReaderTypes
<1>15. CrashesOnlyInReload'
  BY <1>1, <1>2 DEF ReaderInv, CrashesOnlyInReload, Running
<1>. QED BY <1>4, <1>5, <1>6, <1>7, <1>8, <1>9, <1>10, <1>11, <1>12, <1>13, <1>14, <1>15 DEF ReaderInv

\* All of them are released: nothing is mapped, and the map under construction is empty.
LEMMA ClearReturnsKeeps ==
  ASSUME ReaderInv, Running, NEW t \in Threads, ClearReturns(t), UNCHANGED request
  PROVE  ReaderInv'
<1>. USE DEF ClearReturns, Goto, localVars, mapVars, oldVars, historyVars, Cleared
<1>1. OthersKeep(t)
  BY DEF OthersKeep, ReaderInv, ReaderTypes
<1>2. pc[t] = "release" /\ \A s \in Threads \ {t} : pc[s] \notin Held
  BY Alone DEF Held, ReaderInv
<1>3. ReaderTypes'
  <2>1. pc' \in [Threads -> Places]
    BY DEF ReaderInv, ReaderTypes, Places, Held
  <2>2. todo' \in [Threads -> SUBSET Entries]
    <3>1. conf[t] \in Contents
      BY <1>2 DEF ReaderInv, Accepted
    <3>2. Metas(conf[t]) \subseteq Entries
      BY <3>1 DEF Entries
    <3>. QED BY <3>2 DEF ReaderInv, ReaderTypes
  <2>3. /\ DOMAIN built' = Threads /\ built' = [s \in Threads |-> built'[s]]
        /\ \A s \in Threads : IsMap(built'[s])
    BY EmptyShows DEF ReaderInv, ReaderTypes
  <2>. QED BY <2>1, <2>2, <2>3 DEF ReaderInv, ReaderTypes
<1>4. GuardHeld'
  BY <1>1, <1>2 DEF ReaderInv, ReaderTypes, GuardHeld, Held, Free, Threads
<1>5. MapWhole'
  BY <1>1, <1>2 DEF ReaderInv, MapWhole, Opens
<1>6. Clearing'
  <2>1. clearing' = FALSE /\ freeing' = "nothing"
    OBVIOUS
  <2>2. \A s \in Threads : pc'[s] # "release"
    BY <1>1, <1>2 DEF OthersKeep, Held, ReaderInv, ReaderTypes
  <2>. QED BY <2>1, <2>2 DEF Clearing
<1>7. Accepted'
  <2>1. conf'[t] = conf[t]
    OBVIOUS
  <2>2. conf[t] \in Contents /\ \A e \in Metas(conf[t]) : e.path \in Paths /\ e.type \in Types
    BY <1>2 DEF ReaderInv, Accepted
  <2>3. ASSUME NEW s \in Threads, s # t PROVE pc'[s] \notin {"call", "release", "load", "create", "tables"}
    BY <1>1, <1>2, <2>3 DEF OthersKeep, Held
  <2>. QED BY <2>1, <2>2, <2>3 DEF Accepted
<1>8. Building'
  <2>1. /\ todo'[t] = Metas(conf[t]) /\ conf'[t] = conf[t] /\ built'[t] = EmptyMap
    BY DEF ReaderInv, ReaderTypes
  <2>2. failed = "no" => mapped = {}
    <3>1. old = EmptyMap /\ (failed = "no" => mapped \subseteq RegionsOf(old))
      BY <1>2 DEF ReaderInv, Clearing
    <3>. QED BY <3>1, EmptyShows
  <2>3. Metas(conf[t]) \ Metas(conf[t]) = {}
    OBVIOUS
  <2>. QED BY <1>1, <1>2, <2>1, <2>2, <2>3, EmptyShows DEF Building, OthersKeep, Held
<1>9. Serving'
  BY <1>1, <1>2 DEF ReaderInv, Serving, Held, OthersKeep, ReaderTypes
<1>10. HoldsMapped'
  BY <1>1, <1>2 DEF ReaderInv, HoldsMapped, Sound
<1>11. FilesWhole'
  <2>1. pc'[t] # "create"
    BY DEF ReaderInv, ReaderTypes
  <2>. QED BY <1>1, <1>2, <2>1, FilesKeep DEF ReaderInv
<1>12. Handlers'
  BY <1>1, <1>2 DEF ReaderInv, Handlers, ReaderTypes, Threads
<1>13. Crashes'
  BY <1>1, <1>2 DEF ReaderInv, Crashes, Held, Running, OthersKeep, ReaderTypes
<1>14. CrashesOnlyInReload'
  BY <1>1, <1>2 DEF ReaderInv, CrashesOnlyInReload, Running
<1>. QED BY <1>3, <1>4, <1>5, <1>6, <1>7, <1>8, <1>9, <1>10, <1>11, <1>12, <1>13, <1>14 DEF ReaderInv

\* The region of meta is mapped, and is added to the map under construction.
LEMMA LoadKeeps ==
  ASSUME ReaderInv, Running, NEW t \in Threads, Load(t), UNCHANGED request
  PROVE  ReaderInv'
<1>. USE DEF Load, Goto, localVars, mapVars, oldVars, historyVars, LoadRegion
<1>1. OthersKeep(t)
  BY DEF OthersKeep, ReaderInv, ReaderTypes
<1>2. pc[t] = "load" /\ \A s \in Threads \ {t} : pc[s] \notin Held
  BY Alone DEF Held, ReaderInv
<1>3. PICK meta \in todo[t] :
        /\ Opens(meta.path) /\ mapped' = mapped \cup {[path |-> meta.path, clear |-> clears]}
        /\ todo' = [todo EXCEPT ![t] = @ \ {meta}] /\ built' = [built EXCEPT ![t] = Added(@, meta)]
        /\ UNCHANGED <<_regions_map, clearing, old, freeing, clears>>
  BY DEF NextMetas, First
<1>4. meta.path \in Paths /\ meta.type \in Types /\ clears \in Nat
  BY <1>2, <1>3 DEF ReaderInv, ReaderTypes, Building, Accepted
<1>5. ReaderTypes'
  <2>1. todo' \in [Threads -> SUBSET Entries]
    BY <1>3 DEF ReaderInv, ReaderTypes
  <2>2. /\ DOMAIN built' = Threads /\ built' = [s \in Threads |-> built'[s]]
        /\ \A s \in Threads : IsMap(built'[s])
    <3>1. IsMap(Added(built[t], meta))
      BY <1>4, AddedRegions DEF ReaderInv, ReaderTypes
    <3>. QED BY <1>3, <3>1 DEF ReaderInv, ReaderTypes
  <2>3. mapped' \subseteq Regions
    <3>1. [path |-> meta.path, clear |-> clears] \in Regions
      BY <1>4 DEF Regions
    <3>. QED BY <1>3, <3>1 DEF ReaderInv, ReaderTypes
  <2>4. creating' \in [Threads -> Paths \cup {NoPath}]
    BY DEF ReaderInv, ReaderTypes
  <2>. QED BY <1>3, <2>1, <2>2, <2>3, <2>4 DEF ReaderInv, ReaderTypes
<1>6. GuardHeld'
  BY <1>3 DEF ReaderInv, GuardHeld
<1>7. MapWhole'
  BY <1>3 DEF ReaderInv, MapWhole, Opens
<1>8. Clearing'
  BY <1>1, <1>2, <1>3, <1>4 DEF ReaderInv, Clearing, Held, OthersKeep, ReaderTypes
<1>9. Accepted'
  BY <1>1, <1>2, <1>3, <1>4 DEF ReaderInv, Accepted, Held, OthersKeep, ReaderTypes
<1>10. Building'
  <2>1. /\ todo'[t] = todo[t] \ {meta} /\ conf'[t] = conf[t] /\ built'[t] = Added(built[t], meta) /\ failed' = failed
        /\ mapped' = mapped \cup {[path |-> meta.path, clear |-> clears]}
    BY <1>3 DEF ReaderInv, ReaderTypes
  <2>2. /\ todo[t] \subseteq Metas(conf[t]) /\ Shows(built[t], Metas(conf[t]) \ todo[t])
        /\ RegionsOf(built[t]) \subseteq mapped
        /\ failed = "no" => mapped = RegionsOf(built[t])
    BY <1>2 DEF ReaderInv, Building
  <2>3. Metas(conf[t]) \ todo'[t] = (Metas(conf[t]) \ todo[t]) \cup {meta}
    BY <1>3, <2>1, <2>2
  <2>4. Shows(built'[t], Metas(conf'[t]) \ todo'[t])
    BY <2>1, <2>2, <2>3, AddedShows
  <2>5. RegionsOf(built'[t]) = RegionsOf(built[t]) \cup {[path |-> meta.path, clear |-> clears]}
    <3>1. IsMap(built[t])
      BY DEF ReaderInv, ReaderTypes
    <3>. QED BY <1>4, <2>1, <3>1, AddedRegions
  <2>6. /\ todo'[t] \subseteq Metas(conf'[t])
        /\ RegionsOf(built'[t]) \subseteq mapped'
        /\ failed' = "no" => mapped' = RegionsOf(built'[t])
    BY <2>1, <2>2, <2>5
  <2>. QED BY <1>1, <1>2, <2>4, <2>6 DEF Building, OthersKeep, Held
<1>11. Serving'
  BY <1>1, <1>2, <1>3, <1>4 DEF ReaderInv, Serving, Held, OthersKeep, ReaderTypes
<1>12. HoldsMapped'
  BY <1>3 DEF ReaderInv, HoldsMapped, Sound
<1>13. FilesWhole'
  <2>1. pc'[t] # "create"
    BY <1>2
  <2>. QED BY <1>1, <1>2, <2>1, FilesKeep DEF ReaderInv
<1>14. Handlers'
  BY <1>1, <1>2, <1>3, <1>4 DEF ReaderInv, Handlers, ReaderTypes, Threads
<1>15. Crashes'
  BY <1>1, <1>2, <1>3, <1>4 DEF ReaderInv, Crashes, Held, Running, OthersKeep, ReaderTypes
<1>16. CrashesOnlyInReload'
  BY <1>1, <1>2, <1>3, <1>4 DEF ReaderInv, CrashesOnlyInReload, Running
<1>. QED BY <1>5, <1>6, <1>7, <1>8, <1>9, <1>10, <1>11, <1>12, <1>13, <1>14, <1>15, <1>16 DEF ReaderInv

\* The file that is created was not there, so no region of it is mapped.
LEMMA CreateRegionKeeps ==
  ASSUME ReaderInv, Running, NEW t \in Threads, CreateRegion(t), UNCHANGED request
  PROVE  ReaderInv'
<1>. USE DEF CreateRegion, Goto, localVars, mapVars, oldVars, historyVars, CreateFile, FileExists
<1>1. OthersKeep(t)
  BY DEF OthersKeep, ReaderInv, ReaderTypes
<1>2. pc[t] = "load" /\ \A s \in Threads \ {t} : pc[s] \notin Held
  BY Alone DEF Held, ReaderInv
<1>3. PICK meta \in todo[t] :
        /\ files[meta.path] = "absent" /\ files' = [files EXCEPT ![meta.path] = "empty"]
        /\ creating' = [creating EXCEPT ![t] = meta.path]
  BY Stages DEF NextMetas, First
<1>4. meta.path \in Paths /\ meta.type \in Types /\ clears \in Nat
  BY <1>2, <1>3 DEF ReaderInv, ReaderTypes, Building, Accepted
<1>5. ReaderTypes'
  <2>1. pc' \in [Threads -> Places]
    BY DEF ReaderInv, ReaderTypes, Places, Held
  <2>2. files' \in [Paths -> {"absent", "empty", "sized", "headed", "whole"}]
    BY <1>3 DEF ReaderInv, ReaderTypes
  <2>3. creating' \in [Threads -> Paths \cup {NoPath}]
    BY <1>3, <1>4 DEF ReaderInv, ReaderTypes
  <2>. QED BY <2>1, <2>2, <2>3 DEF ReaderInv, ReaderTypes
<1>6. GuardHeld'
  BY <1>1, <1>2, <1>3, <1>4 DEF ReaderInv, ReaderTypes, GuardHeld, Held, Free, Threads
<1>7. MapWhole'
  <2>1. \A r \in mapped : r.path # meta.path /\ r.path \in Paths
    BY <1>3 DEF ReaderInv, ReaderTypes, Regions, MapWhole, Opens
  <2>2. \A p \in Paths \ {meta.path} : files'[p] = files[p]
    BY <1>3, <1>4 DEF ReaderInv, ReaderTypes
  <2>. QED BY <2>1, <2>2 DEF ReaderInv, MapWhole, Opens
<1>8. Clearing'
  BY ZenonT(30), <1>1, <1>2, <1>3, <1>4 DEF ReaderInv, Clearing, Held, OthersKeep, ReaderTypes
<1>9. Accepted'
  <2>1. pc'[t] \in {"load", "create"}
    BY <1>2 DEF ReaderInv, ReaderTypes
  <2>. QED BY <1>1, <1>2, <2>1, BuildingKeeps DEF ReaderInv
<1>10. Building'
  <2>1. pc'[t] \in {"load", "create"}
    BY <1>2 DEF ReaderInv, ReaderTypes
  <2>. QED BY <1>1, <1>2, <2>1, BuildingKeeps DEF ReaderInv
<1>11. Serving'
  BY <1>1, <1>2, <1>3, <1>4 DEF ReaderInv, Serving, Held, OthersKeep, ReaderTypes
<1>12. HoldsMapped'
  BY <1>1, <1>2, <1>3, <1>4 DEF ReaderInv, HoldsMapped, Sound
<1>13. FilesWhole'
  <2>1. /\ pc'[t] = "create" /\ creating'[t] = meta.path /\ files'[meta.path] = "empty"
        /\ \A p \in Paths \ {meta.path} : files'[p] = files[p]
    BY <1>3, <1>4 DEF ReaderInv, ReaderTypes
  <2>2. \A s \in Threads \ {t} : pc'[s] # "create" /\ pc[s] # "create"
    BY <1>1, <1>2 DEF OthersKeep, Held
  <2>. QED BY <1>2, <1>4, <2>1, <2>2 DEF ReaderInv, FilesWhole
<1>14. Handlers'
  BY <1>1, <1>2, <1>3, <1>4 DEF ReaderInv, Handlers, ReaderTypes, Threads
<1>15. Crashes'
  BY <1>1, <1>2, <1>3, <1>4 DEF ReaderInv, Crashes, Held, Running, OthersKeep, ReaderTypes
<1>16. CrashesOnlyInReload'
  BY <1>1, <1>2, <1>3, <1>4 DEF ReaderInv, CrashesOnlyInReload, Running
<1>. QED BY <1>5, <1>6, <1>7, <1>8, <1>9, <1>10, <1>11, <1>12, <1>13, <1>14, <1>15, <1>16 DEF ReaderInv

\* The file gets one stage further: a mapped one keeps its header.
LEMMA WriteRegionKeeps ==
  ASSUME ReaderInv, Running, NEW t \in Threads, WriteRegion(t), UNCHANGED request
  PROVE  ReaderInv'
<1>. USE DEF WriteRegion, Goto, localVars, mapVars, oldVars, historyVars, CreateFile
<1>1. OthersKeep(t)
  BY DEF OthersKeep, ReaderInv, ReaderTypes
<1>2. pc[t] = "create" /\ \A s \in Threads \ {t} : pc[s] \notin Held
  BY Alone DEF Held, ReaderInv
<1>3. /\ creating[t] \in Paths
      /\ \/ files[creating[t]] = "empty" /\ files' = [files EXCEPT ![creating[t]] = "sized"] /\ pc' = [pc EXCEPT ![t] = "create"]
         \/ files[creating[t]] = "sized" /\ files' = [files EXCEPT ![creating[t]] = "headed"] /\ pc' = [pc EXCEPT ![t] = "create"]
         \/ files[creating[t]] = "headed" /\ files' = [files EXCEPT ![creating[t]] = "whole"] /\ pc' = [pc EXCEPT ![t] = "load"]
  <2>1. creating[t] \in Paths /\ files[creating[t]] \in {"empty", "sized", "headed"}
    BY <1>2 DEF ReaderInv, FilesWhole
  <2>2. CASE files[creating[t]] = "empty"
    BY <2>1, <2>2, Stages
  <2>3. CASE files[creating[t]] = "sized"
    BY <2>1, <2>3, Stages
  <2>4. CASE files[creating[t]] = "headed"
    BY <2>1, <2>4, Stages
  <2>. QED BY <2>1, <2>2, <2>3, <2>4
<1>4. ReaderTypes'
  <2>1. pc' \in [Threads -> Places]
    BY DEF ReaderInv, ReaderTypes, Places, Held
  <2>2. files' \in [Paths -> {"absent", "empty", "sized", "headed", "whole"}]
    BY <1>3 DEF ReaderInv, ReaderTypes
  <2>. QED BY <2>1, <2>2 DEF ReaderInv, ReaderTypes
<1>5. GuardHeld'
  BY <1>1, <1>2, <1>3 DEF ReaderInv, ReaderTypes, GuardHeld, Held, Free, Threads
<1>6. MapWhole'
  <2>1. \A p \in Paths : Opens(p) => Opens(p)'
    BY <1>3 DEF ReaderInv, ReaderTypes, Opens
  <2>2. \A r \in mapped : r.path \in Paths
    BY DEF ReaderInv, ReaderTypes, Regions
  <2>. QED BY <2>1, <2>2 DEF ReaderInv, MapWhole
<1>7. Clearing'
  BY ZenonT(30), <1>1, <1>2, <1>3 DEF ReaderInv, Clearing, Held, OthersKeep, ReaderTypes
<1>8. Accepted'
  <2>1. pc'[t] \in {"load", "create"}
    BY <1>2 DEF ReaderInv, ReaderTypes
  <2>. QED BY <1>1, <1>2, <2>1, BuildingKeeps DEF ReaderInv
<1>9. Building'
  <2>1. pc'[t] \in {"load", "create"}
    BY <1>2 DEF ReaderInv, ReaderTypes
  <2>. QED BY <1>1, <1>2, <2>1, BuildingKeeps DEF ReaderInv
<1>10. Serving'
  BY <1>1, <1>2, <1>3 DEF ReaderInv, Serving, Held, OthersKeep, ReaderTypes
<1>11. HoldsMapped'
  BY <1>1, <1>2, <1>3 DEF ReaderInv, HoldsMapped, Sound
<1>12. FilesWhole'
  <2>1. /\ files'[creating[t]] \in {"sized", "headed", "whole"}
        /\ files'[creating[t]] \in {"sized", "headed"} => pc'[t] = "create"
        /\ pc'[t] = "create" => files'[creating[t]] \in {"sized", "headed"}
        /\ \A p \in Paths \ {creating[t]} : files'[p] = files[p]
    BY <1>3 DEF ReaderInv, ReaderTypes
  <2>2. \A s \in Threads \ {t} : pc'[s] # "create" /\ pc[s] # "create"
    BY <1>1, <1>2 DEF OthersKeep, Held
  <2>. QED BY <1>2, <1>3, <2>1, <2>2 DEF ReaderInv, FilesWhole
<1>13. Handlers'
  BY <1>1, <1>2, <1>3 DEF ReaderInv, Handlers, ReaderTypes, Threads
<1>14. Crashes'
  BY <1>1, <1>2, <1>3 DEF ReaderInv, Crashes, Held, Running, OthersKeep, ReaderTypes
<1>15. CrashesOnlyInReload'
  BY <1>1, <1>2, <1>3 DEF ReaderInv, CrashesOnlyInReload, Running
<1>. QED BY <1>4, <1>5, <1>6, <1>7, <1>8, <1>9, <1>10, <1>11, <1>12, <1>13, <1>14, <1>15 DEF ReaderInv

\* A call of the system fails: what was loaded stays mapped, and shows nowhere.
LEMMA LoadThrowsKeeps ==
  ASSUME ReaderInv, Running, NEW t \in Threads, LoadThrows(t), UNCHANGED request
  PROVE  ReaderInv'
<1>. USE DEF LoadThrows, Goto, localVars, mapVars, oldVars, historyVars, Throws, CallFails
<1>1. OthersKeep(t)
  BY DEF OthersKeep, ReaderInv, ReaderTypes
<1>2. pc[t] \in {"load", "create"} /\ \A s \in Threads \ {t} : pc[s] \notin Held
  <2>1. pc[t] \in {"load", "create"}
    OBVIOUS
  <2>. QED BY ONLY <2>1, Alone, ReaderInv, t \in Threads DEF Held, ReaderInv
<1>3. pc'[t] = "unlock" /\ failed' = "last" /\ creating' = [creating EXCEPT ![t] = NoPath]
  BY DEF ReaderInv, ReaderTypes
<1>4. failures' \in Nat /\ failures' > 0
  <2>1. failures \in Nat /\ failures' = failures + 1
    BY DEF ReaderInv, ReaderTypes
  <2>. QED BY ONLY <2>1
<1>5. ReaderTypes'
  <2>1. pc' \in [Threads -> Places]
    BY DEF ReaderInv, ReaderTypes, Places, Held
  <2>2. creating' \in [Threads -> Paths \cup {NoPath}]
    BY DEF ReaderInv, ReaderTypes
  <2>3. UNCHANGED <<_guard, _handler, conf, todo, built, _regions_map, old, freeing, mapped, request, files, clears,
                    restarts, applied, crash>>
    OBVIOUS
  <2>. HIDE DEF LoadThrows, CallFails
  <2>. QED BY <1>3, <1>4, <2>1, <2>2, <2>3 DEF ReaderInv, ReaderTypes
<1>6. GuardHeld'
  BY <1>1, <1>2, <1>3 DEF ReaderInv, GuardHeld, Held, OthersKeep
<1>7. MapWhole'
  BY DEF ReaderInv, MapWhole, Opens
<1>8. Clearing'
  BY <1>1, <1>2, <1>3 DEF ReaderInv, Clearing, Held, OthersKeep
<1>9. Accepted'
  BY <1>1, <1>2, <1>3 DEF ReaderInv, Accepted, Held, OthersKeep
<1>10. Building'
  BY <1>1, <1>2, <1>3 DEF ReaderInv, Building, Held, OthersKeep
<1>11. Serving'
  BY <1>3 DEF Serving
<1>12. HoldsMapped'
  BY DEF ReaderInv, HoldsMapped, Sound
<1>13. FilesWhole'
  <2>1. \A s \in Threads : pc'[s] # "create"
    BY <1>1, <1>2, <1>3 DEF OthersKeep, Held
  <2>. QED BY <1>4, <2>1 DEF FilesWhole
<1>14. Handlers'
  BY <1>1, <1>2, <1>3, <1>4 DEF ReaderInv, Handlers, ReaderTypes, Threads
<1>15. Crashes'
  BY <1>1, <1>2, <1>3, <1>4 DEF ReaderInv, Crashes, Held, Running, OthersKeep, ReaderTypes
<1>16. CrashesOnlyInReload'
  BY <1>1, <1>2, <1>3, <1>4 DEF ReaderInv, CrashesOnlyInReload, Running
<1>. QED BY <1>5, <1>6, <1>7, <1>8, <1>9, <1>10, <1>11, <1>12, <1>13, <1>14, <1>15, <1>16 DEF ReaderInv

\* The region that add_node refuses stays mapped.
LEMMA AddThrowsKeeps ==
  ASSUME ReaderInv, Running, NEW t \in Threads, AddThrows(t), UNCHANGED request
  PROVE  ReaderInv'
<1>. USE DEF AddThrows, Goto, localVars, mapVars, oldVars, historyVars, Throws, LoadRegion
<1>1. OthersKeep(t)
  BY DEF OthersKeep, ReaderInv, ReaderTypes
<1>2. pc[t] = "load" /\ \A s \in Threads \ {t} : pc[s] \notin Held
  BY Alone DEF Held, ReaderInv
<1>3. pc'[t] = "unlock" /\ failed' = "last" /\ creating' = [creating EXCEPT ![t] = NoPath]
  BY DEF ReaderInv, ReaderTypes
<1>4. PICK meta \in todo[t] : Opens(meta.path) /\ mapped' = mapped \cup {[path |-> meta.path, clear |-> clears]}
  BY DEF NextMetas, First
<1>5. meta.path \in Paths /\ meta.type \in Types /\ clears \in Nat
  BY <1>2, <1>4 DEF ReaderInv, ReaderTypes, Building, Accepted
<1>6. ReaderTypes'
  <2>1. pc' \in [Threads -> Places]
    BY DEF ReaderInv, ReaderTypes, Places, Held
  <2>2. creating' \in [Threads -> Paths \cup {NoPath}]
    BY DEF ReaderInv, ReaderTypes
  <2>3. mapped' \subseteq Regions
    <3>1. [path |-> meta.path, clear |-> clears] \in Regions
      BY <1>5 DEF Regions
    <3>. QED BY <1>4, <3>1 DEF ReaderInv, ReaderTypes
  <2>. QED BY <2>1, <2>2, <2>3 DEF ReaderInv, ReaderTypes
<1>7. GuardHeld'
  BY <1>1, <1>2, <1>3 DEF ReaderInv, GuardHeld, Held, OthersKeep
<1>8. MapWhole'
  BY <1>4 DEF ReaderInv, MapWhole, Opens
<1>9. Clearing'
  BY <1>1, <1>2, <1>3 DEF ReaderInv, Clearing, Held, OthersKeep
<1>10. Accepted'
  BY <1>1, <1>2, <1>3 DEF ReaderInv, Accepted, Held, OthersKeep
<1>11. Building'
  BY <1>1, <1>2, <1>3 DEF ReaderInv, Building, Held, OthersKeep
<1>12. Serving'
  BY <1>3 DEF Serving
<1>13. HoldsMapped'
  BY <1>4 DEF ReaderInv, HoldsMapped, Sound
<1>14. FilesWhole'
  BY <1>1, <1>2, <1>3, FilesKeep DEF ReaderInv
<1>15. Handlers'
  BY <1>1, <1>2, <1>3, <1>4, <1>5 DEF ReaderInv, Handlers, ReaderTypes, Threads
<1>16. Crashes'
  BY <1>1, <1>2, <1>3, <1>4, <1>5 DEF ReaderInv, Crashes, Held, Running, OthersKeep, ReaderTypes
<1>17. CrashesOnlyInReload'
  BY <1>1, <1>2, <1>3, <1>4, <1>5 DEF ReaderInv, CrashesOnlyInReload, Running
<1>. QED BY <1>6, <1>7, <1>8, <1>9, <1>10, <1>11, <1>12, <1>13, <1>14, <1>15, <1>16, <1>17 DEF ReaderInv

\* A file that an interrupted creation left.
LEMMA TooSmallThrowsKeeps ==
  ASSUME ReaderInv, Running, NEW t \in Threads, TooSmallThrows(t), UNCHANGED request
  PROVE  ReaderInv'
<1>. USE DEF TooSmallThrows, Goto, localVars, mapVars, oldVars, historyVars, Throws
<1>1. OthersKeep(t)
  BY DEF OthersKeep, ReaderInv, ReaderTypes
<1>2. pc[t] = "load" /\ \A s \in Threads \ {t} : pc[s] \notin Held
  BY Alone DEF Held, ReaderInv
<1>3. pc'[t] = "unlock" /\ failed' = "last" /\ creating' = [creating EXCEPT ![t] = NoPath]
  BY DEF ReaderInv, ReaderTypes
<1>4. ReaderTypes'
  <2>1. pc' \in [Threads -> Places]
    BY DEF ReaderInv, ReaderTypes, Places, Held
  <2>2. creating' \in [Threads -> Paths \cup {NoPath}]
    BY DEF ReaderInv, ReaderTypes
  <2>. QED BY <2>1, <2>2 DEF ReaderInv, ReaderTypes
<1>5. GuardHeld'
  BY <1>1, <1>2, <1>3 DEF ReaderInv, GuardHeld, Held, OthersKeep
<1>6. MapWhole'
  BY DEF ReaderInv, MapWhole, Opens
<1>7. Clearing'
  BY <1>1, <1>2, <1>3 DEF ReaderInv, Clearing, Held, OthersKeep
<1>8. Accepted'
  BY <1>1, <1>2, <1>3 DEF ReaderInv, Accepted, Held, OthersKeep
<1>9. Building'
  BY <1>1, <1>2, <1>3 DEF ReaderInv, Building, Held, OthersKeep
<1>10. Serving'
  BY <1>3 DEF Serving
<1>11. HoldsMapped'
  BY DEF ReaderInv, HoldsMapped, Sound
<1>12. FilesWhole'
  BY <1>1, <1>2, <1>3, FilesKeep DEF ReaderInv
<1>13. Handlers'
  BY <1>1, <1>2, <1>3 DEF ReaderInv, Handlers, ReaderTypes, Threads
<1>14. Crashes'
  BY <1>1, <1>2, <1>3 DEF ReaderInv, Crashes, Held, Running, OthersKeep, ReaderTypes
<1>15. CrashesOnlyInReload'
  BY <1>1, <1>2, <1>3 DEF ReaderInv, CrashesOnlyInReload, Running
<1>. QED BY <1>4, <1>5, <1>6, <1>7, <1>8, <1>9, <1>10, <1>11, <1>12, <1>13, <1>14, <1>15 DEF ReaderInv

\* No reload is creating the file: it was left by one that a failing call or the end of the process interrupted.
LEMMA TerminatesKeeps ==
  ASSUME ReaderInv, Running, NEW t \in Threads, Terminates(t), UNCHANGED request
  PROVE  ReaderInv'
<1>. USE DEF Terminates, Goto, localVars, mapVars, oldVars, historyVars
<1>1. OthersKeep(t)
  BY DEF OthersKeep, ReaderInv, ReaderTypes
<1>2. pc[t] = "load" /\ \A s \in Threads \ {t} : pc[s] \notin Held
  BY Alone DEF Held, ReaderInv
<1>3. ReaderTypes'
  BY <1>1, <1>2 DEF ReaderInv, ReaderTypes, Places, Held
<1>4. GuardHeld'
  BY <1>1, <1>2 DEF ReaderInv, ReaderTypes, GuardHeld, Held, Free, Threads
<1>5. MapWhole'
  BY <1>1, <1>2 DEF ReaderInv, MapWhole, Opens
<1>6. Clearing'
  BY <1>1, <1>2 DEF ReaderInv, Clearing, Held, OthersKeep, ReaderTypes
<1>7. Accepted'
  BY <1>1, <1>2 DEF ReaderInv, Accepted, Held, OthersKeep, ReaderTypes
<1>8. Building'
  BY ZenonT(30), <1>1, <1>2 DEF ReaderInv, Building, Held, OthersKeep, ReaderTypes
<1>9. Serving'
  BY <1>1, <1>2 DEF ReaderInv, Serving, Held, OthersKeep, ReaderTypes
<1>10. HoldsMapped'
  BY <1>1, <1>2 DEF ReaderInv, HoldsMapped, Sound
<1>11. FilesWhole'
  <2>1. pc'[t] # "create"
    BY DEF ReaderInv, ReaderTypes
  <2>. QED BY <1>1, <1>2, <2>1, FilesKeep DEF ReaderInv
<1>12. Handlers'
  BY <1>1, <1>2 DEF ReaderInv, Handlers, ReaderTypes, Threads
<1>13. Crashes'
  BY <1>1, <1>2 DEF ReaderInv, Crashes, Held, Running, OthersKeep, ReaderTypes
<1>14. CrashesOnlyInReload'
  <2>1. PICK meta \in todo[t] : files[meta.path] = "sized"
    BY DEF NextMetas, First, InvalidVersion
  <2>2. meta.path \in Paths
    BY <1>2, <2>1 DEF ReaderInv, Building, Accepted
  <2>3. \A s \in Threads : pc[s] # "create"
    BY <1>2 DEF Held
  <2>4. ~(failures = 0 /\ restarts = 0)
    BY <2>1, <2>2, <2>3 DEF ReaderInv, FilesWhole
  <2>5. failures > 0 \/ restarts > 0
    <3>1. failures \in Nat /\ restarts \in Nat
      BY DEF ReaderInv, ReaderTypes
    <3>. QED BY ONLY <2>4, <3>1
  <2>. QED BY <2>5 DEF CrashesOnlyInReload
<1>. QED BY <1>3, <1>4, <1>5, <1>6, <1>7, <1>8, <1>9, <1>10, <1>11, <1>12, <1>13, <1>14 DEF ReaderInv

\* All entries are loaded: the map that is published shows the content.
LEMMA PublishesKeeps ==
  ASSUME ReaderInv, Running, NEW t \in Threads, Publishes(t), UNCHANGED request
  PROVE  ReaderInv'
<1>. USE DEF Publishes, Goto, localVars, mapVars, oldVars, historyVars, Publish
<1>1. OthersKeep(t)
  BY DEF OthersKeep, ReaderInv, ReaderTypes
<1>2. pc[t] = "load" /\ \A s \in Threads \ {t} : pc[s] \notin Held
  BY Alone DEF Held, ReaderInv
<1>3. ReaderTypes'
  <2>1. pc' \in [Threads -> Places]
    BY DEF ReaderInv, ReaderTypes, Places, Held
  <2>2. IsMap(_regions_map')
    BY DEF ReaderInv, ReaderTypes
  <2>3. applied' \in Contents \cup {NoContent}
    BY DEF ReaderInv, ReaderTypes
  <2>. QED BY <2>1, <2>2, <2>3 DEF ReaderInv, ReaderTypes
<1>4. GuardHeld'
  BY <1>1, <1>2 DEF ReaderInv, ReaderTypes, GuardHeld, Held, Free, Threads
<1>5. MapWhole'
  BY <1>2 DEF ReaderInv, MapWhole, Building, Opens
<1>6. Clearing'
  BY <1>1, <1>2 DEF ReaderInv, Clearing, Held, OthersKeep, ReaderTypes
<1>7. Accepted'
  BY ZenonT(30), <1>1, <1>2 DEF ReaderInv, Accepted, Held, OthersKeep, ReaderTypes
<1>8. Building'
  BY ZenonT(30), <1>1, <1>2 DEF ReaderInv, Building, Held, OthersKeep, ReaderTypes
<1>9. Serving'
  <2>1. /\ _regions_map' = built[t] /\ applied' = conf[t] /\ pc'[t] = "tables"
        /\ mapped' = mapped /\ failed' = failed
    BY DEF ReaderInv, ReaderTypes
  <2>2. Shows(built[t], Metas(conf[t])) /\ (failed = "no" => mapped = RegionsOf(built[t]))
    <3>1. Metas(conf[t]) \ todo[t] = Metas(conf[t])
      OBVIOUS
    <3>. QED BY <1>2, <3>1 DEF ReaderInv, Building
  <2>. QED BY <2>1, <2>2 DEF Serving
<1>10. HoldsMapped'
  BY <1>1, <1>2 DEF ReaderInv, HoldsMapped, Sound
<1>11. FilesWhole'
  <2>1. pc'[t] # "create"
    BY DEF ReaderInv, ReaderTypes
  <2>. QED BY <1>1, <1>2, <2>1, FilesKeep DEF ReaderInv
<1>12. Handlers'
  BY <1>1, <1>2 DEF ReaderInv, Handlers, ReaderTypes, Threads
<1>13. Crashes'
  BY <1>1, <1>2 DEF ReaderInv, Crashes, Held, Running, OthersKeep, ReaderTypes
<1>14. CrashesOnlyInReload'
  BY <1>1, <1>2 DEF ReaderInv, CrashesOnlyInReload, Running
<1>. QED BY <1>3, <1>4, <1>5, <1>6, <1>7, <1>8, <1>9, <1>10, <1>11, <1>12, <1>13, <1>14 DEF ReaderInv

\* The table is loaded by the reload that has published the map.
LEMMA LoadTablesKeeps ==
  ASSUME ReaderInv, Running, NEW t \in Threads, LoadTables(t), UNCHANGED request
  PROVE  ReaderInv'
<1>. USE DEF LoadTables, Goto, localVars, mapVars, oldVars, historyVars, CreateFile
<1>1. OthersKeep(t)
  BY DEF OthersKeep, ReaderInv, ReaderTypes
<1>2. pc[t] = "tables" /\ \A s \in Threads \ {t} : pc[s] \notin Held
  BY Alone DEF Held, ReaderInv
<1>3. ReaderTypes'
  <2>1. pc' \in [Threads -> Places]
    BY DEF ReaderInv, ReaderTypes, Places, Held
  <2>2. files' \in [Paths -> {"absent", "empty", "sized", "headed", "whole"}]
    BY PathsAssumption DEF ReaderInv, ReaderTypes
  <2>. QED BY <2>1, <2>2 DEF ReaderInv, ReaderTypes
<1>4. GuardHeld'
  BY <1>1, <1>2 DEF ReaderInv, ReaderTypes, GuardHeld, Held, Free, Threads
<1>5. MapWhole'
  <2>1. \A p \in Paths : Opens(p) => Opens(p)'
    BY PathsAssumption DEF ReaderInv, ReaderTypes, Opens
  <2>2. \A r \in mapped : r.path \in Paths
    BY DEF ReaderInv, ReaderTypes, Regions
  <2>. QED BY <2>1, <2>2 DEF ReaderInv, MapWhole
<1>6. Clearing'
  BY <1>1, <1>2 DEF ReaderInv, Clearing, Held, OthersKeep, ReaderTypes
<1>7. Accepted'
  BY <1>1, <1>2 DEF ReaderInv, Accepted, Held, OthersKeep, ReaderTypes
<1>8. Building'
  BY ZenonT(30), <1>1, <1>2 DEF ReaderInv, Building, Held, OthersKeep, ReaderTypes
<1>9. Serving'
  <2>1. \A s \in Threads : pc[s] \notin {"release", "load", "create", "crashed"}
    BY <1>2 DEF Held
  <2>. QED BY <2>1 DEF ReaderInv, Serving
<1>10. HoldsMapped'
  BY <1>1, <1>2 DEF ReaderInv, HoldsMapped, Sound
<1>11. FilesWhole'
  <2>1. \A s \in Threads : pc[s] # "create" /\ pc'[s] # "create"
    BY <1>1, <1>2 DEF OthersKeep, Held, ReaderInv, ReaderTypes
  <2>2. \A p \in Paths : files'[p] \in {files[p], "whole"}
    BY DEF ReaderInv, ReaderTypes
  <2>. QED BY <2>1, <2>2 DEF ReaderInv, FilesWhole
<1>12. Handlers'
  BY <1>1, <1>2 DEF ReaderInv, Handlers, ReaderTypes, Threads
<1>13. Crashes'
  BY <1>1, <1>2 DEF ReaderInv, Crashes, Held, Running, OthersKeep, ReaderTypes
<1>14. CrashesOnlyInReload'
  BY <1>1, <1>2 DEF ReaderInv, CrashesOnlyInReload, Running
<1>. QED BY <1>3, <1>4, <1>5, <1>6, <1>7, <1>8, <1>9, <1>10, <1>11, <1>12, <1>13, <1>14 DEF ReaderInv

\* A region file is not touched; the call that fails is that of the table.
LEMMA TableLoadThrowsKeeps ==
  ASSUME ReaderInv, Running, NEW t \in Threads, TableLoadThrows(t), UNCHANGED request
  PROVE  ReaderInv'
<1>. USE DEF TableLoadThrows, Goto, localVars, mapVars, oldVars, historyVars, Throws, CallFails
<1>1. OthersKeep(t)
  BY DEF OthersKeep, ReaderInv, ReaderTypes
<1>2. pc[t] = "tables" /\ \A s \in Threads \ {t} : pc[s] \notin Held
  BY Alone DEF Held, ReaderInv
<1>3. pc'[t] = "unlock" /\ failed' = "last" /\ creating' = [creating EXCEPT ![t] = NoPath]
  BY DEF ReaderInv, ReaderTypes
<1>4. failures' \in Nat /\ (failures' > 0 \/ UNCHANGED <<failures, restarts>>)
  <2>1. failures \in Nat /\ (failures' = failures + 1 \/ UNCHANGED <<failures, restarts>>)
    BY DEF ReaderInv, ReaderTypes
  <2>. QED BY ONLY <2>1
<1>5. ReaderTypes'
  <2>1. pc' \in [Threads -> Places]
    BY DEF ReaderInv, ReaderTypes, Places, Held
  <2>2. creating' \in [Threads -> Paths \cup {NoPath}]
    BY DEF ReaderInv, ReaderTypes
  <2>3. UNCHANGED <<_guard, _handler, conf, todo, built, _regions_map, old, freeing, mapped, request, files, clears,
                    restarts, applied, crash>>
    OBVIOUS
  <2>. HIDE DEF TableLoadThrows, CallFails
  <2>. QED BY <1>3, <1>4, <2>1, <2>2, <2>3 DEF ReaderInv, ReaderTypes
<1>6. GuardHeld'
  BY <1>1, <1>2, <1>3 DEF ReaderInv, GuardHeld, Held, OthersKeep
<1>7. MapWhole'
  BY DEF ReaderInv, MapWhole, Opens
<1>8. Clearing'
  BY <1>1, <1>2, <1>3 DEF ReaderInv, Clearing, Held, OthersKeep
<1>9. Accepted'
  BY <1>1, <1>2, <1>3 DEF ReaderInv, Accepted, Held, OthersKeep
<1>10. Building'
  BY <1>1, <1>2, <1>3 DEF ReaderInv, Building, Held, OthersKeep
<1>11. Serving'
  BY <1>3 DEF Serving
<1>12. HoldsMapped'
  BY DEF ReaderInv, HoldsMapped, Sound
<1>13. FilesWhole'
  <2>1. \A s \in Threads : pc[s] # "create" /\ pc'[s] # "create"
    BY <1>1, <1>2, <1>3 DEF OthersKeep, Held
  <2>. QED BY <1>4, <2>1 DEF ReaderInv, FilesWhole
<1>14. Handlers'
  BY <1>1, <1>2, <1>3, <1>4 DEF ReaderInv, Handlers, ReaderTypes, Threads
<1>15. Crashes'
  BY <1>1, <1>2, <1>3, <1>4 DEF ReaderInv, Crashes, Held, Running, OthersKeep, ReaderTypes
<1>16. CrashesOnlyInReload'
  BY <1>1, <1>2, <1>3, <1>4 DEF ReaderInv, CrashesOnlyInReload, Running
<1>. QED BY <1>5, <1>6, <1>7, <1>8, <1>9, <1>10, <1>11, <1>12, <1>13, <1>14, <1>15, <1>16 DEF ReaderInv

\* The file of the table was not there, or stays as it is; the process ends because a call failed.
LEMMA TablesTerminateKeeps ==
  ASSUME ReaderInv, Running, NEW t \in Threads, TablesTerminate(t), UNCHANGED request
  PROVE  ReaderInv'
<1>. USE DEF TablesTerminate, Goto, localVars, mapVars, oldVars, historyVars, CreateFile, CallFails
<1>1. OthersKeep(t)
  BY DEF OthersKeep, ReaderInv, ReaderTypes
<1>2. pc[t] = "tables" /\ \A s \in Threads \ {t} : pc[s] \notin Held
  BY Alone DEF Held, ReaderInv
<1>3. failures' \in Nat /\ failures' > 0
  <2>1. failures \in Nat /\ failures' = failures + 1
    BY DEF ReaderInv, ReaderTypes
  <2>. QED BY ONLY <2>1
<1>4. TablePath \in Paths /\ files[TablePath] = "absent" /\ (files' = files \/ files' = [files EXCEPT ![TablePath] = "empty"])
  BY PathsAssumption DEF FileExists
<1>5. ReaderTypes'
  <2>1. pc' \in [Threads -> Places]
    BY DEF ReaderInv, ReaderTypes, Places, Held
  <2>2. files' \in [Paths -> {"absent", "empty", "sized", "headed", "whole"}]
    BY <1>4 DEF ReaderInv, ReaderTypes
  <2>3. UNCHANGED <<_guard, _handler, conf, todo, built, creating, _regions_map, old, freeing, mapped, request, clears,
                    restarts, failed, applied>> /\ crash' = "terminate"
    OBVIOUS
  <2>. HIDE DEF TablesTerminate, CallFails
  <2>. QED BY <1>3, <2>1, <2>2, <2>3 DEF ReaderInv, ReaderTypes
<1>6. GuardHeld'
  BY <1>1, <1>2, <1>3, <1>4 DEF ReaderInv, ReaderTypes, GuardHeld, Held, Free, Threads
<1>7. MapWhole'
  <2>1. \A p \in Paths : Opens(p) => Opens(p)'
    BY <1>4 DEF ReaderInv, ReaderTypes, Opens
  <2>2. \A r \in mapped : r.path \in Paths
    BY DEF ReaderInv, ReaderTypes, Regions
  <2>. QED BY <2>1, <2>2 DEF ReaderInv, MapWhole
<1>8. Clearing'
  BY <1>1, <1>2, <1>3, <1>4 DEF ReaderInv, Clearing, Held, OthersKeep, ReaderTypes
<1>9. Accepted'
  BY <1>1, <1>2, <1>3, <1>4 DEF ReaderInv, Accepted, Held, OthersKeep, ReaderTypes
<1>10. Building'
  BY ZenonT(30), <1>1, <1>2, <1>3, <1>4 DEF ReaderInv, Building, Held, OthersKeep, ReaderTypes
<1>11. Serving'
  BY <1>1, <1>2, <1>3, <1>4 DEF ReaderInv, Serving, Held, OthersKeep, ReaderTypes
<1>12. HoldsMapped'
  BY <1>1, <1>2, <1>3, <1>4 DEF ReaderInv, HoldsMapped, Sound
<1>13. FilesWhole'
  <2>1. \A s \in Threads : pc'[s] # "create"
    BY <1>1, <1>2 DEF OthersKeep, Held, ReaderInv, ReaderTypes
  <2>. QED BY <1>3, <2>1 DEF FilesWhole
<1>14. Handlers'
  BY <1>1, <1>2, <1>3, <1>4 DEF ReaderInv, Handlers, ReaderTypes, Threads
<1>15. Crashes'
  BY <1>1, <1>2, <1>3, <1>4 DEF ReaderInv, Crashes, Held, Running, OthersKeep, ReaderTypes
<1>16. CrashesOnlyInReload'
  BY <1>3 DEF CrashesOnlyInReload
<1>. QED BY <1>5, <1>6, <1>7, <1>8, <1>9, <1>10, <1>11, <1>12, <1>13, <1>14, <1>15, <1>16 DEF ReaderInv

-----------------------------------------------------------------------------
(* The theorems.                                                           *)

LEMMA ReaderInit ==
  ASSUME Init
  PROVE  ReaderInv
<1>. USE DEF Init, RegionManagerInit, StartPc
<1>1. ReaderTypes
  <2>1. request \in [Requests -> RequestStates]
    <3>1. Idle \in RequestStates
      BY EmptyShows, MapsAre DEF Idle, RequestStates, Steps
    <3>. QED BY <3>1
  <2>2. IsMap(_regions_map) /\ (\A t \in Threads : IsMap(built[t])) /\ DOMAIN built = Threads
    BY EmptyShows
  <2>3. files \in [Paths -> {"absent", "empty", "sized", "headed", "whole"}]
    OBVIOUS
  <2>. QED BY <2>1, <2>2, <2>3 DEF ReaderTypes, Places
<1>2. GuardHeld
  BY DEF GuardHeld, Held, Free, Threads
<1>3. MapWhole
  BY EmptyShows DEF MapWhole
<1>4. Clearing /\ Accepted /\ Building
  BY DEF Clearing, Accepted, Building
<1>5. Serving
  BY EmptyShows DEF Serving
<1>6. HoldsMapped
  BY DEF HoldsMapped, Sound, Idle
<1>7. FilesWhole
  BY DEF FilesWhole
<1>8. Handlers /\ Crashes /\ CrashesOnlyInReload
  BY DEF Handlers, Crashes, CrashesOnlyInReload
<1>. QED BY <1>1, <1>2, <1>3, <1>4, <1>5, <1>6, <1>7, <1>8 DEF ReaderInv

\* The process starts anew: only the files outlive it, and it has been restarted.
LEMMA RestartKeeps ==
  ASSUME ReaderInv, Restart
  PROVE  ReaderInv'
<1>. USE DEF Restart, StartPc
<1>1. restarts' \in Nat /\ restarts' > 0
  <2>1. restarts \in Nat /\ restarts' = restarts + 1
    BY DEF ReaderInv, ReaderTypes
  <2>. QED BY ONLY <2>1
<1>2. ReaderTypes'
  <2>1. request' \in [Requests -> RequestStates]
    <3>1. Idle \in RequestStates
      BY EmptyShows, MapsAre DEF Idle, RequestStates, Steps
    <3>. QED BY <3>1
  <2>2. IsMap(_regions_map') /\ (\A t \in Threads : IsMap(built'[t])) /\ DOMAIN built' = Threads
    BY EmptyShows
  <2>. QED BY <1>1, <2>1, <2>2 DEF ReaderInv, ReaderTypes, Places
<1>3. GuardHeld'
  BY DEF GuardHeld, Held, Free, Threads
<1>4. MapWhole'
  BY EmptyShows DEF MapWhole
<1>5. (Clearing /\ Accepted /\ Building)'
  BY DEF Clearing, Accepted, Building
<1>6. Serving'
  BY EmptyShows DEF Serving
<1>7. HoldsMapped'
  BY DEF HoldsMapped, Sound, Idle
<1>8. FilesWhole'
  BY <1>1 DEF FilesWhole
<1>9. (Handlers /\ Crashes /\ CrashesOnlyInReload)'
  BY DEF Handlers, Crashes, CrashesOnlyInReload
<1>. QED BY <1>2, <1>3, <1>4, <1>5, <1>6, <1>7, <1>8, <1>9 DEF ReaderInv

LEMMA ReloadKeeps ==
  ASSUME ReaderInv, Running, NEW t \in Threads, ReloadStep(t), UNCHANGED request
  PROVE  ReaderInv'
BY LockKeeps, ReadTerminatesKeeps, CallHandlerKeeps, CallHalfKeeps, ReleaseKeeps, ClearReturnsKeeps, LoadKeeps, CreateRegionKeeps,
   WriteRegionKeeps, LoadThrowsKeeps, AddThrowsKeeps, TooSmallThrowsKeeps, TerminatesKeeps, PublishesKeeps,
   LoadTablesKeeps, TableLoadThrowsKeeps, TablesTerminateKeeps, UnlockKeeps DEF ReloadStep

\* ConfigurationReader.h, RegionManager.h: what holds between the guard, the place of the reload, the map, the mapped
\* regions, the files and the requests, in every state.
THEOREM ReaderInvHolds == Spec => []ReaderInv
<1>1. Init => ReaderInv
  BY ReaderInit
<1>2. ReaderInv /\ [Next]_vars => ReaderInv'
  <2>. SUFFICES ASSUME ReaderInv, [Next]_vars PROVE ReaderInv'
    OBVIOUS
  <2>1. CASE MainStep
    BY <2>1, ReloadKeeps, StartKeeps DEF MainStep, Threads
  <2>2. CASE WatchStep
    BY <2>2, ReloadKeeps, StartKeeps DEF WatchStep, Threads
  <2>3. CASE RequestsStep
    BY <2>3, RequestKeeps DEF RequestsStep
  <2>4. CASE EditorStep
    BY <2>4, EditorKeeps DEF EditorStep
  <2>5. CASE Restart
    BY <2>5, RestartKeeps
  <2>6. CASE UNCHANGED vars
    BY <2>6, EditorKeeps DEF vars, editorVars
  <2>. QED BY <2>1, <2>2, <2>3, <2>4, <2>5, <2>6 DEF Next
<1>. QED BY <1>1, <1>2, PTL DEF Spec

\* conf/ConfigurationReader.h, RegionManager.h: for any contents, threads of requests, failures and restarts, the map shows
\* only mapped regions with a header, and outside reload the map and the mapped regions are those of one content, with the
\* table of the same reload.
THEOREM RegionsWholeHolds == Spec => []RegionsWhole
<1>1. ReaderInv => RegionsWhole
  <2>. SUFFICES ASSUME ReaderInv PROVE RegionsWhole
    OBVIOUS
  <2>1. ASSUME _guard = Free, failed = "no", applied # NoContent
        PROVE  /\ mapped = RegionsOf(_regions_map) /\ Shows(_regions_map, Metas(applied))
               /\ fragment_tbl = clears
    <3>1. \A t \in Threads : pc[t] \notin Held
      BY <2>1 DEF ReaderInv, GuardHeld, Free, Threads
    <3>. QED BY <2>1, <3>1 DEF ReaderInv, Serving, Held
  <2>2. ASSUME Shows(_regions_map, Metas(applied)), NEW t \in Types
        PROVE  {e.path : e \in {e \in Metas(applied) : e.type = t}} =
               {r.path : r \in IF t \in DOMAIN _regions_map THEN _regions_map[t] ELSE {}}
    <3>1. CASE t \in DOMAIN _regions_map
      BY <2>2, <3>1 DEF Shows
    <3>2. CASE t \notin DOMAIN _regions_map
      BY <2>2, <3>2 DEF Shows
    <3>. QED BY <3>1, <3>2
  <2>3. RegionsOf(_regions_map) \subseteq mapped /\ \A r \in mapped : Opens(r.path)
    BY DEF ReaderInv, MapWhole
  <2>. QED BY <2>1, <2>2, <2>3 DEF RegionsWhole
<1>. QED BY <1>1, ReaderInvHolds, PTL

\* RegionManager::get_region, Region::release_ptr, on_changed: the process ends only in the ways that CrashesOnlyInReload names.
THEOREM CrashesOnlyInReloadHolds == Spec => []CrashesOnlyInReload
<1>1. ReaderInv => CrashesOnlyInReload
  BY DEF ReaderInv
<1>. QED BY <1>1, ReaderInvHolds, PTL

==============================================================================
