---------------------------- MODULE RegionManager ----------------------------
(***************************************************************************)
(* RegionManager.h: the map from fragment types to rings of mapped         *)
(* regions, reloaded by one thread while requests (store and fetch) look   *)
(* regions up and use them.  A region is a mapping of a file: its path and *)
(* the number of the reload that mapped it.  The SeqLock around the map    *)
(* lets no read through while the callback of _clear releases regions; a   *)
(* request that has read the map before goes on with what it has read.  Of *)
(* the SeqLock this keeps the current version and the one replaced last:   *)
(* its early reads and its reuse of a slot after 128 writes are those of   *)
(* SeqLock.tla.                                                            *)
(* The files outlive the process: Region.h and FragmentTable.h create them *)
(* in several writes and take any file that is there for a complete one.   *)
(***************************************************************************)
EXTENDS Integers, FiniteSets, Functions

CONSTANTS
    Types,      \* fragment types
    Requests,   \* calls of store and fetch
    Paths,      \* files of regions and of the table
    NoRegion,
    NoType

ASSUME NoTypeAssumption == NoType \notin Types

VARIABLES
    _regions_map, \* the published map: type -> the set of regions of its ring
    clearing,     \* write is in the callback of _clear
    old,          \* in it: the rings of the old map that are not cleared yet
    freeing,      \* in it: what is being freed, "nothing", the "ring" or the "map"
    mapped,       \* the regions that are mapped
    request,      \* where a request is: [at, type, region, shows, since]
    files,        \* how far the creation of each file came
    clears,       \* times _clear was called: history
    crash         \* how the process ended, "no" while it runs

oldVars == <<old, freeing>>
mapVars == <<_regions_map, clearing, oldVars, mapped, clears>>

EmptyMap == [t \in {} |-> {}]
RegionsOf(map) == UNION {map[t] : t \in DOMAIN map}
Idle == [at |-> "idle", type |-> NoType, region |-> NoRegion, shows |-> EmptyMap, since |-> 0]

RegionManagerInit ==
    /\ _regions_map = EmptyMap
    /\ clearing = FALSE
    /\ old = EmptyMap /\ freeing = "nothing"
    /\ mapped = {}
    /\ request = [r \in Requests |-> Idle]
    /\ files = [p \in Paths |-> "absent"]
    /\ clears = 0
    /\ crash = "no"

-----------------------------------------------------------------------------
(* reload, run by the thread that holds the guard of ConfigurationReader   *)

\* The callback of _clear gets the old map.
TearsDown ==
    /\ ~clearing
    /\ clearing' = TRUE
    /\ old' = _regions_map
    /\ clears' = clears + 1
    /\ UNCHANGED <<freeing, mapped>>

\* Mutant: _clear leaves the map that it tears down published.
ClearKeeping == TearsDown /\ UNCHANGED _regions_map

\* _clear, until its callback has the old map.
Clear == TearsDown /\ _regions_map' = EmptyMap

\* The ring that is torn down next: types are in ascending order.
NextRing(t) == t \in DOMAIN old /\ \A s \in DOMAIN old : t <= s

ReleaseRegion ==
    /\ clearing
    /\ \E t \in DOMAIN old : NextRing(t) /\ (\E region \in old[t] \cap mapped : mapped' = mapped \ {region})
    /\ UNCHANGED <<_regions_map, clearing, oldVars, clears>>

\* HashRing::clear begins to free the ring and its nodes, and has freed them.
FreeRing ==
    /\ clearing /\ freeing = "nothing"
    /\ old # EmptyMap /\ \A t \in DOMAIN old : NextRing(t) => old[t] \cap mapped = {}
    /\ freeing' = "ring"
    /\ UNCHANGED <<_regions_map, clearing, old, mapped, clears>>

RingFreed ==
    /\ freeing = "ring"
    /\ old' = Restrict(old, {t \in DOMAIN old : ~NextRing(t)})
    /\ freeing' = "nothing"
    /\ UNCHANGED <<_regions_map, clearing, mapped, clears>>

\* regions_map.clear() begins, and has emptied the old map: the callback and write return.
FreeMap ==
    /\ clearing /\ old = EmptyMap /\ freeing = "nothing"
    /\ freeing' = "map"
    /\ UNCHANGED <<_regions_map, clearing, old, mapped, clears>>

Cleared ==
    /\ freeing = "map"
    /\ clearing' = FALSE /\ freeing' = "nothing"
    /\ UNCHANGED <<_regions_map, old, mapped, clears>>

TearDown == ReleaseRegion \/ FreeRing \/ RingFreed \/ FreeMap

\* Region::from_file: a new mapping (the file keeps its type and capacity, whatever meta says).
LoadRegion(meta) ==
    /\ mapped' = mapped \cup {[path |-> meta.path, clear |-> clears]}
    /\ UNCHANGED <<_regions_map, clearing, oldVars, clears>>

FileExists(path) == files[path] # "absent"

\* What from_file looks at: a size of at least the header, then the version in it.
TooSmall(path) == files[path] = "empty"
InvalidVersion(path) == files[path] = "sized"
Opens(path) == files[path] \in {"headed", "whole"}

\* Region::create_ptr: open, ftruncate, the write of header and time table, those of the fragments.
NextStage == [absent |-> "empty", empty |-> "sized", sized |-> "headed", headed |-> "whole"]
CreateFile(path, stage) == files' = [files EXCEPT ![path] = stage]

\* add_node on the ring of the type of meta, in the map under construction.
Added(map, meta) ==
    [t \in DOMAIN map \cup {meta.type} |->
        (IF t \in DOMAIN map THEN map[t] ELSE {})
        \cup {r \in {[path |-> meta.path, clear |-> clears]} : t = meta.type}]

AddFails(map, meta) ==
    /\ meta.type \in DOMAIN map
    /\ \E r \in map[meta.type] : r.path = meta.path

Publish(map) ==
    /\ _regions_map' = map
    /\ UNCHANGED <<clearing, oldVars, mapped, clears>>

-----------------------------------------------------------------------------
(* Requests                                                                *)

Moves(r, state) == request' = [request EXCEPT ![r] = state]

\* query_region of a dynamic type: guess_type chooses among the rings of the map.
Guess(r) ==
    /\ request[r].at = "idle" /\ ~clearing
    /\ \E t \in DOMAIN _regions_map : Moves(r, [request[r] EXCEPT !.at = "typed", !.type = t])
    /\ UNCHANGED crash

\* get_region, for a type that was guessed, is fixed by the resource, or stands in its table entry:
\* read returns a reference to the map.
ReadMap(r, t) ==
    /\ request[r].at = "idle" \/ (request[r].at = "typed" /\ request[r].type = t)
    /\ ~clearing
    /\ Moves(r, [at |-> "read", type |-> t, region |-> NoRegion, shows |-> _regions_map, since |-> clears])
    /\ UNCHANGED crash

\* The map that r has read, and the ring of its type, are there until _clear frees them and are gone
\* from then on; while they are being freed, either may be met, or the process crashes.
LastReplaced(r) == clearing /\ request[r].since + 1 = clears
MapStands(r) == request[r].since = clears \/ LastReplaced(r)
MapGone(r) == request[r].since < clears /\ (LastReplaced(r) => freeing = "map")
RingStands(r) == request[r].since = clears \/ (LastReplaced(r) /\ request[r].type \in DOMAIN old)
RingGone(r) == request[r].since < clears /\ (RingStands(r) => NextRing(request[r].type) /\ freeing = "ring")

CrashesAs(r, end) ==
    /\ crash' = end
    /\ Moves(r, [request[r] EXCEPT !.at = "crashed"])

UsesFreed(r) ==
    /\ \/ request[r].at = "read" /\ MapStands(r) /\ MapGone(r)
       \/ request[r].at = "copied" /\ RingStands(r) /\ RingGone(r)
       \/ request[r].at = "found" /\ RingGone(r)
    /\ CrashesAs(r, "freed")

\* The copy of the map holds the ring of the type, or no ring: the pointer to it is then null.
CopyMap(r) ==
    /\ request[r].at = "read"
    /\ \/ /\ MapStands(r) /\ request[r].type \in DOMAIN request[r].shows
          /\ Moves(r, [request[r] EXCEPT !.at = "copied"])
          /\ UNCHANGED crash
       \/ /\ MapGone(r) \/ request[r].type \notin DOMAIN request[r].shows
          /\ CrashesAs(r, "no ring")

\* find_node, on a cleared ring nothing is found: get_region throws.
FindNode(r) ==
    /\ request[r].at = "copied"
    /\ \/ /\ RingStands(r)
          /\ \E region \in request[r].shows[request[r].type] :
                Moves(r, [request[r] EXCEPT !.at = "found", !.region = region])
       \/ RingGone(r) /\ Moves(r, Idle)
    /\ UNCHANGED crash

\* get_region returns the region that the node holds.
TakeRegion(r) ==
    /\ request[r].at = "found"
    /\ Moves(r, [request[r] EXCEPT !.at = "holds"])
    /\ UNCHANGED crash

\* Reads or writes through the pointer that get_region returned; the last one ends the request.
Use(r) ==
    /\ request[r].at = "holds"
    /\ \/ /\ request[r].region \in mapped
          /\ Moves(r, Idle)
          /\ UNCHANGED crash
       \/ /\ request[r].region \notin mapped
          /\ CrashesAs(r, "released")

RequestStep(r) ==
    /\ \/ Guess(r) \/ (\E t \in Types : ReadMap(r, t)) \/ CopyMap(r) \/ FindNode(r) \/ TakeRegion(r)
       \/ UsesFreed(r) \/ Use(r)
    /\ UNCHANGED mapVars

==============================================================================
