# A verification project for catchy

catchy is an on-disk cache library in C++. It keeps objects in *regions* (memory-mapped
files cut into fragments of equal size) and finds them through an index in shared memory.
All of its tables are lock-free: bitmaps, rings and lists of atomic words that threads,
and processes that map the same file, change with compare-and-swap. This directory holds TLA+
models of those tables, the TLC configurations that check them on small instances, and
TLAPS proofs for every size. Paths are those of the repository; `Region.h` is `src/Region.h`.

## 1. The system

| Component | State it keeps | Operations | Correct when |
|---|---|---|---|
| **Region** (`Region.h`) | a file; bitmap `state`, counter `fragment_avail`, search hint `last_free_fragment`, a TimeTable, the fragments | `load`, `reserve_fragments`, `_write_fragment`, `free_fragments`, `free_oldest`, `get_jumps`, `read_fragment` | no fragment has two owners; an admitted call gets its fragments; counter and bitmap agree; nothing leaks |
| **TimeTable** (`TimeTable.h`) | ring `first`, `last`, array of keys | `write_entry` (reserve, then write), `free_entry`, `get_entry` | keys leave in the order of reservation, once; refusals mean what they say |
| **JumpTable** (`JumpTable.h`) | bitmap `state`, counter `entry_avail`, hint `last_free_entry`, entries linked by `next` | `reserve_entries`, `free_entries`, `clear` | chains are disjoint, linked, as long as asked for; nothing leaks |
| **FragmentTable** (`FragmentTable.h`, entries in `FragmentEntry.h`) | a file; hash heads, tails, a pool list of tails (`tail_first`, `tail_last`, `tail_avail`), a JumpTable | `load`, `reserve_entry` (object, name), `free_entry`, `get_entry`, `get_fragment_indices`, `update_region_head`, `update_jump_entry`, `clear` | exactly the reserved keys are found; no entry or jump chain has two owners; the pool is whole |
| **SeqLock** (`lock/SeqLock.h`) | pool of 128 versions, current pointer, sequence numbers | `read`, `write` | a reader gets one version that was current, never a mixture |
| **EventEmitter** (`events/EventEmitter.h`) | map of listeners behind a SeqLock, a counter of ids | `on`, `once`, `emit`, `remove_listener`, `remove_listeners`, `remove_all_listeners` | no registration is lost; an emit reaches every listener; `once` is once; calls return |
| **HashRing** (`HashRing.h`, `hash/hash_ring.cpp`) | list of nodes, sorted array of their items, counters, a map of nodes | `add_node`, `remove_node`, `find_node`, `find_nodes`, `clear` | list, array, counters and map agree; a key belongs to its successor; few keys move |
| **RegionManager** (`RegionManager.h`) | map from types to rings of regions, behind a SeqLock | `reload`, `guess_type`, `query_region`, `get_region` | the map shows mapped regions of one configuration; no call uses a region that was released |
| **ConfigurationReader**, **Watcher** (`conf/`, `Watcher.h`) | configuration, handler, guard; a thread around a libuv loop, two flags | constructor, `reload`, `on_changed`; `watch_start`, the callback, its timer | what is in the file is what is loaded, in the end |
| **DiskCache** (`DiskCache.h`), **Session** (`downloader/session.h`) | nothing of its own: it composes the others | `store` and its handlers, `_free_fragments` (eviction), both `fetch`, `init` | a stored object can be fetched; eviction makes room; every session is decided |
| **Hash functions** (`hash/md5.cpp`, `sha1.cpp`, `xxhash.cpp`) | the state of a stream | init, append/update, finish/digest | the digest depends on the message, not on how it was cut |
| **Fragment**, utilities, logging, SpinLock, RwLock, entry point | buffers, none shared | formatting, locking | (sequential) |

How they interact:

- *store*: `DiskCache::store` asks `RegionManager::query_region` for a region (HashRing;
  the map is read under a SeqLock), then `Region::reserve_fragments`, which claims the counter,
  scans the bitmap once per fragment and enters the key in the region's TimeTable
  (`write_entry`). `Region::get_jumps` turns the indices into distances of 8 bits, and
  `FragmentTable::reserve_entry` stores them in a chain from `JumpTable::reserve_entries`.
- *eviction*: `DiskCache::_free_fragments` calls `Region::free_oldest`
  (`TimeTable::free_entry`) for a key, `FragmentTable::free_entry` to forget it, and
  `Region::free_fragments` to give its fragments back.
- *fetch*: `FragmentTable::get_entry`, then `Region::read_fragment` along the jumps.
- *configuration*: Watcher → `ConfigurationReader::reload` under its guard → handler of DiskCache →
  `RegionManager::reload` (clear the map, release its regions, load the new ones, publish) → `FragmentTable::load`.
- *events*: `DiskCache::store` takes a Session from the downloader, whose init, data and end run the handlers of `store` through an EventEmitter.

What is hard here:

- **Interleaving.** Counter, bitmap, hint and list are separate words. Each call goes through
  states where they disagree, and relies on others to do the same in the same order.
- **Staleness.** Nearly every operation loads a word, decides, and swaps later; some swaps ignore
  their result (FragmentEntry), one gives up after one try on purpose (the scans), and one is open
  to ABA (the pool of tails). References into versions, and pointers to regions, outlive what they point to.
- **Limits.** Full and empty tables, wrapping indices, scans that end, 16-bit tags, counters of bits and bytes.
- **Partial failure.** A call that throws half-way keeps what it took; a file that was half created is taken for a whole one.
- **Lost events.** A write of the configuration is two events, which may be merged or dropped; an init may come before its handler.
- **Sequences of legal calls**, without any concurrency, that break a list or a bitmap.

PROJECT.json lists the hazards one by one, each at its line with the properties that watch it.

## 2. The modules

| Module | Models |
|---|---|
| `TimeRing` | ring arithmetic shared by the views of the time table |
| `Region`, `RegionProps`, `MCRegion` | the allocator of a region and its properties |
| `Layout` | sizes and offsets in bytes, of a region's file and of a FragmentTable |
| `RegionProofs` | theorems about the layout, a region that is filled, and one whose fragments are freed |
| `TimeLru` | abstract specification: a list whose keys leave in order |
| `TimeTable`, `TimeTableProps`, `MCTimeTable` | the ring, and that it implements `TimeLru` |
| `TimeTableProofs` | the same as theorems |
| `JumpTable`, `JumpTableProps`, `MCJumpTable` | the pool of jump entries |
| `JumpTableProofs` | theorems about the pool, with frees |
| `FragmentTable`, `FragmentTableProps`, `MCFragmentTable` | the index, with FragmentEntry; the jump table seen from outside |
| `FragmentTableProofs` | theorems about the index: its four properties for every size |
| `SeqLock` | the lock and its properties |
| `EventEmitter`, `EventEmitterProofs` | the emitter, which EXTENDS `SeqLock`: the lock's steps are its steps; and theorems about both |
| `HashRing` | the ring of nodes with its list, array, counters and map |
| `Watcher`, `RegionManager`, `ConfigurationReader`, `MCConfigurationReader` | the watch, the map with the files and the requests, and the reader that composes both |
| `ConfigurationReaderProofs` | theorems about that composition |
| `Floats` | the single precision arithmetic in which fragments are counted |
| `JumpChains`, `DiskCache`, `DiskCacheProofs`, `MCDiskCache` | what the entries of jumps hold; `store`, `_free_fragments`, `fetch` over tables whose calls are steps; theorems about eviction, reservations, chains of jumps and fetch |
| `Bytes`, `Md5`, `Sha1`, `XxHash`, `HashStreams` | the streams of the hash functions as operators, and one message fed to all of them |
| `HashProofs` | theorems about the ring of nodes and about the streams |

`EventEmitter` is SeqLock step by step; `RegionManager` takes from it that a write is atomic and that no
read passes while its callback runs. `DiskCache` takes each call of a table as one step, which the modules of those tables are
about. It takes the lowest free fragments: what `NoGapBehindScan` shows of a region from which nothing was freed, and nothing is, since
`delta` in `_free_fragments` is the difference of two reads of a constant.

Conventions, the same everywhere:

- **A step is one access to a shared word.** A load and the compare-and-swap that uses it
  are two steps, with all other threads in between. Two kinds of steps are merged: a loop "load,
  compute, compare-and-swap, retry" on *one* word with no other effect is the single step of
  its successful round (its failed rounds change nothing); and reading immutable data and
  locals goes with the step next to it. How many rounds such a loop takes is left open: other threads may send it back
  for ever, and no property is about that. `pc[t]`, or `call[t].pc`, is where thread t stands, named after
  what comes next.
- **Accesses are sequentially consistent,** as `std::atomic` is by default. The few plain
  fields (keys of the time table, data of entries) are read and written in steps of their own.
- **A bitmap is the set of its bits that are 1.** `BucketBits` bits share an atomic byte (8 in the code; 2 in
  the runs, so that three fragments span two bytes), because a swap fails when *any* bit of the byte has changed.
- **The uninitialised byte** (`Region.h:344`, `JumpTable.h:275`) is a nondeterministic
  choice of all bits but the one freed (`Desired`). `clobbered` remembers that a foreign bit was
  changed: what should hold with the byte computed as in `reserve` is stated for `~clobbered`.
- **An exception** ends the call where it is thrown; what the call had taken is recorded in a history
  variable (`lost`, `short`, `ghosts`, `failed`), which no guard reads. One that its function does not declare ends the process (`crash`).
- **A run never goes past undefined behaviour**: a null or dangling pointer is `crashed`, or a history variable that the properties exclude.
- **Mutated operators** ("Mutant: ...") stand before the operators they break. They are used by nothing
  in the specification; PROJECT.json names the property that each of them violates.

### Region

| Code | Model |
|---|---|
| `state`, `fragment_avail`, `last_free_fragment` | variables of these names |
| `table` (TimeTable) | `time_table`; `write_entry` and `free_entry` are one step each |
| `reserve_fragments` | `ReserveFragments` (counter), then per fragment `StartScan`, `ProbeFree`/`ProbeTaken`, `CasAcquire`/`CasFail`, then `WriteEntry` or `WriteEntryThrows` |
| `_write_fragment`, `write_fragment` | `WriteFragment`, the same scan, `Store` or `StoreThrows` |
| `free_oldest`, then `free_fragments` on what it returned | `FreeOldest`, or `FreeOldestRefused`; per fragment `FreeLoad`, `FreeStore`/`FreeCas`, `FreeLast`, at last `FreeAvail` |
| the record of who owns what (FragmentTable) | history `objects`; `FreeWritten` frees a fragment of `_write_fragment` |

The scan is taken as it is: it wraps only past `Capacity + 1`, gives up after `Capacity - 1`
probes returning an index it does not own, and a failed swap uses up a probe. `FillSpec` is the
specification without the actions that free, `Spec` has all of them.

### Layout

Operators, no state. `Offset` is where `write_fragment` and `read_fragment` go, `MemSize` is `calculate_mem_size`, `FileSize` is
`calculate_size`; `TimeEntryAt` is `TimeTable::get_entry`. `HeadAt`, `TailAt`, `StateAt`, `JumpEntryAt` are where the entries of a FragmentTable
and of the JumpTable behind it begin. What is computed in a `uint32_t` is taken modulo `WordSize`, `header_size` modulo `HalfSize`;
pointer arithmetic does not wrap. The sizes of the structures are constants: small ones in the runs, since TLC's own
integers have 32 bits, and those of an x86-64 build in `BuildSizes` for the theorems.

### TimeTable

`first`, `last` and `entry` are the fields. `write_entry` is `WriteEntry` (is_full's load of
`last`), `NotFull` or `WriteRefused` (its load of `first`), `ReserveEntry` (advance `last`) and `Write`; `free_entry` is
`LoadFirst`, `NotEmpty` or `FreeEntryRefused`, `ReadEntry`, and `FreeEntry` or
`FreeRetry`. `TimeLru` is what the header promises, "a LRU list": `Reserve`, `Write`, `Evict`. The
refinement mapping is `slots` = entries below `last`, `taken` = `first`, `returned` = the keys
evicted. `TimeLru` lets an eviction return an entry nobody wrote yet, because the code does.

### JumpTable

`state`, `entry_avail`, `last_free_entry` and `next` are the fields. `reserve_entries` checks the
counter, claims it later (`Claim`, modulo `Word`), scans from the hint to the end without
wrapping (`ProbeFree`, `ProbeTaken`, `CasAcquire`, `CasFail`), throws (`ScanThrows`) or comes back short (`ScanShort`), moves the hint
(`UpdateHint`) and links the chain (`ChainEntries`). `free_entries` walks the links, freeing each
entry in three steps. `chains[o]` is the history of what each caller was given.

### FragmentTable

`entry[e]` is a FragmentEntry: `type` and `tag` share an atomic word, `next` is another, `jump_head` is
plain data (the key of a name overlays it). `call[t]` is the record of a thread's locals.

| Code | Model |
|---|---|
| `FragmentEntry::is_free(true)`, `set_type`, `set_tag`, `set_next` | `LoadWord` or `LoadNext`, then one swap that may fail unnoticed (`CasType`, `CasTag`, `CasNext`) |
| `_acquire_entry` | `ReserveEntry`, `Acquire`/`AcquireFail`, then `CheckTag`, `AtTail`, `Step` along the chain |
| `_reserve_tail_entry` | `Avail`, `LoadFirst`, `LoadSecond`, `Pop`/`PopRetry`, `PopAvail` |
| linking the tail | `Append` |
| `reserve_entry` | `SetTag`, `SetType`, `SetNext`, then `KeepJumps`, `WriteJumps`, `WriteName` or `JumpsThrow` |
| `free_entry` | `FreeEntry`, `HeadIsFree`, `ChainIsEmpty`, `Match`, `Follow`, `Last`, `FreeJumps`, `FreeType`, `ReadNext`, `SetNext` |
| `_update_tail_last`, `_update_tail_avail` | `SwapLast`, `SetNext`, `PushAvail` |
| `get_entry` | `GetEntry`, a function of the state: what a reader would find now |
| `clear` | `Init` |

Some sequences of calls break this table for good. They are steps of the model; the history
variable `faults` names the ones that have happened, and the properties say for which of them they
hold nothing more (`Calm`):

| Fault | What happened |
|---|---|
| `exhausted` | the last tail of the pool was taken; `tail_first` is 0 and never comes back |
| `overflow` | a tail was taken while `tail_avail` was 0: at least two freed tails are linked but not counted yet. It is lost |
| `aba` | `tail_first` had its value again when it was swapped, but no longer its link |
| `orphaned` | a freed head was reserved in front of a chain, which is cut off |
| `twice` | a key was appended behind its own entry, the last of the chain |
| `stale` | an object without jumps got an entry that still has some |
| `crashed` | a null pointer was dereferenced |

`ghosts` are keys whose `reserve_entry` threw after the entry was in the table. The run *fragment_table*
is thus about the calls the table is built for; the violations and the list of hazards are about the others.
What the model assumes of its callers: no two calls on one key at a time; with `OneCallPerChain`, none on
one chain, which is how the concurrent tests use the table (`tests/FragmentTableTest.cpp:344-403`:
threads on keys of different heads), and *fragment_table_append* is the run without it; with
`FreeReserved`, only reserved keys are freed.

### SeqLock and EventEmitter

`current`, `seq`, `data` and `_lock_write` are the fields; the pool is used in a circle. `read` is `Read`, `LoadPtr`, `LoadSeq` or
`ReadRetry`, and keeps its reference until `Release`; `write` is `Write`, `Lock`, `Publish` (the pointer), `StartWriting` (odd),
`Assign`, `Assigned`, `EndWriting` (even), `Unlock`. `EventEmitter` calls them: `On` counts an id (`Count`, `CountRetry`: a load and a swap), copies the map
and writes it with one listener more (`Copied`, `Insert`); `RemoveListener`, `Erase`, `NotFound`; `RemoveAllListeners`; `Emit` walks the version it
read (`Invoke`), and `WalkEnds` begins `remove_listeners` if a listener was registered by `once` (`EraseOnces`). The iterator that
`EventEmitter.h:109` goes on with after it has erased what it points to may miss any of the listeners left: the choice of `EraseOnces`.
`RunsWild` is a copy or a walk of a version that is being assigned meanwhile. The history `mishaps` names what has happened (an early read,
an overlap of two changes or of two emits, an erasure by half, a wild copy or walk); the properties say under which of them they still hold.

### HashRing

One action per function: `AddNode` (list, items, sort, map), `AddNodeFails`, `RemoveNode`, `Clear`, `Reset`. `FindNode` is the bisection
of `hash_ring_find_next_highest_item` as a function; `FindNodes` starts a search of which each round is `FindNext`. The hash gives a name the
numbers of its replicas, any ascending ones of `Numbers`, chosen in `Init`, so that nodes may collide; qsort orders by the
numbers; which of two nodes comes first where they have an equal number is chosen anew at each sort. A search for no node at all (`num` = 0) writes behind its array
and does not end: it goes as far as that write (`Overrun`), and nothing is said of what follows.

### RegionManager, Watcher, ConfigurationReader

| Code | Model |
|---|---|
| `_watch_on_change`, `clear_change_lock` | `Dropped`, `FirstOfTwo`, `SecondOfTwo`, `CallbackReturns`, `clear_change_lock` |
| `reload`, `_reload` | `Lock`, `ReadsNothing` or `Reads`, `CallHandler` or `CallHalf`, ..., `Unlock` |
| `RegionManager::reload`, `_clear` | `CallHandler` (the map is empty from here), `Release` per region and, for each ring, `FreeRing`, `RingFreed`; `FreeMap`; `ClearReturns`, `Load` per region, `Publishes` |
| `Region::load` | `Load` when the file opens, else `CreateRegion`, `WriteRegion` per write of `create_ptr`; `LoadThrows`, `AddThrows`, `TooSmallThrows`, `Terminates` |
| `FragmentTable::load` | `LoadTables`, `TablesThrow`, `TablesTerminate` |
| `_read`, `_read_regions`, `_read_tables`, `_parse_size` | `Refused` (what `_reload` catches), `ReadThrows` with `ReadTerminates` (what is not declared), `Valid` |
| `query_region` of a dynamic type | `Guess` |
| `get_region` | `ReadMap` (a reference to the map), `CopyMap` (and the ring of the type), `FindNode`, `TakeRegion` |
| a use of the pointer | `Use` |
| constructor, `on_changed`, `init` | `Construct`, `OnChanged` (two steps: the assignment of a `std::function`), `InitReloads` |

`files` is how far the creation of each file came: absent, empty, sized (ftruncate), headed (header and time table), whole. It
outlives the process: `Restart` ends the process anywhere and starts it again. A request that has read the map goes on with it while `_clear` tears it down: `old` holds the rings that are not
freed yet and `freeing` what is just being freed, so that the request finds a ring as it was, meets it half freed (`UsesFreed`), finds nothing in it, or gets a region that is released by then. What
`_read` converts may throw what it does not declare: a size of fewer than two characters (`substr`) or beyond a float, an empty path, a number of the tables that is negative or none. Such a value is `Malformed`, and what decides between
refusal and the end of the process is the order in which entries are read. The fragment capacity of a size is taken modulo `WordSize` before it is compared, as in line 186; the run counts sizes in blocks of 512 bytes and
has a word of 2^20, since TLC's integers have 32 bits. The editor of conf.json and the event queue of the
kernel are external: a write is a truncation and a content, each an event, and an event may be merged with one that is queued.

### DiskCache

A session is registered (`Register`, or `InitUnheard` when init came first), then its init handler runs: `QueryRegion`
(with `GuessType`) or `NoSuitableType`; then rounds of `Debit`, `Acquire`, `WriteTime`/`TimesFull`, `Enter` (the entry in the
table and its jumps) or `EnterHalf` (the entry without its jumps) or `EnterRefused`, or `EnterCrashes`; a round that throws goes through `_free_fragments`: `FreeNone` (nothing wanted), `NothingOldest`, `FreeOldest`,
`Evict`. The handler ends with start or cancel. `Data` writes a chunk, `End` ends the session. `Fetch` and `FetchRange` are
functions of the state. `JumpChains` keeps what the entries of a chain hold: six distances in the code, one in the runs, so that
chains have several entries; entries that are not written keep what an earlier object left in them, as does
`jump_head` of an entry in the table. So the eviction of an object without jumps may give back the jumps of an earlier one (`FreeJumps` on the `jump_head` that was kept),
although they are free or another object's by now; the history `misfreed` says that it has. The scan of `reserve_entries` and the walk along a chain are functions on the
entries (`Found`, `Chain`), what a fetch adds up are functions on the chain (`get_jumps`, `get_fragment_indices`). A chain may be too short for the loop that fills it: because the scan
found fewer entries than it counted, or because the count, which has 16 bits (`CountSize`), has wrapped. The loop then meets a null pointer (`EnterCrashes`) and the process ends (`Running`).

Fragments are counted with floats: `fragments_num`, `FragmentIndex`, both ends of a range, and the product that `guess_type` maximizes are the quotients of `Floats`, integers rounded to `Precision` (2^24) and divided with
one more rounding. Below `Precision` the counts are exact, which is a theorem; above it an object may be given too few fragments, and a chunk a place that another chunk has, or one behind the region, where it is lost. Each key has its own head of the
table here (`HeadsApart`): a head is free or holds its key, so that `free_entry` of an absent key finds nothing. What it does in a chain of several keys, where it frees the last one, is a step of FragmentTable.

### Hash functions

A digest is a record of what went into it: initial values, blocks in their order with the bytes in each, lengths and how the end
was padded. The arithmetic of a block stays uninterpreted, so that two streams agree exactly when the functions would have
computed on the same input. `Word`, `Block`, `LengthSize` and the stripes are constants: in the run they are small enough for the counters of md5 and SHA-1 to wrap. The length of XXH32 is counted modulo `Word`, which no message of the run reaches; that this counter
wraps, and that it makes no difference how the message is cut, is the theorem `XxhStreamsRight`.

## 3. The runs

| Run | Instance | What it shows |
|---|---|---|
| `region_fill` | 2 threads, 3 fragments in 2 bytes, 3 keys, requests of 0, 1, 2 | writes of different fragments share no byte and reach no header (in a file below the wrap), each fragment was acquired, the region fills from the front, counter and bitmap agree |
| `region_recycle` | 2 threads, 2 fragments, 2 keys, requests of 1 and 2 | with eviction, never ending: the counter does not drift, no bit is orphaned while frees clear their own bit only, the scans of a reservation are bounded |
| `time_table` | 3 threads, 4 entries, 3 reservations, 2 evictions | the ring implements `TimeLru`; one writer per entry; refusals of `free_entry` are right, in the first lap |
| `jump_table` | 2 threads, 3 entries, chains of 1 and 2, 3 frees | chains are apart and linked; before a free, a chain is short only when the pool is full |
| `fragment_table` | 2 threads, 5 keys on 2 heads, 3 tails, 4 reservations, 2 frees | exactly the reserved keys are found; entries and jumps have one owner; the pool is whole |
| `fragment_table_append` | 2 threads, one chain of 3 keys | **violation**: an append is cut off by `set_next(NULL_INDEX)` |
| `events` | 2 threads, pool of 2 versions, 3 calls, 2 listeners | what readers see of the versions, what overlapping calls lose, whom an emit reaches, that calls return |
| `hash_ring` | 3 nodes, 2 replicas, 3 hash values in every assignment | list, array, counters and map agree; the bisection finds the successor; a search finds the nodes that a walk meets first; keys stay; searches for at least one node end |
| `hash_streams` | blocks of 8, lengths of 2 bytes, stripes of 4 and 8, counters of 64 and 16, up to 36 bytes in pieces up to 18 | digests do not depend on the cuts, past the wraps of the bit counts of md5 and SHA-1 |
| `configuration` | 2 writes, 4 contents (two types; one path twice; one that is refused; one at which a conversion throws), 2 types, 1 request, 1 fault | the map is that of one content; crashes have the causes named; the file is applied in the end |
| `disk_cache` | 3 sessions, 5 choices of objects, a region of 6 fragments and one of 2, 4 jump entries with counts modulo 5, floats of 3 bits (`Precision` 8) | an entry follows its reservation; the first object is fetched as stored; entries can be evicted; sessions are decided |
| `disk_cache_fetch` | the same with `Precision` 16, so that all sizes are floats | **violation**: an object is not fetched as it was stored |

Why these bounds are enough to be of use. Two threads give every pair of racing accesses; the time table has three because
a writer, a second writer and an evictor meet in it. Three fragments or entries over bytes of two bits have both kinds of neighbours, in the same
byte and in another. Requests of 2 make calls that hold one fragment and seek another; 0 is a legal
request. Four reservations and two frees of the index make chains of three, put a freed tail
behind the tail another call is about to take, and let a freed tail be used again. A pool of two versions goes round at the second write,
which is when references become stale. Three hash values for six items make equal numbers unavoidable. A message of 36 bytes passes the wraps
of the word of the bit count (at 8 and at 32 bytes), and ends at every offset of a block. Two writes of conf.json let the second fall into the time when `_change_lock` is
set; one fault meets every stage of the creation of a region's file (a table is written in one step, which may fail), because either a call fails there or the process ends there, and a later
write or the next start finds what it left. Three sessions over a region that holds two objects make the third one evict, and one key twice makes it meet its own entry. Two
objects of two fragments have chains at the same time. Of the sizes, 9, 10 and 12 bytes reach `Precision`: one is rounded, one has a chain whose count wraps to 0 and is refused, one has a chain that is too short, and the process crashes.
A short chain that the moved hint causes needs more sessions than three; it is the same step. Every action of every passing run
fires. Thread names and keys that a model treats alike are symmetric only in the runs that check no temporal property. `CHECK_DEADLOCK FALSE` appears where calls are bounded, in
*region_fill*, which ends when every key is stored, and where the process may crash.

**Fairness.** The code has no scheduler, so fairness says only that a thread that is inside a call goes on with it:
`WF(FindNext)`, the loop of one search; `WF(Runs(t))`, a thread inside a call of the emitter (not that calls are made, nor that a lock is ever given to a certain thread: `Lock` is only weakly fair,
and calls are bounded by `MaxCalls`); `WF(MainStep)` and `WF(WatchStep)`, the two threads, and that an editor that has truncated a file writes it; `WF(Decide(s))`,
the loop of an init handler, but not that the downloader emits anything. `ScansBounded` needs none: it states that each step of the scans of a reservation
lowers a bound on the steps left, whatever the other threads do. It says nothing of the loops on `fragment_avail` and on `last` of the time table, which other threads may send back for ever; that they end is not claimed anywhere.

## 4. What the code does otherwise than it says

Two runs end in a counterexample, each of a statement of the repository:

1. `FragmentTable.h:813` (*fragment_table_append*): `set_next(NULL_INDEX)` on an entry that is already reachable cuts off what another thread
   has appended to it: a key whose reservation succeeded is not found.
2. `DiskCache.h:245` (*disk_cache_fetch*): a chunk is written at its place in the object instead of at the fragment reserved for it, and `region_head` is 0
   (line 218), against "Get all fragments of a resource" (lines 80-85). In the trace an object reserves fragments 0 and 2, because another session took 1 in between; its chunks are written to 0 and 1, and fetch reads 0 and 2, which is blank. That
   other session writes nothing there. If both were stored, the second would also be written over the first, since every object begins at fragment 0.

These are steps of the models too; the properties that hold say which of them they exclude:

- `Region.h:354`, `JumpTable.h:275`: `desired` is never initialised, so a free may free or take neighbours (`clobbered`).
- `TimeTable.h:203` compares plain indices of a ring: once `last` has wrapped, a full table counts as empty. `TimeTable.h:127` takes two loads, and refuses a nearly empty table as full.
- `JumpTable.h:215`: the scan does not wrap and the hint moves both ways, so chains come back short without an error. `FragmentTable.h:823` counts the entries of a chain in 16 bits. In both cases the loop of line 830 may run off the chain (`EnterCrashes`), and a count that wraps to 0 is refused after the entry was made.
- `FragmentTable.h:813` on a freed head that is reserved in front of a chain: the chain is lost (`orphaned`). `FragmentTable.h:539`: the last tail taken never comes back (`exhausted`).
- `FragmentTable.h:652`: a call that frees a tail links it first and counts it after that, one that takes a tail takes it first and counts it after that. When two freed tails are linked and not counted,
  two calls see `tail_avail` at 1 and take a tail each; the second finds 0 when it counts, throws "Tails overflow", and its tail is in no list any more (`overflow`). It takes four calls at once.
  The proof of `PoolWhole` found it: the runs have two threads.
- `FragmentTable.h:816`: an object without jumps, or one whose jumps were refused, keeps the `jump_head` of the object before it; jumps that were not cleared (line 830) are read as jumps.
  When it is evicted, `free_entry` gives those jumps back once more (`misfreed`), although a third object may have them: the next object takes entries out of a chain in use. The invariant of the chains
  could not be proved without this case. It takes six sessions to harm an object; the runs have three, and never come to it.
- `EventEmitter.h:68`: registrations that overlap are lost; `EventEmitter.h:109`: an erased iterator is used; an id may be invoked twice by two emits.
- `SeqLock.h:99`: the pointer moves before the sequence number is odd, so a read may get a version that is about to be overwritten (`early`).
- `Region.h:312`: offsets have 32 bits, `conf.json` speaks of regions of up to 32 TB (`FragmentsWrap`). `Region.h:531`: the field has 24 bits, and MAX_INT24, the default capacity, is stored in it as 0.
- `TimeTable.h:193`: entries lie 240 bytes behind their place, for nearly half of the capacities over the first fragment (`TimesSpill`). `JumpTable.h:159`: with MAX_INT20 jumps the last entry ends a byte behind the table (`LastJumpOutside`).
- `RegionManager.h:170`: between `_clear` and line 191 a request meets a null ring, and what it got before is unmapped under it. `RegionManager.h:203`: `get_region` itself reads the map, copies it and searches the ring in several steps: while
  the callback of `_clear` runs it may search a ring that is being freed, or return a region that is released already.
- `ConfigurationReader.h:70`, `201`: a size of fewer than two characters, an empty path, a negative or wrongly typed number of the tables throw what `_read` does not declare, and a write of conf.json ends the process.
  `ConfigurationReader.h:186`: the capacity is cut to 32 bits before it is compared with its limit, so that a huge size is accepted, as a region of no fragments for instance.
- `Region.h:523`, with `RegionManager.h:167` and `FragmentTable.h:495`: an interrupted `create_ptr` leaves a file that is taken for a region from then on. Without its header it ends
  every process that loads it, because `reload` does not declare `invalid_argument`; `FragmentTable::create_ptr` does not declare the `runtime_error` it throws either.
- `Watcher.h:77`: writes of the file are dropped while the lock is set, and one truncated event shifts the pairing of all that follow.
- `DiskCache.h:133`: `delta` is always 0: an eviction forgets an object, frees nothing and reports failure. `DiskCache.h:222`: for an object of no bytes the loop does not end. `DiskCache.h:280`: an init emitted by `store`
  of the downloader comes before its handler.
- `DiskCache.h:303` rounds the end of a range up and then fetches that fragment too: what is documented as "Minimum list of fragments containing the range" (line 75) has one fragment more than that, unless the range ends with the first byte of a fragment, and
  a range that ends behind the first byte of the last fragment is refused. `FetchFirst` states just that.
- `DiskCache.h:201`, `245`, `302`: from 16 MB on, the floats in which fragments are counted round: an object may be given a fragment too few, and its chunks places that are wrong.
- `DiskCache.h:245` rounds up where a chunk begins inside a fragment; `RegionManager.h:108` makes an object that fills its fragments exactly the worst choice of a type.
- `hash_ring.cpp:438`: a search for more nodes than can be met does not end, nor does one for no node, which writes behind its array (line 454; nothing in `src/` asks for none); the failure path of `hash_ring_add_node` leaves a ring that cannot be used (`spoiled`).
- `tests/FragmentTableTest.cpp:214` expects `get_fragment_index` of 0 to be the `region_head`; `get_fragment_index` returns `jump_head`.

## 5. What is proved

`RegionProofs`, for all sets of threads and keys, capacities, byte widths and requests, about `FillSpec`:
`FillTypeCorrect`, `FillExclusive`, `FillDeliversTaken`, `FillNoGap`, `FillCounter`, and, if the size of the file fits its word (`Fits`), `FillBytesApart`.
None of these is inductive. That no scan gives up (`DeliveredTaken`) needs that it always has a free fragment ahead;
that needs both the counter (`CounterMatchesBitmap`: at least one clear bit is owed to this call) and
`NoGapBehindScan` (the clear bit is not behind it). `Exclusive` needs that a successful swap acquires a bit that
was clear, which needs `LoadedByte`, what a thread knows of the byte it loaded: bits are only
added while filling, so an equal byte still has its bit clear. `CallShape` ties the locals together, and `last_free_fragment = 0`
says that every scan starts in front. `FillInv` is their conjunction; there is one lemma per action, and the
lemmas `ScanInRange`, `FailedCasTaken` and `NextProbeGoesOn` carry the argument about scans.
`FillBytesApart` puts `FillExclusive` and `FillDeliversTaken` together with `FragmentsApart`: different indices below the capacity lie apart.
Frees destroy the invariant: they move the hint and, with the uninitialised byte, may clear any bit.
The module also holds the theorems about `Layout`. For every capacity, size of a fragment and width of the word: `FragmentsApart` (as long as the file fits), and `FragmentsWrap`
(otherwise some index is written over the header); both rest on the lemma `Spacing`, that multiples of a size are at least that size apart. For the sizes of the build: `TimesSpill`,
`TablePlacesApart`, `LastJumpOutside`, which are arithmetic once the modulo of every size is gone.

And for the same constants about the whole `Spec`, with evictions, frees and the uninitialised byte:

- `RecycleInvHolds`, and from it `RecycleTypeOK`, `AccountingHolds` and `FreesFitHolds` (`_update_fragment_avail(true, size)` never meets "Fragments overflow"). The counter is a ledger:
  it, the lost fragments, what the calls claimed or give back and what the objects hold add up to the capacity (`Balance`), for which a key must be reserved by one call at a time and before anything
  is delivered for it (`Fresh`). This needs nothing about the bits; that a set bit has an owner (`NoOrphan`) holds until a free stores a byte it never read. The sums are cardinalities
  of sets of pairs (`Units`), so that a step that changes one summand needs no induction over the threads (`TotalChanges`).
- `ScansAreBounded`, the action property: from the moment `fragment_avail` admits a reservation until it has its fragments, the bound on the steps left is a function of locals and
  each of its steps lowers it, for every interleaving.

`TimeTableProofs`, for all sets of threads and keys and all capacities, under the assumption `FirstLap` (bounds
below the capacity, so no index wraps): `LapTypeCorrect`, `LapOneWriter`, `LapRefusedOnlyWhenEmpty` and `LapImplementsLru`, the
refinement of `TimeLru`. The invariant `LapInv` adds that the indices count the calls (`Counters`), that nothing is written beyond `last`
(`Unwritten`), and what an evictor knows (`Evictors`): the entry it has read is the one it evicts, because
`first` only grows. `FirstLap` cannot be dropped: with it `desired > last` is a comparison of counts, without it, of places in a ring.

`JumpTableProofs`, for all sets of threads and objects, capacities, byte widths and counts, about the whole `Spec`:

- `JumpTypeCorrect`, from `TypeInv` (types, and `CallShape` for the locals).
- `JumpNoGap` and `JumpShortOnlyWhenFull`, from `FirstInv`: while no chain was freed, the argument is that of
  `FillInv`, except that scans start at a hint that calls move in any order, and nothing bounds them but the end of the pool.
- `JumpChainsApart` and `JumpChainsLinked`, from `ChainInv`, with frees. Both are about `~clobbered`, and
  neither holds without the other: a walk frees the right entries because its chain is linked (`Walk`: the link
  read from an entry before its bit is cleared is that of the chain, and the entries still ahead have not been relinked), and nobody relinks them because they are in no
  other hand. `InHand` lets an entry go at the moment its bit is cleared, before it is counted.

`FragmentTableProofs`, for all sets of threads and keys, numbers of heads, tails, tags and jump chains and any number of calls, about the whole `Spec`: `EntriesApartHolds`, `PoolWholeHolds`,
`FindsReservedHolds` and `FindsNothingElseHolds`. Two assumptions speak of the callers. `Orderly`: calls at once are on different chains, and only reserved keys are freed, as in the tests
(`OneCallPerChain`, `FreeReserved`). `TagsApart`, for the last theorem only: keys of one head differ in their tags, since an entry keeps no more of a key. Like the properties, the theorems say nothing from a fault on (`Calm`).

The links of the entries do not say who owns a tail: one just appended still has its link into the pool, and one just freed is the last of the pool before anything is linked to it.
So the invariant `TableInv` says that there *are* owners, an order and homes: `own[x]` is the head whose chain x belongs to, the pool, or the call that holds x; `pos[x]` the
time at which x came to its owner; `home[k]` the entry of key k until its jumps are given back. Each step that moves an entry gives it a new owner and the next time, every other step keeps
them (`Placed`). Over these, `Chained` and `Queued` say that each link leads to the next entry in the order, but for the one of an entry being filled (it is the last of its chain) and those a push is about
to set; `Tagged`, that a chain has no tag twice; `Homed` and `Accounted`, that every entry of a chain is the home of a key, in use by a call, or a free head; `Counted`, that `tail_avail` is the length of the pool but for
the calls between taking or giving a tail and counting it; `Knows`, what the locals of a call say at each label, such as that what was loaded is still there. That the compare-and-swaps with ignored results succeed is part of it, and so is
that the swap of `tail_first` takes the first tail with its link (the step where it does not is the fault `aba`).

From `TableInv` to the properties the step is from links to walks. `Walk` is a recursive function; `WalkDef` shows that its definition has a solution, `WalkStays`, that a walk along links in order stays with one owner,
`WalkReaches`, that it comes to every later entry, because a walk that never did would be longer than there are entries. All three use the least counterexample in place of an induction, as in `HashProofs`.
A reader may walk out of a chain into the pool through the link of an entry being filled, but it finds any reserved key of the chain before that.

`EventEmitterProofs` first, for all sets of threads and values and every pool of at least two versions, about the lock alone: `LockSpec`, in which any thread reads and writes any value:

- `LockWholeWhenFree`: one thread at a time is between `Publish` and `Unlock`, it has the lock, and only its version is odd or torn; so when the lock is free the current version is the last one written.
- `LockReadsRegular`: versions are written in a circle, so that a slot holds the version it held until the pool has been gone round (`laps`), and a read that is not early waited for an even number.

Then, for all sets of threads, of ids and of calls and every pool of at least two versions, about the emitter over the steps of the lock:

- `EmitterMapRegular`: what is true of arbitrary readers and writers holds of those of the emitter, each of whose steps is a step of the lock or leaves it alone (`LockKept`).
- `EmitterLosesNothing` (`NothingLost`, as long as no two changes overlapped): the one thread that changes the map has read the last version, and nobody
  writes another one before it does (`ChangerReads`).
- `EmitterReaches` (`EmitReaches`): a walk ends when the version it read has no listener left that it did not invoke, and that version is one of those written since the call.
- `EmitterOnce` (`OnceOnce`, with nothing in `mishaps`): a once listener that was invoked is walked by the emit that runs, or being written away by it,
  or in no version that an emit, running or to come, can find (`Settling`). The proof found that this is not true of an emit that walks
  a version while it is overwritten, which the model had not counted among the mishaps.

`ConfigurationReaderProofs`, for all sets of paths, contents and types, any number of writes, faults, requests and restarts:
`ReaderInvHolds`, `RegionsWholeHolds`, `CrashesOnlyInReloadHolds`. Three facts carry them. The guard is held by the thread that is inside reload (`GuardHeld`), so that the map, the mapped regions
and the files change in one reload at a time. Where that reload stands says what is mapped: what it has not released yet while the map is empty (`Clearing`),
the regions of the map under construction (`Building`), those of the content applied last (`Serving`). And a file without a header is being
created by it, unless a call of the system has failed or the process was restarted (`FilesWhole`). What a request has read, copied and found is that of the map it read, and is mapped, or `_clear` was called since it read the map (`Sound`, `HoldsMapped`): hence the causes of crashes, `_clear` in the middle of `get_region` among them.

`HashProofs` about the ring, for every finite set of names, number of replicas, assignment of numbers and choice of an order: `RingWholeHolds`, `FindsSuccessorHolds`, `FindsFirstHolds`, and
the action property `KeysStayHolds`. `RingInv` says that the places of `items` and the items of the nodes in the list are in bijection (`Owned`), in ascending order, and counted right.
The lemma `SortedSorts` shows of the sort, which gives each element the number of those before it as its place, that it is a permutation in ascending order;
`BisectionFinds`, that the bisection of `hash_ring_find_next_highest_item` returns the place before which all numbers are at most the key and behind which none is. Both the
loop of the bisection and the sort are inductions over data. They are done without an induction theorem, by the least counterexample: a nonempty set of
numbers has a least element (`LeastNumber`, from the well-foundedness of `<` on Nat), so that if the bisection failed on some bounds, it would fail on closest ones, but one
step takes those to closer ones. `FindsFirstHolds` follows the walk of a search: the number it stands at is
that of the item found last, and every node that could be met nearer to the start has been found. `KeysStayHolds` needs in addition that a step only adds nodes or only removes nodes (`StepAddsOrRemoves`).

And about the streams of the hash functions, for messages of any length, cut in any way, and every size of blocks, stripes, words and counters that `HashStreams` allows: `XxhStreamsRight`, `Md5Right`,
`Sha1Right`. The invariants (`XxhInv`, `Md5Inv`, `Sha1Inv`) say the same of each: what has been compressed are the whole blocks of the bytes fed so far, and the buffer holds the rest of them.
One call of update keeps this, since the blocks of a concatenation are those of what was compressed before and of the old rest with the new bytes (for SHA-1 a byte at a time). What differs are the counters: in md5 the carry of the low word
into the high one is exact, however much a call adds (`CarryIsExact`), xxHash counts modulo its word and asks only whether a stripe was reached, SHA-1 marks a message too long for its two words
as corrupted, for good. And the ends: md5 and SHA-1 pad, and the padded message is a number of whole blocks, whether the length fits the last one or needs another; a second `SHA1Result` finds `Computed` and repeats the first.

`DiskCacheProofs`, for all sets of sessions and resources, types, capacities and sizes of fragments and of jump entries:

- `EvictableHolds`. `write_entry` lists one key more and `free_entry` takes no key but the oldest, wherever the ring has wrapped (`WriteLists`, `FreeUnlists`, over `LiveIsInRing`,
  which says which places are live); `CacheInv` adds that a session about to enter its key finds it listed or overtaken (`EntersListed`).
- `RegionInvHolds`. A reservation takes its number of fragments from the counter first and finds the fragments later, one by one, with those of other sessions in between. `RegionInv` counts units: a session that has been
  promised fragments has all of them, one that has them has those it got; the units of a region and its counter make up its capacity (`RegionOK`). So while a session is still owed a fragment there are fewer fragments in use than
  the region has, and it finds a free one (`FindsFree`); the bitmap is 0..n-1 in every state, sessions share no fragment (`Apart`), each has its own in ascending order, and the file holds the chunks of a session that writes alone (`BodyOK`).
- `ChainInvHolds`, on top of it. Until `misfreed`, every object with jumps has a chain (`ChainOK`): entries in use, linked from its `jump_head` in order, the last one to NULL, which hold its jumps; no two chains share
  an entry. Before the first eviction, moreover, what is not in use is cleared and an object without jumps has no `jump_head` (`Fresh`): this is why only then the last entry of a chain cannot hold more than it should.
- `EntryFollowsReservationHolds` and `FetchFirstHolds` put the two together. What is linked is what the walk of a fetch finds (`LinkedIsChain`); the jumps read from it begin with those that were stored, one for each fragment after the
  first, and adding them up gives the fragments that were reserved, less the first (`Describes`).
  That floats count exactly below `Precision` is `QuotientIsExact` (a quotient of two such integers, rounded, lies between the same integers, since an integer is a float itself); that no chain which is long enough for its loop has a wrapped count is `CountFits`. With fragments 0..n-1, each read where it was written, that is the object as it was received. The walk, the
  reading of the jumps and both sums are recursive functions; what they compute is shown by the least counterexample again.

The assumptions used are those on the constants, named where they are declared (`MapsAssumption`, `PathsAssumption` and `StoresAssumption` among them), `FirstLap`, `Orderly` and `TagsApart`.
TLC checks those conjuncts of the invariants that are properties; `Exclusive` is part of what `BytesApart` checks.

**Only model-checked:** the four properties of liveness (`CallsReturn`, `FindNodesReturns`, `AppliesLast`, `StoreDecides`): liveness under fairness and ENABLED are out of the prover's reach.
Every invariant of a passing run, and every property of steps, has a theorem. Where a definition of the code recurses (a bisection, a sort, a walk, a digest), it is written as a recursive function or in closed form,
because the prover knows neither recursive operators nor the definitions of the folds; that such a function has a solution is proved each time.

## 6. What would come next

1. **Proofs**: that `Region`, `TimeTable` and `FragmentTable` implement the single steps that `DiskCache` takes of them, which so far rests on their invariants.
2. **FragmentTable**: `update_region_head` and `update_jump_entry`; `FreeReserved = FALSE` (freeing an absent key frees another); tags that are equal for different keys.
3. **Arithmetic**: a region whose `fragment_capacity` was stored as 0; the index equal to the capacity that `write_fragment` and `read_fragment` accept (`Region.h:302`), which no caller in `src/` passes.
4. **Larger instances**: two readers and a writer of the SeqLock on a pool of three; two requests during a reload; two faults, so that a half created file is met by a crash of another one.

## 7. What is not modelled, and why

- Memory mapping: a region is mapped or not. Offsets are in Layout; in the other modules a fragment is written at its index and an entry lies at its own place, which assumes a file below 4 GB and a capacity below 2^20 that leaves room for the time table. `release_ptr` unmaps only the header it mapped first; the rest, the old tables at a reload and the regions of a reload that threw, leak address space and nothing else. A short write of a table is not distinguished from a whole one.
- What a crash in the middle of a table operation leaves in the mapped words: nothing in the code recovers from it or looks for it.
- The contents of fragments and checksums: opaque to the tables. In DiskCache a fragment is the session and the place of its chunk.
- The text of conf.json: a content is the record its checks look at.
- libuv, inotify, the editor and the downloader are external: modelled from how the code uses them. `watch_stop`, which ends the process, and the inside of a `std::function` beyond "half assigned" are not modelled.
- The loop of `guess_type` over the regions is one step with its read of the map; in the code a reload may release them under it.
- Of the SeqLock, RegionManager keeps the current map and the one before: early reads of it, and a slot that is reused after 128 writes while a request still copies from it, are those of SeqLock.
- `utils::verify_dir` is not modelled: a directory that cannot be made refuses the content. A size in conf.json is a whole number of its unit; the float in which `_parse_size` computes it is not.
- Floats have no largest exponent in the model, and a conversion to an integer that is too small for the value (undefined in C++) does not occur; sizes stay below 2^32 fragments.
- In EventEmitter one event name, and no calls from inside a listener; in DiskCache the reference to a local variable of `store` that its handlers keep.
- SpinLock is the guard of ConfigurationReader; its `write` and RwLock are used by nothing, and the former calls a member that does not exist.
- `DiskCache::query` and `remove`, FragmentBuilder: empty bodies.
- `xxhsum.cpp` (a benchmark that came with xxHash), `sort.cpp` (a quicksort), printing, logging, utilities, build files: third-party or without state of the cache.
- Weak memory: the code names no memory order for its atomics, so they are sequentially consistent.
