------------------------------- MODULE Layout -------------------------------
(***************************************************************************)
(* Where things lie, in bytes: the time table and the fragments in the     *)
(* file of a region (src/src/Region.h, TimeTable.h), the entries of a      *)
(* FragmentTable and of the JumpTable behind them (FragmentTable.h,        *)
(* JumpTable.h).  Sizes and offsets are uint32_t unless they come from     *)
(* pointer arithmetic; header_size is a field of 16 bits.                  *)
(***************************************************************************)
EXTENDS Integers

CONSTANTS
    WordSize,           \* uint32_t counts modulo WordSize
    HalfSize,           \* a field of 16 bits, modulo HalfSize
    Sector,             \* what the headers of a region are aligned to
    RegionHeader,       \* sizeof (Region)
    TimeHeader,         \* sizeof (TimeTable)
    TimeEntrySize,      \* sizeof (TimeEntry)
    MaxTimes,           \* MAX_INT20, the most entries of a time table
    FragmentSize,       \* fragment_size of the region
    TableHeader,        \* sizeof (FragmentTable)
    FragmentEntrySize,  \* sizeof (FragmentEntry)
    JumpHeader,         \* sizeof (JmpTable), its bitmap included
    StateOffset,        \* offsetof (JmpTable, state)
    JumpEntrySize       \* sizeof (JmpEntry)

ASSUME LayoutAssumption ==
    /\ {WordSize, HalfSize, Sector, RegionHeader, TimeHeader, TimeEntrySize} \subseteq Nat \ {0}
    /\ {MaxTimes, FragmentSize, TableHeader, FragmentEntrySize} \subseteq Nat \ {0}
    /\ {JumpHeader, StateOffset, JumpEntrySize} \subseteq Nat \ {0}

-----------------------------------------------------------------------------
(* A region of n fragments: header, time table, fragments *)

\* _validate_capacities caps the capacity of the time table here, although
\* init_ptr is given the one of the region.
TimesOf(n) == IF n = 0 \/ n > MaxTimes THEN MaxTimes ELSE n
TimeTableSize(n) == (TimeHeader + TimeEntrySize * TimesOf(n)) % WordSize

\* (((size - 1) >> 9) + 1) << 9
RoundUp(size) == IF size = 0 THEN 0 ELSE ((((size - 1) \div Sector) + 1) * Sector) % WordSize

\* calculate_mem_size: the part of the file that is mapped.
MemSize(n) == RoundUp((RegionHeader + TimeTableSize(n)) % WordSize)

FileSize(n) == (MemSize(n) + FragmentSize * n) % WordSize

\* Mutant: the header is forgotten.
OffsetBare(n, i) == (i * FragmentSize) % WordSize

\* Where write_fragment and read_fragment find fragment i.
Offset(n, i) == (i * FragmentSize + MemSize(n)) % WordSize

\* Where get_entry finds entry i of the time table: `this + sizeof (TimeTable)`
\* counts in time tables, not in bytes.
TimeEntryAt(i) == RegionHeader + TimeHeader * TimeHeader + i * TimeEntrySize

-----------------------------------------------------------------------------
(* A FragmentTable of h heads, t tails and c jump entries *)

HeadSection == TableHeader
TailSection(h) == (TableHeader + h * FragmentEntrySize) % WordSize
JumpSection(h, t) == (TableHeader + (h + t) * FragmentEntrySize) % WordSize

HeadAt(i) == HeadSection + i * FragmentEntrySize
TailAt(h, i) == TailSection(h) + i * FragmentEntrySize

\* The byte of the bitmap for jump entry i.
StateAt(h, t, i) == JumpSection(h, t) + StateOffset + (i \div 8)

\* get_entry_section starts at header_size, of which 16 bits are kept, and
\* skips the bytes of the bitmap that are in use.
EntrySection(c) == (JumpHeader % HalfSize) + (c \div 8) + 1
JumpEntryAt(h, t, c, i) == JumpSection(h, t) + EntrySection(c) + i * JumpEntrySize

JumpTableSize(c) == (JumpHeader + c * JumpEntrySize) % WordSize
TableSize(h, t, c) ==
    (TableHeader + (h + t) * FragmentEntrySize + JumpTableSize(c)) % WordSize
=============================================================================
