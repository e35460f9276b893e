------------------------ MODULE MCConfigurationReader ------------------------
(* Contents of conf.json: regions of two types, the same path twice, one   *)
(* that _read refuses, and one at which it throws what it does not declare.*)
EXTENDS ConfigurationReader

Region(n, p, t, s) == [place |-> n, path |-> p, type |-> t, size |-> s]
Mb(n) == [number |-> n, unit |-> "mb"]
Content(regions, tails) == [regions |-> regions, heads |-> 4, tails |-> tails, jumps |-> 4]

Two == Content({Region(1, "a", 1, Mb(1)), Region(2, "b", 2, NoSize)}, 2)
Twice == Content({Region(1, "a", 1, Mb(1)), Region(2, "a", 1, Mb(1))}, 2)
TooLarge == Content({Region(1, "a", 1, Mb(4)), Region(2, "b", 2, Malformed)}, 2)
BadUnit == Content({Region(1, "a", 1, [number |-> 1, unit |-> "kb"])}, 2)
NotAPath == Content({Region(1, NoPath, 1, NoSize)}, 2)
TooMany == Content({Region(1, "b", 2, Mb(2))}, 3)
ShortSize == Content({Region(1, "a", 1, Malformed), Region(2, "b", 2, Mb(4))}, 2)
EmptyPath == Content({Region(1, Malformed, 1, NoSize)}, 2)
Negative == Content({Region(1, "b", 2, Mb(2))}, Malformed)
Wrapped == Content({Region(1, "a", 1, [number |-> 1, unit |-> "gb"])}, 2)

\* All that are refused end in the same step, and so do all at which _read throws: the run has one of each.
MCContents == {Two, Twice, TooLarge, ShortSize}

ASSUME AllRefused == \A c \in {TooLarge, BadUnit, NotAPath, TooMany} : Refused(c) /\ ~ReadThrows(c)
ASSUME AllThrow == \A c \in {ShortSize, EmptyPath, Negative} : ReadThrows(c) /\ ~Refused(c)

\* A size that is a multiple of the word: its region has no fragment, and is accepted.
ASSUME WrappedIsAccepted ==
    /\ EntriesValid(Wrapped) /\ TablesValid(Wrapped)
    /\ \A e \in Wrapped.regions : FragmentCapacity(e) = 0

==============================================================================
