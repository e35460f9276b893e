------------------------------- MODULE XxHash -------------------------------
(***************************************************************************)
(* hash/xxhash.cpp: the one-shot functions XXH32 and XXH64 and the         *)
(* streaming ones.  The rounds are not computed: the four accumulators     *)
(* v1..v4 are the sequence of stripes they were fed, and a hash is told by *)
(* what enters the final mix: the accumulators (or v3 alone, which is the  *)
(* seed as long as no stripe was fed), the length, and the bytes left.     *)
(***************************************************************************)
EXTENDS Bytes

CONSTANTS
    Stripe32,  \* bytes of a stripe of XXH32 (16)
    Stripe64   \* bytes of a stripe of XXH64 (32)

Hash(large, stripes, length, left) ==
    [mixed |-> IF large THEN "v1-v4" ELSE "v3", fed |-> stripes, length |-> length, left |-> left]

\* total_len_32 is one word, and wraps; the 64-bit total_len does not.
XXH32_endian_align(data) ==
    Hash(Len(data) >= Stripe32, Chunks(data, 0, Stripe32), Len(data) % Word, Rest(data, 0, Stripe32))

XXH64_endian_align(data) ==
    Hash(Len(data) >= Stripe64, Chunks(data, 0, Stripe64), Len(data), Rest(data, 0, Stripe64))

XXH32_reset ==
    [total_len_32 |-> 0, large_len |-> FALSE, v |-> <<>>, mem32 |-> Zeroes(Stripe32), memsize |-> 0]

XXH64_reset == [total_len |-> 0, v |-> <<>>, mem64 |-> Zeroes(Stripe64), memsize |-> 0]

\* What the update of a state with buffer mem does to <<v, mem, memsize>>.
Absorbed(v, mem, memsize, data, stripe) ==
    LET used   == IF memsize = 0 THEN 0 ELSE stripe - memsize
        filled == Overwrite(mem, memsize, SubSeq(data, 1, used))
        first  == IF memsize = 0 THEN <<>> ELSE <<filled>>
        left   == Rest(data, used, stripe)
    IN  IF memsize + Len(data) < stripe
        THEN <<v, Overwrite(mem, memsize, data), memsize + Len(data)>>
        ELSE <<v \o first \o Chunks(data, used, stripe), Overwrite(filled, 0, left), Len(left)>>

\* Mutant: only a piece as long as a stripe makes the message a large one.
XXH32_update_small(state, data) ==
    LET a == Absorbed(state.v, state.mem32, state.memsize, data, Stripe32)
    IN  [total_len_32 |-> (state.total_len_32 + Len(data)) % Word,
         large_len |-> state.large_len \/ Len(data) >= Stripe32,
         v |-> a[1], mem32 |-> a[2], memsize |-> a[3]]

XXH32_update_endian(state, data) ==
    LET total == (state.total_len_32 + Len(data)) % Word
        a     == Absorbed(state.v, state.mem32, state.memsize, data, Stripe32)
    IN  [total_len_32 |-> total,
         large_len |-> state.large_len \/ Len(data) >= Stripe32 \/ total >= Stripe32,
         v |-> a[1], mem32 |-> a[2], memsize |-> a[3]]

XXH64_update_endian(state, data) ==
    LET a == Absorbed(state.v, state.mem64, state.memsize, data, Stripe64)
    IN  [total_len |-> state.total_len + Len(data), v |-> a[1], mem64 |-> a[2], memsize |-> a[3]]

XXH32_digest_endian(state) ==
    Hash(state.large_len, state.v, state.total_len_32, SubSeq(state.mem32, 1, state.memsize))

XXH64_digest_endian(state) ==
    Hash(state.total_len >= Stripe64, state.v, state.total_len, SubSeq(state.mem64, 1, state.memsize))
=============================================================================
