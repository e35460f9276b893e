------------------------------- MODULE Bytes -------------------------------
(***************************************************************************)
(* Buffers of bytes, as the hash functions use them.  A byte is told from  *)
(* the others by where it comes from: the i-th byte of the message, a byte *)
(* of padding, or the i-th byte of an encoded length.                      *)
(***************************************************************************)
EXTENDS Integers, Sequences

CONSTANTS
    Block,      \* bytes of a block of md5 and SHA-1 (64)
    LengthSize, \* bytes of the length at the end of the last block (8)
    Word        \* a word of md5 and XXH32 holds 0..Word-1 (2^32)

Msg(from, n) == [i \in 1..n |-> <<"msg", from + i>>]

Padding(n) == [i \in 1..n |-> <<"pad", IF i = 1 THEN 128 ELSE 0>>]

Zeroes(n) == [i \in 1..n |-> <<"pad", 0>>]

Length(bits, n) == [i \in 1..n |-> <<"len", bits, i>>]

\* What a buffer holds before anything is written to it.
Garbage(n) == [i \in 1..n |-> <<"garbage", i>>]

\* memcpy(buf + at, data, Len(data))
Overwrite(buf, at, data) ==
    [i \in 1..Len(buf) |-> IF i - at \in 1..Len(data) THEN data[i - at] ELSE buf[i]]

\* The whole blocks of `size` bytes in data behind its first `used` bytes, and what is left.
Whole(data, used, size) == (Len(data) - used) \div size

Chunks(data, used, size) ==
    [k \in 1..Whole(data, used, size) |-> SubSeq(data, used + (k - 1) * size + 1, used + k * size)]

Rest(data, used, size) == SubSeq(data, used + Whole(data, used, size) * size + 1, Len(data))
=============================================================================
