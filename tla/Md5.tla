-------------------------------- MODULE Md5 --------------------------------
(***************************************************************************)
(* hash/md5.cpp: the buffering, the bit counter and the padding.  The      *)
(* compression of a block is not computed: abcd is the sequence of blocks  *)
(* that were compressed, which determines the four words and is determined *)
(* by them as far as the caller may assume.                                *)
(***************************************************************************)
EXTENDS Bytes

md5_init == [count |-> <<0, 0>>, abcd |-> <<>>, buf |-> Garbage(Block)]

md5_process(state, blocks) == [state EXCEPT !.abcd = @ \o blocks]

\* Mutant: a carry is seen only when the low word becomes zero.
AddBitsAtZero(count, nbytes) ==
    LET low == (count[1] + 8 * nbytes) % Word
    IN  <<low, (count[2] + (8 * nbytes) \div Word + IF low = 0 THEN 1 ELSE 0) % Word>>

\* The number of bits so far, in two words: the carry is found by the wrap of the low word.
AddBits(count, nbytes) ==
    LET nbits == (8 * nbytes) % Word
        low   == (count[1] + nbits) % Word
        high  == count[2] + (8 * nbytes) \div Word + IF low < nbits THEN 1 ELSE 0
    IN  <<low, high % Word>>

\* The buffer is filled up from offset, then whole blocks are taken from the data, then the
\* rest is kept.
md5_append(state, data) ==
    LET n       == Len(data)
        offset  == (state.count[1] \div 8) % Block
        copy    == IF offset = 0 THEN 0 ELSE IF offset + n > Block THEN Block - offset ELSE n
        counted == [state EXCEPT !.count = AddBits(@, n),
                                 !.buf = Overwrite(@, offset, SubSeq(data, 1, copy))]
        filled  == IF offset = 0 THEN counted ELSE md5_process(counted, <<counted.buf>>)
    IN  CASE n = 0 -> state
          [] n > 0 /\ offset > 0 /\ offset + copy < Block -> counted
          [] OTHER -> [md5_process(filled, Chunks(data, copy, Block))
                       EXCEPT !.buf = Overwrite(@, 0, Rest(data, copy, Block))]

\* The length is read before the padding is appended, and appended behind it.
md5_finish(state) ==
    LET bits == state.count[2] * Word + state.count[1]
        pad  == ((Block - LengthSize - 1 - state.count[1] \div 8) % Block) + 1
    IN  md5_append(md5_append(state, Padding(pad)), Length(bits, LengthSize))
=============================================================================
