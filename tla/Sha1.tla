-------------------------------- MODULE Sha1 -------------------------------
(***************************************************************************)
(* hash/sha1.cpp: the context, fed byte by byte, its two flags, the length *)
(* counter and the padding.  Message_Digest is the sequence of blocks      *)
(* compressed, as in Md5.                                                  *)
(***************************************************************************)
EXTENDS Bytes

CONSTANTS Word1 \* a word of SHA-1 holds 0..Word1-1 (2^32)

SHA1Reset ==
    [Length_Low |-> 0, Length_High |-> 0, Message_Block_Index |-> 0,
     Message_Block |-> Garbage(Block), Message_Digest |-> <<>>,
     Computed |-> FALSE, Corrupted |-> FALSE]

SHA1ProcessMessageBlock(context) ==
    [context EXCEPT !.Message_Digest = Append(@, context.Message_Block),
                    !.Message_Block_Index = 0]

Put(context, bytes) ==
    [context EXCEPT !.Message_Block = Overwrite(@, context.Message_Block_Index, bytes),
                    !.Message_Block_Index = @ + Len(bytes)]

\* One byte: counted, with the carry and the overflow of the carry; a full block is compressed.
InputByte(context, byte) ==
    LET low  == (context.Length_Low + 8) % Word1
        high == IF low = 0 THEN (context.Length_High + 1) % Word1 ELSE context.Length_High
        put  == [Put(context, <<byte>>) EXCEPT
                    !.Length_Low = low, !.Length_High = high,
                    !.Corrupted = low = 0 /\ high = 0]
    IN  IF context.Corrupted THEN context
        ELSE IF put.Message_Block_Index = Block THEN SHA1ProcessMessageBlock(put) ELSE put

SHA1Input(context, data) ==
    CASE Len(data) = 0 -> context
      [] Len(data) > 0 /\ (context.Computed \/ context.Corrupted) ->
            [context EXCEPT !.Corrupted = TRUE]
      [] OTHER -> LET fed[i \in 0..Len(data)] == IF i = 0 THEN context ELSE InputByte(fed[i - 1], data[i])
                  IN  fed[Len(data)]

\* The padding, or the zeroes that go on with it, from Message_Block_Index up to `to`.
Pad(context, to) == Put(context, Padding(to - context.Message_Block_Index))
PadOn(context, to) == Put(context, Zeroes(to - context.Message_Block_Index))

\* Mutant: a block with one byte too many is taken to have room for the length.
SHA1PadTight(context) ==
    LET body == Block - LengthSize
        room == IF context.Message_Block_Index > body
                THEN PadOn(SHA1ProcessMessageBlock(Pad(context, Block)), body)
                ELSE Pad(context, body)
        bits == context.Length_High * Word1 + context.Length_Low
    IN  SHA1ProcessMessageBlock([Put(room, Length(bits, LengthSize)) EXCEPT !.Message_Block_Index = 0])

SHA1PadMessage(context) ==
    LET body == Block - LengthSize
        room == IF context.Message_Block_Index > body - 1
                THEN PadOn(SHA1ProcessMessageBlock(Pad(context, Block)), body)
                ELSE Pad(context, body)
        bits == context.Length_High * Word1 + context.Length_Low
    IN  SHA1ProcessMessageBlock(Put(room, Length(bits, LengthSize)))

\* What SHA1Result makes of the context; it returns 0 iff the context is corrupted.
SHA1Result(context) ==
    IF context.Corrupted \/ context.Computed THEN context
    ELSE [SHA1PadMessage(context) EXCEPT !.Computed = TRUE]
=============================================================================
