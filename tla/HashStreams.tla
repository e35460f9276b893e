---------------------------- MODULE HashStreams ----------------------------
(***************************************************************************)
(* One message, fed to md5, SHA-1, XXH32 and XXH64 in the same pieces.     *)
(* hash_ring_hash feeds a message in one piece, get_xxhash hashes it       *)
(* without a state, and other users may cut it anywhere: the hashes must   *)
(* not tell.                                                               *)
(***************************************************************************)
EXTENDS Md5, Sha1, XxHash

CONSTANTS
    MaxBytes, \* bound: length of a message
    MaxPiece  \* bound: length of a piece

\* Words count bits in whole bytes, md5 reads its offset from the low word, and XXH32 sees a stripe
\* before its length wraps; all of this is so for the sizes of the code.
ASSUME Sizes ==
    /\ Block \in Nat /\ LengthSize \in 1..(Block - 1)
    /\ Stripe32 \in Nat \ {0} /\ Stripe64 \in Nat \ {0}
    /\ Word \in Nat /\ Word % (8 * Block) = 0 /\ Word >= 2 * Stripe32
    /\ Word1 \in Nat \ {0} /\ Word1 % 8 = 0
    /\ MaxBytes \in Nat /\ MaxPiece \in Nat

VARIABLES
    sent,   \* bytes of the message so far
    closed, \* md5_finish and SHA1Result were called
    late,   \* SHA1Input was called with a byte or more after SHA1Result
    md5, sha1, xxh32, xxh64

streams == <<sent, closed, late, md5, sha1, xxh32, xxh64>>

StreamsInit ==
    /\ sent = 0 /\ closed = FALSE /\ late = FALSE
    /\ md5 = md5_init
    /\ sha1 = SHA1Reset
    /\ xxh32 = XXH32_reset
    /\ xxh64 = XXH64_reset

Feed(n) ==
    /\ ~closed
    /\ sent + n <= MaxBytes
    /\ sent' = sent + n
    /\ md5' = md5_append(md5, Msg(sent, n))
    /\ sha1' = SHA1Input(sha1, Msg(sent, n))
    /\ xxh32' = XXH32_update_endian(xxh32, Msg(sent, n))
    /\ xxh64' = XXH64_update_endian(xxh64, Msg(sent, n))
    /\ UNCHANGED <<closed, late>>

Close ==
    /\ ~closed
    /\ closed' = TRUE
    /\ md5' = md5_finish(md5)
    /\ sha1' = SHA1Result(sha1)
    /\ UNCHANGED <<sent, late, xxh32, xxh64>>

\* A piece that comes too late: only SHA-1 notices.
FeedLate(n) ==
    /\ closed /\ ~late
    /\ late' = (n > 0)
    /\ sha1' = SHA1Input(sha1, Msg(sent, n))
    /\ UNCHANGED <<sent, closed, md5, xxh32, xxh64>>

ResultAgain ==
    /\ closed
    /\ sha1' = SHA1Result(sha1)
    /\ UNCHANGED <<sent, closed, late, md5, xxh32, xxh64>>

ResetAll ==
    /\ closed
    /\ sent' = 0 /\ closed' = FALSE /\ late' = FALSE
    /\ md5' = md5_init
    /\ sha1' = SHA1Reset
    /\ xxh32' = XXH32_reset
    /\ xxh64' = XXH64_reset

StreamsNext ==
    \/ \E n \in 0..MaxPiece : Feed(n) \/ FeedLate(n)
    \/ Close
    \/ ResultAgain
    \/ ResetAll

StreamsSpec == StreamsInit /\ [][StreamsNext]_streams

-----------------------------------------------------------------------------
(* What the hashes should be, from the message as a whole.                 *)

Blocks(data) == Chunks(data, 0, Block)

\* RFC 1321 and FIPS 180-1: a byte 0x80, as few zeroes as fill the last block, the length.
Padded(n, word) ==
    LET zeroes == CHOOSE z \in 1..Block : (n + z + LengthSize) % Block = 0
    IN  Msg(0, n) \o Padding(zeroes) \o Length((8 * n) % (word * word), LengthSize)

\* However a message is cut, md5 compresses the blocks of the padded message: no byte is lost or
\* repeated where a piece ends inside a block, the padding takes a second block when the length does
\* not fit, and the carry between the two words of the bit count (found by the wrap) is exact.
\* (md5_append, md5_finish)
Md5IgnoresCuts == closed => md5.abcd = Blocks(Padded(sent, Word))

\* The same of SHA-1, which counts and buffers byte by byte, and whose second call of SHA1Result
\* must not pad again.  It refuses to answer exactly for messages whose bit length does not fit its
\* two words and for contexts that were fed after the result; hash_ring_hash turns that into an error
\* of the ring. (SHA1Input, SHA1PadMessage, SHA1Result)
Sha1IgnoresCuts ==
    /\ sha1.Corrupted <=> 8 * sent >= Word1 * Word1 \/ (late /\ closed)
    /\ closed /\ ~sha1.Corrupted => sha1.Message_Digest = Blocks(Padded(sent, Word1))

\* At any moment, and without ending it, the digest of a stream is the one-shot hash of what was
\* fed: the buffer, the flag large_len (XXH32 keeps it because total_len_32 wraps), and v3, which
\* stands for the seed only while no stripe was fed, agree. (XXH32_update, XXH32_digest, XXH64_...)
XxhStreamsMatchOneShot ==
    /\ XXH32_digest_endian(xxh32) = XXH32_endian_align(Msg(0, sent))
    /\ XXH64_digest_endian(xxh64) = XXH64_endian_align(Msg(0, sent))
=============================================================================
