CONSTANTS
    Block = 8
    LengthSize = 2
    Stripe32 = 4
    Stripe64 = 8
    Word = 64
    Word1 = 16
    MaxBytes = 36
    MaxPiece = 18
SPECIFICATION StreamsSpec
INVARIANTS Md5IgnoresCuts Sha1IgnoresCuts XxhStreamsMatchOneShot
