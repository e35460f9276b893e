CONSTANTS
    Names = {a, b, c}
    NoNode = NoNode
    Replicas = 2
    MaxNumber = 2
    Count = 100
SPECIFICATION Spec
INVARIANTS RingWhole FindsSuccessor FindsFirst
PROPERTIES KeysStay FindNodesReturns
\* A search for no node at all ends in undefined behaviour, and nothing follows.
CHECK_DEADLOCK FALSE
