\* One bot's history under every fault: a state the snapshot can show and one that
\* it cannot, an outbox of two.
CONSTANTS
    none = none
    held = held
    full = full
    unreadable = unreadable
    States <- MCStates
    Overfull <- MCOverfull
    Empty = none
    Unreadable = unreadable
    MaxPending = 2
    MaxFrames = 4
    MaxChanges = 3
    MaxFaults = 3
SPECIFICATION Spec
INVARIANTS TypeOK PublishedOnce ToldIsDurable VerifiedIsComplete
PROPERTIES EvidenceKept
\* Behaviours end where the bounds do.
CHECK_DEADLOCK FALSE
