\* Three handlers of two sessions: a session is forgotten and reserved again, long before its TTL.
SPECIFICATION Spec
CONSTANTS
    Sessions = {s1, s2}
    Handlers = {h1, h2, h3}
    Debounce = 1
    TTL = 9
    MaxSessions = 1
    MaxTime = 2
SYMMETRY Symmetry
INVARIANTS
    LastCommitWins
\* The clock is bounded, so the instance stops.
CHECK_DEADLOCK FALSE
