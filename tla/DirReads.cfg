\* Two streams on one handle, at most as many listings as generations.
SPECIFICATION Spec
CONSTANTS
    s1 = s1  s2 = s2  n1 = n1  n2 = n2
    Streams = {s1, s2}
    Names = {n1, n2}
    COOKIE_SPAN = 3
    COOKIE_GENERATIONS = 3
    RETAINED_LISTINGS = 2
    LookupErrors = TRUE
    MaxListings = 3
    MaxChanges = 1
SYMMETRY Symmetry
INVARIANTS StreamsResumeTheirOwn PageIsCurrent  EndIsFinal
PROPERTY NothingTwice
CHECK_DEADLOCK FALSE
