\* Two clients, which share Redis or not, one with two reviews, one with one, of at most two calls.
\* One masks, the other does or does not.
SPECIFICATION Spec
CONSTANTS
    judge = judge
    discover = discover
    m1 = m1
    m2 = m2
    v1 = v1
    v2 = v2
    c1 = c1
    c2 = c2
    Clients = {c1, c2}
    Tasks = {judge, discover}
    Models = {m1, m2}
    ModelFor <- MCModelFor
    Prompts <- MCPrompts
    Bound <- MCBound
    Settings <- MCSettings
INVARIANT TypeOK
INVARIANT PrivacyBoundary
INVARIANT OutageIsContained
INVARIANT TracesAreTrue
\* Every client ends its reviews.
CHECK_DEADLOCK FALSE
