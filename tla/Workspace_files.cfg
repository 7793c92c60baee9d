\* Two actors with three jobs between them; the index is cut to one row.
SPECIFICATION Spec
CONSTANTS
    a1 = a1
    a2 = a2
    Actors = {a1, a2}
    Consoles = {a2}
    TenantOf <- MCTenantOf
    RolesOf <- MCRolesOf
    Limit = 1
    MaxJobs = 3
    MaxStops = 1
INVARIANT TypeOK
INVARIANT WritesStay
INVARIANT PlainIsExplained
\* Jobs end.
CHECK_DEADLOCK FALSE
