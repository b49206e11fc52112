CONSTANTS
    k1 = k1  k2 = k2  k3 = k3
    Keys = {k1, k2, k3}
    Unsat = {k3}
    Selectors <- Expression
    LatestOnly = TRUE
SPECIFICATION Spec
INVARIANT PoolsRequestScoped
CHECK_DEADLOCK FALSE
