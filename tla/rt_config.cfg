SPECIFICATION Spec
CONSTANTS
    Cores = {0, 1}
    Priorities = {50}
    MaxAffinity = 2
    Unset = Unset
INVARIANT OkMeansConfigured
CHECK_DEADLOCK FALSE
