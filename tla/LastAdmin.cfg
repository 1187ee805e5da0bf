SPECIFICATION RolesSpec
CONSTANTS
    Users = {a1, a2}
    Founders = {a1, a2}
    Requests = {r1, r2}
    MaxMishaps = 0
INVARIANT LastAdminRemains
CHECK_DEADLOCK FALSE
