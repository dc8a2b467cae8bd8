CONSTANTS
    Owners = {o1}
    Workers = {r1, r2}
    Ids = {d1, d2}
    None = None
    Versions <- MCVersions
    Plan <- OneAction
    Supported <- Offered
SPECIFICATION Spec
SYMMETRY Symmetry
CHECK_DEADLOCK FALSE
INVARIANTS OncePerDecision CompletionEarned
PROPERTY NoEffectUnapproved
