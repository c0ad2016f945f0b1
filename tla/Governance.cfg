\* Two principals, a resource and room for a copy of it.
SPECIFICATION Spec
CONSTANTS
    c1 = c1
    c2 = c2
    Principal = {ann, bob}
    Resource = {r1, r2}
    Existing = {r1}
    Project = {lab}
    Staging = staging
    Official = official
    Client = {c1, c2}
    Settings <- MCSettings
    MaxExecutions = 2
    Approver = {ann, bob}
SYMMETRY Symmetry
CHECK_DEADLOCK FALSE
INVARIANTS OwnerIsBound TransfersAgree PromotionsAgree ApprovedIsBacked
