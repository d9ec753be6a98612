SPECIFICATION Spec
CONSTANTS
    Pages = {p1, p2}
    Passwords = {"old", "new"}
    Generated = {"random"}
    NoPassword = "none"
    Tokens = {t1, t2, t3, t4}
    NoToken = "notoken"
    MaxRestarts = 2
SYMMETRY Symmetry
INVARIANTS
    TypeOK
    OperatorCanLogIn
    SessionOfPassword
PROPERTY
    DatabasePasswordReused
