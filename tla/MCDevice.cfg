SPECIFICATION Spec
CONSTANTS
    Key = {k1, k2, k3}
    Passphrase = {p1, p2, short}
    Weak = {short}
    Dek = {d1, d2}
    Code = {c1, c2}
    None = None
    Torn = Torn
SYMMETRY Symmetric
CHECK_DEADLOCK FALSE
INVARIANTS
    TypeOK
    LockoutHasCause
    VaultOpens
PROPERTY
    IdentityIsStable
