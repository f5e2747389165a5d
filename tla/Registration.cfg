SPECIFICATION Spec
CONSTANTS
    s1 = s1
    s2 = s2
    None = None
    Slots <- TwoSlots
    MaxUsers = 2
    MaxLinks = 3
SYMMETRY Symmetry
INVARIANTS
    TypeOK
    LinksAreSingleUse
    VerifiedByOwnLink
    PasswordByOwnLink
