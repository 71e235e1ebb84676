SPECIFICATION Spec
CONSTANTS
    User = {u1, u2}
    Slot = {s1, s2}
    Account = {a1, a2}
    First = u1
    NoAccount = NoAccount
    Anyone = Anyone
    MaxRest = 1
SYMMETRY Symmetry
INVARIANTS SuperadminRemains OneAccount AccountStays
