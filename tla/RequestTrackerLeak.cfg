SPECIFICATION Spec
CONSTANTS
    Calls = {c1, c2}
    Modulus = 4
    Window = 3
INVARIANT EntriesGoWithConnection
