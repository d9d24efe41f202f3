CONSTANTS
    Clients = {c, d}
    Models = {m}
    Providers = {p, q}
    Results = {r}
    None = None
    MaxCopies = 2
    Window = 2
    MaxTime = 3
SPECIFICATION Spec
SYMMETRY RegistrySymmetry
INVARIANTS CountsExact CacheHonest ListingsAgree
