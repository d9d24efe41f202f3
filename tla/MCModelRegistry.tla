-------------------------- MODULE MCModelRegistry --------------------------
EXTENDS ModelRegistry, TLC

\* No property names a client, a model, a provider or a goroutine.
RegistrySymmetry == Permutations(Clients) \cup Permutations(Models)
                      \cup Permutations(Providers)
=============================================================================
