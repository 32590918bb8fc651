------------------------- MODULE MCProjectRegistry -------------------------
(* ProjectRegistry with interchangeable projects, handlers and handles.    *)
EXTENDS ProjectRegistry, TLC

RegistrySymmetry == Permutations(Projects) \cup Permutations(Requests)
                      \cup Permutations(Handles)
=============================================================================
