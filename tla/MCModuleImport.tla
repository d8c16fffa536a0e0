--------------------------- MODULE MCModuleImport ---------------------------
(* Instances of ModuleImport for TLC. *)
EXTENDS ModuleImport, TLC

\* Every path leads to a file of its own, named like it.
Distinct == [k \in Keys |-> k]

CONSTANT File

\* Two paths of one file, such as m.st and ./m.st.
Aliased == [k \in Keys |-> File]

Symmetry == Permutations(Keys) \cup Permutations(Helpers) \cup Permutations(Threads \ Helpers)
=============================================================================
