------------------------ MODULE MCTemplateProvider -------------------------
(* Instances of Sv2TemplateProvider for TLC. *)
EXTENDS Sv2TemplateProvider, TLC

\* The clients are interchangeable: safety properties only.
Symmetry == Permutations(Clients)
=============================================================================
