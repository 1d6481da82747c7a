------------------------------ MODULE MCLibrary ------------------------------
(* An instance of Library.                                                   *)
EXTENDS Library, TLC

MCCasts ==
  {{}} \cup {{p} \cup Consumers : p \in Producers} \cup {Producers \cup {c} : c \in Consumers}

\* Producers are alike in both modules that have them, and so are consumers.
Symmetry == Permutations(Producers) \cup Permutations(Consumers)
=============================================================================
