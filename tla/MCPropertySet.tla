--------------------------- MODULE MCPropertySet ---------------------------
(* Small instances of PropertySet. *)
EXTENDS PropertySet, TLC

CONSTANTS n1, n2, a1, a2, f1

(* Names are alike, and so are the addresses of Property objects. *)
Symmetry == Permutations({n1, n2}) \cup Permutations({a1, a2})
=============================================================================
