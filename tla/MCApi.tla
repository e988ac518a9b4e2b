------------------------------- MODULE MCApi -------------------------------
(* The C API and the JSON API, on a heap of a few places: the places are   *)
(* interchangeable.                                                        *)
EXTENDS JsonApi

PlaceSymmetry == Permutations(Ids)
=============================================================================
