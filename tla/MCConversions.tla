--------------------------- MODULE MCConversions ---------------------------
(* Small instances of Conversions: machine integers of six bits. *)
EXTENDS Conversions

MCNumbers == -140..140
=============================================================================
