--------------------------- MODULE MCAlgodClient ---------------------------
(* Model checking of AlgodClient; the constants are in the cfg files. *)
EXTENDS AlgodClient
=============================================================================
