--------------------------- MODULE MCAlgorandTask ---------------------------
(* Small instances of AlgorandTask; each cfg gives the constants.          *)
EXTENDS AlgorandTask
=============================================================================
