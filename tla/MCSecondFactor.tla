--------------------------- MODULE MCSecondFactor ---------------------------
(* SecondFactor on a small instance.  No symmetry: liveness is checked.    *)
EXTENDS SecondFactor
=============================================================================
