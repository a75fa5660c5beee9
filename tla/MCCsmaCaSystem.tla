--------------------------- MODULE MCCsmaCaSystem ---------------------------
(***************************************************************************)
(* The CSMA-CA defaults of the simulations: exponents 3 to 5, at most four *)
(* further backoffs.                                                       *)
(***************************************************************************)
EXTENDS CsmaCaSystem

MCBEValues == {0, 255}
=============================================================================
