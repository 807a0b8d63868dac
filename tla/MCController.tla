---------------------------- MODULE MCController ----------------------------
(* An instance of the control plane: an agent with two RNICs and one with  *)
(* one, a short day, and enough time to pass midnight.                     *)
EXTENDS Controller, TLC

CONSTANTS a, b, g1, g2, g3

MCRnicsOf == (a :> <<g1, g2>>) @@ (b :> <<g3>>)
=============================================================================
