--------------------------- MODULE MCSharedBridge ---------------------------
(* Three workers; b asks for two rows at a time, the others for one, so a    *)
(* request of two rows may be one job or two, and one of three overshoots.   *)
EXTENDS SharedBridge

CONSTANTS a, b, c

\* No two calls have the same rows, so that a result tells whose it is.
DistinctMenu == (a :> <<<<1>>>>) @@ (b :> <<<<2, 3>>>>) @@ (c :> <<<<4>>>>)
=============================================================================
