----------------------------- MODULE MCPipeline ------------------------------
(***************************************************************************)
(* The instance of Pipeline for TLC: one file, whose two generations differ *)
(* in size and may come in either order.                                   *)
(***************************************************************************)
EXTENDS Pipeline, TLC

CONSTANTS a1, a2,       \* generations
          pa            \* their path

OnePath == a1 :> pa @@ a2 :> pa
Growing == a1 :> 1 @@ a2 :> 2
=============================================================================
