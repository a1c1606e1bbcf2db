---------------------------- MODULE MCRetention -----------------------------
(***************************************************************************)
(* Instances of Retention for TLC: two generations of one file, of the     *)
(* same size or not, under one rule.                                       *)
(***************************************************************************)
EXTENDS Retention, TLC

CONSTANTS old, new,         \* generations
          r1,               \* their rule
          p,                \* their path
          x                 \* a file of another program

GenRules == old :> r1 @@ new :> r1
GenPaths == old :> p @@ new :> p
SameSizes == old :> 1 @@ new :> 1 @@ x :> 2
GrownSizes == old :> 1 @@ new :> 2 @@ x :> 2
=============================================================================
