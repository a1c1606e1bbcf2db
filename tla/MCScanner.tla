----------------------------- MODULE MCScanner ------------------------------
(***************************************************************************)
(* Instances of Scanner for TLC: a torrent of the files pa and pb, and a   *)
(* file pc that belongs to none.                                           *)
(***************************************************************************)
EXTENDS Scanner, TLC

CONSTANTS a1, a2, b, c1, c2,  \* generations
          pa, pb, pc1,         \* their paths
          t1                  \* a torrent

GenerationPaths == [o \in Objects |-> CASE o \in {a1, a2} -> pa [] o = b -> pb
                                        [] OTHER -> pc1]
PayloadPaths == [t \in Torrents |-> {pa, pb} \cap Paths]
=============================================================================
