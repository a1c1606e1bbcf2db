------------------------------ MODULE MCWorker ------------------------------
(***************************************************************************)
(* Instances of Worker for TLC.  One: one job of one file; Single: two     *)
(* such jobs, for what the worker, the operators and the restarts do to    *)
(* the tables.  Folder: either of two directories of two files, the first  *)
(* one filtered; Late: a directory of two files that is not filtered.  To  *)
(* both a third file may be added at any time.                             *)
(***************************************************************************)
EXTENDS Worker, TLC

CONSTANTS a, b, c, d, n,       \* generations; n is the one that comes late
          pa, pb, pe, pd, pn, \* their paths
          first, second,       \* payloads
          c1, c2               \* HTTP handlers

OnePath == a :> pa
OneItem == first :> {a}
OneTree == first :> {pa}

SinglePaths == a :> pa @@ b :> pb
SingleItems == first :> {a} @@ second :> {b}
SingleTrees == first :> {pa} @@ second :> {pb}

FolderPaths == a :> pa @@ b :> pb @@ c :> pe @@ d :> pd @@ n :> pn
FolderItems == first :> {a, b} @@ second :> {c, d}
FolderTrees == first :> {pa, pb, pn} @@ second :> {pe, pd}

LatePaths == a :> pa @@ b :> pb @@ n :> pn
LateItems == first :> {a, b}
LateTrees == first :> {pa, pb, pn}

SameSize == [o \in Objects |-> 1]
=============================================================================
