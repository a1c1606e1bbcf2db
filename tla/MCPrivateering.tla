--------------------------- MODULE MCPrivateering ---------------------------
(***************************************************************************)
(* Instances of Privateering for TLC: one Nexus, whose URL is typed as the *)
(* ingest URL, with its token or none.                                     *)
(***************************************************************************)
EXTENDS Privateering, TLC

CONSTANTS base, ingest,     \* URLs
          t1,               \* its token
          c1, c2            \* HTTP handlers

BaseOf == ingest :> base @@ None :> None
OneNexus == base :> t1
=============================================================================
