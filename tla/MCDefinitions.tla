--------------------------- MODULE MCDefinitions ----------------------------
(***************************************************************************)
(* Instances of Definitions for TLC: f is a rule of config.json between    *)
(* local paths, u an id a client may define; clients send a definition on  *)
(* the remote nas with the password left blank, or a local one with a new  *)
(* password and no retry policy.                                           *)
(***************************************************************************)
EXTENDS Definitions, TLC

CONSTANTS f, u,                 \* rule ids
          nas,                  \* a remote
          p1, p2,               \* passwords
          c1, c2                \* HTTP handlers

Usual == [count |-> 0, wait |-> 0]
Patient == [count |-> 1, wait |-> 0]

FromFile == f :> [remote |-> NoRemote, policy |-> Usual, secret |-> p1]

Definition(r, p, s) == [remote |-> r, policy |-> p, secret |-> s]
Handlers == Permutations(Clients)
Unsaid == [count |-> Omitted, wait |-> Omitted]
Sent == {Definition(nas, Patient, Blank), Definition(NoRemote, Unsaid, p2)}
=============================================================================
