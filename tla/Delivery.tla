------------------------------ MODULE Delivery ------------------------------
(***************************************************************************)
(* What the transfer pipeline promises, without staging, jobs, retries,    *)
(* operators or restarts: a file reaches the destination while the source  *)
(* still holds it, is removed from the source only afterwards, and a       *)
(* payload is reported done only when all its files have arrived (and,     *)
(* for a rule that moves, have left the source).                           *)
(***************************************************************************)
CONSTANTS Objects, Payloads, ItemsOf, Mode

VARIABLES
    held,       \* generations on the source
    delivered,  \* generations that have reached the destination
    done        \* payloads reported done

vars == <<held, delivered, done>>

\* What the source holds at first is left open.
Init == held \subseteq Objects /\ delivered = {} /\ done = {}

\* The source is the uploader's: a generation may appear on it at any time.
Appear(o) == /\ o \in Objects \ held
             /\ held' = held \cup {o}
             /\ UNCHANGED <<delivered, done>>

Deliver(o) == /\ o \in held \ delivered
              /\ delivered' = delivered \cup {o}
              /\ UNCHANGED <<held, done>>

Release(o) == /\ Mode = "move"
              /\ o \in held \cap delivered
              /\ held' = held \ {o}
              /\ UNCHANGED <<delivered, done>>

Report(p) == /\ ItemsOf[p] \subseteq delivered
             /\ Mode = "move" => ItemsOf[p] \cap held = {}
             /\ done' = done \cup {p}
             /\ UNCHANGED <<held, delivered>>

Next == \/ \E o \in Objects : Appear(o) \/ Deliver(o) \/ Release(o)
        \/ \E p \in Payloads : Report(p)

Spec == Init /\ [][Next]_vars
=============================================================================
