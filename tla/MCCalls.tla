------------------------------ MODULE MCCalls ------------------------------
(* Calls for TLC: the clock of each device, and fewer tries.                  *)
EXTENDS Calls

Few == [k \in Kinds |-> 2]
Same == [a \in Apps |-> 0]
=============================================================================
