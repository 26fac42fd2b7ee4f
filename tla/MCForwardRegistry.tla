------------------------- MODULE MCForwardRegistry -------------------------
(* Small instances of ForwardRegistry: two sandboxes that share a port.    *)
EXTENDS ForwardRegistry

MCPortOf == [i \in Ids |-> IF i = "t:9090" THEN 9090 ELSE 8080]

(* An entry that is nowhere any more comes back only when its forward      *)
(* enters it again, which takes it out of outlived.                        *)
Behind ==
  {e \in outlived : file.entries[e[1]] = e[2] \/ \E q \in Pids : copy[q][e[1]] = e[2]}
Effective == <<file, pc, id, copy, signalled, owed, orderly, Behind>>
=============================================================================
