------------------------- MODULE MCSamplingCollector -------------------------
(***************************************************************************)
(* Instances of SamplingCollector for TLC.  A tick is 250 milliseconds: a  *)
(* second is four ticks and the tolerance one.  Near and Contended lie in  *)
(* one thread on either side of a second, so that the line of the first is *)
(* as near to the second as the second's own; Alone and Other share a      *)
(* thread and have no such neighbour.  In EarlyLineAt every line precedes  *)
(* its row by one tick.                                                    *)
(***************************************************************************)
EXTENDS SamplingCollector, TLC

CONSTANTS a, b, Alone, Near, Other, Contended

MCThreadOf == (Alone :> b) @@ (Near :> a) @@ (Other :> b) @@ (Contended :> a)

MCObservedAt == (Alone :> 2) @@ (Near :> 6) @@ (Other :> 7) @@ (Contended :> 8)

MCLineAt == (Alone :> 3) @@ (Near :> 7) @@ (Other :> 7) @@ (Contended :> 9)

EarlyLineAt == [s \in Samples |-> MCObservedAt[s] - 1]
=============================================================================
