------------------------- MODULE MC_VMNode -------------------------
(* Two competing branches over Genesis: g <- a1 <- a2 and g <- b1 <- b2.  *)
EXTENDS VMNode

CONSTANTS g, a1, a2, b1, b2

MC_Blocks == {g, a1, a2, b1, b2}
MC_Parent == [b \in MC_Blocks \ {g} |->
                CASE b = a1 -> g [] b = a2 -> a1 [] b = b1 -> g [] b = b2 -> b1]
=============================================================================
