\* Spec section 1: the main chain btcd serves agrees with what consensus accepted.
CONSTANTS
    g = g
    a1 = a1
    a2 = a2
    b1 = b1
    b2 = b2
    Genesis = g
    Blocks <- MC_Blocks
    Parent <- MC_Parent
SPECIFICATION Spec
INVARIANT AcceptedHeightsOnMainChain
