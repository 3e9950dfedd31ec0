\* One VM's lifecycle: btcd and consensus over two branches, gossip loops, Shutdown, crashes and restarts.
CONSTANTS
    g = g
    a1 = a1
    a2 = a2
    b1 = b1
    b2 = b2
    Genesis = g
    Blocks <- MC_Blocks
    Parent <- MC_Parent
SPECIFICATION Spec
INVARIANT TypeOK
INVARIANT RunningConfigValid
PROPERTY LastAcceptedNeverRegresses
PROPERTY ShutdownCompletes
