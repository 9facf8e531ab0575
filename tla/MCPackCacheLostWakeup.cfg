SPECIFICATION Spec
CONSTANTS
    w1 = w1
    w2 = w2
    w3 = w3
    k1 = k1
    k2 = k2
    k3 = k3
    n1 = n1
    n2 = n2
    n3 = n3
    NoNotify = NoNotify
    NoPack = NoPack
    Workers <- MCWorkers
    Packs <- MCPacks
    Notifies <- MCNotifies
    Size <- MCSize
    MaxBytes <- MCMaxBytes
SYMMETRY Symmetry
INVARIANT EveryWaiterHasAWaker
