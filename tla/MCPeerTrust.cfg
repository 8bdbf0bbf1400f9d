SPECIFICATION Spec
CONSTANTS
    n1 = n1
    n2 = n2
    n3 = n3
    Nodes = {n1, n2, n3}
    Addrs = {x}
    Vouchers <- Ring
    MaxDepth = 1
    None = None
INVARIANTS EgressOnlyGranted PromotionHasChain
