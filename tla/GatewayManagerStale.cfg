CONSTANTS
    s1 = s1
    s2 = s2
    h1 = h1
    h2 = h2
    h3 = h3
    Sender = {s1}
    CloudHost = {h1}
    UdpHost = {h2}
    Network = {{"udp", "vanish"}}
    MaxObjects = 4
    None = None
SPECIFICATION Spec
INVARIANT EveryConnectionOwned
