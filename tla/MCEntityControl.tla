---- MODULE MCEntityControl ----
EXTENDS EntityControl
CONSTANTS c1, c2, g, w
Kind(type, relay, platform) == [type |-> type, relay |-> relay, platform |-> platform]
AllProfiles ==
    {Kind(t, FALSE, "light") : t \in {1, 38, 502, 503}}
    \cup {Kind(1, TRUE, "light"), Kind(36, FALSE, "climate"),
          Kind(516, FALSE, "fan"), Kind(35, FALSE, "cover")}
Symmetry == Permutations(Caller)
====
