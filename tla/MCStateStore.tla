--------------------------- MODULE MCStateStore ---------------------------
(* Two shapes of one property and an unrelated field, both sources, two    *)
(* reception times and two generations.                                    *)
EXTENDS StateStore

CONSTANTS d1, onoff, onoffStatus, level, v1, v2

MCPath  == {onoff, onoffStatus, level}
MCClash == {<<onoff, onoffStatus>>, <<onoffStatus, onoff>>}

MCUpdate == { u \in [device : Device, leaves : Leaves, source : Source,
                     monotonic : 0..1, generation : 0..1] :
                u.leaves # << >> }
=============================================================================
