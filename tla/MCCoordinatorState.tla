------------------------- MODULE MCCoordinatorState -------------------------
EXTENDS CoordinatorState
CONSTANTS d1
MCValue == 0..MaxChanges
=============================================================================
