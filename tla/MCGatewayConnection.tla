------------------------ MODULE MCGatewayConnection ------------------------
EXTENDS GatewayConnection
CONSTANTS u1, u2
=============================================================================
