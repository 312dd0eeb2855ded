-------------------------- MODULE MCGatewayManager --------------------------
EXTENDS GatewayManager
CONSTANTS s1, s2, h1, h2, h3
=============================================================================
