--------------------------- MODULE MCGatewayProxy ---------------------------
EXTENDS GatewayProxy
CONSTANTS r1, r2, r3
ThreeRequests == {r1, r2, r3}
=============================================================================
