---------------------------- MODULE MCCloudPush ----------------------------
EXTENDS CloudPush
CONSTANTS c1, c2, k1, k2
=============================================================================
