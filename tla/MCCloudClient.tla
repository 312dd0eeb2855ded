---- MODULE MCCloudClient ----
EXTENDS CloudClient
CONSTANTS f1, f2, p1, p2
====
