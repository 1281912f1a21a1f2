--------------------------- MODULE MCDeviceAccess ---------------------------
\* Two accounts and three installations, of which two may be pending at a time.
EXTENDS DeviceAccess, TLC

CONSTANTS u1, u2, d1, d2, d3

MCUsers == {u1, u2}
MCDevices == {d1, d2, d3}
Symmetry == Permutations(MCUsers) \cup Permutations(MCDevices)
=============================================================================
