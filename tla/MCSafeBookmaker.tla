-------------------------- MODULE MCSafeBookmaker --------------------------
EXTENDS SafeBookmaker

CONSTANTS c1, c2, c3, k1, k2
=============================================================================
