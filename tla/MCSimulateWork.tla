--------------------------- MODULE MCSimulateWork ---------------------------
EXTENDS SimulateWork
MCSizes == -1..7
=============================================================================
