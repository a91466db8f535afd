--------------------------- MODULE MCRoutineInbox ---------------------------
EXTENDS RoutineInbox
CONSTANTS k1, k2
MCKeys == {k1, k2}
=============================================================================
