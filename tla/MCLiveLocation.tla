--------------------------- MODULE MCLiveLocation ----------------------------
EXTENDS LiveLocation, TLC
=============================================================================
