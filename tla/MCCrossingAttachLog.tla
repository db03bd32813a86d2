------------------------- MODULE MCCrossingAttachLog -------------------------
\* CrossingAttachLog for TLC, with the clients and entries of MCCrossingAttach.
EXTENDS CrossingAttachLog, MCCrossingAttach
=============================================================================
