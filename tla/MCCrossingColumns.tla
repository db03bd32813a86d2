-------------------------- MODULE MCCrossingColumns --------------------------
\* CrossingColumns for TLC: a table of three columns, one of them its key.
EXTENDS CrossingColumns

MCKey == {2}

=============================================================================
