-------------------------- MODULE MCCrossingParking --------------------------
\* CrossingParking for TLC: two source tasks, of which one may lose its waker, and
\* a finalizer, over parking addresses few enough to be reused while wakers of
\* earlier pulls are still about.
EXTENDS CrossingParking

CONSTANTS s1, s2, f1, p1, p2

MCSources == {s1, s2}
MCFinalizers == {f1}
MCParkings == {p1, p2}
MCPromising == {s1}

=============================================================================
