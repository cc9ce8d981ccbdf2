----------------------------- MODULE MCRoutines -----------------------------
\* Instances of Routines for TLC: an interval of two ticks; a pass may take as long.
EXTENDS Routines

MCIntervals == {2}
=============================================================================
