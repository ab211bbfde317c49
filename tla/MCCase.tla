------------------------------- MODULE MCCase -------------------------------
EXTENDS Case

\* Expiries before the cutoff, just after it and at the end of time.
MCExpiries == {4, 9, MaxSecond}
=============================================================================
