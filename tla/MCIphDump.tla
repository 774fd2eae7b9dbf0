----------------------------- MODULE MCIphDump -----------------------------
\* -N with a negative number, with none and with one iteration.
EXTENDS IphDump

FewIterations == {-1, 0, 1}
=============================================================================
