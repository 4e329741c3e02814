--------------------------- MODULE MCAsyncTranscribe ---------------------------
\* AsyncTranscribe for TLC: one browser that asks or cancels, one maintenance run, two attempts.
EXTENDS AsyncTranscribe, TLC

CONSTANTS u1, t1
MCUsers == {u1}
MCTimers == {t1}
=============================================================================
