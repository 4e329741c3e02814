---------------------------- MODULE MCDocTranslate ----------------------------
\* The ticks of two processes and the requests of the owner.
EXTENDS DocTranslate, TLC
CONSTANTS ws, api, user
MCTicks == {ws, api}
MCUsers == {user}
EitherTick == Permutations(MCTicks)
=============================================================================
