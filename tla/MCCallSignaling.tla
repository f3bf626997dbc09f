-------------------------- MODULE MCCallSignaling --------------------------
\* Calls on a small instance: two devices, two calls, two threads of the
\* application on the two devices.
EXTENDS CallSignaling, TLC

CONSTANTS d1, d2, i1, i2, t1, t2

MCParty == {d1, d2}
MCCallId == {i1, i2}
MCThread == {t1, t2}
\* No definition tells the devices from each other, nor the calls, nor the
\* threads.
MCSymmetry ==
    Permutations(MCParty) \cup Permutations(MCCallId)
        \cup Permutations(MCThread)
=============================================================================
