----------------------------- MODULE MCMsrBitmaps -----------------------------
EXTENDS MsrBitmaps

\* Both ends of both ranges, a byte boundary inside each, and the MSRs
\* just outside them.
MCMsr == {0, 8, 15, 16, 32, 40, 47, 48}
\* The page as an emulator zeroes it, and with bits left over from before boot.
MCInitialBits == {{}, {<<1, 3>>, <<2, 0>>, <<7, 7>>}}
===============================================================================
