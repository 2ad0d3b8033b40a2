------------------------------- MODULE MCSweep -------------------------------
\* Two cases; loop counts between 1 and 8; both drivers, with and without a
\* limit on attempts, and with and without one on the wait for the profiler.
EXTENDS Sweep

TwoCases == <<"c1", "c2">>
OneThree == {1, 3}
FourSetups ==
  {[driver |-> "amd", maxAttempts |-> 0, waitBounded |-> TRUE],
   [driver |-> "amd", maxAttempts |-> 2, waitBounded |-> FALSE],
   [driver |-> "intel", maxAttempts |-> 0, waitBounded |-> TRUE],
   [driver |-> "intel", maxAttempts |-> 2, waitBounded |-> TRUE]}
===============================================================================
