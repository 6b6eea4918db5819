----------------------------- MODULE MCSession -----------------------------
EXTENDS Session

\* What proj_main_loop asks for, the lowest frequency for another counter,
\* and one below it.
MCRequests == {<<0, 45>>, <<2, 19>>, <<0, 18>>}

\* Square wave, rate generator and one-shot, in binary.
MCConfig == [t \in Timers |-> <<6, 4, 2>>[t + 1]]

=============================================================================
