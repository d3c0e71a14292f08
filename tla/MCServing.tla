----------------------------- MODULE MCServing -----------------------------
(* Constants of the run of Serving. *)
EXTENDS Serving

CONSTANTS c1, c2

Setup(established, newcomers, happenings, count) ==
    [there |-> established, coming |-> newcomers, events |-> happenings,
     packets |-> count, faults |-> 1]

\* A client connects a second time, which costs it the first connection; so it does
\* while SetMTU writes to it; the administrator is at work; the server ends.
ServerSetups ==
    {Setup(<<c1>>, {c2}, {}, 1),
     Setup(<<c1>>, {c2}, {"reload"}, 0),
     Setup(<<c1>>, {}, {"reload", "delete"}, 1),
     Setup(<<c1>>, {}, {"signal"}, 1),
     Setup(<<>>, {}, {"signal", "ifaceFails"}, 0)}
=============================================================================
