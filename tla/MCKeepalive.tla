---------------------------- MODULE MCKeepalive ----------------------------
(* Constants of the runs of Keepalive. *)
EXTENDS Keepalive

\* An interval of two ticks with a timeout of one, and no pings at all.
On == [interval |-> 2, timeout |-> 1]
Never == [interval |-> 0, timeout |-> 0]

PingSettings == {On, Never}

Both == [e \in Ends |-> On]
ServerOnly == [e \in Ends |-> IF e = "server" THEN On ELSE Never]

Setup(adapter, settings, faulty, changes) ==
    [kind |-> adapter, ping |-> settings, faults |-> faulty, reloads |-> changes]

\* One end pings and the other may stop, or one of them is closed; both ends ping and
\* nothing goes wrong but what they do to each other; one end pings and the settings
\* change.
PingSetups ==
    {Setup("WebSocket", ServerOnly, {"stop"}, 0),
     Setup("WebSocket", ServerOnly, {"close"}, 0),
     Setup("WebTransport", ServerOnly, {"stop", "close"}, 0),
     Setup("WebSocket", Both, {}, 0),
     Setup("WebTransport", ServerOnly, {}, 1)}

\* One end pings, and nothing else happens.
PongSetups == {Setup("WebSocket", ServerOnly, {}, 0)}
=============================================================================
