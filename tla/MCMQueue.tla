------------------------------ MODULE MCMQueue ------------------------------
(* Instances of the message queue for TLC. *)
EXTENDS MQueue

CONSTANTS a, b, c

\* The receiver a is above the others.
MCPrio == [t \in Task |-> IF t = a THEN 2 ELSE 1]

\* b and c send, a and c receive, and a asks to be notified.
MCCalls ==
    [t \in Task |->
        CASE t = a -> {<<"receive", "block">>, <<"receive", "nonblock">>, <<"notify", "block">>}
          [] t = b -> {<<"send", "block">>, <<"send", "nonblock">>}
          [] t = c -> {<<"send", "timed">>, <<"receive", "timed">>, <<"receive", "block">>}]
=============================================================================
