----------------------------- MODULE MCInbound ------------------------------
(* Small instances of Inbound for TLC.                                     *)
EXTENDS Inbound

CONSTANTS stop, start, extension, rant, w1, w2

Exactly(intent) == [exact |-> intent, contains |-> {intent}]

\* rant: "stop calling me", which is taken for CALL.
FourTexts == {stop, start, extension, rant}
FourBodies ==
    [t \in FourTexts |->
        CASE t = stop -> Exactly("stop")
          [] t = start -> Exactly("start")
          [] t = extension -> Exactly("extension")
          [] t = rant -> [exact |-> "none", contains |-> {"call", "stop"}]]

TwoWorkers == {w1, w2}
=============================================================================
