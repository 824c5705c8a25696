-------------------------- MODULE MCMessageProducer --------------------------
(* A small instance of MessageProducer for TLC. *)
EXTENDS MessageProducer

CONSTANTS s1, s2, n1, o1, o2

MCNone        == {}
MCOutgoing    == {o1, o2}
MCSenders     == {s1, s2, n1}
MCNoRetry     == {n1}
MCProgression == <<1, 5>>
=============================================================================
