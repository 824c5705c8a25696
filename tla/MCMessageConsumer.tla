-------------------------- MODULE MCMessageConsumer --------------------------
(* Small instances of MessageConsumer for TLC. *)
EXTENDS MessageConsumer

CONSTANT a1

MCMessages  == {HostInit, ForeignHostInit, HostInitResponse, BeforeHostUp}
MCThree     == {HostInit, HostInitResponse, BeforeHostUp}
MCClients   == {Main, Handler, Sub}
MCAcceptors == {a1}
MCNone      == {}
MCHostInit  == {HostInit}
=============================================================================
