--------------------------- MODULE MCMessageStore ---------------------------
(* Small instances of MessageStore for TLC. *)
EXTENDS MessageStoreRefinement

CONSTANTS m1, m2, o1, a1, a2, c1

MCMessages  == {m1, m2}
MCReplies   == {m2}
MCOne       == {m1}
MCNone      == {}
MCOutgoing  == {o1}
MCAcceptors == {a1, a2}
MCClients   == {c1}
=============================================================================
