------------------------------- MODULE Mailbox -------------------------------
(***************************************************************************)
(* What the message store promises to those who use it: a box of messages  *)
(* that are offered for handling.  Once a message is promised (answered    *)
(* with 201 Created) it is offered until it is taken or dropped, whatever  *)
(* crashes there are; a taken message is offered again only when it is     *)
(* deposited again, or after a crash.                                      *)
(***************************************************************************)
CONSTANT Messages

VARIABLES
  box,        \* messages offered for handling
  promised,   \* messages whose sender was told that they are kept
  taken,      \* messages that a handler has taken
  dropped     \* messages that were given up

vars == <<box, promised, taken, dropped>>

Init ==
  /\ box = {}
  /\ promised = {}
  /\ taken = {}
  /\ dropped = {}

Deposit(m) ==
  /\ box' = box \cup {m}
  /\ UNCHANGED <<promised, taken, dropped>>

(* Only what is offered, or was offered and taken since, is promised. *)
Promise(m) ==
  /\ m \in box \cup taken
  /\ promised' = promised \cup {m}
  /\ UNCHANGED <<box, taken, dropped>>

Take(m) ==
  /\ m \in box
  /\ box' = box \ {m}
  /\ taken' = taken \cup {m}
  /\ UNCHANGED <<promised, dropped>>

(* Messages are given up; they need not leave the box at once. *)
Drop ==
  /\ dropped \subseteq dropped'
  /\ dropped' \subseteq Messages
  /\ box' \subseteq box
  /\ box \ box' \subseteq dropped'
  /\ UNCHANGED <<promised, taken>>

(* What survives: all that is owed, nothing that was never there. *)
Crash ==
  /\ box' \subseteq box \cup taken
  /\ promised \ (taken \cup dropped) \subseteq box'
  /\ UNCHANGED <<promised, taken, dropped>>

Next ==
  \/ \E m \in Messages : Deposit(m) \/ Promise(m) \/ Take(m)
  \/ Drop
  \/ Crash

Spec == Init /\ [][Next]_vars
=============================================================================
