------------------------ MODULE MessageStoreRefinement ------------------------
(* MessageStore keeps the promises of Mailbox.                              *)
EXTENDS MessageStore

(* What the store offers: the list once it is loaded; before that the       *)
(* unhandled rows, which a load in progress has read already.               *)
Offered ==
  IF loaded THEN CachedIds
  ELSE {r.msg : r \in IF loading.on THEN loading.rows ELSE UnhandledRows}

Mail == INSTANCE Mailbox WITH
          box <- Offered, promised <- accepted, taken <- marked, dropped <- trimmed

(* The store is a mailbox: an append to the list deposits, 201 promises,    *)
(* mark_as_handled takes when it filters the list (not at its UPDATE),      *)
(* rotation drops, and a restart or a failed load is what a crash may do.   *)
(* Every other step, the halves of a load among them, changes nothing that  *)
(* users of the store can tell.                                             *)
ImplementsMailbox == Mail!Spec

-----------------------------------------------------------------------------
(* Why it does, beside StoreInv.                                            *)

(* The list lacks no message that has an unhandled row or was ever on it,   *)
(* but for those that were taken off it by mark_as_handled.                 *)
Listed ==
  loaded => /\ \A r \in UnhandledRows : r.msg \in CachedIds \cup marked
            /\ seen \subseteq CachedIds \cup marked

(* What a load in progress has read is pending unless it was rotated away   *)
(* since: nothing is marked before the list is there.                       *)
LoadFresh == loading.on => \A r \in loading.rows : r.msg \in trimmed \/ IsPending(r.msg)

RefinementInv == StoreInv /\ Listed /\ LoadFresh
=============================================================================
