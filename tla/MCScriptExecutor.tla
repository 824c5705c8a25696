-------------------------- MODULE MCScriptExecutor --------------------------
(* A message with an asynchronous and a synchronous script.                 *)
EXTENDS ScriptExecutor, TLC

MCScripts  == {"a1", "s1"}
MCAsync    == {"a1"}
MCMessages == {<<"a1", "s1">>}
=============================================================================
