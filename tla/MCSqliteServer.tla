--------------------------- MODULE MCSqliteServer ---------------------------
(* Two addresses with two proxies each, that make up to three calls.       *)
EXTENDS SqliteServer, TLC

MCHashes == {"h1", "h2"}
=============================================================================
