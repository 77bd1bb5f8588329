-------------------------- MODULE MC_SessionReaders --------------------------
(* The two callers of MC_SessionStore, and one that reads beside them. *)
EXTENDS SessionReaders, MC_SessionStore
=============================================================================
