-------------------------- MODULE MCDbConnectionPool --------------------------
(* Small instances of DbConnectionPool for TLC. *)
EXTENDS DbConnectionPool
=============================================================================
