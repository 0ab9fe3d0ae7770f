--------------------------- MODULE MCStorageCleanup ---------------------------
(***************************************************************************)
(* Two processes and three executions: an execution can be over            *)
(* while each of the processes already serves another.                     *)
(***************************************************************************)
EXTENDS StorageCleanup
=============================================================================
