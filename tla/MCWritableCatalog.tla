------------------------- MODULE MCWritableCatalog -------------------------
(***************************************************************************)
(* Two catalogs and statements that take turns.  Two row identifiers and   *)
(* two created tables let a table be replaced and an identifier be reused. *)
(***************************************************************************)
EXTENDS WritableCatalog
=============================================================================
