---------------------------- MODULE MCIasClient -----------------------------
(***************************************************************************)
(* IasClient on small instances: the constants are given in the .cfg files.*)
(***************************************************************************)
EXTENDS IasClient
=============================================================================
