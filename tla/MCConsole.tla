-------------------------------- MODULE MCConsole ------------------------------
(* Values for checking Console with TLC. *)
EXTENDS Console
================================================================================
