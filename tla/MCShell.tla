------------------------------ MODULE MCShell ------------------------------
(* Shell with few lines and messages.                                       *)
EXTENDS Shell
=============================================================================
