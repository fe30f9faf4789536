--------------------------- MODULE MCSessionFiles ---------------------------
(* SessionFiles, whose bounds the config gives.                            *)
EXTENDS SessionFiles
=============================================================================
