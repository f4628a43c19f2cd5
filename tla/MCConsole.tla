------------------------------ MODULE MCConsole -----------------------------
(* A small instance of Console for TLC.                                    *)
EXTENDS Console
=============================================================================
