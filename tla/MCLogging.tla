----------------------------- MODULE MCLogging -----------------------------
(* The logging library with named threads, for TLC.                        *)
EXTENDS Logging

CONSTANTS t1, t2
=============================================================================
