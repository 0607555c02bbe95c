----------------------------- MODULE MCDocument -----------------------------
(* A small document for TLC.                                                *)
EXTENDS Document

CONSTANTS x, nl
=============================================================================
