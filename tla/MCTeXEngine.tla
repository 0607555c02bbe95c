---------------------------- MODULE MCTeXEngine ----------------------------
(* The TeX engine with named views, for TLC.                               *)
EXTENDS TeXEngine, TLC

CONSTANTS v1, v2, v3

(* The views differ in nothing but their names.                             *)
ViewSymmetry == Permutations({v1, v2, v3})
=============================================================================
