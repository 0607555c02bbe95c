----------------------------- MODULE MCNotebook -----------------------------
(* The notebook with two input cells, for TLC.                              *)
EXTENDS Notebook

CONSTANTS cell1, cell2

(* One cell is executed twice, so that output of two runs can meet; the     *)
(* other stands for the rest of the notebook.                               *)
MCMaxRuns == [c \in {cell1, cell2} |-> IF c = cell1 THEN 2 ELSE 1]
OneCellTwoRuns == [c \in {cell1} |-> 2]
OneCellThreeRuns == [c \in {cell1} |-> 3]
=============================================================================
