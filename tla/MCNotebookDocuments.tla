------------------------- MODULE MCNotebookDocuments -------------------------
(* Two Notebooks, told apart by nothing but their names.                     *)
EXTENDS NotebookDocuments, TLC

Names == Permutations(Notebook)
=============================================================================
