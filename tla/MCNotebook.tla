----------------------------- MODULE MCNotebook -----------------------------
(* Instances of Notebook for TLC.                                          *)
EXTENDS Notebook, TLC

\* The requests are interchangeable, and so are the notebooks.
Symmetry == Permutations(Request) \cup Permutations(Notebook)
=============================================================================
