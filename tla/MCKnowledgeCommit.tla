-------------------------- MODULE MCKnowledgeCommit --------------------------
(* Two interchangeable pages.                                              *)
EXTENDS KnowledgeCommit, TLC

Symmetric == Permutations(Pages)
=============================================================================
