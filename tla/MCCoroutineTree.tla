-------------------------- MODULE MCCoroutineTree --------------------------
(***************************************************************************)
(* Model checking CoroutineTree: two nodes of two slots, groups of two,    *)
(* and an operation more than two groups, so that every node fills up and  *)
(* a single operation is left over.                                        *)
(***************************************************************************)
EXTENDS CoroutineTree

\* The inserts of reuse.cpp.
ReusePrograms == {"reuse"} \X Styles
=============================================================================
