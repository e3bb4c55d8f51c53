----------------------------- MODULE MCOpsConsole -----------------------------
(***************************************************************************)
(* Finite instances of OpsConsole.                                         *)
(***************************************************************************)
EXTENDS OpsConsole, TLC

\* Tasks are interchangeable.
TaskSymmetry == Permutations(Tasks)

\* The list holds a task once, so that to remove the first entry of a task is to
\* filter its entries out.
Lists == UNION {[1 .. n -> [task: Tasks, status: {"none", "approved"}]] : n \in 0 .. MaxRecent + 1}
ASSUME FilterAssumption ==
  \A list \in Lists, t \in Tasks : OnePerTask(list) =>
    Without(list, t) = SelectSeq(list, LAMBDA other : other.task # t)
=============================================================================
