------------------------------ MODULE Figures ------------------------------
(***************************************************************************)
(* The figures that are computed from data: the summary of a load point,   *)
(* the bill of a window, what fits in memory, the rows of a kernel, and    *)
(* the verdict on a quantised model.                                       *)
(***************************************************************************)
EXTENDS Statistics, Costs, Budget, Kernels, Quality

\* Each figure is that of its definition, whatever the data, and in whatever
\* order the records, the tiles and the answers came.
FiguresAreExact == SummaryIsExact /\ BillsAddUp /\ BudgetIsSound /\ KernelsExact /\ VerdictIsEarned
=============================================================================
