------------------------- MODULE MCPolicyBudget ---------------------------
(* Limits, estimates and reports for the runs of PolicyBudget. *)
EXTENDS PolicyBudget, TLC

Amounts(in, out, t, c) == [input |-> in, output |-> out, tools |-> t, cost |-> c]

\* Two calls; one input token and one tool at a time, a cost of three, and any
\* output.
RunLimit == [calls |-> 2, input |-> 1, output |-> 0, total |-> 0, tools |-> 1, cost |-> 3]
TwoADay == [calls |-> 2, cost |-> 3]

\* The second estimate has no cost: a call with it is refused.
Estimated == {Amounts(1, 1, 1, 1), Amounts(0, 0, 0, Unknown)}

\* Less than estimated, in part unknown; and more than was estimated, so much
\* that the next reservation, or a second such report, passes MaxInt.
Reports == {Amounts(0, Unknown, 0, Unknown), Amounts(0, 4, 0, 1)}

Symmetry == Permutations(Runs) \cup Permutations(Requests) \cup Permutations(Ids)
=============================================================================
