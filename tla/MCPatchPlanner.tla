-------------------------- MODULE MCPatchPlanner --------------------------
\* A sandbox proposal that passes every gate, and one for the test contour
\* that has neither a commit nor a task.
EXTENDS PatchPlanner, TLC

PatchSymmetry == Permutations(Requests)

MCProposals ==
    {[environment |-> "sandbox", sound |-> TRUE, commit |-> TRUE, linked |-> TRUE],
     [environment |-> "test", sound |-> FALSE, commit |-> FALSE, linked |-> FALSE]}
=============================================================================
