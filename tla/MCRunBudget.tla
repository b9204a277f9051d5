----------------------------- MODULE MCRunBudget -----------------------------
(* One run whose parent agent and subagent work in parallel.                *)
EXTENDS RunBudget

CONSTANTS run, parent, child

MCRuns == {run}
MCBranches == {parent, child}
=============================================================================
