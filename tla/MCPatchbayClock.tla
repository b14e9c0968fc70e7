-------------------------- MODULE MCPatchbayClock --------------------------
(* PatchbayClock with short intervals, the aggregate's out of step with    *)
(* the others, so that deadlines coincide, cross and come apart.           *)
EXTENDS PatchbayClock

MCInterval == [f \in Forms |-> IF f = "aggregate" THEN 3 ELSE 2]
OneRestart == [s \in Sources |-> IF s = "import" THEN 0 ELSE 1]

\* A message that reaches every form, one that is no number, and one whose rules fail early.
MCOutcomes == {Forms, Forms \ {"bar", "window", "aggregate"}, {"bar", "debounce"}}
AllForms   == {Forms}
=============================================================================
