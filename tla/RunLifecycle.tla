---------------------------- MODULE RunLifecycle ----------------------------
(***************************************************************************)
(* What a client that polls GET /v1/agent/runs/{id} may observe of a run.  *)
(*                                                                         *)
(* agent.go promises that "the progression is fixed: planning ->           *)
(* executing -> inspecting -> (fixing) -> completed | failed", with an     *)
(* optional stop at "planned" and with "awaiting_approval" interrupting    *)
(* the phases that run commands.  The abstract state separates the two:    *)
(* phase is the stage of the work, paused says that a command of this      *)
(* stage is waiting for the user.  The status shown is "awaiting_approval" *)
(* while paused and the phase otherwise.                                   *)
(*                                                                         *)
(* AgentRun implements this specification; AgentRun!Lifecycle is the       *)
(* refinement mapping.                                                     *)
(***************************************************************************)

VARIABLES
    phase,      \* the stage of the work
    paused      \* is a command of this stage waiting for a decision?

vars == <<phase, paused>>

Working  == {"planning", "planned", "executing", "inspecting", "fixing"}
Terminal == {"completed", "failed"}

\* The stages that call tools, hence the only ones that can pause.
ToolStages == {"executing", "fixing"}

TypeOK ==
    /\ phase \in Working \cup Terminal
    /\ paused \in BOOLEAN

-----------------------------------------------------------------------------

Init ==
    /\ phase = "planning"
    /\ paused = FALSE

\* The plan is shown and the run waits for it to be approved.
Propose ==
    /\ phase = "planning"
    /\ phase' = "planned"
    /\ UNCHANGED paused

\* The plan is approved, or the run was started without a gate.
Execute ==
    /\ phase \in {"planning", "planned"}
    /\ phase' = "executing"
    /\ UNCHANGED paused

\* All the steps are done and there is something to look at.
Inspect ==
    /\ phase = "executing"
    /\ ~paused
    /\ phase' = "inspecting"
    /\ UNCHANGED paused

\* The inspection objected: one round of fixes, never a second one.
Fix ==
    /\ phase = "inspecting"
    /\ phase' = "fixing"
    /\ UNCHANGED paused

\* Only work that went through the inspection completes.
Complete ==
    /\ phase \in {"inspecting", "fixing"}
    /\ ~paused
    /\ phase' = "completed"
    /\ UNCHANGED paused

\* Any stage may fail, but not under the user's open question.
Fail ==
    /\ phase \in Working
    /\ ~paused
    /\ phase' = "failed"
    /\ UNCHANGED paused

Pause ==
    /\ phase \in ToolStages
    /\ ~paused
    /\ paused' = TRUE
    /\ UNCHANGED phase

Resume ==
    /\ paused
    /\ paused' = FALSE
    /\ UNCHANGED phase

Next ==
    \/ Propose
    \/ Execute
    \/ Inspect
    \/ Fix
    \/ Complete
    \/ Fail
    \/ Pause
    \/ Resume

Spec == Init /\ [][Next]_vars

=============================================================================
