------------------------------ MODULE PolledRun ------------------------------
(***************************************************************************)
(* A gated run (auto_start: false) as far as the chat page tells its       *)
(* statuses apart: "executing" stands for every stage that works on the    *)
(* approved plan, "awaiting" for a command that waits for a decision.      *)
(*                                                                         *)
(* This is where the page and the engine meet.  The runs of ChatUI do what *)
(* PolledRun allows and nothing else; AgentRun, polled, does nothing that  *)
(* PolledRun does not allow.  So what ChatUI shows of the page holds with  *)
(* the runs the engine really has.                                         *)
(***************************************************************************)

VARIABLES
    run,        \* the status a poll would be answered
    token       \* was it approved, and its loop has not gone on yet?

vars == <<run, token>>

Working == {"planning", "planned", "executing", "awaiting"}

TypeOK ==
    /\ run \in Working \cup {"completed", "failed", "lost"}
    /\ token \in BOOLEAN

-----------------------------------------------------------------------------

Init == run = "planning" /\ token = FALSE

Propose ==
    /\ run = "planning"
    /\ run' = "planned"
    /\ UNCHANGED token

\* An Approve is accepted.
Grant ==
    /\ run = "planned"
    /\ token' = TRUE
    /\ UNCHANGED run

\* Nothing of the plan is done before that.
Release ==
    /\ run = "planned" /\ token
    /\ run' = "executing"
    /\ token' = FALSE

Pause ==
    /\ run = "executing"
    /\ run' = "awaiting"
    /\ UNCHANGED token

\* The user decided, or the run was cancelled and is back at its stage.
Resume ==
    /\ run = "awaiting"
    /\ run' = "executing"
    /\ UNCHANGED token

Complete ==
    /\ run = "executing"
    /\ run' = "completed"
    /\ token' = FALSE

Fail ==
    /\ run \in Working
    /\ run' = "failed"
    /\ token' = FALSE

\* The server restarted, or evicted the run.
Lose ==
    /\ run # "lost"
    /\ run' = "lost"
    /\ token' = FALSE

Next ==
    \/ Propose \/ Grant \/ Release \/ Pause \/ Resume
    \/ Complete \/ Fail \/ Lose

Spec == Init /\ [][Next]_vars

=============================================================================
