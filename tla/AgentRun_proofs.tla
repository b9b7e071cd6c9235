--------------------------- MODULE AgentRun_proofs ---------------------------
(***************************************************************************)
(* Proofs about AgentRun, for any number of requests, files, commands and  *)
(* any bounds.                                                             *)
(***************************************************************************)
EXTENDS AgentRun, TLAPS

(***************************************************************************)
(* Where the loop is determines the status the clients see, and what its   *)
(* locals hold.  The type invariant is not inductive without it: restoring *)
(* the status after a decision needs prev to be a status.                  *)
(***************************************************************************)
ToolStatus == IF InFix THEN "fixing" ELSE "executing"

ControlInv ==
    /\ pc = "plan" => status = "planning" /\ step = 1 /\ steps = << >>
    /\ pc \in {"gate", "release"} => status = "planned"
    /\ pc \in {"step", "exec", "stepdone"} => status = "executing"
    /\ pc \in {"exec", "stepdone"} => ~InFix
    /\ pc = "inspect" => status = "inspecting" /\ InFix
    /\ pc \in {"fix", "fixed", "compared"} => status = "fixing" /\ InFix
    /\ pc \in {"verify", "finish"} => status \in {"inspecting", "fixing"}
    /\ pc = "ended" => isTerminal(status)
    /\ pc \in {"run", "running"} => status = ToolStatus /\ cmd \in Commands
    /\ pc \in {"await", "decided"} =>
           /\ status = "awaiting_approval" /\ prev = ToolStatus
           /\ cmd \in Commands
    /\ pc = "decided" <=> answer # None
    /\ chat # "idle" => pc \in ChatStages
    /\ chat = "backoff" => attempt < MaxRetries
    /\ \A h \in Handlers :
           /\ hpc[h] \in {"remove", "write"} => buildSnap \in Workspaces
           /\ opened[h] # None => hpc[h] = "write" /\ opened[h] \in hset[h]

IInv == TypeOK /\ ControlInv

-----------------------------------------------------------------------------

USE RunAssumption

LEMMA InitIInv == Init => IInv
  <1> SUFFICES ASSUME Init PROVE IInv
    OBVIOUS
  <1>1. ws \in Workspaces
    BY DEF Init, Workspaces, Empty, Contents, Absent
  <1>2. steps \in Seq({"pending", "active", "done"})
    BY DEF Init
  <1>3. /\ hpc \in [Handlers -> HandlerStates]
        /\ hset \in [Handlers -> SUBSET Files]
        /\ opened \in [Handlers -> Files \cup {None}]
    BY DEF Init, HandlerStates
  <1>4. TypeOK
    <2>1. RunTypeOK /\ SharedTypeOK
      BY <1>1, <1>2, <1>3 DEF Init, RunTypeOK, SharedTypeOK, Statuses
    <2>2. found \in [files : SUBSET Files, changes : SUBSET Files,
                     issues : SUBSET Files]
      BY DEF Init
    <2>3. LoopTypeOK
      BY <2>2 DEF Init, LoopTypeOK, LoopStates
    <2>4. HistoryTypeOK
      <3>1. consents \in Int /\ late \in Nat /\ broken = {} /\ outdated = {}
        BY DEF Init
      <3>2. released \in BOOLEAN /\ reverted = "no" /\ tampered \in BOOLEAN
        BY DEF Init
      <3>3. built \in Workspaces
        BY DEF Init, Workspaces, Empty, Contents, Absent
      <3> QED
        BY <1>3, <3>1, <3>2, <3>3 DEF HistoryTypeOK
    <2> QED
      BY <2>1, <2>3, <2>4 DEF TypeOK
  <1>5. ControlInv
    BY DEF Init, ControlInv, ChatStages
  <1>6. QED
    BY <1>4, <1>5 DEF IInv

(***************************************************************************)
(* Every step of the loop keeps the invariant.                             *)
(***************************************************************************)
LEMMA LoopIInv == IInv /\ Loop => IInv'
  <1> SUFFICES ASSUME IInv, Loop PROVE IInv'
    OBVIOUS
  <1> USE DEF IInv, TypeOK, RunTypeOK, SharedTypeOK, LoopTypeOK,
              HistoryTypeOK, ControlInv, ChatStages, LoopStates, Statuses,
              isTerminal, InFix, ToolStatus, Stage, StageEnd, EndTurn,
              LeaveStage, Replied, Fail, runVars, reportVars, envVars,
              loopVars, chatVars, turnVars, cmdVars, handlerVars, historyVars,
              userHistory, diskHistory
  <1>1. CASE ChatSend
    <2>1. CASE ctxDone
      BY <1>1, <2>1 DEF ChatSend
    <2>2. CASE ~ctxDone
      BY <1>1, <2>2 DEF ChatSend
    <2> QED
      BY <2>1, <2>2
  <1>2. CASE ChatFails
    BY <1>2 DEF ChatFails
  <1>3. CASE ChatRateLimited
    BY <1>3 DEF ChatRateLimited
  <1>4. CASE BackoffEnds
    BY <1>4 DEF BackoffEnds
  <1>5. CASE PlanReply
    BY <1>5 DEF PlanReply, Plans, AfterPlan
  <1>6. CASE GateOpens
    <2>1. RunTypeOK' /\ SharedTypeOK'
      BY <1>6 DEF GateOpens
    <2>2. LoopTypeOK' /\ HistoryTypeOK'
      BY <1>6 DEF GateOpens
    <2>3. ControlInv'
      BY <1>6 DEF GateOpens
    <2> QED
      BY <2>1, <2>2, <2>3
  <1>7. CASE GateCancelled
    BY <1>7 DEF GateCancelled
  <1>8. CASE Release
    BY <1>8 DEF Release
  <1>9. CASE StepBegin
    BY <1>9 DEF StepBegin
  <1>10. CASE StepDone
    BY <1>10 DEF StepDone, List
  <1>11. CASE Narrates
    BY <1>11 DEF Narrates
  <1>12. CASE SaysDone
    BY <1>12 DEF SaysDone
  <1>13. CASE LookTool
    BY <1>13 DEF LookTool, CountLate
  <1>14. ASSUME NEW f \in Files, NEW c \in Writable, WriteTool(f, c) PROVE IInv'
    BY <1>14 DEF WriteTool, CountLate, Workspaces, Contents
  <1>15. ASSUME NEW c \in Commands, RunFreely(c) PROVE IInv'
    BY <1>15 DEF RunFreely
  <1>16. ASSUME NEW c \in Commands, AskApproval(c) PROVE IInv'
    <2>1. RunTypeOK' /\ SharedTypeOK'
      BY <1>16 DEF AskApproval
    <2>2. LoopTypeOK'
      BY <1>16 DEF AskApproval
    <2>3. HistoryTypeOK'
      BY <1>16 DEF AskApproval, Handlers
    <2>4. ControlInv'
      BY <1>16 DEF AskApproval
    <2> QED
      BY <2>1, <2>2, <2>3, <2>4
  <1>17. CASE TakeDecision
    <2>1. RunTypeOK' /\ SharedTypeOK'
      BY <1>17 DEF TakeDecision
    <2>2. LoopTypeOK'
      BY <1>17 DEF TakeDecision
    <2>3. HistoryTypeOK'
      BY <1>17 DEF TakeDecision
    <2>4. ControlInv'
      BY <1>17 DEF TakeDecision
    <2> QED
      BY <2>1, <2>2, <2>3, <2>4
  <1>18. CASE AwaitCancelled
    BY <1>18 DEF AwaitCancelled, CardGone
  <1>19. CASE ApplyDecision
    BY <1>19 DEF ApplyDecision, CardGone, Decisions
  <1>20. CASE CommandRefused
    <2>1. Outcome(FALSE) \in {"clean", "failed", "recovered"}
      BY DEF Outcome
    <2>2. RunTypeOK'
      BY <1>20, <2>1 DEF CommandRefused
    <2>3. SharedTypeOK' /\ HistoryTypeOK'
      BY <1>20 DEF CommandRefused
    <2>4. LoopTypeOK'
      BY <1>20 DEF CommandRefused
    <2>5. ControlInv'
      BY <1>20 DEF CommandRefused
    <2> QED
      BY <2>2, <2>3, <2>4, <2>5
  <1>21. CASE CommandStarts
    BY <1>21 DEF CommandStarts
  <1>22. ASSUME NEW ok \in BOOLEAN, NEW w \in Workspaces, CommandEnds(ok, w)
         PROVE  IInv'
    <2>1. Outcome(ok) \in {"clean", "failed", "recovered"}
      BY DEF Outcome
    <2>2. RunTypeOK'
      BY <1>22, <2>1 DEF CommandEnds
    <2>3. SharedTypeOK' /\ HistoryTypeOK'
      BY <1>22 DEF CommandEnds
    <2>4. LoopTypeOK'
      BY <1>22 DEF CommandEnds
    <2>5. ControlInv'
      BY <1>22 DEF CommandEnds
    <2> QED
      BY <2>2, <2>3, <2>4, <2>5
  <1>23. CASE NothingBuilt
    BY <1>23 DEF NothingBuilt
  <1>24. CASE TakeSnapshot
    <2>1. Snapshot(ws) \in Workspaces
      BY DEF Snapshot, Workspaces, Contents
    <2>2. List(ws) \in SUBSET Files
      BY DEF List
    <2>3. found' \in [files : SUBSET Files, changes : SUBSET Files,
                      issues : SUBSET Files]
      BY <1>24, <2>2 DEF TakeSnapshot
    <2>4. RunTypeOK' /\ SharedTypeOK' /\ HistoryTypeOK'
      BY <1>24, <2>1 DEF TakeSnapshot
    <2>5. LoopTypeOK'
      BY <1>24, <2>3 DEF TakeSnapshot
    <2>6. ControlInv'
      BY <1>24, <2>1 DEF TakeSnapshot
    <2> QED
      BY <2>4, <2>5, <2>6
  <1>25. CASE InspectPasses
    BY <1>25 DEF InspectPasses
  <1>26. CASE InspectObjects
    BY <1>26 DEF InspectObjects
  <1>27. CASE CompareFixed
    <2>1. /\ List(ws) \in SUBSET Files
          /\ Diff(buildSnap, Snapshot(ws)) \in SUBSET Files
      BY DEF List, Diff
    <2>2. found' \in [files : SUBSET Files, changes : SUBSET Files,
                      issues : SUBSET Files]
      BY <1>27, <2>1 DEF CompareFixed
    <2> QED
      BY <1>27, <2>2 DEF CompareFixed
  <1>28. CASE RecordChanges
    BY <1>28 DEF RecordChanges
  <1>29. CASE Verify
    <2>1. BrokenReferences(ws) \in SUBSET Files
      BY DEF BrokenReferences, List
    <2>2. found' \in [files : SUBSET Files, changes : SUBSET Files,
                      issues : SUBSET Files]
      BY <1>29, <2>1 DEF Verify
    <2>3. RunTypeOK' /\ SharedTypeOK' /\ HistoryTypeOK'
      BY <1>29 DEF Verify
    <2>4. LoopTypeOK'
      BY <1>29, <2>2 DEF Verify
    <2>5. ControlInv'
      BY <1>29 DEF Verify
    <2> QED
      BY <2>3, <2>4, <2>5
  <1>30. CASE Finish
    BY <1>30 DEF Finish, buildResult
  <1> QED
    BY <1>1, <1>2, <1>3, <1>4, <1>5, <1>6, <1>7, <1>8, <1>9, <1>10, <1>11,
       <1>12, <1>13, <1>14, <1>15, <1>16, <1>17, <1>18, <1>19, <1>20, <1>21,
       <1>22, <1>23, <1>24, <1>25, <1>26, <1>27, <1>28, <1>29, <1>30
       DEF Loop, Turn, Approval, Command

(***************************************************************************)
(* So does every step of an HTTP request, and the end of the context.      *)
(***************************************************************************)
LEMMA HandlerIInv ==
    ASSUME IInv, NEW h \in Handlers,
           \/ Approve(h)
           \/ Decide(h)
           \/ Revert(h)
    PROVE  IInv'
  <1> USE DEF IInv, TypeOK, RunTypeOK, SharedTypeOK, LoopTypeOK,
              HistoryTypeOK, ControlInv, HandlerStates, InFix, ToolStatus,
              Goto, List, runVars, reportVars, envVars, loopVars, chatVars,
              turnVars, cmdVars, handlerVars, historyVars, userHistory,
              diskHistory
  <1>1. CASE ApproveCheck(h)
    BY <1>1 DEF ApproveCheck
  <1>2. CASE ApproveSend(h)
    BY <1>2 DEF ApproveSend
  <1>3. CASE DecideCheck(h)
    BY <1>3 DEF DecideCheck
  <1>4. ASSUME NEW allow \in BOOLEAN, NEW remember \in BOOLEAN,
               DecideSend(h, allow, remember)
        PROVE  IInv'
    BY <1>4 DEF DecideSend, HasNoDecision, Decisions
  <1>5. CASE RevertBegin(h)
    BY <1>5 DEF RevertBegin, ToRemove
  <1>6. ASSUME NEW f \in Files, RestoreRemove(h, f) PROVE IInv'
    BY <1>6 DEF RestoreRemove, Workspaces, Contents
  <1>7. CASE RestoreRemoved(h)
    BY <1>7 DEF RestoreRemoved
  <1>8. CASE RestoreWrite(h)
    <2> DEFINE f == opened[h]
    <2>1. /\ f \in Files /\ buildSnap \in Workspaces
          /\ Written(f) \subseteq Contents
      BY <1>8 DEF RestoreWrite, Written, Workspaces, Contents
    <2>2. /\ ws' \in Workspaces
          /\ hset' \in [Handlers -> SUBSET Files]
          /\ opened' \in [Handlers -> Files \cup {None}]
          /\ broken' \subseteq Files
      BY <1>8, <2>1 DEF RestoreWrite, Workspaces
    <2>3. \A g \in Handlers : opened'[g] # None =>
              hpc'[g] = "write" /\ opened'[g] \in hset'[g]
      BY <1>8 DEF RestoreWrite
    <2> QED
      BY <1>8, <2>2, <2>3 DEF RestoreWrite
  <1>12. ASSUME NEW f \in Files, RestoreOpen(h, f) PROVE IInv'
    <2>1. ws' \in Workspaces
      BY <1>12 DEF RestoreOpen, Workspaces, Contents
    <2> QED
      BY <1>12, <2>1 DEF RestoreOpen
  <1>9. CASE RestoreFails(h)
    BY <1>9 DEF RestoreFails
  <1>10. CASE RevertList(h)
    BY <1>10 DEF RevertList
  <1>11. CASE RevertPublish(h)
    BY <1>11 DEF RevertPublish
  <1> QED
    BY <1>1, <1>2, <1>3, <1>4, <1>5, <1>6, <1>7, <1>8, <1>9, <1>10, <1>11,
       <1>12
    DEF Approve, Decide, Revert

LEMMA NextIInv == IInv /\ [Next]_vars => IInv'
  <1> SUFFICES ASSUME IInv, [Next]_vars PROVE IInv'
    OBVIOUS
  <1>1. CASE Loop
    BY <1>1, LoopIInv
  <1>2. ASSUME NEW h \in Handlers, Approve(h) \/ Decide(h) \/ Revert(h)
        PROVE  IInv'
    BY <1>2, HandlerIInv
  <1>3. CASE ContextEnds
    BY <1>3 DEF ContextEnds, IInv, TypeOK, RunTypeOK, SharedTypeOK,
                LoopTypeOK, HistoryTypeOK, ControlInv, InFix, ToolStatus,
                runVars, reportVars, loopVars, chatVars, turnVars, cmdVars,
                handlerVars, historyVars, userHistory, diskHistory
  <1>4. CASE UNCHANGED vars
    <2> USE <1>4 DEF vars, runVars, reportVars, envVars, loopVars, chatVars,
                     turnVars, cmdVars, handlerVars, historyVars, userHistory,
                     diskHistory, IInv, TypeOK
    <2>1. RunTypeOK' /\ SharedTypeOK'
      BY DEF RunTypeOK, SharedTypeOK
    <2>2. LoopTypeOK' /\ HistoryTypeOK'
      BY DEF LoopTypeOK, HistoryTypeOK
    <2>3. ControlInv'
      BY DEF ControlInv, InFix, ToolStatus
    <2> QED
      BY <2>1, <2>2, <2>3
  <1> QED
    BY <1>1, <1>2, <1>3, <1>4 DEF Next, Handlers

LEMMA Invariance == Spec => []IInv
  BY InitIInv, NextIInv, PTL DEF Spec

\* No counter leaves the bounds of the code's constants, no status is restored
\* that was not saved, and nothing is reported that is no file of the run.
THEOREM TypeCorrect == Spec => []TypeOK
  BY Invariance, PTL DEF IInv

-----------------------------------------------------------------------------
(***************************************************************************)
(* One Allow, one command.  Only three steps move a decision: into the     *)
(* channel, from there to the loop, from the loop to a command.            *)
(***************************************************************************)
LEMMA DecisionMoves ==
    ASSUME IInv, [Next]_vars
    PROVE  \/ UNCHANGED <<decision, answer, consents>>
           \/ TakeDecision
           \/ ApplyDecision
           \/ \E h \in Deciders, allow, remember \in BOOLEAN :
                  DecideSend(h, allow, remember)
  <1> USE DEF Fail, Replied, runVars, reportVars, envVars, loopVars, chatVars,
              turnVars, cmdVars, handlerVars, historyVars, userHistory,
              diskHistory
  <1>1. CASE Loop
    BY <1>1 DEF Loop, Turn, Approval, Command, ChatSend, ChatFails,
                ChatRateLimited, BackoffEnds, PlanReply, Plans,
                AfterPlan, GateOpens, GateCancelled, Release, StepBegin,
                StepDone, Narrates,
                SaysDone, LookTool, WriteTool, RunFreely, AskApproval,
                AwaitCancelled, CardGone, CommandRefused, CommandStarts,
                CommandEnds, NothingBuilt, TakeSnapshot, InspectPasses,
                InspectObjects, CompareFixed, RecordChanges, Verify, Finish,
                buildResult
  <1>2. ASSUME NEW h \in Approvers, Approve(h)
        PROVE  UNCHANGED <<decision, answer, consents>>
    BY <1>2 DEF Approve, ApproveCheck, ApproveSend
  <1>3. ASSUME NEW h \in Deciders, DecideCheck(h)
        PROVE  UNCHANGED <<decision, answer, consents>>
    BY <1>3 DEF DecideCheck
  <1>4. ASSUME NEW h \in Reverters, Revert(h)
        PROVE  UNCHANGED <<decision, answer, consents>>
    BY <1>4 DEF Revert, RevertBegin, ToRemove, RestoreRemove, RestoreRemoved,
                RestoreOpen, RestoreWrite, RestoreFails, RevertList,
                RevertPublish
  <1>5. CASE ContextEnds \/ UNCHANGED vars
    BY <1>5 DEF ContextEnds, vars
  <1> QED
    BY <1>1, <1>2, <1>3, <1>4, <1>5 DEF Next, Decide

\* However many requests decide at once, and whenever they do, the engine never
\* lets two commands through on one Allow.
THEOREM OneAllow == Spec => []OneAllowOneCommand
  <1>1. Init => OneAllowOneCommand
    BY DEF Init, OneAllowOneCommand
  <1>2. IInv /\ OneAllowOneCommand /\ [Next]_vars => OneAllowOneCommand'
    <2> SUFFICES ASSUME IInv, OneAllowOneCommand, [Next]_vars
                 PROVE  OneAllowOneCommand'
      OBVIOUS
    <2> USE DEF OneAllowOneCommand, IInv, TypeOK, HistoryTypeOK, historyVars,
                userHistory, diskHistory
    <2>1. CASE UNCHANGED <<decision, answer, consents>>
      BY <2>1
    <2>2. CASE TakeDecision
      BY <2>2 DEF TakeDecision, ControlInv
    <2>3. CASE ApplyDecision
      BY <2>3 DEF ApplyDecision, CardGone, ControlInv, envVars
    <2>4. ASSUME NEW h \in Deciders, NEW allow \in BOOLEAN,
                 NEW remember \in BOOLEAN, DecideSend(h, allow, remember)
          PROVE  OneAllowOneCommand'
      <3>2. [allow |-> allow, remember |-> remember] \in Decisions
        BY DEF Decisions
      <3>3. answer' = answer
        BY <2>4 DEF DecideSend, HasNoDecision, loopVars, cmdVars
      <3> QED
        BY <2>4, <3>2, <3>3 DEF DecideSend, HasNoDecision
    <2> QED
      BY <2>1, <2>2, <2>3, <2>4, DecisionMoves
  <1> QED
    BY <1>1, <1>2, Invariance, PTL DEF Spec

-----------------------------------------------------------------------------
(***************************************************************************)
(* AgentRun implements RunLifecycle.                                       *)
(***************************************************************************)

\* The steps that leave the status alone.
LEMMA QuietStep ==
    ASSUME IInv, [Next]_vars
    PROVE  \/ UNCHANGED <<status, prev>>
           \/ ChatSend \/ ChatFails \/ BackoffEnds
           \/ PlanReply \/ GateCancelled \/ Release
           \/ \E c \in Commands : AskApproval(c)
           \/ AwaitCancelled \/ ApplyDecision
           \/ NothingBuilt \/ TakeSnapshot \/ InspectObjects \/ Finish
  <1> USE DEF runVars, reportVars, envVars, loopVars, chatVars, turnVars,
              cmdVars, handlerVars, historyVars, userHistory, diskHistory
  <1>1. CASE Loop
    BY <1>1 DEF Loop, Turn, Approval, Command,
                ChatRateLimited, GateOpens, StepBegin, StepDone, Narrates,
                SaysDone, LookTool, WriteTool, RunFreely, TakeDecision,
                CommandRefused, CommandStarts, CommandEnds, InspectPasses,
                CompareFixed, RecordChanges, Verify
  <1>2. ASSUME NEW h \in Handlers, Approve(h) \/ Decide(h) \/ Revert(h)
        PROVE  UNCHANGED <<status, prev>>
    BY <1>2 DEF Approve, ApproveCheck, ApproveSend, Decide, DecideCheck,
                DecideSend, HasNoDecision, Revert, RevertBegin, ToRemove,
                RestoreRemove, RestoreRemoved, RestoreOpen, RestoreWrite,
                RestoreFails, RevertList, RevertPublish
  <1>3. CASE ContextEnds \/ UNCHANGED vars
    BY <1>3 DEF ContextEnds, vars
  <1> QED
    BY <1>1, <1>2, <1>3 DEF Next, Handlers

LEMMA StepImplements ==
    ASSUME IInv, [Next]_vars
    PROVE  [Lifecycle!Next]_(Lifecycle!vars)
  <1> USE DEF IInv, ControlInv, ChatStages, ToolStatus, Fail, Replied,
              Lifecycle!vars, Lifecycle!Next, Lifecycle!Working,
              Lifecycle!ToolStages, runVars, reportVars, loopVars, cmdVars
  <1>1. CASE UNCHANGED <<status, prev>>
    BY <1>1
  <1>2. CASE ChatSend
    BY <1>2 DEF ChatSend, Lifecycle!Fail
  <1>3. CASE ChatFails
    BY <1>3 DEF ChatFails, Lifecycle!Fail
  <1>4. CASE BackoffEnds
    BY <1>4 DEF BackoffEnds, Lifecycle!Fail
  <1>5. CASE PlanReply
    BY <1>5 DEF PlanReply, Plans, AfterPlan, Lifecycle!Propose,
                Lifecycle!Execute
  <1>6. CASE GateCancelled
    BY <1>6 DEF GateCancelled, Lifecycle!Fail
  <1>7. CASE Release
    BY <1>7 DEF Release, Lifecycle!Execute
  <1>8. ASSUME NEW c \in Commands, AskApproval(c)
         PROVE  [Lifecycle!Next]_(Lifecycle!vars)
    BY <1>8 DEF AskApproval, Stage, Lifecycle!Pause
  <1>9. CASE AwaitCancelled
    BY <1>9 DEF AwaitCancelled, CardGone, Lifecycle!Resume
  <1>10. CASE ApplyDecision
    BY <1>10 DEF ApplyDecision, CardGone, Lifecycle!Resume
  <1>11. CASE NothingBuilt
    BY <1>11 DEF NothingBuilt, Lifecycle!Fail
  <1>12. CASE TakeSnapshot
    BY <1>12 DEF TakeSnapshot, Lifecycle!Inspect
  <1>13. CASE InspectObjects
    BY <1>13 DEF InspectObjects, Lifecycle!Fix
  <1>14. CASE Finish
    BY <1>14 DEF Finish, buildResult, Lifecycle!Complete
  <1> QED
    BY <1>1, <1>2, <1>3, <1>4, <1>5, <1>6, <1>7, <1>8, <1>9, <1>10, <1>11,
       <1>12, <1>13, <1>14,
       QuietStep

\* The progression of agent.go's Status comment, for every interleaving of the
\* loop with decisions, cancellation and reverts: a run never goes back to an
\* earlier stage, completes only through an inspection, resumes after a
\* decision in the stage it was paused in, and never leaves a final status.
THEOREM Refinement == Spec => ImplementsLifecycle
  <1>1. Init => Lifecycle!Init
    BY DEF Init, Lifecycle!Init
  <1>2. IInv /\ [Next]_vars => [Lifecycle!Next]_(Lifecycle!vars)
    BY StepImplements
  <1> QED
    BY <1>1, <1>2, Invariance, PTL
    DEF Spec, ImplementsLifecycle, Lifecycle!Spec

-----------------------------------------------------------------------------
(***************************************************************************)
(* A cancelled run.  Once a tool ran late, the loop has no model call in   *)
(* flight, and under a context that is done it cannot begin one.           *)
(***************************************************************************)
LateInv ==
    /\ late \in {0, 1}
    /\ late = 1 => ctxDone /\ chat = "idle"

\* Whatever the model answered, whichever stage the run is in: after a Cancel
\* (or the deadline) at most one tool still touches the workspace.
THEOREM CancelledRunStops == Spec => []CancelStopsWork
  <1>1. Init => LateInv
    BY DEF Init, LateInv
  <1>2. IInv /\ LateInv /\ [Next]_vars => LateInv'
    <2> SUFFICES ASSUME IInv, LateInv, [Next]_vars PROVE LateInv'
      OBVIOUS
    <2> USE DEF LateInv, runVars, reportVars, envVars, loopVars, chatVars,
                turnVars, cmdVars, handlerVars, historyVars, userHistory,
                diskHistory
    <2>1. CASE Loop
      <3> USE DEF Fail, Replied
      <3>1. CASE LookTool \/ \E f \in Files, c \in Writable : WriteTool(f, c)
        BY <3>1 DEF LookTool, WriteTool, CountLate
      <3>2. CASE ChatSend \/ ChatFails \/ ChatRateLimited \/ BackoffEnds
        BY <3>2 DEF ChatSend, ChatFails, ChatRateLimited, BackoffEnds
      <3>3. CASE PlanReply \/ GateOpens \/ GateCancelled \/ Release
                 \/ StepBegin \/ StepDone
        BY <3>3 DEF PlanReply, Plans, AfterPlan, GateOpens, GateCancelled,
                    Release, StepBegin, StepDone
      <3>4. CASE Narrates \/ SaysDone
                 \/ \E c \in Commands : RunFreely(c) \/ AskApproval(c)
        BY <3>4 DEF Narrates, SaysDone, RunFreely, AskApproval
      <3>5. CASE Approval \/ Command
        BY <3>5 DEF Approval, TakeDecision, AwaitCancelled, CardGone,
                    ApplyDecision, Command, CommandRefused, CommandStarts,
                    CommandEnds
      <3>6. CASE NothingBuilt \/ TakeSnapshot \/ InspectPasses
                 \/ InspectObjects \/ CompareFixed \/ RecordChanges \/ Verify
                 \/ Finish
        BY <3>6 DEF NothingBuilt, TakeSnapshot, InspectPasses, InspectObjects,
                    CompareFixed, RecordChanges, Verify, Finish,
                    buildResult
      <3> QED
        BY <2>1, <3>1, <3>2, <3>3, <3>4, <3>5, <3>6 DEF Loop, Turn
    <2>2. ASSUME NEW h \in Handlers, Approve(h) \/ Decide(h) \/ Revert(h)
          PROVE  LateInv'
      BY <2>2 DEF Approve, ApproveCheck, ApproveSend, Decide, DecideCheck,
                  DecideSend, HasNoDecision, Revert, RevertBegin, ToRemove,
                  RestoreRemove, RestoreRemoved, RestoreOpen, RestoreWrite,
                  RestoreFails, RevertList, RevertPublish
    <2>3. CASE ContextEnds \/ UNCHANGED vars
      BY <2>3 DEF ContextEnds, vars
    <2> QED
      BY <2>1, <2>2, <2>3 DEF Next, Handlers
  <1>3. LateInv => CancelStopsWork
    BY DEF LateInv, CancelStopsWork
  <1> QED
    BY <1>1, <1>2, <1>3, Invariance, PTL DEF Spec

-----------------------------------------------------------------------------
(***************************************************************************)
(* The plan-approval gate.  As long as no Approve was accepted the channel *)
(* is empty, so the loop is before the gate, at it, or has failed there.   *)
(***************************************************************************)
GateInv ==
    ~autoStart /\ ~released =>
        /\ pc \in {"plan", "gate", "ended"}
        /\ status \in {"planning", "planned", "failed"}
        /\ approve = FALSE /\ pending = None /\ recovery = "clean"
        /\ buildSnap = None
        /\ \A h \in Handlers : hpc[h] \in {"idle", "approve", "decide"}
        /\ ws = Empty

\* No command, no file and no question to the user before the plan is
\* approved, for any number of concurrent approvals, retries and reverts.
THEOREM GateHolds == Spec => []NoWorkBeforeApproval
  <1>1. Init => GateInv
    BY DEF Init, GateInv
  <1>2. IInv /\ GateInv /\ [Next]_vars => GateInv'
    <2> SUFFICES ASSUME IInv, GateInv, [Next]_vars PROVE GateInv'
      OBVIOUS
    <2> USE DEF GateInv, IInv, ControlInv, TypeOK, SharedTypeOK, runVars,
                reportVars, envVars, loopVars, chatVars, turnVars, cmdVars,
                handlerVars, historyVars, userHistory, diskHistory
    <2>1. CASE Loop
      <3> SUFFICES ASSUME ~autoStart, ~released PROVE GateInv'
        BY <2>1 DEF Loop, Turn, Approval, Command, Fail, Replied, ChatSend,
                    ChatFails, ChatRateLimited, BackoffEnds, PlanReply, Plans,
                    AfterPlan, GateOpens, GateCancelled, Release, StepBegin,
                    StepDone, Narrates, SaysDone, LookTool, WriteTool,
                    RunFreely, AskApproval, TakeDecision, AwaitCancelled,
                    CardGone, ApplyDecision, CommandRefused, CommandStarts,
                    CommandEnds, NothingBuilt, TakeSnapshot, InspectPasses,
                    InspectObjects, CompareFixed, RecordChanges, Verify,
                    Finish, buildResult
      <3>1. ChatSend \/ ChatFails \/ ChatRateLimited \/ BackoffEnds
            \/ PlanReply \/ GateCancelled
        BY <2>1 DEF Loop, Turn, Approval, Command, Replied, Stage, GateOpens,
                    Release, StepBegin, StepDone, Narrates, SaysDone, LookTool,
                    WriteTool, RunFreely, AskApproval, TakeDecision,
                    AwaitCancelled, CardGone, ApplyDecision, CommandRefused,
                    CommandStarts, CommandEnds, NothingBuilt, TakeSnapshot,
                    InspectPasses, InspectObjects, CompareFixed, RecordChanges,
                    Verify, Finish,
                    buildResult
      <3> QED
        BY <3>1 DEF ChatSend, ChatFails, ChatRateLimited, BackoffEnds,
                    PlanReply, Plans, AfterPlan, GateCancelled, Fail, Replied
    <2>2. ASSUME NEW h \in Handlers, Approve(h) \/ Decide(h) \/ Revert(h)
          PROVE  GateInv'
      <3>1. CASE Approve(h) \/ Decide(h)
        BY <2>2, <3>1 DEF Approve, ApproveCheck, ApproveSend, Decide,
                    DecideCheck, DecideSend, HasNoDecision, Goto
      <3>2. CASE Revert(h)
        BY <2>2, <3>2 DEF Revert, RevertBegin, ToRemove, RestoreRemove,
                    RestoreRemoved, RestoreOpen, RestoreWrite, RestoreFails,
                    RevertList, RevertPublish, Goto
      <3> QED
        BY <2>2, <3>1, <3>2
    <2>3. CASE ContextEnds \/ UNCHANGED vars
      BY <2>3 DEF ContextEnds, vars
    <2> QED
      BY <2>1, <2>2, <2>3 DEF Next, Handlers
  <1>3. GateInv => NoWorkBeforeApproval
    BY DEF GateInv, NoWorkBeforeApproval, List, Empty
  <1> QED
    BY <1>1, <1>2, <1>3, Invariance, PTL DEF Spec

-----------------------------------------------------------------------------
(***************************************************************************)
(* The steps shown to the user.                                            *)
(***************************************************************************)
OrderInv ==
    /\ \A i \in DOMAIN steps : /\ i < step => steps[i] = "done"
                               /\ i > step => steps[i] = "pending"
    /\ pc \in {"plan", "gate", "release"} =>
           step = 1 /\ \A i \in DOMAIN steps : steps[i] = "pending"
    /\ pc \in {"verify", "finish"} \/ status = "completed" => InFix

\* A client polling at any time sees finished steps, then at most one it is at,
\* then pending ones, and a completed run has none left.
THEOREM StepsShownInOrder == Spec => []StepsInOrder
  <1>1. Init => OrderInv
    BY DEF Init, OrderInv
  <1>2. IInv /\ OrderInv /\ [Next]_vars => OrderInv'
    <2> SUFFICES ASSUME IInv, OrderInv, [Next]_vars PROVE OrderInv'
      OBVIOUS
    <2> USE DEF OrderInv, InFix, IInv, ControlInv, TypeOK, RunTypeOK,
                LoopTypeOK, runVars, reportVars, envVars, loopVars, chatVars,
                turnVars, cmdVars, handlerVars, historyVars, userHistory,
                diskHistory
    <2>1. CASE Loop
      <3> USE DEF Fail, Replied, Stage, StageEnd, EndTurn, LeaveStage,
                  ToolStatus, Statuses, ChatStages
      <3>1. CASE PlanReply
        BY <3>1 DEF PlanReply, Plans, AfterPlan
      <3>2. CASE Release
        BY <3>2 DEF Release
      <3>3. CASE StepBegin
        BY <3>3 DEF StepBegin
      <3>4. CASE StepDone
        BY <3>4 DEF StepDone
      <3>5. CASE ChatSend \/ ChatFails \/ ChatRateLimited \/ BackoffEnds
                 \/ GateOpens \/ GateCancelled
        BY <3>5 DEF ChatSend, ChatFails, ChatRateLimited, BackoffEnds,
                    GateOpens, GateCancelled
      <3>6. CASE Turn
        BY <3>6 DEF Turn, Narrates, SaysDone, LookTool, WriteTool, RunFreely,
                    AskApproval
      <3>7. CASE Approval
        BY <3>7 DEF Approval, TakeDecision, AwaitCancelled, CardGone,
                    ApplyDecision
      <3>8. CASE Command
        <4>1. CASE CommandRefused
          BY <4>1 DEF CommandRefused
        <4>2. CASE CommandStarts
          BY <4>2 DEF CommandStarts
        <4>3. ASSUME NEW ok \in BOOLEAN, NEW w \in Workspaces,
                     CommandEnds(ok, w)
              PROVE  OrderInv'
          BY <4>3 DEF CommandEnds
        <4> QED
          BY <3>8, <4>1, <4>2, <4>3 DEF Command
      <3>9. CASE NothingBuilt \/ TakeSnapshot \/ InspectPasses
                 \/ InspectObjects \/ CompareFixed \/ RecordChanges \/ Verify
                 \/ Finish
        BY <3>9 DEF NothingBuilt, TakeSnapshot, InspectPasses, InspectObjects,
                    CompareFixed, RecordChanges, Verify, Finish,
                    buildResult
      <3> QED
        BY <2>1, <3>1, <3>2, <3>3, <3>4, <3>5, <3>6, <3>7, <3>8, <3>9 DEF Loop
    <2>2. ASSUME NEW h \in Handlers, Approve(h) \/ Decide(h) \/ Revert(h)
          PROVE  OrderInv'
      <3>1. UNCHANGED <<status, steps, step, pc>>
        BY <2>2 DEF Approve, ApproveCheck, ApproveSend, Decide, DecideCheck,
                    DecideSend, HasNoDecision, Revert, RevertBegin, ToRemove,
                    RestoreRemove, RestoreRemoved, RestoreOpen, RestoreWrite,
                    RestoreFails, RevertList, RevertPublish
      <3> QED
        BY <3>1
    <2>3. CASE ContextEnds \/ UNCHANGED vars
      BY <2>3 DEF ContextEnds, vars
    <2> QED
      BY <2>1, <2>2, <2>3 DEF Next, Handlers
  <1>3. IInv /\ OrderInv => StepsInOrder
    BY DEF OrderInv, StepsInOrder, InFix, IInv, TypeOK, RunTypeOK, LoopTypeOK
  <1> QED
    BY <1>1, <1>2, <1>3, Invariance, PTL DEF Spec

-----------------------------------------------------------------------------
(***************************************************************************)
(* Revert.  Once the loop has ended, every step of every Restore brings    *)
(* the workspace closer to the snapshot, but for the page it has opened    *)
(* and not written.  So Reverts that race or fail leave at most such pages *)
(* behind of what another one restored.                                    *)
(***************************************************************************)
Removing(h) ==
    /\ List(ws) \ List(buildSnap) \subseteq hset[h]
    /\ hset[h] \cap List(buildSnap) = {}

\* What is on disk of a page of the snapshot that Restore has written.
Kept(f) == ws[f] = buildSnap[f] \/ CutShort(f)

Writing(h) ==
    /\ List(ws) \subseteq List(buildSnap)
    /\ hset[h] \subseteq List(buildSnap)
    /\ \A f \in List(buildSnap) \ hset[h] : Kept(f)
    /\ opened[h] # None => ws[opened[h]] \in {Partial, buildSnap[opened[h]]}

Restored == List(ws) = List(buildSnap) /\ \A f \in Files : Kept(f)

Publishing(h) == Restored /\ hset[h] = List(buildSnap)

Reverted == Restored /\ changes = {} /\ manifest = List(buildSnap)

SnapInv == buildSnap # None => buildSnap = Snapshot(built)

RestoreInv ==
    ~tampered =>
        /\ \A h \in Handlers :
               /\ Reverting(h) => pc = "ended" /\ buildSnap # None
               /\ hpc[h] = "remove" => Removing(h)
               /\ hpc[h] = "write" => Writing(h)
               /\ hpc[h] = "publish" => Publishing(h)
        /\ reverted = "done" => pc = "ended" /\ buildSnap # None /\ Reverted

\* What RestoreInv says besides who is reverting depends on these alone.
diskVars == <<ws, buildSnap, broken, opened>>

\* A step of the loop: it has not ended, so no untampered Revert has begun.
LEMMA LoopRunning == IInv /\ Loop => pc # "ended"
  BY DEF IInv, ControlInv, ChatStages, Loop, Turn, Approval, Command, Replied,
         Stage, InFix, ChatSend, ChatFails, ChatRateLimited, BackoffEnds,
         PlanReply, GateOpens, GateCancelled, Release, StepBegin, StepDone,
         Narrates, SaysDone, LookTool, WriteTool, RunFreely, AskApproval,
         TakeDecision, AwaitCancelled, ApplyDecision, CommandRefused,
         CommandStarts, CommandEnds, NothingBuilt, TakeSnapshot, InspectPasses,
         InspectObjects, CompareFixed, RecordChanges, Verify, Finish

LEMMA LoopKeeps == Loop => UNCHANGED <<hpc, hset, opened, broken, reverted,
                                     tampered>>
  BY DEF Loop, Turn, Approval, Command, ChatSend, ChatFails, ChatRateLimited,
         BackoffEnds, PlanReply, GateOpens, GateCancelled, Release, StepBegin,
         StepDone, Narrates, SaysDone, LookTool, WriteTool, RunFreely,
         AskApproval, TakeDecision, AwaitCancelled, ApplyDecision,
         CommandRefused, CommandStarts, CommandEnds, NothingBuilt,
         TakeSnapshot, InspectPasses, InspectObjects, CompareFixed,
         RecordChanges, Verify, Finish, handlerVars, historyVars, userHistory,
         diskHistory

\* A page stays, in full or in part, when a file is opened or written beside it.
LEMMA KeptBeside ==
    ASSUME NEW h \in Handlers, NEW f \in Files, NEW g \in Files, g # f, IInv,
           Kept(g), buildSnap' = buildSnap,
           \E c : ws' = [ws EXCEPT ![f] = c],
           \/ opened[h] = f /\ broken' = broken \ {f}
           \/ opened[h] = None /\ broken' = broken,
           \E o : opened' = [opened EXCEPT ![h] = o]
    PROVE  Kept(g)'
  <1>1. ws'[g] = ws[g]
    BY DEF IInv, TypeOK, SharedTypeOK, Workspaces
  <1>2. CASE ws[g] = buildSnap[g]
    BY <1>1, <1>2 DEF Kept
  <1>3. CASE CutShort(g)
    <2>1. g \in broken => g \in broken'
      OBVIOUS
    <2>2. ASSUME NEW k \in Handlers, opened[k] = g PROVE opened'[k] = g
      BY <2>2 DEF IInv, TypeOK, SharedTypeOK
    <2> QED
      BY <1>1, <1>3, <2>1, <2>2 DEF Kept, CutShort
  <1> QED
    BY <1>2, <1>3 DEF Kept

\* A page that is being rewritten: it is there in part.
LEMMA OpenKeeps ==
    ASSUME IInv, RestoreInv, ~tampered, NEW h \in Handlers, NEW f \in Files,
           RestoreOpen(h, f)
    PROVE  /\ \A g \in Files : Kept(g) => Kept(g)'
           /\ List(ws') = List(ws) \cup {f}
           /\ f \in List(buildSnap)
  <1> USE DEF IInv, TypeOK, SharedTypeOK, runVars, RestoreOpen
  <1>1. CutShort(f)'
    BY DEF CutShort, Workspaces
  <1>2. ASSUME NEW g \in Files, Kept(g) PROVE Kept(g)'
    <2>1. CASE g = f
      BY <1>1, <2>1 DEF Kept
    <2>2. CASE g # f
      <3>1. /\ buildSnap' = buildSnap /\ opened[h] = None /\ broken' = broken
            /\ \E c : ws' = [ws EXCEPT ![f] = c]
            /\ \E o : opened' = [opened EXCEPT ![h] = o]
        BY DEF historyVars, diskHistory
      <3> QED
        BY <1>2, <2>2, <3>1, KeptBeside
    <2> QED
      BY <2>1, <2>2
  <1>3. List(ws') = List(ws) \cup {f}
    BY DEF List, Workspaces, Partial, Absent
  <1>4. f \in List(buildSnap)
    BY DEF RestoreInv, Writing
  <1> QED
    BY <1>2, <1>3, <1>4

\* A page that has been rewritten: it is that of the snapshot.
LEMMA WriteKeeps ==
    ASSUME IInv, RestoreInv, ~tampered, NEW h \in Handlers, RestoreWrite(h),
           NEW f \in Files, f = opened[h]
    PROVE  /\ \A g \in Files : Kept(g) => Kept(g)'
           /\ Kept(f)'
           /\ List(ws') = List(ws) \cup {f}
           /\ f \in List(buildSnap)
           /\ ws' = [ws EXCEPT ![f] = buildSnap[f]]
  <1> USE DEF IInv, TypeOK, SharedTypeOK, runVars, RestoreWrite
  <1>1. f \in hset[h] /\ hpc[h] = "write"
    BY DEF ControlInv
  <1>2. f \in List(buildSnap) /\ ws[f] \in {Partial, buildSnap[f]}
    BY <1>1 DEF RestoreInv, Writing
  <1>3. ws' = [ws EXCEPT ![f] = buildSnap[f]] /\ buildSnap' = buildSnap
    <2>1. ws[f] # Absent
      BY <1>2 DEF List, Partial, Absent
    <2>2. Written(f) = {buildSnap[f]}
      BY <1>2, <2>1 DEF Written
    <2> QED
      BY <2>2
  <1>4. Kept(f)'
    <2>1. ws'[f] = buildSnap'[f]
      BY <1>1, <1>3 DEF Workspaces
    <2>2. ws'[f] = buildSnap'[f] => Kept(f)'
      BY DEF Kept
    <2> QED
      BY <2>1, <2>2
  <1>5. ASSUME NEW g \in Files, Kept(g) PROVE Kept(g)'
    <2>1. CASE g = f
      BY <1>3, <1>1, <2>1 DEF Kept, Workspaces
    <2>2. CASE g # f
      <3>1. /\ broken' = broken \ {f}
            /\ \E c : ws' = [ws EXCEPT ![f] = c]
            /\ \E o : opened' = [opened EXCEPT ![h] = o]
        BY <1>3
      <3> QED
        BY <1>1, <1>3, <1>5, <2>2, <3>1, KeptBeside
    <2> QED
      BY <2>1, <2>2
  <1>6. List(ws') = List(ws) \cup {f}
    BY <1>1, <1>2, <1>3 DEF List, Workspaces
  <1> QED
    BY <1>2, <1>3, <1>4, <1>5, <1>6

\* The steps of one Restore, whoever else is restoring.
LEMMA RevertRestores ==
    ASSUME IInv, RestoreInv, NEW h \in Handlers, Revert(h)
    PROVE  RestoreInv'
  <1> SUFFICES ASSUME ~tampered' PROVE RestoreInv'
    BY DEF RestoreInv
  <1> USE DEF IInv, TypeOK, SharedTypeOK, RunTypeOK, runVars, reportVars,
              envVars, loopVars, handlerVars, historyVars, userHistory,
              diskHistory, RestoreInv, Reverting, Goto, Reverted
  <1>1. CASE RevertBegin(h)
    <2>1. Removing(h)'
      BY <1>1 DEF RevertBegin, ToRemove, Removing, List
    <2>2. ~tampered /\ pc = "ended" /\ buildSnap # None
      BY <1>1 DEF RevertBegin
    <2>3. ASSUME NEW g \in Handlers, g # h
          PROVE  hpc'[g] = hpc[g] /\ hset'[g] = hset[g]
      BY <1>1, <2>3 DEF RevertBegin
    <2>4. UNCHANGED diskVars /\ (Restored => Restored')
      BY <1>1 DEF RevertBegin, diskVars, Restored, Kept, CutShort, List
    <2> QED
      BY <1>1, <2>1, <2>2, <2>3, <2>4
      DEF RevertBegin, Removing, Writing, Publishing, Kept, CutShort, diskVars
  <1>2. ASSUME NEW f \in Files, RestoreRemove(h, f) PROVE RestoreInv'
    <2>1. /\ ~tampered /\ pc = "ended" /\ Removing(h) /\ f \notin List(buildSnap)
          /\ UNCHANGED <<buildSnap, pc, hpc, reverted, changes, manifest>>
          /\ ws' = [ws EXCEPT ![f] = Absent]
          /\ hset' = [hset EXCEPT ![h] = @ \ {f}]
          /\ hpc[h] = "remove" /\ ws[f] # Absent /\ f \in List(ws)
      BY <1>2 DEF RestoreRemove, Removing, List
    <2>2. List(ws') = List(ws) \ {f}
      BY <2>1 DEF List, Workspaces
    <2>3. ASSUME NEW g \in Handlers
          PROVE  /\ hpc'[g] = "remove" => Removing(g)'
                 /\ hpc'[g] # "write"
                 /\ hpc'[g] # "publish"
      <3>0. ~Writing(g) /\ ~Publishing(g)
        BY <2>1 DEF Writing, Publishing, Restored
      <3>1. hpc[g] # "write" /\ hpc[g] # "publish"
        BY <2>1, <3>0
      <3>2. hpc[g] = "remove" => Removing(g)
        BY <2>1
      <3> QED
        BY <2>1, <2>2, <3>1, <3>2 DEF Removing
    <2>4. reverted # "done"
      BY <2>1 DEF Restored
    <2> QED
      BY <2>1, <2>3, <2>4
  <1>3. CASE RestoreRemoved(h)
    <2>1. UNCHANGED diskVars /\ (Restored => Restored')
      BY <1>3 DEF RestoreRemoved, diskVars, Restored, Kept, CutShort, List
    <2>2. Writing(h)'
      BY <1>3, <2>1
      DEF RestoreRemoved, Removing, Writing, diskVars, ControlInv
    <2>3. ASSUME NEW g \in Handlers, g # h
          PROVE  hpc'[g] = hpc[g] /\ hset'[g] = hset[g]
      BY <1>3, <2>3 DEF RestoreRemoved
    <2> QED
      BY <1>3, <2>1, <2>2, <2>3
      DEF RestoreRemoved, Removing, Writing, Publishing, Kept, CutShort,
          diskVars
  <1>4. ASSUME NEW f \in Files, RestoreOpen(h, f) PROVE RestoreInv'
    <2>1. /\ ~tampered /\ hpc[h] = "write"
          /\ UNCHANGED <<buildSnap, pc, hpc, hset, reverted, changes, manifest,
                         broken>>
      BY <1>4 DEF RestoreOpen
    <2>1a. /\ ws' = [ws EXCEPT ![f] = Partial]
          /\ opened' = [opened EXCEPT ![h] = f]
      BY <1>4 DEF RestoreOpen
    <2>2. /\ \A g \in Files : Kept(g) => Kept(g)'
          /\ List(ws') = List(ws) \cup {f} /\ f \in List(buildSnap)
      BY <1>4, <2>1, OpenKeeps
    <2>3. ASSUME Restored PROVE Restored'
      <3>1. List(ws') = List(buildSnap')
        BY <2>1, <2>2, <2>3 DEF Restored
      <3>2. \A g \in Files : Kept(g)'
        BY <2>2, <2>3 DEF Restored
      <3> QED
        BY <3>1, <3>2 DEF Restored
    <2>4. ASSUME NEW g \in Handlers, hpc[g] = "write" PROVE Writing(g)'
      <3>1. opened'[g] # None =>
                ws'[opened'[g]] \in {Partial, buildSnap[opened'[g]]}
        BY <2>1, <2>1a, <2>4 DEF Writing, Workspaces
      <3>2. Writing(g) /\ List(buildSnap) \subseteq Files
        BY <2>1, <2>4 DEF List
      <3> QED
        BY <2>1, <2>2, <3>1, <3>2 DEF Writing
    <2>5. ASSUME NEW g \in Handlers
          PROVE  /\ hpc[g] = "remove" => Removing(g)'
                 /\ hpc[g] = "publish" => Publishing(g)'
      BY <2>1, <2>2, <2>3 DEF Removing, Publishing
    <2> QED
      BY <2>1, <2>3, <2>4, <2>5
  <1>5. CASE RestoreWrite(h)
    <2>0. PICK f \in Files : f = opened[h]
      BY <1>5 DEF RestoreWrite, ControlInv
    <2>1. /\ ~tampered /\ hpc[h] = "write"
          /\ UNCHANGED <<buildSnap, pc, hpc, reverted, changes, manifest>>
          /\ hset' = [hset EXCEPT ![h] = @ \ {f}]
          /\ opened' = [opened EXCEPT ![h] = None]
      BY <1>5, <2>0 DEF RestoreWrite, ControlInv
    <2>2. /\ \A g \in Files : Kept(g) => Kept(g)'
          /\ Kept(f)'
          /\ List(ws') = List(ws) \cup {f} /\ f \in List(buildSnap)
      BY <1>5, <2>0, <2>1, WriteKeeps
    <2>1a. ws' = [ws EXCEPT ![f] = buildSnap[f]]
      BY <1>5, <2>0, <2>1, WriteKeeps
    <2>3. ASSUME Restored PROVE Restored'
      <3>1. List(ws') = List(buildSnap')
        BY <2>1, <2>2, <2>3 DEF Restored
      <3>2. \A g \in Files : Kept(g)'
        BY <2>2, <2>3 DEF Restored
      <3> QED
        BY <3>1, <3>2 DEF Restored
    <2>4. ASSUME NEW g \in Handlers, hpc[g] = "write" PROVE Writing(g)'
      <3>1. opened'[g] # None =>
                ws'[opened'[g]] \in {Partial, buildSnap[opened'[g]]}
        BY <2>1, <2>2, <2>1a, <2>4 DEF Writing, Workspaces
      <3>2. Writing(g) /\ List(buildSnap) \subseteq Files
        BY <2>1, <2>4 DEF List
      <3>3. hset'[g] = hset[g] \/ hset'[g] = hset[g] \ {f}
        BY <2>1
      <3>4. \A q \in List(buildSnap) \ hset'[g] : Kept(q)'
        BY <2>2, <3>2, <3>3 DEF Writing
      <3> QED
        BY <2>1, <2>2, <3>1, <3>2, <3>3, <3>4 DEF Writing
    <2>5. ASSUME NEW g \in Handlers
          PROVE  /\ hpc[g] = "remove" => Removing(g)'
                 /\ hpc[g] = "publish" => Publishing(g)'
      BY <2>1, <2>2, <2>3 DEF Removing, Publishing
    <2> QED
      BY <2>1, <2>3, <2>4, <2>5
  <1>6. CASE RestoreFails(h)
    <2>1. ~tampered /\ UNCHANGED <<ws, buildSnap, pc, changes, manifest>>
      BY <1>6 DEF RestoreFails
    <2>2. ASSUME NEW g \in Handlers, g # h
          PROVE  hpc'[g] = hpc[g] /\ hset'[g] = hset[g] /\ opened'[g] = opened[g]
      BY <1>6, <2>2 DEF RestoreFails
    <2>3. ASSUME NEW g \in Files, Kept(g) PROVE Kept(g)'
      <3>1. \A k \in Handlers :
                opened[k] = g => opened'[k] = g \/ g \in broken'
        BY <1>6 DEF RestoreFails
      <3>2. broken \subseteq broken'
        BY <1>6 DEF RestoreFails
      <3> QED
        BY <2>1, <2>3, <3>1, <3>2 DEF Kept, CutShort
    <2>4. hpc'[h] = "idle" /\ (reverted' = "done" => reverted = "done")
      BY <1>6 DEF RestoreFails
    <2>5. Restored => Restored'
      BY <2>1, <2>3 DEF Restored
    <2>6. ASSUME NEW g \in Handlers, hpc'[g] = "write" PROVE Writing(g)'
      <3>1. Writing(g) /\ g # h /\ List(buildSnap) \subseteq Files
        BY <2>1, <2>2, <2>4, <2>6 DEF List
      <3> QED
        BY <2>1, <2>2, <2>3, <3>1 DEF Writing
    <2> QED
      BY <2>1, <2>2, <2>4, <2>5, <2>6 DEF Removing, Publishing
  <1>7. CASE RevertList(h)
    <2>1. /\ ~tampered /\ Writing(h) /\ hset[h] = {} /\ buildSnap \in Workspaces
          /\ hset' = [hset EXCEPT ![h] = List(ws)]
      BY <1>7 DEF RevertList, ControlInv
    <2>2. Restored
      <3>1. ASSUME NEW f \in Files
            PROVE  Kept(f) /\ (f \in List(buildSnap) => f \in List(ws))
        BY <2>1 DEF Writing, List, Kept, CutShort, Partial, Absent
      <3> QED
        BY <2>1, <3>1 DEF Restored, Writing, List
    <2>3. UNCHANGED diskVars /\ Restored'
      BY <1>7, <2>2 DEF RevertList, diskVars, Restored, Kept, CutShort, List
    <2>4. Publishing(h)'
      BY <2>1, <2>2, <2>3 DEF Restored, Publishing, diskVars
    <2>5. ASSUME NEW g \in Handlers, g # h
          PROVE  hpc'[g] = hpc[g] /\ hset'[g] = hset[g]
      BY <1>7, <2>5 DEF RevertList
    <2> QED
      BY <1>7, <2>3, <2>4, <2>5
      DEF RevertList, Removing, Writing, Publishing, Kept, CutShort, diskVars
  <1>8. CASE RevertPublish(h)
    <2>1. ~tampered /\ Publishing(h) /\ pc = "ended" /\ buildSnap # None
      BY <1>8 DEF RevertPublish
    <2>2. UNCHANGED diskVars /\ Restored'
      BY <1>8, <2>1
      DEF RevertPublish, Publishing, diskVars, Restored, Kept, CutShort, List
    <2>3. Reverted' /\ pc' = "ended" /\ buildSnap' # None
      BY <1>8, <2>1, <2>2 DEF RevertPublish, Publishing
    <2>4. ASSUME NEW g \in Handlers, g # h
          PROVE  hpc'[g] = hpc[g] /\ hset'[g] = hset[g]
      BY <1>8, <2>4 DEF RevertPublish
    <2>5. hpc'[h] = "idle"
      BY <1>8 DEF RevertPublish
    <2> QED
      BY <1>8, <2>2, <2>3, <2>4, <2>5
      DEF RevertPublish, Removing, Writing, Publishing, Kept, CutShort,
          diskVars
  <1> QED
    BY <1>1, <1>2, <1>3, <1>4, <1>5, <1>6, <1>7, <1>8 DEF Revert

LEMMA NextRestores == IInv /\ RestoreInv /\ [Next]_vars => RestoreInv'
  <1> SUFFICES ASSUME IInv, RestoreInv, [Next]_vars PROVE RestoreInv'
    OBVIOUS
  <1>1. CASE Loop
    BY <1>1, LoopRunning, LoopKeeps DEF RestoreInv, Reverting
  <1>2. ASSUME NEW h \in Handlers, Approve(h) \/ Decide(h) PROVE RestoreInv'
    <2>1. /\ UNCHANGED <<diskVars, pc, hset, changes, manifest, reverted,
                         tampered>>
          /\ \A g \in Handlers : Reverting(g)' => hpc'[g] = hpc[g]
      BY <1>2 DEF Approve, ApproveCheck, ApproveSend, Decide, DecideCheck,
                  DecideSend, HasNoDecision, Goto, Reverting, runVars,
                  reportVars, envVars, loopVars, handlerVars, historyVars,
                  userHistory, diskHistory, diskVars, IInv, TypeOK,
                  SharedTypeOK
    <2> QED
      BY <2>1 DEF RestoreInv, Reverting, Removing, Writing, Publishing,
                  Reverted, Restored, Kept, CutShort, diskVars
  <1>3. ASSUME NEW h \in Handlers, Revert(h) PROVE RestoreInv'
    BY <1>3, RevertRestores
  <1>4. CASE ContextEnds \/ UNCHANGED vars
    <2>1. UNCHANGED <<diskVars, pc, hpc, hset, changes, manifest, reverted,
                      tampered>>
      BY <1>4 DEF ContextEnds, vars, runVars, reportVars, loopVars,
                  handlerVars, historyVars, userHistory, diskHistory, diskVars
    <2> QED
      BY <2>1 DEF RestoreInv, Reverting, Removing, Writing, Publishing,
                  Reverted, Restored, Kept, CutShort, diskVars
  <1> QED
    BY <1>1, <1>2, <1>3, <1>4 DEF Next, Handlers

LEMMA RestoreInvariance == Spec => []RestoreInv
  <1>1. Init => RestoreInv
    BY DEF Init, RestoreInv, Reverting
  <1> QED
    BY <1>1, NextRestores, Invariance, PTL DEF Spec

\* The snapshot is taken once, of what the steps of the plan built.
LEMMA SnapshotOfBuild == Spec => []SnapInv
  <1>1. Init => SnapInv
    BY DEF Init, SnapInv
  <1>2. SnapInv /\ [Next]_vars => SnapInv'
    <2> SUFFICES ASSUME SnapInv, [Next]_vars PROVE SnapInv'
      OBVIOUS
    <2>1. CASE TakeSnapshot
      BY <2>1 DEF TakeSnapshot, SnapInv
    <2>2. UNCHANGED <<buildSnap, built>> \/ TakeSnapshot
      <3> USE DEF Fail, runVars, handlerVars, historyVars, diskHistory
      <3>1. CASE Loop
        BY <3>1 DEF Loop, Turn, Approval, Command, ChatSend, ChatFails,
             ChatRateLimited, BackoffEnds, PlanReply, GateOpens, GateCancelled,
             Release, StepBegin, StepDone, Narrates, SaysDone, LookTool,
             WriteTool, RunFreely, AskApproval, TakeDecision, AwaitCancelled,
             ApplyDecision, CommandRefused, CommandStarts, CommandEnds,
             NothingBuilt, InspectPasses, InspectObjects, CompareFixed,
             RecordChanges, Verify, Finish
      <3>2. ASSUME NEW h \in Handlers, Approve(h) \/ Decide(h) \/ Revert(h)
            PROVE  UNCHANGED <<buildSnap, built>>
        BY <3>2 DEF Approve, ApproveCheck, ApproveSend, Decide, DecideCheck,
             DecideSend, Revert, RevertBegin, RestoreRemove, RestoreRemoved,
             RestoreOpen, RestoreWrite, RestoreFails, RevertList, RevertPublish
      <3>3. CASE ContextEnds \/ UNCHANGED vars
        BY <3>3 DEF ContextEnds, vars
      <3> QED
        BY <3>1, <3>2, <3>3 DEF Next, Handlers
    <2> QED
      BY <2>1, <2>2 DEF SnapInv
  <1> QED
    BY <1>1, <1>2, PTL DEF Spec

\* A Revert that reports success after the run ended leaves the build on disk,
\* for any number of Reverts that failed, race it or fail after it, but for the
\* files the snapshot could not hold and the pages another Revert has cut short.
THEOREM RevertIsExact == Spec => []RevertRestoresBuild
  <1>1. RestoreInv /\ SnapInv => RevertRestoresBuild
    <2> SUFFICES ASSUME RestoreInv, SnapInv, pc = "ended", ~tampered,
                        reverted = "done"
                 PROVE  /\ changes = {} /\ manifest = List(ws)
                        /\ \A f \in Files :
                               \/ ws[f] = IF built[f] = Big THEN Absent
                                                            ELSE built[f]
                               \/ CutShort(f)
      BY DEF RevertRestoresBuild
    <2>1. Reverted /\ buildSnap = Snapshot(built)
      BY DEF RestoreInv, SnapInv
    <2> QED
      BY <2>1 DEF Reverted, Restored, Kept, Snapshot
  <1> QED
    BY <1>1, RestoreInvariance, SnapshotOfBuild, PTL

-----------------------------------------------------------------------------
(***************************************************************************)
(* The report.  From the inspection on, what the loop found is what is on  *)
(* disk, since only the fix stage and Reverts write.                       *)
(***************************************************************************)
ReportInv ==
    ~tampered /\ reverted = "no" /\ (\A h \in Handlers : ~Reverting(h)) =>
        /\ pc \notin {"verify", "finish", "ended"} => changes = {}
        /\ pc = "inspect" =>
               found.files = List(ws) /\ buildSnap = Snapshot(ws)
        /\ pc = "compared" =>
               /\ found.files = List(ws)
               /\ found.changes = Diff(buildSnap, Snapshot(ws))
        /\ pc \in {"verify", "finish"} =>
               /\ found.files = List(ws)
               /\ changes = Diff(buildSnap, Snapshot(ws))
        /\ pc = "finish" => found.issues = BrokenReferences(ws)
        /\ status = "completed" =>
               /\ manifest = List(ws)
               /\ verification = BrokenReferences(ws)
               /\ changes = Diff(buildSnap, Snapshot(ws))
               /\ result.files = manifest
               /\ result.issues = verification

\* The steps of the loop, where no Revert has touched the run.
LEMMA LoopReports ==
    ASSUME IInv, ReportInv, Loop, ~tampered, reverted = "no",
           \A h \in Handlers : ~Reverting(h)
    PROVE  ReportInv'
  <1> USE DEF ReportInv, IInv, TypeOK, RunTypeOK, LoopTypeOK, ControlInv,
              ChatStages, ToolStatus, InFix, Statuses, isTerminal, Replied,
              Fail, Stage, StageEnd, EndTurn, LeaveStage, runVars, reportVars,
              envVars, loopVars, chatVars, turnVars, cmdVars, handlerVars,
              historyVars, userHistory, diskHistory
  <1>1. CASE ChatSend \/ ChatFails \/ ChatRateLimited \/ BackoffEnds
    BY <1>1 DEF ChatSend, ChatFails, ChatRateLimited, BackoffEnds
  <1>2. CASE PlanReply \/ GateOpens \/ GateCancelled \/ Release
             \/ StepBegin \/ StepDone
    BY <1>2 DEF PlanReply, Plans, AfterPlan, GateOpens, GateCancelled,
                Release, StepBegin, StepDone
  <1>3. CASE Turn
    BY <1>3 DEF Turn, Narrates, SaysDone, LookTool, WriteTool, RunFreely,
                AskApproval
  <1>4. CASE Approval
    BY <1>4 DEF Approval, TakeDecision, AwaitCancelled, CardGone, ApplyDecision
  <1>5. CASE CommandRefused \/ CommandStarts
    BY <1>5 DEF CommandRefused, CommandStarts
  <1>6. ASSUME NEW ok \in BOOLEAN, NEW w \in Workspaces, CommandEnds(ok, w)
        PROVE  ReportInv'
    BY <1>6 DEF CommandEnds
  <1>7. CASE NothingBuilt
    BY <1>7 DEF NothingBuilt
  <1>8. CASE TakeSnapshot
    BY <1>8 DEF TakeSnapshot
  <1>9. CASE InspectPasses
    <2>1. Diff(buildSnap, Snapshot(ws)) = {}
      BY <1>9 DEF InspectPasses, Diff
    <2> QED
      BY <1>9, <2>1 DEF InspectPasses
  <1>10. CASE InspectObjects
    BY <1>10 DEF InspectObjects
  <1>11. CASE CompareFixed
    BY <1>11 DEF CompareFixed
  <1>12. CASE RecordChanges
    BY <1>12 DEF RecordChanges
  <1>13. CASE Verify
    BY <1>13 DEF Verify
  <1>14. CASE Finish
    BY <1>14 DEF Finish, buildResult
  <1> QED
    BY <1>1, <1>2, <1>3, <1>4, <1>5, <1>6, <1>7, <1>8, <1>9, <1>10, <1>11,
       <1>12, <1>13, <1>14 DEF Loop, Command

LEMMA NextReports == IInv /\ ReportInv /\ [Next]_vars => ReportInv'
  <1> SUFFICES ASSUME IInv, ReportInv, [Next]_vars, ~tampered',
                      reverted' = "no", \A h \in Handlers : ~Reverting(h)'
               PROVE  ReportInv'
    BY DEF ReportInv
  <1>1. CASE Loop
    BY <1>1, LoopKeeps, LoopReports DEF Reverting
  <1>2. ASSUME NEW h \in Handlers, Approve(h) \/ Decide(h) PROVE ReportInv'
    <2>1. /\ UNCHANGED <<ws, runVars, pc, found, reverted, tampered>>
          /\ \A g \in Handlers : Reverting(g) => Reverting(g)'
      BY <1>2 DEF Approve, ApproveCheck, ApproveSend, Decide, DecideCheck,
                  DecideSend, HasNoDecision, Goto, Reverting, envVars,
                  loopVars, handlerVars, historyVars, userHistory,
                  diskHistory, IInv, TypeOK, SharedTypeOK
    <2> QED
      BY <2>1 DEF ReportInv, Reverting, runVars, reportVars
  <1>3. ASSUME NEW h \in Handlers, Revert(h) PROVE ReportInv'
    <2>1. Reverting(h)' \/ reverted' # "no"
      BY <1>3 DEF Revert, RevertBegin, RestoreRemove, RestoreRemoved,
                  RestoreOpen, RestoreWrite, RestoreFails, RevertList,
                  RevertPublish, Goto, Reverting, IInv, TypeOK, SharedTypeOK,
                  ControlInv, envVars, loopVars
    <2> QED
      BY <2>1
  <1>4. CASE ContextEnds \/ UNCHANGED vars
    <2>1. UNCHANGED <<ws, runVars, pc, found, hpc, reverted, tampered>>
      BY <1>4 DEF ContextEnds, vars, loopVars, handlerVars, historyVars,
                  userHistory, diskHistory
    <2> QED
      BY <2>1 DEF ReportInv, Reverting, runVars, reportVars
  <1> QED
    BY <1>1, <1>2, <1>3, <1>4 DEF Next, Handlers

\* What a completed run reports (files, issues, changes, result) is what is on
\* disk, whatever the tools and commands did to the workspace on the way.
THEOREM ReportIsTrue == Spec => []ReportIsFaithful
  <1>1. Init => ReportInv
    BY DEF Init, ReportInv
  <1>2. ReportInv => ReportIsFaithful
    BY DEF ReportInv, ReportIsFaithful
  <1> QED
    BY <1>1, <1>2, NextReports, Invariance, PTL DEF Spec

=============================================================================
