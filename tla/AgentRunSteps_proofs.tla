------------------------ MODULE AgentRunSteps_proofs ------------------------
(***************************************************************************)
(* What the single steps of a run may do, for any number of requests,      *)
(* files, commands and any bounds: the goroutine only moves forward, over  *)
(* a bounded course; what a run ended with stays; no command runs unasked. *)
(***************************************************************************)
EXTENDS AgentRun_proofs

(***************************************************************************)
(* Where a run is, as seven numbers.  The counters of a stage start again  *)
(* when it is left, so the order is lexicographic.                         *)
(***************************************************************************)

\* The turns of a step and of the fix stage: the model call and what follows.
TurnPoints == {"exec", "fix", "await", "decided", "run", "running"}

Phase ==
    CASE pc = "plan"     -> 0
      [] pc = "gate"     -> 1
      [] pc = "release"  -> 2
      [] pc = "inspect"  -> 4
      [] pc = "fixed"    -> 6
      [] pc = "compared" -> 7
      [] pc = "verify"   -> 8
      [] pc = "finish"   -> 9
      [] pc = "ended"    -> 10
      [] OTHER -> IF pc \in TurnPoints /\ InFix THEN 5 ELSE 3

\* Before, in and after the turns of a step.
Place == CASE pc = "step"     -> 0
           [] pc = "stepdone" -> 2
           [] OTHER           -> 1

\* Within a turn: the model call, the card, the decision, the command.
Point == CASE pc = "await"   -> 1
           [] pc = "decided" -> 2
           [] pc = "run"     -> 3
           [] pc = "running" -> 4
           [] OTHER          -> 0

Call == CASE chat = "inflight" -> 1
          [] chat = "backoff"  -> 2
          [] OTHER             -> 0

Position == <<Phase, step, Place, iter, Point, attempt, Call>>

Positions ==
    (0..10) \X (1..(MaxSteps + 1)) \X (0..2) \X (0..(MaxToolCalls - 1))
        \X (0..4) \X (0..MaxRetries) \X (0..2)

Before(p, q) ==
    \E i \in DOMAIN p : p[i] < q[i] /\ \A j \in 1..(i - 1) : p[j] = q[j]

\* The goroutine never comes back to where it was, whatever the model answers,
\* the upstream refuses and the user decides; and nobody else moves it.
RunAdvances ==
    [][IF Loop THEN Before(Position, Position') ELSE UNCHANGED loopVars]_vars

\* Its course is bounded by the constants of the code alone.
CourseIsBounded == Position \in Positions

-----------------------------------------------------------------------------

USE RunAssumption

\* Before(Position, Position'), spelled out.
Further ==
    \/ Phase < Phase'
    \/ /\ Phase' = Phase
       /\ \/ step < step'
          \/ /\ step' = step
             /\ \/ Place < Place'
                \/ /\ Place' = Place
                   /\ \/ iter < iter'
                      \/ /\ iter' = iter
                         /\ \/ Point < Point'
                            \/ /\ Point' = Point
                               /\ \/ attempt < attempt'
                                  \/ attempt' = attempt /\ Call < Call'

LEMMA FurtherIsLater == Further => Before(Position, Position')
  <1> SUFFICES ASSUME Further PROVE Before(Position, Position')
    OBVIOUS
  <1> DEFINE p == Position
             q == Position'
  <1>1. /\ DOMAIN p = 1..7
        /\ p[1] = Phase /\ p[2] = step /\ p[3] = Place /\ p[4] = iter
        /\ p[5] = Point /\ p[6] = attempt /\ p[7] = Call
        /\ q[1] = Phase' /\ q[2] = step' /\ q[3] = Place' /\ q[4] = iter'
        /\ q[5] = Point' /\ q[6] = attempt' /\ q[7] = Call'
    BY DEF Position
  <1>2. SUFFICES \E i \in 1..7 : p[i] < q[i]
                                 /\ \A j \in 1..(i - 1) : p[j] = q[j]
    BY <1>1 DEF Before
  <1> HIDE DEF p, q
  <1>3. CASE Phase < Phase'
    BY <1>1, <1>3
  <1>4. CASE Phase' = Phase /\ step < step'
    BY <1>1, <1>4
  <1>5. CASE Phase' = Phase /\ step' = step /\ Place < Place'
    BY <1>1, <1>5
  <1>6. CASE Phase' = Phase /\ step' = step /\ Place' = Place /\ iter < iter'
    BY <1>1, <1>6
  <1>7. CASE /\ Phase' = Phase /\ step' = step /\ Place' = Place
             /\ iter' = iter /\ Point < Point'
    BY <1>1, <1>7
  <1>8. CASE /\ Phase' = Phase /\ step' = step /\ Place' = Place
             /\ iter' = iter /\ Point' = Point /\ attempt < attempt'
    BY <1>1, <1>8
  <1>9. CASE /\ Phase' = Phase /\ step' = step /\ Place' = Place
             /\ iter' = iter /\ Point' = Point /\ attempt' = attempt
             /\ Call < Call'
    BY <1>1, <1>9
  <1> QED
    BY <1>3, <1>4, <1>5, <1>6, <1>7, <1>8, <1>9 DEF Further

\* A failure is the end.
LEMMA FailFurther == pc # "ended" /\ Fail => Further
  BY DEF Fail, Further, Phase

\* A turn that is over: the next one, or the end of the stage.
LEMMA LeaveFurther ==
    ASSUME pc \in TurnPoints, LeaveStage, UNCHANGED <<steps, step>>
    PROVE  Further
  BY DEF TurnPoints, LeaveStage, StageEnd, InFix, Further, Phase, Place

LEMMA EndTurnFurther ==
    ASSUME IInv, pc \in TurnPoints, NEW n, EndTurn(n),
           UNCHANGED <<steps, step>>
    PROVE  Further
  <1>1. CASE iter + 1 < MaxToolCalls
    <2>1. pc' = Stage /\ iter' = iter + 1 /\ iter \in Nat
      BY <1>1 DEF EndTurn, IInv, TypeOK, LoopTypeOK
    <2> QED
      BY <2>1 DEF TurnPoints, Stage, InFix, Further, Phase, Place
  <1>2. CASE ~(iter + 1 < MaxToolCalls)
    BY <1>2, LeaveFurther DEF EndTurn
  <1> QED
    BY <1>1, <1>2

LEMMA LoopFurther == IInv /\ Loop => Further
  <1> SUFFICES ASSUME IInv, Loop PROVE Further
    OBVIOUS
  <1>0. pc # "ended"
    BY LoopRunning
  <1> USE DEF runVars, loopVars, chatVars, turnVars, cmdVars
  <1>1. CASE ChatSend
    <2>1. CASE ctxDone
      BY <1>0, <1>1, <2>1, FailFurther DEF ChatSend
    <2>2. CASE ~ctxDone
      BY <1>1, <2>2 DEF ChatSend, Further, Phase, InFix, Place, Point, Call
    <2> QED
      BY <2>1, <2>2
  <1>2. CASE ChatFails
    BY <1>0, <1>2, FailFurther DEF ChatFails
  <1>3. CASE ChatRateLimited
    BY <1>3 DEF ChatRateLimited, Further, Phase, InFix, Place, Point, Call
  <1>4. CASE BackoffEnds
    <2>1. CASE ctxDone /\ Fail
      BY <1>0, <2>1, FailFurther
    <2>2. CASE ~(ctxDone /\ Fail)
      BY <1>4, <2>2 DEF BackoffEnds, Further, Phase, InFix, Place, Point,
                        IInv, TypeOK, LoopTypeOK
    <2> QED
      BY <2>1, <2>2
  <1>5. CASE PlanReply
    BY <1>5 DEF PlanReply, AfterPlan, Replied, Further, Phase, TurnPoints
  <1>6. CASE GateOpens \/ GateCancelled \/ Release
    BY <1>0, <1>6, FailFurther
    DEF GateOpens, GateCancelled, Release, Further, Phase, TurnPoints
  <1>7. CASE StepBegin
    BY <1>7 DEF StepBegin, Further, Phase, InFix, TurnPoints, Place,
                IInv, TypeOK, RunTypeOK
  <1>8. CASE StepDone
    BY <1>8 DEF StepDone, Further, Phase, TurnPoints, IInv, TypeOK, LoopTypeOK
  <1>9. CASE Turn
    <2>1. pc = Stage /\ pc \in TurnPoints /\ UNCHANGED <<steps, step>>
      BY <1>9 DEF Turn, Narrates, SaysDone, LookTool, WriteTool, RunFreely,
                  AskApproval, Replied, Stage, TurnPoints
    <2>2. CASE LeaveStage \/ \E n : EndTurn(n)
      BY <2>1, <2>2, LeaveFurther, EndTurnFurther
    <2>3. CASE /\ pc' \in {"run", "await"} /\ iter' = iter
      BY <2>1, <2>3 DEF Stage, TurnPoints, InFix, Further, Phase, Place, Point
    <2> QED
      BY <1>9, <2>2, <2>3 DEF Turn, Narrates, SaysDone, LookTool, WriteTool,
                              RunFreely, AskApproval
  <1>10. CASE Approval
    <2>1. pc \in {"await", "decided"} /\ pc \in TurnPoints
          /\ UNCHANGED <<steps, step>>
      BY <1>10 DEF Approval, TakeDecision, AwaitCancelled, ApplyDecision,
                   TurnPoints, CardGone
    <2>2. CASE EndTurn(nudges)
      BY <2>1, <2>2, EndTurnFurther
    <2>3. CASE /\ iter' = iter
               /\ \/ pc = "await" /\ pc' = "decided"
                  \/ pc = "decided" /\ pc' = "run"
      BY <2>1, <2>3 DEF TurnPoints, InFix, Further, Phase, Place, Point
    <2> QED
      BY <1>10, <2>2, <2>3 DEF Approval, TakeDecision, AwaitCancelled,
                               ApplyDecision
  <1>11. CASE Command
    <2>1. pc \in {"run", "running"} /\ pc \in TurnPoints
          /\ UNCHANGED <<steps, step>>
      BY <1>11 DEF Command, CommandRefused, CommandStarts, CommandEnds,
                   TurnPoints
    <2>2. CASE EndTurn(nudges)
      BY <2>1, <2>2, EndTurnFurther
    <2>3. CASE iter' = iter /\ pc = "run" /\ pc' = "running"
      BY <2>1, <2>3 DEF TurnPoints, InFix, Further, Phase, Place, Point
    <2> QED
      BY <1>11, <2>2, <2>3 DEF Command, CommandRefused, CommandStarts,
                               CommandEnds
  <1>12. CASE NothingBuilt
    BY <1>0, <1>12, FailFurther DEF NothingBuilt
  <1>13. CASE TakeSnapshot \/ InspectPasses \/ InspectObjects
    BY <1>13 DEF TakeSnapshot, InspectPasses, InspectObjects, Replied, IInv,
                 ControlInv, InFix, Further, Phase, TurnPoints
  <1>14. CASE CompareFixed \/ RecordChanges \/ Verify \/ Finish
    BY <1>14 DEF CompareFixed, RecordChanges, Verify, Finish, Further, Phase
  <1> QED
    BY <1>1, <1>2, <1>3, <1>4, <1>5, <1>6, <1>7, <1>8, <1>9, <1>10, <1>11,
       <1>12, <1>13, <1>14 DEF Loop

\* No HTTP request moves the goroutine, nor does the end of its context.
LEMMA OthersKeep == [Next]_vars /\ ~Loop => UNCHANGED loopVars
  BY DEF Next, vars, Approve, ApproveCheck, ApproveSend, Decide, DecideCheck,
         DecideSend, Revert, RevertBegin, RestoreRemove, RestoreRemoved,
         RestoreOpen, RestoreWrite, RestoreFails, RevertList, RevertPublish,
         ContextEnds

THEOREM LoopMovesForward == Spec => RunAdvances
  <1>1. IInv /\ [Next]_vars
        => [IF Loop THEN Before(Position, Position')
                    ELSE UNCHANGED loopVars]_vars
    BY LoopFurther, FurtherIsLater, OthersKeep
  <1> QED
    BY <1>1, Invariance, PTL DEF Spec, RunAdvances

(***************************************************************************)
(* The bounds of the course.  All but one are in the type invariant; the   *)
(* last is that the loop is never beyond the plan by more than one.        *)
(***************************************************************************)
PlanInv == Len(steps) <= MaxSteps /\ step <= Len(steps) + 1

LEMMA PlanMoves ==
    ASSUME [Next]_vars
    PROVE  \/ UNCHANGED <<steps, step>>
           \/ PlanReply \/ Release \/ StepBegin \/ StepDone
  <1> USE DEF Fail, runVars, loopVars, turnVars
  <1>1. CASE Loop
    BY <1>1 DEF Loop, Turn, Approval, Command, ChatSend, ChatFails,
                ChatRateLimited, BackoffEnds, GateOpens, GateCancelled,
                Narrates, SaysDone, LookTool, WriteTool, RunFreely,
                AskApproval, TakeDecision, AwaitCancelled, ApplyDecision,
                CommandRefused, CommandStarts, CommandEnds, NothingBuilt,
                TakeSnapshot, InspectPasses, InspectObjects, CompareFixed,
                RecordChanges, Verify, Finish
  <1>2. ASSUME NEW h \in Handlers, Approve(h) \/ Decide(h) \/ Revert(h)
        PROVE  UNCHANGED <<steps, step>>
    BY <1>2 DEF Approve, ApproveCheck, ApproveSend, Decide, DecideCheck,
                DecideSend, Revert, RevertBegin, RestoreRemove, RestoreRemoved,
                RestoreOpen, RestoreWrite, RestoreFails, RevertList,
                RevertPublish
  <1>3. CASE ContextEnds \/ UNCHANGED vars
    BY <1>3 DEF ContextEnds, vars
  <1> QED
    BY <1>1, <1>2, <1>3 DEF Next, Handlers

LEMMA PlanInvariance == Spec => []PlanInv
  <1>1. Init => PlanInv
    BY DEF Init, PlanInv
  <1>2. IInv /\ PlanInv /\ [Next]_vars => PlanInv'
    <2> SUFFICES ASSUME IInv, PlanInv, [Next]_vars PROVE PlanInv'
      OBVIOUS
    <2> USE DEF PlanInv
    <2>0. /\ steps \in Seq({"pending", "active", "done"})
          /\ Len(steps) \in Nat /\ step \in Nat \ {0}
      BY DEF IInv, TypeOK, RunTypeOK, LoopTypeOK
    <2>1. CASE UNCHANGED <<steps, step>>
      BY <2>1
    <2>2. CASE PlanReply
      <3>1. step = 1 /\ step' = step
        BY <2>2 DEF PlanReply, Replied, IInv, ControlInv, turnVars
      <3>2. PICK n \in 1..MaxSteps : steps' = [i \in 1..n |-> "pending"]
        BY <2>2 DEF PlanReply, Plans
      <3>3. Len(steps') = n
        BY <3>2
      <3> QED
        BY <3>1, <3>3
    <2>3. CASE Release
      <3>1. step' = step /\ steps' = [i \in 1..Len(steps) |-> "pending"]
        BY <2>0, <2>3 DEF Release, turnVars
      <3>2. Len(steps') = Len(steps)
        BY <2>0, <3>1
      <3> QED
        BY <3>1, <3>2
    <2>4. CASE StepBegin
      BY <2>0, <2>4 DEF StepBegin
    <2>5. CASE StepDone
      BY <2>0, <2>5 DEF StepDone, IInv, ControlInv, InFix
    <2> QED
      BY <2>1, <2>2, <2>3, <2>4, <2>5, PlanMoves
  <1> QED
    BY <1>1, <1>2, Invariance, PTL DEF Spec

THEOREM CourseBounded == Spec => []CourseIsBounded
  <1>1. IInv /\ PlanInv => CourseIsBounded
    <2> SUFFICES ASSUME IInv, PlanInv PROVE Position \in Positions
      BY DEF CourseIsBounded
    <2>1. Phase \in 0..10 /\ Place \in 0..2 /\ Point \in 0..4 /\ Call \in 0..2
      BY DEF Phase, Place, Point, Call
    <2>2. /\ step \in 1..(MaxSteps + 1)
          /\ iter \in 0..(MaxToolCalls - 1) /\ attempt \in 0..MaxRetries
      BY DEF IInv, TypeOK, RunTypeOK, LoopTypeOK, PlanInv
    <2> QED
      BY <2>1, <2>2 DEF Position, Positions
  <1> QED
    BY <1>1, PlanInvariance, Invariance, PTL

-----------------------------------------------------------------------------
(***************************************************************************)
(* The card.                                                               *)
(***************************************************************************)

\* A client shows a card exactly while the status says so, and the card names
\* the very command the goroutine holds: requestApproval sets and clears both
\* under one lock, on every way out.
CardMatches ==
    pending = IF status = "awaiting_approval" THEN cmd ELSE None

\* No sensitive command starts but the one on the card at that moment, on an
\* Allow; commands of a category always allowed before need no card.
NothingRunsUnasked ==
    [][pc # "run" /\ pc' = "run" =>
           \/ ~Sensitive(cmd')
           \/ pc = "decided" /\ answer.allow /\ cmd' = pending]_vars

\* "Always allow" is as wide as the category of the card it was given to.
AlwaysAllowIsNarrow ==
    [][allowed' # allowed =>
           /\ pending # None /\ answer.allow /\ answer.remember
           /\ allowed' = allowed \cup {Category[pending]}]_vars

\* The status says so only while requestApproval waits.
LEMMA AwaitingAt ==
    IInv => (status = "awaiting_approval" <=> pc \in {"await", "decided"})
  BY DEF IInv, TypeOK, LoopTypeOK, LoopStates, ControlInv, ToolStatus,
         isTerminal

\* The steps that touch the card or what it speaks of.
\* It keeps the card and begins no command.
KeepsCard ==
    /\ UNCHANGED <<pending, allowed>> /\ pc' # "run"
    /\ pc \in {"await", "decided"} => UNCHANGED <<status, cmd>>
    /\ pc \notin {"await", "decided"} => status' # "awaiting_approval"

LEMMA CardMoves ==
    ASSUME IInv, [Next]_vars
    PROVE  \/ KeepsCard
           \/ \E c \in Commands : RunFreely(c) \/ AskApproval(c)
           \/ AwaitCancelled \/ ApplyDecision
           \/ UNCHANGED <<pc, pending, allowed, status, cmd>>
  <1> USE DEF runVars, loopVars, cmdVars
  <1>1. ASSUME Loop
        PROVE  \/ KeepsCard
               \/ \E c \in Commands : RunFreely(c) \/ AskApproval(c)
               \/ AwaitCancelled \/ ApplyDecision
    <2> USE AwaitingAt DEF KeepsCard, Fail, Replied, EndTurn, LeaveStage,
                           Stage, StageEnd
    <2>1. CASE ChatSend \/ ChatFails \/ ChatRateLimited \/ BackoffEnds
      <3>1. pc \in ChatStages
        BY <2>1 DEF ChatSend, ChatFails, ChatRateLimited, BackoffEnds, IInv,
                    ControlInv
      <3> QED
        BY <2>1, <3>1 DEF ChatSend, ChatFails, ChatRateLimited, BackoffEnds,
                          ChatStages
    <2>2. CASE PlanReply \/ GateOpens \/ GateCancelled \/ Release
               \/ StepBegin \/ StepDone
      BY <2>2 DEF PlanReply, AfterPlan, GateOpens, GateCancelled, Release,
                  StepBegin, StepDone
    <2>3. CASE Narrates \/ SaysDone \/ LookTool
               \/ \E f \in Files, c \in Writable : WriteTool(f, c)
      BY <2>3 DEF Narrates, SaysDone, LookTool, WriteTool
    <2>4. CASE TakeDecision
      BY <2>4 DEF TakeDecision
    <2>5. CASE Command
      BY <2>5 DEF Command, CommandRefused, CommandStarts, CommandEnds
    <2>6. CASE NothingBuilt \/ TakeSnapshot \/ InspectPasses
               \/ InspectObjects
      BY <2>6 DEF NothingBuilt, TakeSnapshot, InspectPasses, InspectObjects
    <2>7. CASE CompareFixed \/ RecordChanges \/ Verify \/ Finish
      BY <2>7 DEF CompareFixed, RecordChanges, Verify, Finish
    <2> QED
      BY <1>1, <2>1, <2>2, <2>3, <2>4, <2>5, <2>6, <2>7
      DEF Loop, Turn, Approval
  <1>2. ASSUME NEW h \in Handlers, Approve(h) \/ Decide(h) \/ Revert(h)
        PROVE  UNCHANGED <<pc, pending, allowed, status, cmd>>
    BY <1>2 DEF Approve, ApproveCheck, ApproveSend, Decide, DecideCheck,
                DecideSend, Revert, RevertBegin, RestoreRemove, RestoreRemoved,
                RestoreOpen, RestoreWrite, RestoreFails, RevertList,
                RevertPublish
  <1>3. CASE ContextEnds \/ UNCHANGED vars
    BY <1>3 DEF ContextEnds, vars
  <1> QED
    BY <1>1, <1>2, <1>3 DEF Next, Handlers

\* Every run shows the card of the command its goroutine waits to run, and no
\* other: a client that decides never sees a card without a question behind it.
THEOREM CardIsTrue == Spec => []CardMatches
  <1>1. Init => CardMatches
    BY DEF Init, CardMatches
  <1>2. IInv /\ CardMatches /\ [Next]_vars => CardMatches'
    <2> SUFFICES ASSUME IInv, CardMatches, [Next]_vars PROVE CardMatches'
      OBVIOUS
    <2>0. IInv'
      BY NextIInv
    <2> USE DEF CardMatches
    <2>1. ASSUME NEW c \in Commands, RunFreely(c) PROVE CardMatches'
      BY <2>1, AwaitingAt DEF RunFreely, Replied, Stage, runVars
    <2>2. ASSUME NEW c \in Commands, AskApproval(c) PROVE CardMatches'
      BY <2>2 DEF AskApproval
    <2>3. CASE AwaitCancelled \/ ApplyDecision
      BY <2>3 DEF AwaitCancelled, ApplyDecision, CardGone, IInv, ControlInv,
                  ToolStatus
    <2>4. CASE UNCHANGED <<pc, pending, allowed, status, cmd>>
      BY <2>4
    <2>5. CASE KeepsCard
      BY <2>5, AwaitingAt DEF KeepsCard
    <2> QED
      BY <2>1, <2>2, <2>3, <2>4, <2>5, CardMoves
  <1> QED
    BY <1>1, <1>2, Invariance, PTL DEF Spec

\* Whoever approves, whenever: a sensitive command runs only from its card, and
\* the card cannot change between the Allow and the command.
THEOREM NoCommandUnasked == Spec => NothingRunsUnasked
  <1>1. ASSUME IInv, CardMatches, [Next]_vars, pc # "run", pc' = "run"
        PROVE  \/ ~Sensitive(cmd')
               \/ pc = "decided" /\ answer.allow /\ cmd' = pending
    <2>1. ASSUME NEW c \in Commands, RunFreely(c) PROVE ~Sensitive(cmd')
      BY <2>1 DEF RunFreely, Sensitive
    <2>2. CASE \E c \in Commands : AskApproval(c)
      BY <1>1, <2>2 DEF AskApproval
    <2>3. CASE AwaitCancelled
      BY <1>1, <2>3 DEF AwaitCancelled, EndTurn, LeaveStage, Stage, StageEnd
    <2>4. CASE ApplyDecision
      BY <1>1, <2>4, AwaitingAt
      DEF ApplyDecision, CardMatches, EndTurn, LeaveStage, Stage, StageEnd
    <2> QED
      BY <1>1, <2>1, <2>2, <2>3, <2>4, CardMoves
      DEF KeepsCard
  <1> QED
    BY <1>1, Invariance, CardIsTrue, PTL DEF Spec, NothingRunsUnasked

\* However decisions are sent, no "always allow" covers more than the category
\* of the command that was on the card when it was applied.
THEOREM AlwaysAllowNarrow == Spec => AlwaysAllowIsNarrow
  <1>1. ASSUME IInv, CardMatches, [Next]_vars, allowed' # allowed
        PROVE  /\ pending # None /\ answer.allow /\ answer.remember
               /\ allowed' = allowed \cup {Category[pending]}
    <2>1. ApplyDecision
      BY <1>1, CardMoves
      DEF KeepsCard, RunFreely, AskApproval, AwaitCancelled, runVars
    <2>2. pending = cmd /\ cmd \in Commands
      BY <1>1, <2>1, AwaitingAt DEF ApplyDecision, CardMatches, IInv,
                                    ControlInv
    <2> QED
      BY <1>1, <2>1, <2>2 DEF ApplyDecision
  <1> QED
    BY <1>1, Invariance, CardIsTrue, PTL DEF Spec, AlwaysAllowIsNarrow

-----------------------------------------------------------------------------
(***************************************************************************)
(* The end.                                                                *)
(***************************************************************************)

\* What a run ended with stays for whoever polls it later: late approvals,
\* decisions, cancels and the deadline change nothing, and a Revert changes the
\* file list and the list of changes only, in one critical section.
EndIsFinal ==
    [][pc = "ended" =>
           /\ UNCHANGED <<status, pending, steps, verification, result,
                          recovery, allowed, buildSnap>>
           /\ \/ UNCHANGED <<manifest, changes>>
              \/ \E h \in Reverters : RevertPublish(h)]_vars

THEOREM EndedStaysEnded == Spec => EndIsFinal
  <1>1. ASSUME IInv, [Next]_vars, pc = "ended"
        PROVE  /\ UNCHANGED <<status, pending, steps, verification, result,
                              recovery, allowed, buildSnap>>
               /\ \/ UNCHANGED <<manifest, changes>>
                  \/ \E h \in Reverters : RevertPublish(h)
    <2> USE DEF runVars, reportVars
    <2>1. ~Loop
      BY <1>1, LoopRunning
    <2>2. ASSUME NEW h \in Handlers, Approve(h) \/ Decide(h)
          PROVE  UNCHANGED runVars
      BY <2>2 DEF Approve, ApproveCheck, ApproveSend, Decide, DecideCheck,
                  DecideSend
    <2>3. ASSUME NEW h \in Reverters, Revert(h)
          PROVE  UNCHANGED runVars \/ RevertPublish(h)
      BY <2>3 DEF Revert, RevertBegin, RestoreRemove, RestoreRemoved,
                  RestoreOpen, RestoreWrite, RestoreFails, RevertList
    <2>4. CASE ContextEnds \/ UNCHANGED vars
      BY <2>4 DEF ContextEnds, vars
    <2> QED
      BY <1>1, <2>1, <2>2, <2>3, <2>4 DEF Next, Handlers, RevertPublish
  <1> QED
    BY <1>1, Invariance, PTL DEF Spec, EndIsFinal

-----------------------------------------------------------------------------
(***************************************************************************)
(* A run as the chat page polls it.                                        *)
(***************************************************************************)
PolledStatus ==
    CASE status \in {"executing", "inspecting", "fixing"} -> "executing"
      [] status = "awaiting_approval"                     -> "awaiting"
      [] OTHER                                            -> status

\* The approval of the plan: still in the channel, or taken by the loop.
PolledToken == status = "planned" /\ (approve \/ pc = "release")

Polled == INSTANCE PolledRun WITH run <- PolledStatus, token <- PolledToken

\* Approve looks for a plan before it sends, so none is approved in advance.
ApprovalInv ==
    status = "planning" => /\ approve = FALSE
                           /\ \A h \in Handlers : hpc[h] # "approve"

LEMMA ApprovalInvariance == Spec => []ApprovalInv
  <1>1. Init => ApprovalInv
    BY DEF Init, ApprovalInv
  <1>2. IInv /\ ApprovalInv /\ [Next]_vars => ApprovalInv'
    <2> SUFFICES ASSUME IInv, ApprovalInv, [Next]_vars, status' = "planning"
                 PROVE  ApprovalInv'
      BY DEF ApprovalInv
    <2> USE DEF ApprovalInv, runVars, envVars, handlerVars, historyVars,
                userHistory, diskHistory
    <2>1. CASE Loop
      <3>1. status = "planning"
        BY <2>1, QuietStep
        DEF ChatSend, ChatFails, BackoffEnds, Fail, PlanReply, AfterPlan,
            GateCancelled, Release, AskApproval, AwaitCancelled, CardGone,
            ApplyDecision, NothingBuilt, TakeSnapshot, InspectObjects, Finish,
            IInv, ControlInv, ToolStatus
      <3>2. approve' = approve \/ approve' = FALSE
        BY <2>1 DEF Loop, Turn, Approval, Command, ChatSend, ChatFails,
            ChatRateLimited, BackoffEnds, PlanReply, GateOpens, GateCancelled,
            Release, StepBegin, StepDone, Narrates, SaysDone, LookTool,
            WriteTool, RunFreely, AskApproval, TakeDecision, AwaitCancelled,
            ApplyDecision, CommandRefused, CommandStarts, CommandEnds,
            NothingBuilt, TakeSnapshot, InspectPasses, InspectObjects,
            CompareFixed, RecordChanges, Verify, Finish
      <3> QED
        BY <2>1, <3>1, <3>2, LoopKeeps
    <2>2. ASSUME NEW h \in Handlers, Approve(h) \/ Decide(h) \/ Revert(h)
          PROVE  ApprovalInv'
      <3>1. status = "planning"
        BY <2>2 DEF Approve, ApproveCheck, ApproveSend, Decide, DecideCheck,
                    DecideSend, Revert, RevertBegin, RestoreRemove,
                    RestoreRemoved, RestoreOpen, RestoreWrite, RestoreFails,
                    RevertList, RevertPublish
      <3>2. ~Approve(h)
        BY <3>1 DEF Approve, ApproveCheck, ApproveSend
      <3>3. approve' = approve
        BY <2>2, <3>2 DEF Decide, DecideCheck, DecideSend, Revert, RevertBegin,
                    RestoreRemove, RestoreRemoved, RestoreOpen, RestoreWrite,
                    RestoreFails, RevertList, RevertPublish
      <3>4. \A g \in Handlers : hpc'[g] = "approve" => hpc[g] = "approve"
        BY <2>2, <3>2 DEF Decide, DecideCheck, DecideSend, Revert, RevertBegin,
                    RestoreRemove, RestoreRemoved, RestoreOpen, RestoreWrite,
                    RestoreFails, RevertList, RevertPublish, Goto, IInv,
                    TypeOK, SharedTypeOK
      <3> QED
        BY <3>1, <3>3, <3>4
    <2>3. CASE ContextEnds \/ UNCHANGED vars
      BY <2>3 DEF ContextEnds, vars
    <2> QED
      BY <2>1, <2>2, <2>3 DEF Next, Handlers
  <1> QED
    BY <1>1, <1>2, Invariance, PTL DEF Spec

\* A step that leaves the status alone moves the approval at most.
LEMMA QuietPolled ==
    ASSUME IInv, ApprovalInv, [Next]_vars, UNCHANGED status
    PROVE  [Polled!Next]_(Polled!vars)
  <1> USE DEF Polled!Next, Polled!vars, Polled!Grant, PolledStatus, PolledToken
  <1>1. CASE status # "planned"
    BY <1>1
  <1>2. CASE status = "planned"
    <2>1. pc \in {"gate", "release"}
      BY <1>2 DEF IInv, ControlInv, TypeOK, LoopTypeOK, LoopStates, ToolStatus,
                  isTerminal
    <2>2. CASE Loop
      <3>1. GateOpens
        BY <1>2, <2>1, <2>2 DEF Loop, Turn, Approval, Command, ChatSend,
            ChatFails, ChatRateLimited, BackoffEnds, PlanReply, GateCancelled,
            Release, StepBegin, StepDone, Narrates, SaysDone, LookTool,
            WriteTool, RunFreely, AskApproval, TakeDecision, AwaitCancelled,
            ApplyDecision, CommandRefused, CommandStarts, CommandEnds,
            NothingBuilt, TakeSnapshot, InspectPasses, InspectObjects,
            CompareFixed, RecordChanges, Verify, Finish, Fail, Replied, Stage,
            IInv, ControlInv, ChatStages
      <3> QED
        BY <3>1 DEF GateOpens, runVars
    <2>3. CASE ~Loop
      <3>1. UNCHANGED pc /\ (approve' = approve \/ approve' = TRUE)
        BY <2>3, OthersKeep
        DEF Next, vars, loopVars, envVars, Approve, ApproveCheck, ApproveSend,
            Decide, DecideCheck, DecideSend, Revert, RevertBegin,
            RestoreRemove, RestoreRemoved, RestoreOpen, RestoreWrite,
            RestoreFails, RevertList, RevertPublish, ContextEnds
      <3> QED
        BY <1>2, <3>1
    <2> QED
      BY <2>2, <2>3
  <1> QED
    BY <1>1, <1>2

LEMMA StepPolled ==
    ASSUME IInv, ApprovalInv, ~autoStart, [Next]_vars
    PROVE  [Polled!Next]_(Polled!vars)
  <1> USE DEF PolledStatus, PolledToken, Polled!vars, Polled!Next,
              Polled!Working, IInv, ControlInv
  <1>1. CASE UNCHANGED status
    BY <1>1, QuietPolled
  <1>2. ASSUME Loop, Fail
        PROVE  [Polled!Next]_(Polled!vars)
    <2> HIDE DEF Polled!Next, Polled!vars
    <2>1. pc # "ended"
      BY <1>2, LoopRunning
    <2>2. PolledStatus \in Polled!Working
      BY <2>1 DEF TypeOK, RunTypeOK, LoopTypeOK, LoopStates, Statuses,
                  ToolStatus
    <2>3. PolledStatus' = "failed" /\ PolledToken' = FALSE
      BY <1>2 DEF Fail
    <2>4. Polled!Fail
      BY <2>2, <2>3 DEF Polled!Fail
    <2> QED
      BY <2>4 DEF Polled!Next
  <1>3. CASE (ChatSend \/ ChatFails \/ BackoffEnds \/ GateCancelled
              \/ NothingBuilt) /\ ~Fail
    BY <1>1, <1>3 DEF ChatSend, ChatFails, BackoffEnds, GateCancelled,
                      NothingBuilt, runVars
  <1>4. CASE PlanReply
    BY <1>4 DEF PlanReply, Replied, AfterPlan, ApprovalInv, Polled!Propose,
                envVars
  <1>5. CASE Release
    BY <1>5 DEF Release, Polled!Release
  <1>6. ASSUME NEW c \in Commands, AskApproval(c)
        PROVE  [Polled!Next]_(Polled!vars)
    BY <1>6 DEF AskApproval, Replied, Stage, Polled!Pause
  <1>7. CASE AwaitCancelled \/ ApplyDecision
    BY <1>7 DEF AwaitCancelled, ApplyDecision, CardGone, ToolStatus,
                Polled!Resume
  <1>8. CASE TakeSnapshot \/ InspectObjects
    BY <1>8 DEF TakeSnapshot, InspectObjects, Replied
  <1>9. CASE Finish
    BY <1>9 DEF Finish, Polled!Complete
  <1>10. ChatSend \/ ChatFails \/ BackoffEnds \/ GateCancelled \/ NothingBuilt
         => Loop
    BY DEF Loop
  <1> QED
    BY <1>1, <1>2, <1>3, <1>4, <1>5, <1>6, <1>7, <1>8, <1>9, <1>10, QuietStep

LEMMA GateStays == [Next]_vars => UNCHANGED autoStart
  BY DEF Next, vars, loopVars, Loop, Turn, Approval, Command, ChatSend,
         ChatFails, ChatRateLimited, BackoffEnds, PlanReply, GateOpens,
         GateCancelled, Release, StepBegin, StepDone, Narrates, SaysDone,
         LookTool, WriteTool, RunFreely, AskApproval, TakeDecision,
         AwaitCancelled, ApplyDecision, CommandRefused, CommandStarts,
         CommandEnds, NothingBuilt, TakeSnapshot, InspectPasses,
         InspectObjects, CompareFixed, RecordChanges, Verify, Finish, Fail,
         Approve, ApproveCheck, ApproveSend, Decide, DecideCheck, DecideSend,
         Revert, RevertBegin, RestoreRemove, RestoreRemoved, RestoreOpen,
         RestoreWrite, RestoreFails, RevertList, RevertPublish, ContextEnds

\* The runs the page starts (auto_start: false) do nothing that PolledRun does
\* not allow, so the page was checked against every run it can meet: see
\* ChatUI_proofs!PolledRunsAreMet.
THEOREM PolledRefinement == ~autoStart /\ Spec => Polled!Spec
  <1>1. Init => Polled!Init
    BY DEF Init, Polled!Init, PolledStatus, PolledToken
  <1>2. ~autoStart /\ [Next]_vars => ~autoStart'
    BY GateStays
  <1>3. IInv /\ ApprovalInv /\ ~autoStart /\ [Next]_vars
        => [Polled!Next]_(Polled!vars)
    BY StepPolled
  <1> QED
    BY <1>1, <1>2, <1>3, Invariance, ApprovalInvariance, PTL
    DEF Spec, Polled!Spec

=============================================================================
