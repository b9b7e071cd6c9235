------------------------------ MODULE AgentRun ------------------------------
(***************************************************************************)
(* One agent run of the gateway: the goroutine Engine.loop, the record of  *)
(* the run it shares with the HTTP handlers under Engine.mu, the two       *)
(* channels through which the user answers it, its context and its         *)
(* workspace on disk.                                                      *)
(*                                                                         *)
(* A step of the model is a step between two points at which another       *)
(* goroutine can see or change something: a critical section of Engine.mu, *)
(* a channel operation, a call of the provider or an access to the         *)
(* workspace.  Steps of the loop that touch only its own variables are     *)
(* merged into the step they follow.                                       *)
(*                                                                         *)
(* Abstracted: the text of tasks, plans, prompts and reports (what the     *)
(* model answers is a nondeterministic choice among the answers the loop   *)
(* tells apart), the activity log, and the content of a file, of which     *)
(* only what the engine distinguishes remains.                             *)
(***************************************************************************)
EXTENDS Integers, FiniteSets, Sequences

CONSTANTS
    Approvers,      \* HTTP requests that may approve the plan,
    Deciders,       \* that may decide on a command,
    Reverters,      \* that may revert the fixes
    Files,          \* paths the run may create
    Commands,       \* shell commands the model may ask for
    Category,       \* what commandCategory returns for each of them
    Free,           \* the "category" of a command that is not sensitive
    Detaching,      \* commands that leave a child holding their output pipe
    None,           \* no command, no decision
    MaxSteps,       \* maxSteps
    MaxToolCalls,   \* maxToolCalls
    MaxNudges,      \* maxNudges
    MaxRetries,     \* len(rateBackoff)
    FileCap         \* maxFilesInWorkspace

VARIABLES
    \* The record Run, read and written under Engine.mu.
    status,         \* Run.Status
    pending,        \* the command on the approval card, None without a card
    steps,          \* Run.Steps: the state of each planned step
    manifest,       \* Run.Files
    changes,        \* Run.Changes: the files the fix stage touched
    verification,   \* Run.Verification: pages with a broken reference
    result,         \* Run.Result: the facts it was composed from
    recovery,       \* hadCmdFailure and Recovered
    allowed,        \* Run.allowed: the categories always allowed
    buildSnap,      \* Run.buildSnap, None until the build is done
    \* Channels, context and disk.
    approve,        \* is there a token in Run.approve?
    decision,       \* the decision in Run.decision, None when empty
    ctxDone,        \* was the run cancelled, or has its deadline passed?
    ws,             \* the workspace: the content of each path
    \* The goroutine Engine.loop.
    autoStart,      \* its argument
    pc,             \* where it is
    chat,           \* its model call: idle, inflight or backoff
    attempt,        \* retries of this call
    step,           \* the planned step it is at, beyond the last while fixing
    iter,           \* tool calls of this stage
    nudges,         \* turns of this step that called no tool
    cmd,            \* the command it deals with
    prev,           \* requestApproval's prev
    answer,         \* the decision it received
    found,          \* its own lists: files, changes and issues
    \* Each HTTP request.
    hpc,            \* where it is
    hset,           \* the paths it still has to treat
    opened,         \* the file Restore has open for writing
    \* History, for the properties only.
    outdated,       \* who holds a decision on a request that is not the last
    consents,       \* accepted Allow decisions that no command has used
    released,       \* was an Approve accepted?
    late,           \* workspace tools run after the context was done
    built,          \* the workspace as the steps of the plan left it
    broken,         \* files whose last write a Revert did not finish
    reverted,       \* "done" once a Revert succeeded, "torn" if some only failed
    tampered        \* did a Revert overlap the loop?

reportVars  == <<manifest, changes, verification, result>>
runVars     == <<status, pending, steps, reportVars, recovery, allowed,
                 buildSnap>>
envVars     == <<approve, decision, ctxDone>>
chatVars    == <<chat, attempt>>
turnVars    == <<step, iter, nudges>>
cmdVars     == <<cmd, prev, answer>>
loopVars    == <<autoStart, pc, chatVars, turnVars, cmdVars, found>>
handlerVars == <<hpc, hset, opened>>
userHistory == <<outdated, consents, released>>
diskHistory == <<built, broken, reverted, tampered>>
historyVars == <<userHistory, late, diskHistory>>
vars == <<runVars, envVars, ws, loopVars, handlerVars, historyVars>>

-----------------------------------------------------------------------------
(***************************************************************************)
(* Data.                                                                   *)
(***************************************************************************)

Statuses == {"planning", "planned", "executing", "inspecting", "fixing",
             "awaiting_approval", "completed", "failed"}

isTerminal(s) == s \in {"completed", "failed"}

\* A file as the engine sees it: a page, of which only what its references need
\* is kept, the path of the one file they need (its own if they need none) or
\* "dangling" if nothing could resolve them; or a file above maxFileBytes.
\* WriteFile refuses the last kind and ReadFile too, so only a command makes
\* one and no snapshot has it.  os.WriteFile empties a file before it writes it:
\* a page that Restore has opened and not, or not completely, written is Partial.
Absent   == "absent"
Big      == "big"
Dangling == "dangling"
Partial  == "partial"
Writable == Files \cup {Dangling}
Contents == Writable \cup {Big, Partial, Absent}

Workspaces == [Files -> Contents]
Empty      == [f \in Files |-> Absent]

\* Workspace.List, Snapshot and BrokenReferences, and diffSnapshots.
List(w)             == {f \in Files : w[f] # Absent}
Snapshot(w)         == [f \in Files |-> IF w[f] = Big THEN Absent ELSE w[f]]
BrokenReferences(w) == {f \in List(w) : \/ w[f] = Dangling
                                        \/ w[f] \in Files /\ w[w[f]] = Absent}
Diff(before, after) == {f \in Files : before[f] # after[f]}

\* WriteFile's cap, enforced for new files only.
HasRoom(w, f) == w[f] # Absent \/ Cardinality(List(w)) < FileCap

Decisions == [allow : BOOLEAN, remember : BOOLEAN]

ASSUME RunAssumption ==
    /\ None \notin Commands \cup Decisions \cup Files
    /\ Files \cap {Dangling, Big, Partial, Absent} = {}
    /\ Detaching \subseteq Commands
    /\ MaxSteps \in Nat \ {0}
    /\ MaxToolCalls \in Nat \ {0}
    /\ MaxNudges \in Nat
    /\ MaxRetries \in Nat
    /\ FileCap \in Nat

Handlers == Approvers \cup Deciders \cup Reverters

\* Mutant: the loop leaves the last step out.
InFixEarly == step >= Len(steps)

\* The stage a tool call belongs to, and where the loop goes after the last.
InFix    == step > Len(steps)
Stage    == IF InFix THEN "fix" ELSE "exec"
StageEnd == IF InFix THEN "fixed" ELSE "stepdone"

-----------------------------------------------------------------------------
(***************************************************************************)
(* Start: the run is in the engine, the loop has its goroutine.            *)
(***************************************************************************)

Init ==
    /\ status = "planning" /\ pending = None /\ steps = << >>
    /\ manifest = {} /\ changes = {} /\ verification = {} /\ result = None
    /\ recovery = "clean" /\ allowed = {} /\ buildSnap = None
    /\ approve = FALSE /\ decision = None /\ ctxDone = FALSE
    /\ ws = Empty
    /\ autoStart \in BOOLEAN
    /\ pc = "plan" /\ chat = "idle" /\ attempt = 0
    /\ step = 1 /\ iter = 0 /\ nudges = 0
    /\ cmd = None /\ prev = None /\ answer = None
    /\ found = [files |-> {}, changes |-> {}, issues |-> {}]
    /\ hpc = [h \in Handlers |-> "idle"]
    /\ hset = [h \in Handlers |-> {}]
    /\ opened = [h \in Handlers |-> None]
    /\ outdated = {} /\ consents = 0 /\ released = FALSE /\ late = 0
    /\ built = Empty /\ broken = {} /\ reverted = "no" /\ tampered = FALSE

-----------------------------------------------------------------------------
(***************************************************************************)
(* chatMessages: a model call, retried on the upstream's rate limit.       *)
(***************************************************************************)

\* fail: the run ends, and the goroutine with its locals.
Fail ==
    /\ status' = "failed"
    /\ pc' = "ended"
    /\ chat' = "idle" /\ attempt' = 0
    /\ iter' = 0 /\ nudges' = 0
    /\ UNCHANGED <<pending, steps, reportVars, recovery, allowed, buildSnap,
                   autoStart, step, cmdVars, found>>

ChatStages == {"plan", "exec", "inspect", "fix"}

\* Mutant: a provider that does not.
ChatSendBlindly ==
    /\ pc \in ChatStages /\ chat = "idle"
    /\ chat' = "inflight"
    /\ UNCHANGED <<runVars, envVars, ws, autoStart, pc, attempt, turnVars,
                   cmdVars, found, handlerVars, historyVars>>

\* Every provider checks the context before it calls the upstream.
ChatSend ==
    /\ pc \in ChatStages /\ chat = "idle"
    /\ \/ /\ ctxDone
          /\ Fail
       \/ /\ ~ctxDone
          /\ chat' = "inflight"
          /\ UNCHANGED <<runVars, autoStart, pc, attempt, turnVars, cmdVars,
                         found>>
    /\ UNCHANGED <<envVars, ws, handlerVars, historyVars>>

\* An error that is no rate limit, a cancelled call, or no choices; or a rate
\* limit when the retries are used up.
ChatFails ==
    /\ chat = "inflight"
    /\ Fail
    /\ UNCHANGED <<envVars, ws, handlerVars, historyVars>>

ChatRateLimited ==
    /\ chat = "inflight" /\ attempt < MaxRetries
    /\ chat' = "backoff"
    /\ UNCHANGED <<runVars, envVars, ws, autoStart, pc, attempt, turnVars,
                   cmdVars, found, handlerVars, historyVars>>

\* The wait of the schedule ends, or the context does.
BackoffEnds ==
    /\ chat = "backoff"
    /\ \/ /\ chat' = "idle"
          /\ attempt' = attempt + 1
          /\ UNCHANGED <<runVars, autoStart, pc, turnVars, cmdVars, found>>
       \/ /\ ctxDone
          /\ Fail
    /\ UNCHANGED <<envVars, ws, handlerVars, historyVars>>

\* The model answered the call of this stage.
Replied(stage) ==
    /\ pc = stage /\ chat = "inflight"
    /\ chat' = "idle" /\ attempt' = 0

-----------------------------------------------------------------------------
(***************************************************************************)
(* Planning and the plan-approval gate (A7).                               *)
(***************************************************************************)

\* Mutant: the gate is forgotten.
AfterPlanUngated == status' = "executing" /\ pc' = "step"

AfterPlan ==
    IF autoStart
      THEN status' = "executing" /\ pc' = "step"
      ELSE status' = "planned" /\ pc' = "gate"

\* What parsePlan leaves of the reply: 1 to MaxSteps titles, or nothing, and
\* then plan() makes one up.
Plans == {[i \in 1..n |-> "pending"] : n \in 1..MaxSteps}

PlanReply ==
    /\ Replied("plan")
    /\ steps' \in Plans
    /\ AfterPlan
    /\ UNCHANGED <<pending, reportVars, recovery, allowed, buildSnap, envVars,
                   ws, autoStart, turnVars, cmdVars, found, handlerVars,
                   historyVars>>

\* Mutant: a select that lost one of its cases.
GateDeaf == FALSE

\* The select at the gate; both branches may be ready.
GateOpens ==
    /\ pc = "gate" /\ approve
    /\ approve' = FALSE
    /\ pc' = "release"
    /\ UNCHANGED <<runVars, decision, ctxDone, ws, autoStart, chatVars,
                   turnVars, cmdVars, found, handlerVars, historyVars>>

GateCancelled ==
    /\ pc = "gate" /\ ctxDone
    /\ Fail
    /\ UNCHANGED <<envVars, ws, handlerVars, historyVars>>

Release ==
    /\ pc = "release"
    /\ status' = "executing"
    /\ steps' = [i \in DOMAIN steps |-> "pending"]
    /\ pc' = "step"
    /\ UNCHANGED <<pending, reportVars, recovery, allowed, buildSnap, envVars,
                   ws, autoStart, chatVars, turnVars, cmdVars, found,
                   handlerVars, historyVars>>

-----------------------------------------------------------------------------
(***************************************************************************)
(* executeStep and fixWithTools: up to MaxToolCalls turns of the model.    *)
(***************************************************************************)

StepBegin ==
    /\ pc = "step" /\ ~InFix
    /\ steps' = [steps EXCEPT ![step] = "active"]
    /\ iter' = 0 /\ nudges' = 0
    /\ pc' = "exec"
    /\ UNCHANGED <<status, pending, reportVars, recovery, allowed, buildSnap,
                   envVars, ws, autoStart, chatVars, step, cmdVars, found,
                   handlerVars, historyVars>>

StepDone ==
    /\ pc = "stepdone"
    /\ steps' = [steps EXCEPT ![step] = "done"]
    /\ manifest' = List(ws)
    /\ step' = step + 1
    /\ pc' = "step"
    /\ UNCHANGED <<status, pending, changes, verification, result, recovery,
                   allowed, buildSnap, envVars, ws, autoStart, chatVars, iter,
                   nudges, cmdVars, found, handlerVars, historyVars>>

LeaveStage == pc' = StageEnd /\ iter' = 0 /\ nudges' = 0

\* Mutant: one turn too many.
EndTurnLate(n) ==
    IF iter + 1 <= MaxToolCalls
      THEN pc' = Stage /\ iter' = iter + 1 /\ nudges' = n
      ELSE LeaveStage

\* One turn of the stage is over, with n nudges so far.
EndTurn(n) ==
    IF iter + 1 < MaxToolCalls
      THEN pc' = Stage /\ iter' = iter + 1 /\ nudges' = n
      ELSE LeaveStage

\* The model narrated.  A step nudges it MaxNudges times and then gives up;
\* the fix stage takes it for "done".
Narrates ==
    /\ Replied(Stage)
    /\ IF InFix \/ nudges >= MaxNudges
         THEN LeaveStage
         ELSE EndTurn(nudges + 1)
    /\ UNCHANGED <<runVars, envVars, ws, autoStart, step, cmdVars, found,
                   handlerVars, historyVars>>

SaysDone ==
    /\ Replied(Stage)
    /\ LeaveStage
    /\ UNCHANGED <<runVars, envVars, ws, autoStart, step, cmdVars, found,
                   handlerVars, historyVars>>

\* A workspace tool runs whatever the context says.
CountLate == late' = IF ctxDone THEN late + 1 ELSE late

\* A tool that leaves the workspace alone: it only reads, or it fails.
LookTool ==
    /\ Replied(Stage)
    /\ EndTurn(nudges)
    /\ CountLate
    /\ UNCHANGED <<runVars, envVars, ws, autoStart, step, cmdVars, found,
                   handlerVars, userHistory, diskHistory>>

\* write_file, or edit_file on a file that is there; c is what the file holds
\* then, all of the page or the start of it.  Only a Revert that overlaps the
\* loop could meet it half written.
WriteTool(f, c) ==
    /\ Replied(Stage)
    /\ HasRoom(ws, f)
    /\ ws' = [ws EXCEPT ![f] = c]
    /\ EndTurn(nudges)
    /\ CountLate
    /\ UNCHANGED <<runVars, envVars, autoStart, step, cmdVars, found,
                   handlerVars, userHistory, diskHistory>>

-----------------------------------------------------------------------------
(***************************************************************************)
(* runTool on a run_command, requestApproval (A8) and RunCommand.          *)
(***************************************************************************)

\* commandCategory names a category the user has not always allowed.
Sensitive(c) == Category[c] # Free /\ Category[c] \notin allowed

RunFreely(c) ==
    /\ Replied(Stage)
    /\ ~Sensitive(c)
    /\ cmd' = c
    /\ pc' = "run"
    /\ UNCHANGED <<runVars, envVars, ws, autoStart, turnVars, prev, answer,
                   found, handlerVars, historyVars>>

AskApproval(c) ==
    /\ Replied(Stage)
    /\ Sensitive(c)
    /\ cmd' = c
    /\ prev' = status
    /\ status' = "awaiting_approval"
    /\ pending' = c
    /\ outdated' = {h \in Deciders : hpc[h] = "decide"}
                   \cup (IF decision = None THEN {} ELSE {"channel"})
    /\ pc' = "await"
    /\ UNCHANGED <<steps, reportVars, recovery, allowed, buildSnap, envVars,
                   ws, autoStart, turnVars, answer, found, handlerVars,
                   consents, released, late, diskHistory>>

\* Mutants: the card goes away and the status is not what it was.
CardGoneExecuting == status' = "executing" /\ pending' = None /\ prev' = None
CardGoneAwaiting  == status' = status /\ pending' = None /\ prev' = None

\* requestApproval returns: the card goes away, the status is what it was.
CardGone == status' = prev /\ pending' = None /\ prev' = None

\* The select of requestApproval; both branches may be ready.
TakeDecision ==
    /\ pc = "await" /\ decision # None
    /\ answer' = decision
    /\ decision' = None
    /\ pc' = "decided"
    /\ outdated' = IF "channel" \in outdated
                     THEN (outdated \ {"channel"}) \cup {"loop"} ELSE outdated
    /\ UNCHANGED <<runVars, approve, ctxDone, ws, autoStart, chatVars,
                   turnVars, cmd, prev, found, handlerVars, consents,
                   released, late, diskHistory>>

AwaitCancelled ==
    /\ pc = "await" /\ ctxDone
    /\ CardGone
    /\ cmd' = None
    /\ EndTurn(nudges)
    /\ UNCHANGED <<steps, reportVars, recovery, allowed, buildSnap, envVars,
                   ws, autoStart, chatVars, step, answer, found, handlerVars,
                   historyVars>>

\* The decision is applied; only now does the card go away.
ApplyDecision ==
    /\ pc = "decided"
    /\ CardGone
    /\ allowed' = IF answer.allow /\ answer.remember
                    THEN allowed \cup {Category[cmd]}
                    ELSE allowed
    /\ IF answer.allow
         THEN /\ pc' = "run"
              /\ consents' = consents - 1
              /\ UNCHANGED <<iter, nudges, cmd>>
         ELSE /\ EndTurn(nudges)
              /\ cmd' = None
              /\ UNCHANGED consents
    /\ answer' = None
    /\ outdated' = outdated \ {"loop"}
    /\ UNCHANGED <<steps, reportVars, recovery, buildSnap, envVars, ws,
                   autoStart, chatVars, step, found, handlerVars, released,
                   late, diskHistory>>

\* recordCommandOutcome: "failed" once a command failed, "recovered" once one
\* succeeded after that.
Outcome(ok) ==
    CASE ~ok                          -> IF recovery = "recovered"
                                           THEN "recovered" ELSE "failed"
      [] ok /\ recovery = "failed"    -> "recovered"
      [] ok /\ recovery # "failed"    -> recovery

\* exec does not start a process under a context that is done.
CommandRefused ==
    /\ pc = "run" /\ ctxDone
    /\ recovery' = Outcome(FALSE)
    /\ cmd' = None
    /\ EndTurn(nudges)
    /\ UNCHANGED <<status, pending, steps, reportVars, allowed, buildSnap,
                   envVars, ws, autoStart, chatVars, step, prev, answer,
                   found, handlerVars, historyVars>>

CommandStarts ==
    /\ pc = "run" /\ ~ctxDone
    /\ pc' = "running"
    /\ UNCHANGED <<runVars, envVars, ws, autoStart, chatVars, turnVars,
                   cmdVars, found, handlerVars, historyVars>>

\* The command ends, is killed at its timeout or with the context.  It may
\* have done anything to the workspace by then.
CommandEnds(ok, w) ==
    /\ pc = "running"
    /\ \A f \in Files : w[f] = Partial => ws[f] = Partial
    /\ ws' = w
    /\ recovery' = Outcome(ok)
    /\ cmd' = None
    /\ EndTurn(nudges)
    /\ UNCHANGED <<status, pending, steps, reportVars, allowed, buildSnap,
                   envVars, autoStart, chatVars, step, prev, answer, found,
                   handlerVars, historyVars>>

-----------------------------------------------------------------------------
(***************************************************************************)
(* Completion gate, snapshot, inspection, one round of fixes and report.   *)
(***************************************************************************)

\* No file, no success; otherwise the build is what is there now.
NothingBuilt ==
    /\ pc = "step" /\ InFix
    /\ List(ws) = {}
    /\ Fail
    /\ UNCHANGED <<envVars, ws, handlerVars, historyVars>>

TakeSnapshot ==
    /\ pc = "step" /\ InFix
    /\ List(ws) # {}
    /\ found' = [found EXCEPT !.files = List(ws)]
    /\ buildSnap' = Snapshot(ws)
    /\ built' = ws
    /\ status' = "inspecting"
    /\ pc' = "inspect"
    /\ UNCHANGED <<pending, steps, reportVars, recovery, allowed, envVars, ws,
                   autoStart, chatVars, turnVars, cmdVars, handlerVars,
                   userHistory, late, broken, reverted, tampered>>

InspectPasses ==
    /\ Replied("inspect")
    /\ pc' = "verify"
    /\ UNCHANGED <<runVars, envVars, ws, autoStart, turnVars, cmdVars, found,
                   handlerVars, historyVars>>

InspectObjects ==
    /\ Replied("inspect")
    /\ status' = "fixing"
    /\ iter' = 0
    /\ pc' = "fix"
    /\ UNCHANGED <<pending, steps, reportVars, recovery, allowed, buildSnap,
                   envVars, ws, autoStart, step, nudges, cmdVars, found,
                   handlerVars, historyVars>>

\* Mutant: the list of before the fixes is kept.
CompareOnly ==
    /\ pc = "fixed"
    /\ found' = [found EXCEPT !.changes = Diff(buildSnap, Snapshot(ws))]
    /\ pc' = "compared"
    /\ UNCHANGED <<runVars, envVars, ws, autoStart, chatVars, turnVars,
                   cmdVars, handlerVars, historyVars>>

\* After the fixes: list and compare, then publish the changes.  A Revert
\* between the listing and the comparison overlaps the loop: it is tampering.
CompareFixed ==
    /\ pc = "fixed"
    /\ found' = [found EXCEPT !.files = List(ws),
                              !.changes = Diff(buildSnap, Snapshot(ws))]
    /\ pc' = "compared"
    /\ UNCHANGED <<runVars, envVars, ws, autoStart, chatVars, turnVars,
                   cmdVars, handlerVars, historyVars>>

RecordChanges ==
    /\ pc = "compared"
    /\ changes' = found.changes
    /\ pc' = "verify"
    /\ UNCHANGED <<status, pending, steps, manifest, verification, result,
                   recovery, allowed, buildSnap, envVars, ws, autoStart,
                   chatVars, turnVars, cmdVars, found, handlerVars,
                   historyVars>>

Verify ==
    /\ pc = "verify"
    /\ found' = [found EXCEPT !.issues = BrokenReferences(ws)]
    /\ pc' = "finish"
    /\ UNCHANGED <<runVars, envVars, ws, autoStart, chatVars, turnVars,
                   cmdVars, handlerVars, historyVars>>

\* The report is composed from the list, the issues and the recovery alone.
buildResult(files, issues, recovered) ==
    [files |-> files, issues |-> issues, recovered |-> recovered]

Finish ==
    /\ pc = "finish"
    /\ status' = "completed"
    /\ manifest' = found.files
    /\ verification' = found.issues
    /\ result' = buildResult(found.files, found.issues,
                            recovery = "recovered")
    /\ pc' = "ended"
    /\ UNCHANGED <<pending, steps, changes, recovery, allowed, buildSnap,
                   envVars, ws, autoStart, chatVars, turnVars, cmdVars, found,
                   handlerVars, historyVars>>

-----------------------------------------------------------------------------
(***************************************************************************)
(* HTTP handlers.  A call that finds nothing to do returns false and       *)
(* changes nothing, so it is a stuttering step.                            *)
(***************************************************************************)

Goto(h, l) == hpc' = [hpc EXCEPT ![h] = l]

\* Approve: the status is read under the lock, the token sent after it.
ApproveCheck(h) ==
    /\ hpc[h] = "idle" /\ status = "planned"
    /\ Goto(h, "approve")
    /\ UNCHANGED <<runVars, envVars, ws, loopVars, hset, opened, historyVars>>

ApproveSend(h) ==
    /\ hpc[h] = "approve"
    /\ approve' = TRUE
    /\ released' = (released \/ ~approve)
    /\ Goto(h, "idle")
    /\ UNCHANGED <<runVars, decision, ctxDone, ws, loopVars, hset, opened,
                   outdated, consents, late, diskHistory>>

\* Mutant: a later decision replaces the one in the channel.
TakesAnyDecision == TRUE

\* Run.decision has room for one.
HasNoDecision == decision = None

\* Decide: the same two steps.
DecideCheck(h) ==
    /\ hpc[h] = "idle" /\ status = "awaiting_approval"
    /\ Goto(h, "decide")
    /\ UNCHANGED <<runVars, envVars, ws, loopVars, hset, opened, historyVars>>

DecideSend(h, allow, remember) ==
    /\ hpc[h] = "decide"
    /\ IF HasNoDecision
         THEN /\ decision' = [allow |-> allow, remember |-> remember]
              /\ consents' = IF allow THEN consents + 1 ELSE consents
              /\ outdated' = (outdated \ {h}) \cup
                                 (IF h \in outdated THEN {"channel"} ELSE {})
         ELSE /\ outdated' = outdated \ {h}
              /\ UNCHANGED <<decision, consents>>
    /\ Goto(h, "idle")
    /\ UNCHANGED <<runVars, approve, ctxDone, ws, loopVars, hset, opened,
                   released, late, diskHistory>>

\* Cancel by a user, at any time, or the end of runTimeout.
ContextEnds ==
    /\ ~ctxDone
    /\ ctxDone' = TRUE
    /\ UNCHANGED <<runVars, approve, decision, ws, loopVars, handlerVars,
                   historyVars>>

\* Mutant: Restore only writes the files of the snapshot.
NothingToRemove == {}

\* The files of the workspace that the snapshot does not have.
ToRemove == List(ws) \ List(buildSnap)

\* Revert: Restore lists the workspace and removes what the snapshot does not
\* have, writes what it has, then the handler lists again and updates the run.
\* Nothing but the snapshot decides whether it may run.
RevertBegin(h) ==
    /\ hpc[h] = "idle" /\ buildSnap # None
    /\ Goto(h, "remove")
    /\ hset' = [hset EXCEPT ![h] = ToRemove]
    /\ tampered' = (tampered \/ pc # "ended")
    /\ UNCHANGED <<runVars, envVars, ws, loopVars, opened, userHistory, late,
                   built, broken, reverted>>

RestoreRemove(h, f) ==
    /\ hpc[h] = "remove" /\ f \in hset[h]
    /\ ws[f] # Absent
    /\ ws' = [ws EXCEPT ![f] = Absent]
    /\ hset' = [hset EXCEPT ![h] = @ \ {f}]
    /\ UNCHANGED <<runVars, envVars, loopVars, hpc, opened, historyVars>>

RestoreRemoved(h) ==
    /\ hpc[h] = "remove" /\ hset[h] = {}
    /\ Goto(h, "write")
    /\ hset' = [hset EXCEPT ![h] = List(buildSnap)]
    /\ UNCHANGED <<runVars, envVars, ws, loopVars, opened, historyVars>>

\* os.WriteFile creates the file, or empties the one there is, ...
RestoreOpen(h, f) ==
    /\ hpc[h] = "write" /\ opened[h] = None /\ f \in hset[h]
    /\ HasRoom(ws, f)
    /\ ws' = [ws EXCEPT ![f] = Partial]
    /\ opened' = [opened EXCEPT ![h] = f]
    /\ UNCHANGED <<runVars, envVars, loopVars, hpc, hset, historyVars>>

\* What a path holds after a write to the file that was opened there: the page,
\* whatever other Reverts do.  If the loop removed the file meanwhile the write
\* is lost with it; if the loop wrote it, either may win, or a mixture is left.
Written(f) ==
    CASE ws[f] \in {Partial, buildSnap[f]} -> {buildSnap[f]}
      [] ws[f] = Absent                    -> {Absent}
      [] OTHER                             -> {ws[f], buildSnap[f], Partial}

\* ... and then writes it.
RestoreWrite(h) ==
    /\ opened[h] # None
    /\ \E c \in Written(opened[h]) : ws' = [ws EXCEPT ![opened[h]] = c]
    /\ hset' = [hset EXCEPT ![h] = @ \ {opened[h]}]
    /\ opened' = [opened EXCEPT ![h] = None]
    /\ broken' = broken \ {opened[h]}
    /\ UNCHANGED <<runVars, envVars, loopVars, hpc, userHistory, late, built,
                   reverted, tampered>>

\* The file to remove is gone, there is no room for a new one, or the disk
\* refused, perhaps in the midst of a page: Restore stops where it is and Revert
\* returns false.
RestoreFails(h) ==
    /\ hpc[h] \in {"remove", "write"} /\ hset[h] # {}
    /\ Goto(h, "idle")
    /\ hset' = [hset EXCEPT ![h] = {}]
    /\ opened' = [opened EXCEPT ![h] = None]
    /\ broken' = broken \cup ({opened[h]} \ {None})
    /\ reverted' = IF reverted = "no" THEN "torn" ELSE reverted
    /\ UNCHANGED <<runVars, envVars, ws, loopVars, userHistory, late, built,
                   tampered>>

RevertList(h) ==
    /\ hpc[h] = "write" /\ hset[h] = {}
    /\ Goto(h, "publish")
    /\ hset' = [hset EXCEPT ![h] = List(ws)]
    /\ UNCHANGED <<runVars, envVars, ws, loopVars, opened, historyVars>>

RevertPublish(h) ==
    /\ hpc[h] = "publish"
    /\ manifest' = hset[h]
    /\ changes' = {}
    /\ Goto(h, "idle")
    /\ hset' = [hset EXCEPT ![h] = {}]
    /\ reverted' = "done"
    /\ UNCHANGED <<status, pending, steps, verification, result, recovery,
                   allowed, buildSnap, envVars, ws, loopVars, opened,
                   userHistory, late, built, broken, tampered>>

-----------------------------------------------------------------------------

Turn ==
    \/ Narrates
    \/ SaysDone
    \/ LookTool
    \/ \E f \in Files, c \in Writable : WriteTool(f, c)
    \/ \E c \in Commands : RunFreely(c) \/ AskApproval(c)

Approval ==
    \/ TakeDecision
    \/ AwaitCancelled
    \/ ApplyDecision

Command ==
    \/ CommandRefused
    \/ CommandStarts
    \/ \E ok \in BOOLEAN, w \in Workspaces : CommandEnds(ok, w)

\* Every step of the goroutine.
Loop ==
    \/ ChatSend \/ ChatFails \/ ChatRateLimited \/ BackoffEnds
    \/ PlanReply \/ GateOpens \/ GateCancelled \/ Release
    \/ StepBegin \/ StepDone
    \/ Turn \/ Approval \/ Command
    \/ NothingBuilt \/ TakeSnapshot
    \/ InspectPasses \/ InspectObjects
    \/ CompareFixed \/ RecordChanges \/ Verify \/ Finish

Revert(h) ==
    \/ RevertBegin(h)
    \/ \E f \in Files : RestoreRemove(h, f) \/ RestoreOpen(h, f)
    \/ RestoreRemoved(h)
    \/ RestoreWrite(h)
    \/ RestoreFails(h)
    \/ RevertList(h)
    \/ RevertPublish(h)

Approve(h) == ApproveCheck(h) \/ ApproveSend(h)

Decide(h) ==
    \/ DecideCheck(h)
    \/ \E allow, remember \in BOOLEAN : DecideSend(h, allow, remember)

Next ==
    \/ Loop
    \/ \E h \in Approvers : Approve(h)
    \/ \E h \in Deciders : Decide(h)
    \/ \E h \in Reverters : Revert(h)
    \/ ContextEnds

Spec == Init /\ [][Next]_vars

\* exec's Wait returns when the output pipe closes, so the loop goes on from a
\* command only if no child of it keeps the pipe open.
Stuck == pc = "running" /\ cmd \in Detaching

\* The goroutine runs and every provider call and every command that leaves no
\* child ends (both have a timeout); users need never do anything.
FairSpec == Spec /\ WF_vars(~Stuck /\ Loop)

-----------------------------------------------------------------------------
(***************************************************************************)
(* Properties.                                                             *)
(***************************************************************************)

LoopStates ==
    {"plan", "gate", "release", "step", "exec", "await", "decided", "run",
     "running", "stepdone", "inspect", "fix", "fixed", "compared", "verify",
     "finish", "ended"}

HandlerStates ==
    {"idle", "approve", "decide", "remove", "write", "publish"}

RunTypeOK ==
    /\ status \in Statuses
    /\ pending \in Commands \cup {None}
    /\ steps \in Seq({"pending", "active", "done"})
    /\ manifest \in SUBSET Files
    /\ changes \in SUBSET Files
    /\ verification \in SUBSET Files
    /\ result \in [files : SUBSET Files, issues : SUBSET Files,
                   recovered : BOOLEAN] \cup {None}
    /\ recovery \in {"clean", "failed", "recovered"}
    /\ allowed \in SUBSET {Category[c] : c \in Commands}
    /\ buildSnap \in Workspaces \cup {None}

SharedTypeOK ==
    /\ approve \in BOOLEAN
    /\ decision \in Decisions \cup {None}
    /\ ctxDone \in BOOLEAN
    /\ ws \in Workspaces
    /\ hpc \in [Handlers -> HandlerStates]
    /\ hset \in [Handlers -> SUBSET Files]
    /\ opened \in [Handlers -> Files \cup {None}]

LoopTypeOK ==
    /\ autoStart \in BOOLEAN
    /\ pc \in LoopStates
    /\ chat \in {"idle", "inflight", "backoff"}
    /\ attempt \in 0..MaxRetries
    /\ step \in Nat \ {0}
    /\ iter \in 0..(MaxToolCalls - 1)
    /\ nudges \in 0..MaxNudges
    /\ cmd \in Commands \cup {None}
    /\ prev \in Statuses \cup {None}
    /\ answer \in Decisions \cup {None}
    /\ found \in [files : SUBSET Files, changes : SUBSET Files,
                  issues : SUBSET Files]

HistoryTypeOK ==
    /\ outdated \in SUBSET (Handlers \cup {"channel", "loop"})
    /\ consents \in Int
    /\ released \in BOOLEAN
    /\ late \in Nat
    /\ built \in Workspaces
    /\ broken \in SUBSET Files
    /\ reverted \in {"no", "torn", "done"}
    /\ tampered \in BOOLEAN

\* Every variable stays in its range: a retry, nudge or turn counter within its
\* constant, only statuses restored after a decision, only files of the
\* workspace reported.
TypeOK == RunTypeOK /\ SharedTypeOK /\ LoopTypeOK /\ HistoryTypeOK

\* No sensitive command gets past requestApproval on a decision that another
\* command used: every Allow the engine accepted is in the channel, in the
\* hands of the loop, or was used by exactly one command (Decide, TakeDecision
\* and ApplyDecision interleaved by any number of requests).
OneAllowOneCommand ==
    consents = (IF decision # None /\ decision.allow THEN 1 ELSE 0)
             + (IF answer # None /\ answer.allow THEN 1 ELSE 0)

\* A run started with a gate touches nothing before an Approve was accepted:
\* no tool runs, no file appears, whatever tokens, cancellations and retries
\* do to the planning stage.
NoWorkBeforeApproval ==
    ~autoStart /\ ~released =>
        /\ status \in {"planning", "planned", "failed"}
        /\ pending = None /\ List(ws) = {} /\ recovery = "clean"

\* "Cancel aborts a running run": the loop does not poll its context, it
\* relies on the next model call to fail, so at most the one tool whose call
\* the model had already answered still touches the workspace.
CancelStopsWork == late <= 1

\* A Revert is under way: it has begun and neither returned nor failed.
Reverting(h) == hpc[h] \in {"remove", "write", "publish"}

\* Once the run completed, and until a Revert touches it, what it reports is
\* what is on disk: the file list, the verification, the list of changes and
\* the result.
ReportIsFaithful ==
    status = "completed" /\ ~tampered /\ reverted = "no"
    /\ (\A h \in Handlers : ~Reverting(h)) =>
        /\ manifest = List(ws)
        /\ verification = BrokenReferences(ws)
        /\ changes = Diff(buildSnap, Snapshot(ws))
        /\ result.files = manifest
        /\ result.issues = verification

\* A page that is there in part only: a Revert is writing it, or broke off.
CutShort(f) ==
    ws[f] = Partial /\ (f \in broken \/ \E h \in Handlers : opened[h] = f)

\* From the first Revert after the loop that reports success, no change is
\* listed, the file list is true and the disk is the build again, however many
\* Reverts failed midway before, race it or follow it, but for
\*   - files above maxFileBytes: the build had them, no snapshot does;
\*   - a page another Revert is rewriting, or has broken off in, which is there
\*     in part only until a Revert has written it.
RevertRestoresBuild ==
    pc = "ended" /\ ~tampered /\ reverted = "done" =>
        /\ changes = {} /\ manifest = List(ws)
        /\ \A f \in Files :
               \/ ws[f] = IF built[f] = Big THEN Absent ELSE built[f]
               \/ CutShort(f)

\* The steps shown are done, then at most one active, then pending; a run
\* completes only with every step done.
StepsInOrder ==
    /\ \A i, j \in DOMAIN steps :
           i < j /\ steps[j] # "pending" => steps[i] = "done"
    /\ status = "completed" => \A i \in DOMAIN steps : steps[i] = "done"

\* The engine shows the progression agent.go promises: see RunLifecycle.
Lifecycle == INSTANCE RunLifecycle WITH
    phase  <- IF status = "awaiting_approval" THEN prev ELSE status,
    paused <- status = "awaiting_approval"

ImplementsLifecycle == Lifecycle!Spec

\* Every run ends: the user may never approve or decide anything, the deadline
\* then does.
RunEnds == WF_vars(ContextEnds) => <>isTerminal(status)

\* A decision in the channel gets the run going again, without the help of a
\* deadline; so does an accepted approval.
DecisionResumes == decision # None /\ status = "awaiting_approval"
                       ~> status # "awaiting_approval"
ApprovalReleases == released ~> status # "planned"

\* "requestApproval pauses the run on a sensitive command until the user
\* decides": the command an Allow lets through is the one that was pending when
\* Decide looked at the run.
AllowedCommandWasShown ==
    pc = "decided" /\ answer.allow => "loop" \notin outdated

\* "A build agent that produced no files did not succeed": a completed run has
\* files.
CompletedRunHasFiles ==
    status = "completed" /\ ~tampered /\ reverted = "no" => manifest # {}

=============================================================================
