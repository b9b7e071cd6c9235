---------------------------- MODULE RunRegistry ----------------------------
(***************************************************************************)
(* The engine's map of runs and the workspaces on disk.                    *)
(*                                                                         *)
(* Start creates a workspace, inserts the run and evicts at most one       *)
(* finished run in one critical section of Engine.mu, launches the loop    *)
(* and reads the first snapshot back in a second critical section.  Loops, *)
(* other Starts and Reverts run in between.  A restart loses the map, not  *)
(* the disk.  What a run does is AgentRun's subject: here it is live until *)
(* its loop sets a final status.                                           *)
(***************************************************************************)
EXTENDS Naturals, FiniteSets

CONSTANTS
    Runs,           \* run ids, each given out once (newID is random)
    Reverters,      \* Revert requests in flight
    MaxRuns,        \* maxRuns
    None,           \* no run
    MaxTime,        \* bound: seconds on the clock
    MaxRestarts     \* bound: restarts of the gateway

ASSUME RegistryAssumption ==
    /\ None \notin Runs
    /\ MaxRuns \in Nat \ {0}
    /\ MaxTime \in Nat
    /\ MaxRestarts \in Nat

VARIABLES
    runs,       \* the keys of Engine.runs
    phase,      \* of each run: unborn, made, live, terminal or lost
    created,    \* Run.Created, in seconds
    call,       \* its Start: none, insert, get, returned or nil
    disk,       \* runs with a directory under baseDir
    handle,     \* the run whose workspace a Revert holds
    now,        \* the clock, in seconds
    restarts,   \* restarts so far
    peak,       \* history: the most runs that were live at once
    late,       \* history: runs a Revert wrote to after their eviction
    stuck       \* history: runs whose directory the eviction failed to remove

history == <<peak, late, stuck>>
vars == <<runs, phase, created, call, disk, handle, now, restarts, history>>

Live     == {r \in Runs : phase[r] = "live"}
Terminal == {r \in Runs : phase[r] = "terminal"}

-----------------------------------------------------------------------------

Init ==
    /\ runs = {} /\ disk = {} /\ late = {} /\ stuck = {}
    /\ phase = [r \in Runs |-> "unborn"]
    /\ created = [r \in Runs |-> 0]
    /\ call = [r \in Runs |-> "none"]
    /\ handle = [h \in Reverters |-> None]
    /\ now = 0 /\ restarts = 0 /\ peak = 0

\* Start, before the lock: the directory is made and the time read.
MakeWorkspace(r) ==
    /\ phase[r] = "unborn"
    /\ phase' = [phase EXCEPT ![r] = "made"]
    /\ call' = [call EXCEPT ![r] = "insert"]
    /\ created' = [created EXCEPT ![r] = now]
    /\ disk' = disk \cup {r}
    /\ UNCHANGED <<runs, handle, now, restarts, history>>

\* Mutants: any run may be given up; one run more is kept; one fewer.
EvictableOldest(S) ==
    IF Cardinality(S) <= MaxRuns
      THEN {}
      ELSE {r \in S : \A q \in S : created[r] <= created[q]}

EvictableOver(S, cap) ==
    IF Cardinality(S) <= cap
      THEN {}
      ELSE {r \in S \cap Terminal :
               \A q \in S \cap Terminal : created[r] <= created[q]}

EvictableLate(S)  == EvictableOver(S, MaxRuns + 1)
EvictableEarly(S) == EvictableOver(S, MaxRuns - 1)

\* evictLocked on the map S: the finished runs with the smallest Created, of
\* which the iteration order of the map picks one; none below the cap.
Evictable(S) ==
    IF Cardinality(S) <= MaxRuns
      THEN {}
      ELSE {r \in S \cap Terminal :
               \A q \in S \cap Terminal : created[r] <= created[q]}

\* Mutant: the run is forgotten, its directory is not.
Kept(old) == disk

\* The directories left when old's is removed with it.
Removed(old) == disk \ {old}

\* Workspace.Remove succeeds, or fails and leaves (some of) the directory.  No-
\* body looks at its error: the run is deleted from the map in either case.
RemoveWorkspace(old) ==
    \/ /\ disk' = Removed(old)
       /\ UNCHANGED stuck
    \/ /\ stuck' = stuck \cup {old}
       /\ UNCHANGED disk

\* Start, under the lock; the loop is launched right after it.
Insert(r) ==
    /\ call[r] = "insert"
    /\ phase' = [phase EXCEPT ![r] = "live"]
    /\ call' = [call EXCEPT ![r] = "get"]
    /\ LET all == runs \cup {r}
       IN  \/ /\ Evictable(all) = {}
              /\ runs' = all
              /\ UNCHANGED <<disk, stuck>>
           \/ \E old \in Evictable(all) :
                  /\ runs' = all \ {old}
                  /\ RemoveWorkspace(old)
    /\ peak' = LET n == Cardinality(Live \cup {r})
               IN  IF n > peak THEN n ELSE peak
    /\ UNCHANGED <<created, handle, now, restarts, late>>

\* Start returns e.Get(id), which is nil when the id is not in the map.
StartReturns(r) ==
    /\ call[r] = "get"
    /\ call' = [call EXCEPT ![r] = IF r \in runs THEN "returned" ELSE "nil"]
    /\ UNCHANGED <<runs, phase, created, disk, handle, now, restarts, history>>

\* The loop completes or fails the run.
Finish(r) ==
    /\ phase[r] = "live"
    /\ phase' = [phase EXCEPT ![r] = "terminal"]
    /\ UNCHANGED <<runs, created, call, disk, handle, now, restarts, history>>

\* Revert takes the workspace's handle under the lock and uses it after.
RevertBegin(h, r) ==
    /\ handle[h] = None /\ r \in runs
    /\ handle' = [handle EXCEPT ![h] = r]
    /\ UNCHANGED <<runs, phase, created, call, disk, now, restarts, history>>

\* Mutant: a Revert of an unknown run.
RevertUnknown(h) ==
    /\ disk' = disk \cup {handle[h]}
    /\ UNCHANGED <<runs, phase, created, call, handle, now, restarts, history>>

\* Restore writes the snapshot; WriteFile makes the directories it needs.
RevertWrite(h) ==
    /\ handle[h] # None
    /\ disk' = disk \cup {handle[h]}
    /\ late' = IF handle[h] \in runs THEN late ELSE late \cup {handle[h]}
    /\ handle' = [handle EXCEPT ![h] = None]
    /\ UNCHANGED <<runs, phase, created, call, now, restarts, peak, stuck>>

\* The snapshot was empty, or Restore failed before its first write.
RevertEnds(h) ==
    /\ handle[h] # None
    /\ handle' = [handle EXCEPT ![h] = None]
    /\ UNCHANGED <<runs, phase, created, call, disk, now, restarts, history>>

Tick ==
    /\ now < MaxTime
    /\ now' = now + 1
    /\ UNCHANGED <<runs, phase, created, call, disk, handle, restarts, history>>

\* The process ends and a new one starts, with an empty map on the same disk.
Restart ==
    /\ restarts < MaxRestarts
    /\ restarts' = restarts + 1
    /\ runs' = {}
    /\ phase' = [r \in Runs |-> IF phase[r] = "unborn" THEN "unborn"
                                                       ELSE "lost"]
    /\ call' = [r \in Runs |-> IF call[r] \in {"insert", "get"} THEN "none"
                                                                ELSE call[r]]
    /\ handle' = [h \in Reverters |-> None]
    /\ peak' = 0
    /\ UNCHANGED <<created, disk, now, late, stuck>>

Next ==
    \/ \E r \in Runs :
           MakeWorkspace(r) \/ Insert(r) \/ StartReturns(r) \/ Finish(r)
    \/ \E h \in Reverters :
           (\E r \in Runs : RevertBegin(h, r)) \/ RevertWrite(h) \/ RevertEnds(h)
    \/ Tick
    \/ Restart

Spec == Init /\ [][Next]_vars

-----------------------------------------------------------------------------
(***************************************************************************)
(* Properties.                                                             *)
(***************************************************************************)

Phases == {"unborn", "made", "live", "terminal", "lost"}
Calls  == {"none", "insert", "get", "returned", "nil"}

\* Every variable stays in its range; only runs that were started are in the
\* map.
TypeOK ==
    /\ runs \in SUBSET Runs
    /\ phase \in [Runs -> Phases]
    /\ created \in [Runs -> Nat]
    /\ call \in [Runs -> Calls]
    /\ disk \in SUBSET Runs
    /\ handle \in [Reverters -> Runs \cup {None}]
    /\ now \in Nat /\ restarts \in Nat /\ peak \in Nat
    /\ late \in SUBSET Runs /\ stuck \in SUBSET Runs

\* "In-flight runs are never evicted": a run whose loop is alive can be polled,
\* decided and cancelled, however many newer runs are started meanwhile.
LiveRunsAreKept == Live \subseteq runs

\* The map does not grow without bound although one Start evicts one run at
\* most: past maxRuns it holds no more than were once live at the same time.
RetentionBound ==
    Cardinality(runs) <= MaxRuns \/ Cardinality(runs) <= peak

\* History is given up only under pressure: after an eviction the map is still
\* full, and the run given up had finished.
EvictsUnderPressure ==
    [][restarts' = restarts =>
          \A r \in runs \ runs' :
              phase[r] = "terminal" /\ Cardinality(runs') >= MaxRuns]_vars

\* A directory outlives its run in three ways only: the gateway restarted, a
\* Revert that took the handle before the eviction wrote after it, or the
\* eviction's own removal failed.  Whatever else happens, Start and evictLocked
\* leave none behind.
LeaksAreKnown ==
    \A r \in disk \ runs :
        \/ phase[r] = "lost"
        \/ r \in late
        \/ r \in stuck
        \/ call[r] = "insert"

\* "Start validates and launches a run, returning its first snapshot".
StartReturnsSnapshot == \A r \in Runs : call[r] # "nil"

=============================================================================
