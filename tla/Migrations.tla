----------------------------- MODULE Migrations -----------------------------
(***************************************************************************)
(* The migration runner: any number of cmd/migrate processes against one   *)
(* database, each walking the sorted files, asking of each whether it is   *)
(* recorded and, if not, running it and its version row in a transaction.  *)
(*                                                                         *)
(* Of PostgreSQL (external) only this is assumed: a transaction takes      *)
(* effect as a whole or not at all, reads see what is committed, and the   *)
(* primary key makes an insert wait for another transaction's row of the   *)
(* same version and then fail if that one commits.                         *)
(*                                                                         *)
(* A process may fail anywhere: an error, the deadline of 30 s, or a crash *)
(* whose transaction the server rolls back when it notices; and the answer *)
(* to its COMMIT may be lost.  Running it again is another process.        *)
(***************************************************************************)
EXTENDS Naturals, Sequences

CONSTANTS
    Runners,        \* processes of cmd/migrate at the same time
    Size            \* migrations in the binary, 1 the first in lexical order

ASSUME MigrationsAssumption == Size \in Nat

Files == 1..Size

VARIABLES
    table,          \* does schema_migrations exist?
    versions,       \* its rows: the versions committed
    schema,         \* history: the effects committed, in their order
    pc,             \* of each process: idle, create, check, exec, record,
                    \* commit, and then ok or error
    at,             \* the file it is at
    applied         \* what it will print: the names it applied

vars == <<table, versions, schema, pc, at, applied>>

-----------------------------------------------------------------------------

Init ==
    /\ table = FALSE /\ versions = {} /\ schema = << >>
    /\ pc = [r \in Runners |-> "idle"]
    /\ at = [r \in Runners |-> 1]
    /\ applied = [r \in Runners |-> {}]

Goto(r, l) == pc' = [pc EXCEPT ![r] = l]

Begin(r) ==
    /\ pc[r] \in {"idle", "ok", "error"}
    /\ Goto(r, "create")
    /\ at' = [at EXCEPT ![r] = 1]
    /\ applied' = [applied EXCEPT ![r] = {}]
    /\ UNCHANGED <<table, versions, schema>>

CreateTable(r) ==
    /\ pc[r] = "create"
    /\ table' = TRUE
    /\ Goto(r, "check")
    /\ UNCHANGED <<versions, schema, at, applied>>

\* Mutant: one file too many.
MoreLate(r) == at[r] <= Size + 1

More(r) == at[r] <= Size

\* Mutant: once something was applied, nothing more is.
IsRecordedOrLater(i) == versions # {}

IsRecorded(i) == i \in versions

\* The version is looked up outside of any transaction.
Skip(r) ==
    /\ pc[r] = "check" /\ More(r) /\ IsRecorded(at[r])
    /\ at' = [at EXCEPT ![r] = @ + 1]
    /\ UNCHANGED <<table, versions, schema, pc, applied>>

Decide(r) ==
    /\ pc[r] = "check" /\ More(r) /\ ~IsRecorded(at[r])
    /\ Goto(r, "exec")
    /\ UNCHANGED <<table, versions, schema, at, applied>>

\* The transaction begins and the file's SQL runs in it.
ExecSQL(r) ==
    /\ pc[r] = "exec"
    /\ Goto(r, "record")
    /\ UNCHANGED <<table, versions, schema, at, applied>>

\* Mutant: a failed process has left its transaction open.
TakenForGood(r) ==
    \E q \in Runners \ {r} : pc[q] \in {"commit", "error"} /\ at[q] = at[r]

\* An open transaction holds a row of the version this one would insert.
Taken(r) == \E q \in Runners \ {r} : pc[q] = "commit" /\ at[q] = at[r]

\* Mutant: no primary key.
Anyway(r) == FALSE

Duplicate(r) == at[r] \in versions

InsertVersion(r) ==
    /\ pc[r] = "record" /\ ~Taken(r) /\ ~Duplicate(r)
    /\ Goto(r, "commit")
    /\ UNCHANGED <<table, versions, schema, at, applied>>

\* The unique violation: the transaction is rolled back, the process gives up.
InsertRefused(r) ==
    /\ pc[r] = "record" /\ ~Taken(r) /\ Duplicate(r)
    /\ Goto(r, "error")
    /\ UNCHANGED <<table, versions, schema, at, applied>>

\* The commit as the database sees it: the effect and the row together.
TakesEffect(i) ==
    /\ schema' = Append(schema, i)
    /\ versions' = versions \cup {i}

Commit(r) ==
    /\ pc[r] = "commit"
    /\ TakesEffect(at[r])
    /\ applied' = [applied EXCEPT ![r] = @ \cup {at[r]}]
    /\ at' = [at EXCEPT ![r] = @ + 1]
    /\ Goto(r, "check")
    /\ UNCHANGED table

\* It took effect, but the process hears an error, or nothing any more.
CommitUnheard(r) ==
    /\ pc[r] = "commit"
    /\ TakesEffect(at[r])
    /\ Goto(r, "error")
    /\ UNCHANGED <<table, at, applied>>

\* An error or a crash; an open transaction is rolled back.
Fails(r) ==
    /\ pc[r] \in {"create", "check", "exec", "record", "commit"}
    /\ Goto(r, "error")
    /\ UNCHANGED <<table, versions, schema, at, applied>>

Ends(r) ==
    /\ pc[r] = "check" /\ ~More(r)
    /\ Goto(r, "ok")
    /\ UNCHANGED <<table, versions, schema, at, applied>>

\* What a process that began does by itself.
Proceeds(r) ==
    \/ CreateTable(r)
    \/ Skip(r) \/ Decide(r) \/ ExecSQL(r)
    \/ InsertVersion(r) \/ InsertRefused(r)
    \/ Commit(r) \/ CommitUnheard(r)
    \/ Ends(r)

Next == \E r \in Runners : Begin(r) \/ Proceeds(r) \/ Fails(r)

Spec == Init /\ [][Next]_vars

\* Every query is answered.  That a process fails, or is stopped by its
\* deadline, is never relied upon: the wait for another one's row has to end by
\* what that one does.  The server wakes those that wait for a transaction when
\* it ends, so none is passed over for ever.
FairSpec ==
    /\ Spec
    /\ \A r \in Runners : /\ WF_vars(Proceeds(r))
                          /\ SF_vars(InsertVersion(r) \/ InsertRefused(r))

-----------------------------------------------------------------------------
(***************************************************************************)
(* Properties.                                                             *)
(***************************************************************************)

\* Every variable stays in its range; rows are there only with their table.
TypeOK ==
    /\ table \in BOOLEAN
    /\ versions \in SUBSET Files
    /\ schema \in Seq(Files)
    /\ pc \in [Runners -> {"idle", "create", "check", "exec", "record",
                           "commit", "ok", "error"}]
    /\ at \in [Runners -> 1..(Size + 1)]
    /\ applied \in [Runners -> SUBSET Files]
    /\ versions # {} => table

\* "each exactly once", "in lexical order", "each inside its own transaction":
\* the committed effects are the first files in their order, none twice, and
\* the rows say exactly that, however many processes race, fail, or lose the
\* answer to a commit.
ExactlyOnceInOrder ==
    /\ schema = [i \in 1..Len(schema) |-> i]
    /\ versions = 1..Len(schema)

\* A process that reports success leaves a database with every migration, and
\* "the filenames applied this run" are its own: no two processes name the
\* same one.
SuccessIsComplete ==
    /\ \A r \in Runners : pc[r] = "ok" => versions = Files
    /\ \A r, q \in Runners : r # q => applied[r] \cap applied[q] = {}

\* No process waits for ever for the row of another one.
RunnersEnd ==
    \A r \in Runners :
        pc[r] = "record" ~> pc[r] \in {"check", "ok", "error"}

=============================================================================
