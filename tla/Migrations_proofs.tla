-------------------------- MODULE Migrations_proofs --------------------------
(***************************************************************************)
(* Proofs about Migrations, for any number of processes and files.         *)
(***************************************************************************)
EXTENDS Migrations, TLAPS

(***************************************************************************)
(* A process past a file knows it is committed; one that holds a version's *)
(* row knows it is not, and holds it alone.                                *)
(***************************************************************************)
Walking(r)     == pc[r] \in {"check", "exec", "record", "commit", "ok"}
InTransaction(r) == pc[r] \in {"exec", "record", "commit"}

Progress(r) ==
    /\ Walking(r) => 1..(at[r] - 1) \subseteq versions
    /\ InTransaction(r) => at[r] <= Size
    /\ pc[r] = "ok" => at[r] = Size + 1
    /\ Walking(r) => table
    /\ pc[r] = "create" => at[r] = 1
    /\ pc[r] = "commit" => at[r] \notin versions
    /\ applied[r] \subseteq versions

Exclusive ==
    \A r, q \in Runners : r # q =>
        /\ pc[r] = "commit" /\ pc[q] = "commit" => at[r] # at[q]
        /\ applied[r] \cap applied[q] = {}

IInv ==
    /\ TypeOK
    /\ ExactlyOnceInOrder
    /\ \A r \in Runners : Progress(r)
    /\ Exclusive

-----------------------------------------------------------------------------

USE MigrationsAssumption DEF Files

LEMMA InitIInv == Init => IInv
  <1> SUFFICES ASSUME Init PROVE IInv
    OBVIOUS
  <1>1. TypeOK
    <2>1. schema \in Seq(Files) /\ 1 \in 1..(Size + 1)
      BY DEF Init
    <2> QED
      BY <2>1 DEF Init, TypeOK
  <1>2. ExactlyOnceInOrder
    <2>1. Len(schema) = 0 /\ 1..0 = {}
      BY DEF Init
    <2>2. << >> = [i \in 1..0 |-> i]
      OBVIOUS
    <2> QED
      BY <2>1, <2>2 DEF Init, ExactlyOnceInOrder
  <1>3. (\A r \in Runners : Progress(r)) /\ Exclusive
    BY DEF Init, Progress, Exclusive, Walking, InTransaction
  <1> QED
    BY <1>1, <1>2, <1>3 DEF IInv

\* A row that is held, and not yet committed, is of the next file.
LEMMA HolderIsNext ==
    ASSUME IInv, NEW r \in Runners, pc[r] = "commit"
    PROVE  at[r] = Len(schema) + 1
  <1>1. /\ at[r] \in 1..Size /\ at[r] \notin 1..Len(schema)
        /\ 1..(at[r] - 1) \subseteq 1..Len(schema)
        /\ Len(schema) \in Nat
    BY DEF IInv, TypeOK, Progress, Walking, InTransaction, ExactlyOnceInOrder
  <1>2. CASE at[r] = 1
    BY <1>1, <1>2
  <1>3. CASE at[r] # 1
    <2>1. at[r] - 1 \in 1..(at[r] - 1)
      BY <1>1, <1>3
    <2> QED
      BY <1>1, <2>1
  <1> QED
    BY <1>2, <1>3

\* The one step that changes the database's content: the file committed is the
\* next one of the sequence.
LEMMA NextFile ==
    ASSUME IInv, NEW r \in Runners, pc[r] = "commit", TakesEffect(at[r])
    PROVE  /\ at[r] = Len(schema) + 1
           /\ schema' \in Seq(Files) /\ versions' \in SUBSET Files
           /\ ExactlyOnceInOrder'
  <1>1. at[r] \in 1..Size /\ Len(schema) \in Nat
    BY DEF IInv, TypeOK, Progress, InTransaction
  <1>2. at[r] = Len(schema) + 1
    BY HolderIsNext
  <1>3. schema' \in Seq(Files) /\ Len(schema') = Len(schema) + 1
    BY <1>1 DEF IInv, TypeOK, TakesEffect
  <1>4. schema' = [i \in 1..Len(schema') |-> i]
    <2>1. ASSUME NEW i \in 1..Len(schema') PROVE schema'[i] = i
      BY <1>1, <1>2, <1>3, <2>1
      DEF IInv, TypeOK, TakesEffect, ExactlyOnceInOrder
    <2> QED
      BY <1>3, <2>1
  <1>5. versions' = 1..Len(schema')
    BY <1>1, <1>2, <1>3 DEF IInv, TakesEffect, ExactlyOnceInOrder
  <1>6. versions' \in SUBSET Files
    BY <1>1 DEF IInv, TypeOK, TakesEffect
  <1> QED
    BY <1>2, <1>3, <1>4, <1>5, <1>6 DEF ExactlyOnceInOrder

LEMMA StepIInv ==
    ASSUME IInv, NEW r \in Runners, Begin(r) \/ Proceeds(r) \/ Fails(r)
    PROVE  IInv'
  <1> USE DEF IInv, TypeOK, Progress, Exclusive, Walking, InTransaction, Goto
  <1>1. CASE Begin(r)
    BY <1>1 DEF Begin, ExactlyOnceInOrder
  <1>2. CASE CreateTable(r)
    <2>1. 1..(1 - 1) = {}
      OBVIOUS
    <2> QED
      BY <1>2, <2>1 DEF CreateTable, ExactlyOnceInOrder
  <1>3. CASE Skip(r)
    <2>1. at[r] \in versions /\ at[r] + 1 \in 1..(Size + 1)
      BY <1>3 DEF Skip, More, IsRecorded
    <2>2. 1..at[r] \subseteq versions
      BY <1>3, <2>1 DEF Skip
    <2>3. UNCHANGED <<table, versions, schema, pc, applied>>
          /\ at' = [at EXCEPT ![r] = at[r] + 1] /\ pc[r] = "check"
      BY <1>3 DEF Skip
    <2>4. TypeOK' /\ ExactlyOnceInOrder' /\ Exclusive'
      BY <2>1, <2>3 DEF ExactlyOnceInOrder
    <2>5. ASSUME NEW q \in Runners PROVE Progress(q)'
      <3>1. CASE q = r
        <4>1. at'[q] = at[r] + 1 /\ at[r] + 1 - 1 = at[r]
          BY <2>1, <2>3, <3>1
        <4> QED
          BY <2>1, <2>2, <2>3, <3>1, <4>1
      <3>2. CASE q # r
        BY <2>3, <3>2
      <3> QED
        BY <3>1, <3>2
    <2> QED
      BY <2>4, <2>5
  <1>4. CASE Decide(r)
    BY <1>4 DEF Decide, More, ExactlyOnceInOrder
  <1>5. CASE ExecSQL(r)
    BY <1>5 DEF ExecSQL, ExactlyOnceInOrder
  <1>6. CASE InsertVersion(r)
    <2>1. /\ pc[r] = "record" /\ pc' = [pc EXCEPT ![r] = "commit"]
          /\ UNCHANGED <<table, versions, schema, at, applied>>
          /\ at[r] \notin versions
          /\ \A q \in Runners \ {r} : pc[q] = "commit" => at[q] # at[r]
      BY <1>6 DEF InsertVersion, Taken, Duplicate
    <2>2. TypeOK' /\ ExactlyOnceInOrder'
      BY <2>1 DEF ExactlyOnceInOrder
    <2>3. ASSUME NEW q \in Runners PROVE Progress(q)'
      BY <2>1
    <2>4. Exclusive'
      BY <2>1
    <2> QED
      BY <2>2, <2>3, <2>4
  <1>7. CASE InsertRefused(r)
    BY <1>7 DEF InsertRefused, ExactlyOnceInOrder
  <1>8. CASE Commit(r)
    <2>1. /\ pc[r] = "commit" /\ TakesEffect(at[r]) /\ UNCHANGED table
          /\ applied' = [applied EXCEPT ![r] = @ \cup {at[r]}]
          /\ at' = [at EXCEPT ![r] = @ + 1]
          /\ pc' = [pc EXCEPT ![r] = "check"]
      BY <1>8 DEF Commit
    <2>2. /\ schema' \in Seq(Files) /\ versions' \in SUBSET Files
          /\ ExactlyOnceInOrder'
      BY <2>1, NextFile
    <2>3. versions' = versions \cup {at[r]}
      BY <2>1 DEF TakesEffect
    <2>4. TypeOK'
      BY <2>1, <2>2
    <2>5. ASSUME NEW q \in Runners PROVE Progress(q)'
      <3>1. CASE q = r
        <4>1. 1..at[r] \subseteq versions'
          BY <2>1, <2>3
        <4> QED
          BY <2>1, <2>3, <3>1, <4>1
      <3>2. CASE q # r
        BY <2>1, <2>3, <3>2
      <3> QED
        BY <3>1, <3>2
    <2>6. Exclusive'
      BY <2>1
    <2> QED
      BY <2>2, <2>4, <2>5, <2>6
  <1>9. CASE CommitUnheard(r)
    <2>1. /\ pc[r] = "commit" /\ TakesEffect(at[r])
          /\ UNCHANGED <<table, at, applied>>
          /\ pc' = [pc EXCEPT ![r] = "error"]
      BY <1>9 DEF CommitUnheard
    <2>2. /\ schema' \in Seq(Files) /\ versions' \in SUBSET Files
          /\ ExactlyOnceInOrder'
      BY <2>1, NextFile
    <2>3. versions' = versions \cup {at[r]}
      BY <2>1 DEF TakesEffect
    <2> QED
      BY <2>1, <2>2, <2>3
  <1>10. CASE Fails(r)
    BY <1>10 DEF Fails, ExactlyOnceInOrder
  <1>11. CASE Ends(r)
    BY <1>11 DEF Ends, More, ExactlyOnceInOrder
  <1> QED
    BY <1>1, <1>2, <1>3, <1>4, <1>5, <1>6, <1>7, <1>8, <1>9, <1>10, <1>11
    DEF Proceeds

LEMMA Invariance == Spec => []IInv
  <1>1. IInv /\ [Next]_vars => IInv'
    <2>1. IInv /\ Next => IInv'
      BY StepIInv DEF Next
    <2>2. IInv /\ UNCHANGED vars => IInv'
      BY DEF vars, IInv, TypeOK, ExactlyOnceInOrder, Progress, Exclusive,
             Walking, InTransaction
    <2> QED
      BY <2>1, <2>2
  <1> QED
    BY <1>1, InitIInv, PTL DEF Spec

\* Every variable of the runner stays in its range, and no row of a version is
\* there without its table.
THEOREM TypeCorrect == Spec => []TypeOK
  BY Invariance, PTL DEF IInv

\* For any number of processes and migrations: each takes effect once, in
\* order, and is recorded if and only if it did.
THEOREM MigratesOnce == Spec => []ExactlyOnceInOrder
  BY Invariance, PTL DEF IInv

\* Success means that everything is applied, and no two processes claim the
\* same file.
THEOREM SuccessIsTrue == Spec => []SuccessIsComplete
  <1>1. IInv => SuccessIsComplete
    <2> SUFFICES ASSUME IInv PROVE SuccessIsComplete
      OBVIOUS
    <2>1. ASSUME NEW r \in Runners, pc[r] = "ok" PROVE versions = Files
      <3>1. Progress(r) /\ TypeOK
        BY DEF IInv
      <3>2. at[r] = Size + 1 /\ Size + 1 - 1 = Size
        BY <2>1, <3>1 DEF Progress
      <3>3. 1..(at[r] - 1) \subseteq versions
        BY <2>1, <3>1 DEF Progress, Walking
      <3>4. 1..Size \subseteq versions
        BY <3>2, <3>3
      <3> QED
        BY <3>1, <3>4 DEF TypeOK
    <2>2. ASSUME NEW r \in Runners, NEW q \in Runners, r # q
          PROVE  applied[r] \cap applied[q] = {}
      BY <2>2 DEF IInv, Exclusive
    <2> QED
      BY <2>1, <2>2 DEF SuccessIsComplete
  <1> QED
    BY <1>1, Invariance, PTL

\* Nothing but the primary key keeps the processes apart, and each takes the
\* files in its own time; still at most one transaction at a time holds a row,
\* that of the file that comes next.  So whoever waits in InsertVersion waits
\* for one process only, and that one waits for nobody.
OneOpenTransaction ==
    \A r, q \in Runners :
        pc[r] = "commit" =>
            /\ at[r] = Len(schema) + 1
            /\ pc[q] = "commit" => q = r
            /\ pc[q] = "record" /\ Taken(q) => at[q] = at[r]

THEOREM OneHolder == Spec => []OneOpenTransaction
  <1>1. IInv => OneOpenTransaction
    <2> SUFFICES ASSUME IInv, NEW r \in Runners, NEW q \in Runners,
                        pc[r] = "commit"
                 PROVE  /\ at[r] = Len(schema) + 1
                        /\ pc[q] = "commit" => q = r
                        /\ pc[q] = "record" /\ Taken(q) => at[q] = at[r]
      BY DEF OneOpenTransaction
    <2>1. \A p \in Runners : pc[p] = "commit" => at[p] = Len(schema) + 1
      BY HolderIsNext
    <2>2. pc[q] = "commit" => q = r
      BY <2>1 DEF IInv, Exclusive
    <2>3. Taken(q) => at[q] = at[r]
      BY <2>1 DEF Taken
    <2> QED
      BY <2>1, <2>2, <2>3
  <1> QED
    BY <1>1, Invariance, PTL

\* The database only ever moves on by one whole file, the next one, effect and
\* row together: no failure, crash or refused insert takes back or leaves
\* behind a part of what was committed.
DatabaseMovesOn ==
    [][/\ table => table'
       /\ \/ UNCHANGED <<schema, versions>>
          \/ /\ schema' = Append(schema, Len(schema) + 1)
             /\ versions' = versions \cup {Len(schema) + 1}]_vars

THEOREM NothingTakenBack == Spec => DatabaseMovesOn
  <1>1. IInv /\ [Next]_vars =>
            [/\ table => table'
             /\ \/ UNCHANGED <<schema, versions>>
                \/ /\ schema' = Append(schema, Len(schema) + 1)
                   /\ versions' = versions \cup {Len(schema) + 1}]_vars
    <2> SUFFICES ASSUME IInv, NEW r \in Runners,
                        Begin(r) \/ Proceeds(r) \/ Fails(r)
                 PROVE  /\ table => table'
                        /\ \/ UNCHANGED <<schema, versions>>
                           \/ /\ schema' = Append(schema, Len(schema) + 1)
                              /\ versions' = versions \cup {Len(schema) + 1}
      BY DEF Next
    <2>1. CASE Commit(r) \/ CommitUnheard(r)
      <3>1. pc[r] = "commit" /\ TakesEffect(at[r]) /\ UNCHANGED table
        BY <2>1 DEF Commit, CommitUnheard
      <3> QED
        BY <3>1, HolderIsNext DEF TakesEffect
    <2>2. CASE ~(Commit(r) \/ CommitUnheard(r))
      BY <2>2 DEF Proceeds, Begin, CreateTable, Skip, Decide, ExecSQL,
                  InsertVersion, InsertRefused, Fails, Ends
    <2> QED
      BY <2>1, <2>2
  <1> QED
    BY <1>1, Invariance, PTL DEF Spec, DatabaseMovesOn

=============================================================================
