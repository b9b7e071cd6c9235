----------------------------- MODULE MCAgentRun -----------------------------
(***************************************************************************)
(* Small instances of AgentRun for TLC.                                    *)
(***************************************************************************)
EXTENDS AgentRun, TLC

\* "node" runs freely; "rm" and "git" are sensitive, of different categories.
MCCategory == [c \in Commands |-> CASE c = "node"  -> "free"
                                    [] c = "rm"  -> "delete"
                                    [] c = "git" -> "git"]

Symmetry == Permutations(Reverters) \cup Permutations(Files)

\* A Revert that overlaps the loop is followed up to its beginning: "tampered"
\* stays true, and the invariants about the disk claim nothing from there on.
Untampered == ~tampered

=============================================================================
