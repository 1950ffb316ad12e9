---------------------------- MODULE MCCoherence ----------------------------
(* Paths below one another and beside, and the events of each run, for TLC. *)
(* What only derives a record ends nothing, and is not explored as the last *)
(* event; an avoidance, which refers to any address, comes early.           *)
EXTENDS Coherence, TLC

Dir == <<"a">>
File == <<"a", "b">>
Other == <<"c">>

MCOnePath == <<File>>
MCPaths == <<Dir, File, Other>>

Moves == {"task_started", "branch_change", "commit_change", "file_snapshot",
          "file_renamed", "path_invalidated", "path_revalidated",
          "memory_invalidated", "memory_revalidated"}
Derivations == {"command_output", "user_instruction", "next_action", "decision"}

EveryInput ==
    [n \in 1..MaxEvents |-> Moves
        \cup (IF n < MaxEvents THEN Derivations ELSE {})
        \cup (IF n < MaxEvents - 1 THEN {"avoid"} ELSE {})]
TaskInputs ==
    [n \in 1..MaxEvents |-> {"task_started", "branch_change", "memory_invalidated"}]

\* The envelope of a command carries a branch or a commit or neither, a rename's one
\* of the commits; decisions are of scope "repo", which neither matters to.
MCEnvelopes ==
    [file_renamed   |-> {None} \X Commits,
     command_output |-> ({None} \X MaybeCommits) \cup (Branches \X {None}),
     decision       |-> {<<None, None>>},
     avoid          |-> {<<None, None>>}]

MCSymmetry == Permutations(Branches) \cup Permutations(Commits) \cup Permutations(Digests)
=============================================================================
