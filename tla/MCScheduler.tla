---------------------------- MODULE MCScheduler ----------------------------
(* A small session for TLC, whose last event moves the scope, the standing  *)
(* of a record or the anchors.                                             *)
EXTENDS Scheduler, TLC

MCPaths == <<<<"a">>>>

Moves == {"task_started", "branch_change", "commit_change", "file_snapshot",
          "path_invalidated", "memory_invalidated", "memory_revalidated",
          "user_instruction"}
Derivations == {"command_output", "next_action", "decision"}

MCInputs ==
    [n \in 1..MaxEvents |-> IF n = MaxEvents THEN Moves ELSE Moves \cup Derivations]

\* The envelope of a command carries a branch or a commit or neither; decisions are
\* of scope "branch".
MCEnvelopes ==
    [file_renamed   |-> {<<None, None>>},
     command_output |-> ({None} \X MaybeCommits) \cup (Branches \X {None}),
     decision       |-> Branches \X {None},
     avoid          |-> {<<None, None>>}]

MCSymmetry ==
    Permutations(Repos) \cup Permutations(Branches) \cup Permutations(Commits)
=============================================================================
