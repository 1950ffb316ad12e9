------------------------------ MODULE Coherence ------------------------------
(***************************************************************************)
(* The coherence sidecar of a session (internal/coherence/state.go): which *)
(* addresses may still be reused.  Every durable event is one transaction  *)
(* of AfterEvent (WithCandidate under the state's lock): it changes a copy *)
(* of the snapshot, is bound itself, binds the records the observers       *)
(* derive from it (internal/observers), and replaces the snapshot; an      *)
(* event that is refused on the way leaves everything as it was, so the    *)
(* operators below map a snapshot to the next one and a refusal is a       *)
(* disabled action.                                                        *)
(*                                                                         *)
(* An address is a pair of a kind and a number: events "E", and records as *)
(* the allocator names them, T task, C constraint, F failure, D decision,  *)
(* A avoid, I invalidated; <<"N", 1>> is the one @next.  No observer       *)
(* derives page records.  Texts, digests of pages, the reasons of an       *)
(* invalidation and task ids chosen by the caller are left out.  An event  *)
(* may carry a branch and a commit of its own on its envelope; one that    *)
(* names another repository or task than the session's is left out.        *)
(***************************************************************************)
EXTENDS Integers, FiniteSets, Sequences

CONSTANTS
    Repos, Branches, Commits, Digests,
    PathOrder,   \* the paths of an instance, in the order of their names; a
                 \* path is the sequence of its components
    None,        \* the empty string
    Inputs,      \* bound: the events an instance explores as its first, second, ...
    Scopes,      \* bound: the scopes that its decisions declare
    Envelopes,   \* bound: the branches and commits that its envelopes carry, by event
    MaxEvents

Paths == {PathOrder[i] : i \in DOMAIN PathOrder}
BranchKeys == Repos \X Branches
CommitKeys == Repos \X Branches \X Commits
PathKeys == Repos \X Branches \X Paths

ASSUME NoneAssumption == None \notin Repos \cup Branches \cup Commits \cup Paths \cup Digests
ASSUME PathOrderAssumption == PathOrder \in Seq(Paths)
ASSUME PathsAssumption == \A p \in Paths : p \in Seq(STRING)
ASSUME ScopesAssumption == Scopes \subseteq {"global", "repo", "task", "branch", "file"}
ASSUME EnvelopesAssumption ==
    Envelopes \in [{"file_renamed", "command_output", "decision", "avoid"} ->
                      SUBSET ((Branches \cup {None}) \X (Commits \cup {None}))]
ASSUME MaxEventsAssumption == MaxEvents \in Nat

VARIABLE snap

Kinds == {"E", "T", "C", "F", "D", "A", "I", "N"}
Ids == Kinds \X (1..(MaxEvents + 1))
Gates == {"repo", "task", "branch", "commit"}
Statuses == {"active", "stale", "invalidated"}

Bindings ==
    [status : Statuses, rev : Nat, evidence : Ids, refs : SUBSET Ids,
     gates : SUBSET Gates, repo : Repos \cup {None}, task : Ids \cup {None},
     branch : Branches \cup {None}, commit : Commits \cup {None},
     path : Paths \cup {None}, branchEpoch : Nat, commitEpoch : Nat, pathEpoch : Nat]

\* The clock is ahead of every epoch that was drawn from it.
EpochsOK(s) ==
    /\ s.clock \in Nat
    /\ s.branchEpoch \in [BranchKeys -> 0..s.clock]
    /\ s.commitEpoch \in [CommitKeys -> 0..s.clock]
    /\ s.pathEpoch \in [PathKeys -> 0..s.clock]

TypeOK ==
    /\ snap.current \in [repo : Repos \cup {None}, task : Ids \cup {None},
                         branch : Branches \cup {None}, commit : Commits \cup {None}]
    /\ EpochsOK(snap)
    /\ snap.paths \in [PathKeys -> [status : Statuses \cup {"unknown"}, rev : Nat,
                                    digest : Digests \cup {None}, commit : Commits \cup {None}]]
    /\ DOMAIN snap.bindings \subseteq Ids
    /\ \A id \in DOMAIN snap.bindings :
          /\ snap.bindings[id] \in Bindings
          /\ {snap.bindings[id].branchEpoch, snap.bindings[id].commitEpoch,
              snap.bindings[id].pathEpoch} \subseteq 0..snap.clock
    /\ snap.events \in 0..MaxEvents

\* NewState.  An epoch of 0 is a scope that was never entered.
Init ==
    snap = [current |-> [repo |-> None, task |-> None, branch |-> None, commit |-> None],
            clock |-> 0,
            branchEpoch |-> [k \in BranchKeys |-> 0],
            commitEpoch |-> [k \in CommitKeys |-> 0],
            pathEpoch |-> [k \in PathKeys |-> 0],
            paths |-> [k \in PathKeys |-> [status |-> "unknown", rev |-> 0,
                                           digest |-> None, commit |-> None]],
            bindings |-> [id \in {} |-> 0],
            events |-> 0]

-----------------------------------------------------------------------------
(* Scopes and their epochs, drawn from one clock.                          *)

Bug_EnterCommit(s) ==  \* the clock is read and not advanced
    LET c == s.current
    IN IF None \in {c.repo, c.branch, c.commit} THEN s
       ELSE [s EXCEPT !.commitEpoch[<<c.repo, c.branch, c.commit>>] = s.clock]
EnterCommit(s) ==
    LET c == s.current
    IN IF None \in {c.repo, c.branch, c.commit} THEN s
       ELSE [s EXCEPT !.clock = @ + 1,
                      !.commitEpoch[<<c.repo, c.branch, c.commit>>] = s.clock + 1]

Bug_EnterBranch(s) ==  \* a branch entered before keeps its epoch
    LET c == s.current
    IN EnterCommit(IF \/ None \in {c.repo, c.branch}
                      \/ s.branchEpoch[<<c.repo, c.branch>>] # 0 THEN s
                   ELSE [s EXCEPT !.clock = @ + 1,
                                  !.branchEpoch[<<c.repo, c.branch>>] = s.clock + 1])
EnterBranch(s) ==
    LET c == s.current
    IN EnterCommit(IF None \in {c.repo, c.branch} THEN s
                   ELSE [s EXCEPT !.clock = @ + 1,
                                  !.branchEpoch[<<c.repo, c.branch>>] = s.clock + 1])

\* enterCurrentScope.  Nothing compares epochs of repositories: only the tick counts.
EnterRepo(s) ==
    EnterBranch(IF s.current.repo = None THEN s ELSE [s EXCEPT !.clock = @ + 1])

\* bumpPathEpoch of some paths of the current branch, one tick each, by name.
Bumped(s, ps) ==
    LET rank(p) == Cardinality({q \in ps : \E i, j \in DOMAIN PathOrder :
                                    i <= j /\ PathOrder[i] = q /\ PathOrder[j] = p})
    IN [s EXCEPT !.clock = @ + Cardinality(ps),
                 !.pathEpoch =
                    [k \in PathKeys |->
                        IF k[1] = s.current.repo /\ k[2] = s.current.branch /\ k[3] \in ps
                        THEN s.clock + rank(k[3]) ELSE s.pathEpoch[k]]]

BranchEpoch(s, b) ==
    IF <<b.repo, b.branch>> \in BranchKeys THEN s.branchEpoch[<<b.repo, b.branch>>] ELSE 0
CommitEpoch(s, b) ==
    IF <<b.repo, b.branch, b.commit>> \in CommitKeys
    THEN s.commitEpoch[<<b.repo, b.branch, b.commit>>] ELSE 0
PathEpoch(s, b) ==
    IF <<b.repo, b.branch, b.path>> \in PathKeys
    THEN s.pathEpoch[<<b.repo, b.branch, b.path>>] ELSE 0

\* captureEpochs
Captured(s, b) ==
    [b EXCEPT !.branchEpoch = BranchEpoch(s, b), !.commitEpoch = CommitEpoch(s, b),
              !.pathEpoch = PathEpoch(s, b)]

PathWithin(p, root) == Len(root) <= Len(p) /\ SubSeq(p, 1, Len(root)) = root
PathsOverlap(p, q) == PathWithin(p, q) \/ PathWithin(q, p)

\* terminalPathOverlap
TerminalOverlap(s, repo, branch, p) ==
    \E k \in PathKeys : /\ k[1] = repo /\ k[2] = branch
                        /\ s.paths[k].status = "invalidated"
                        /\ PathsOverlap(p, k[3])

-----------------------------------------------------------------------------
(* Eligibility.                                                            *)

\* bindingMatchesCurrent
MatchesCurrent(s, b) ==
    /\ b.branch = s.current.branch
    /\ b.branchEpoch \in {0, BranchEpoch(s, b)}
    /\ "commit" \in b.gates => /\ b.commit = s.current.commit
                               /\ b.commitEpoch \in {0, CommitEpoch(s, b)}

PathCurrent(s, b) ==
    b.path # None =>
        /\ <<b.repo, b.branch, b.path>> \in PathKeys =>
               s.paths[<<b.repo, b.branch, b.path>>].status \in {"unknown", "active"}
        /\ b.pathEpoch = PathEpoch(s, b)
        /\ ~TerminalOverlap(s, b.repo, b.branch, b.path)

\* What bindingEligibleStack asks of a binding besides its status and its refs.
InScope(s, b) ==
    /\ "repo" \in b.gates => b.repo = s.current.repo
    /\ "task" \in b.gates => b.task = s.current.task
    /\ "branch" \in b.gates => MatchesCurrent(s, b)
    /\ PathCurrent(s, b)

\* bindingEligible: a depth-first search that refuses cycles; the eligible
\* bindings are those that are justified in finitely many rounds.
Eligible(s) ==
    LET sound == {id \in DOMAIN s.bindings : /\ s.bindings[id].status = "active"
                                             /\ InScope(s, s.bindings[id])}
        round[n \in 0..Cardinality(sound)] ==
            IF n = 0 THEN {}
            ELSE LET before == round[n - 1]
                 IN {id \in sound : s.bindings[id].refs \subseteq before}
    IN round[Cardinality(sound)]

-----------------------------------------------------------------------------
(* Transitions of bindings.                                                *)

\* A status changes together with the stale revision.
Marked(x, status) == [x EXCEPT !.status = status, !.rev = @ + 1]

\* markMatchingStale
Bug_MarkStale(s, hit) ==  \* whatever the status was
    [s EXCEPT !.bindings = [id \in DOMAIN s.bindings |->
        IF id \in hit THEN Marked(s.bindings[id], "stale") ELSE s.bindings[id]]]
MarkStale(s, hit) ==
    [s EXCEPT !.bindings = [id \in DOMAIN s.bindings |->
        IF id \in hit /\ s.bindings[id].status = "active"
        THEN Marked(s.bindings[id], "stale") ELSE s.bindings[id]]]

\* cascadeInvalidation: what depends on the ids through bindings that are not
\* yet invalidated, and the ids themselves.
Bug_Dependents(s, ids) ==  \* one level only
    ids \cup {id \in DOMAIN s.bindings : s.bindings[id].refs \cap ids # {}
                                         \/ s.bindings[id].evidence \in ids}
Dependents(s, ids) ==
    LET valid == {id \in DOMAIN s.bindings : s.bindings[id].status # "invalidated"}
        reach[n \in 0..Cardinality(valid)] ==
            IF n = 0 THEN ids
            ELSE LET before == reach[n - 1]
                 IN before \cup {id \in valid : \/ s.bindings[id].evidence \in before
                                                \/ s.bindings[id].refs \cap before # {}}
    IN reach[Cardinality(valid)]

\* markMatchingInvalidated, or the target's own invalidation, and the cascade.
MarkInvalidated(s, hit) ==
    LET doomed == Dependents(s, hit)
    IN [s EXCEPT !.bindings = [id \in DOMAIN s.bindings |->
           IF id \in doomed /\ s.bindings[id].status # "invalidated"
           THEN Marked(s.bindings[id], "invalidated") ELSE s.bindings[id]]]

Bind(s, id, b) ==
    [s EXCEPT !.bindings = [x \in DOMAIN s.bindings \cup {id} |->
        IF x = id THEN b ELSE s.bindings[x]]]

\* addScopeGates
GatesOf(scope) ==
    CASE scope = "global" -> {}
      [] scope = "repo" -> {"repo"}
      [] scope = "task" -> {"repo", "task"}
      [] scope = "branch" -> {"repo", "branch"}
      [] scope = "file" -> {"repo", "task", "branch", "commit"}

EventId(s) == <<"E", s.events + 1>>

\* IDs.Next of an allocator that a refused batch restores
NextId(s, kind) == <<kind, 1 + Cardinality({id \in DOMAIN s.bindings : id[1] = kind})>>

FirstOf(x, y) == IF x # None THEN x ELSE y

\* A fresh binding of this event, with the envelope's branch and commit where it
\* has them.  canonicalizeBindingScope: only gated fields are kept.
Binding(s, gates, branch, commit, path, refs) ==
    Captured(s,
        [status |-> "active", rev |-> 0, evidence |-> EventId(s), refs |-> refs,
         gates |-> gates,
         repo |-> IF "repo" \in gates THEN s.current.repo ELSE None,
         task |-> IF "task" \in gates THEN s.current.task ELSE None,
         branch |-> IF "branch" \in gates THEN FirstOf(branch, s.current.branch) ELSE None,
         commit |-> IF "commit" \in gates THEN FirstOf(commit, s.current.commit) ELSE None,
         path |-> IF gates = {} THEN None ELSE path,
         branchEpoch |-> 0, commitEpoch |-> 0, pathEpoch |-> 0])

\* bindEvent
BindEvent(s, gates, branch, commit, path) ==
    Bind(s, EventId(s), Binding(s, gates, branch, commit, path, {}))
BindTaskEvent(s) == BindEvent(s, GatesOf("task"), None, None, None)

\* bindingForRecord of a record that no gate of its own ties to a branch
BindRecord(s, id, gates, refs) == Bind(s, id, Binding(s, gates, None, None, None, refs))

\* AvoidRecord: a copy of what it is grounded on, whatever its status, that
\* refers to it and carries the gates of the decision as well.
BindAvoid(s, id, ref, scope) ==
    LET g == s.bindings[ref]
        gates == g.gates \cup GatesOf(scope)
        fill(gate, old, new) == IF gate \in gates THEN FirstOf(old, new) ELSE None
    IN Bind(s, id, Captured(s,
         [g EXCEPT !.evidence = EventId(s), !.refs = {ref}, !.gates = gates,
                   !.repo = fill("repo", @, s.current.repo),
                   !.task = fill("task", @, s.current.task),
                   !.branch = fill("branch", @, s.current.branch),
                   !.commit = fill("commit", @, s.current.commit)]))

Tasks(s) == {id \in DOMAIN s.bindings : id[1] = "T"}

\* The staleness observer: updateTaskScope emits the newest task again.
RebindActiveTask(s) ==
    LET t == <<"T", Cardinality(Tasks(s))>>
    IN IF Tasks(s) = {} THEN s ELSE BindRecord(s, t, GatesOf("task"), {})

\* The transaction ends: the event counts, the snapshot is replaced.
Commit(s) == snap' = [s EXCEPT !.events = @ + 1]

Derives(input) == snap.events < MaxEvents /\ input \in Inputs[snap.events + 1]

-----------------------------------------------------------------------------
(* Events that move the session's scope.                                   *)

\* What a new task ends: everything of another repository, and of another task.
Ended(s, repo) ==
    {id \in DOMAIN s.bindings : \/ "task" \in s.bindings[id].gates
                                \/ s.current.repo # repo /\ s.bindings[id].gates # {}}

\* The observer allocates the task's id; the event is bound to it as well.
TaskStarted(repo, branch, commit) ==
    /\ Derives("task_started")
    /\ LET t == NextId(snap, "T")
           s1 == MarkStale(snap, Ended(snap, repo))
           s2 == EnterRepo([s1 EXCEPT !.current = [repo |-> repo, task |-> t,
                                                   branch |-> branch, commit |-> commit]])
           s3 == MarkStale(s2, {id \in DOMAIN s2.bindings :
                                   /\ "branch" \in s2.bindings[id].gates
                                   /\ ~MatchesCurrent(s2, s2.bindings[id])})
       IN Commit(BindRecord(BindTaskEvent(s3), t, GatesOf("task"), {}))

\* The bindings of the current repository that a transition left behind.
LeftBehind(s) ==
    {id \in DOMAIN s.bindings :
        /\ "branch" \in s.bindings[id].gates /\ s.bindings[id].repo = s.current.repo
        /\ ~MatchesCurrent(s, s.bindings[id])}

\* from_branch and from_commit name the current ones; a commit is given only
\* together with the one it replaces.
BranchChange(branch, commit) ==
    /\ Derives("branch_change")
    /\ None \notin {snap.current.repo, snap.current.branch}
    /\ branch # snap.current.branch
    /\ commit # None => snap.current.commit # None
    /\ LET s1 == EnterBranch([snap EXCEPT !.current.branch = branch, !.current.commit = commit])
       IN Commit(RebindActiveTask(BindTaskEvent(MarkStale(s1, LeftBehind(s1)))))

CommitChange(commit) ==
    /\ Derives("commit_change")
    /\ None \notin {snap.current.repo, snap.current.branch, snap.current.commit}
    /\ commit # snap.current.commit
    /\ LET here(k) == k[1] = snap.current.repo /\ k[2] = snap.current.branch
           s1 == EnterCommit([snap EXCEPT !.current.commit = commit])
           s2 == [s1 EXCEPT !.paths = [k \in PathKeys |->
                     IF here(k) /\ s1.paths[k].status = "active" /\ s1.paths[k].commit # commit
                     THEN Marked(s1.paths[k], "stale") ELSE s1.paths[k]]]
           lost == {id \in LeftBehind(s2) : s2.bindings[id].branch = s2.current.branch}
       IN Commit(RebindActiveTask(BindTaskEvent(MarkStale(s2, lost))))

-----------------------------------------------------------------------------
(* Events about paths.                                                     *)

Bug_OnPath(s, p) ==  \* the exact path only
    {id \in DOMAIN s.bindings : /\ s.bindings[id].repo = s.current.repo
                                /\ s.bindings[id].branch = s.current.branch
                                /\ s.bindings[id].path = p}
OnPath(s, p) ==
    {id \in DOMAIN s.bindings :
        LET b == s.bindings[id]
        IN /\ b.repo = s.current.repo /\ b.branch = s.current.branch
           /\ b.path # None /\ PathsOverlap(b.path, p)}

FileSnapshot(p, digest) ==
    LET key == <<snap.current.repo, snap.current.branch, p>>
        old == snap.paths[key]
        moved == snap.pathEpoch[key] = 0 \/ (old.status # "unknown" /\ old.digest # digest)
        s1 == IF moved THEN MarkStale(Bumped(snap, {p}), OnPath(snap, p)) ELSE snap
        s2 == [s1 EXCEPT !.paths[key] = [status |-> "active", rev |-> 0, digest |-> digest,
                                         commit |-> snap.current.commit]]
    IN /\ Derives("file_snapshot")
       /\ None \notin {snap.current.repo, snap.current.branch, snap.current.commit}
       /\ ~TerminalOverlap(snap, snap.current.repo, snap.current.branch, p)
       /\ Commit(BindEvent(s2, GatesOf("file"), None, None, p))

\* Every known path that overlaps either end moves on; only the exact new one is
\* active.  No such path can be invalidated: the event would be refused.
Renamed(s, from, to) ==
    {from, to} \cup
    {p \in Paths : /\ s.paths[<<s.current.repo, s.current.branch, p>>].status # "unknown"
                   /\ PathsOverlap(p, from) \/ PathsOverlap(p, to)}

\* The envelope's branch is the current one; its commit is not compared, and goes
\* to the event's binding only.
FileRenamed(from, to, digest, commit) ==
    LET here == <<snap.current.repo, snap.current.branch>>
        gone == Renamed(snap, from, to)
        s1 == Bumped(snap, gone)
        s2 == [s1 EXCEPT !.paths = [k \in PathKeys |->
                  IF <<k[1], k[2]>> # here \/ k[3] \notin gone THEN snap.paths[k]
                  ELSE IF k[3] = to
                       THEN [status |-> "active", rev |-> 0, digest |-> digest,
                             commit |-> snap.current.commit]
                       ELSE Marked(snap.paths[k], "stale")]]
    IN /\ Derives("file_renamed")
       /\ None \notin {snap.current.repo, snap.current.branch}
       /\ from # to
       /\ ~TerminalOverlap(snap, here[1], here[2], from)
       /\ ~TerminalOverlap(snap, here[1], here[2], to)
       /\ Commit(BindEvent(MarkStale(s2, OnPath(s2, from) \cup OnPath(s2, to)),
                           GatesOf("file"), None, commit, None))

-----------------------------------------------------------------------------
(* Events that derive records.                                             *)

\* command_output with a failing exit, whose envelope may name a branch and a
\* commit, entered before or not, and whose payload a path.  (A path the observer
\* finds in the output is left out.)
CommandFails(branch, commit, path) ==
    /\ Derives("command_output")
    /\ LET gates == GatesOf("branch") \cup {"commit"}
       IN Commit(Bind(BindEvent(snap, gates, branch, commit, path), NextId(snap, "F"),
                      Binding(snap, gates, branch, commit, path, {})))

Instruction ==
    /\ Derives("user_instruction")
    /\ Commit(BindRecord(BindTaskEvent(snap), NextId(snap, "C"), GatesOf("task"), {}))

NextAction ==
    /\ Derives("next_action")
    /\ Commit(BindRecord(BindTaskEvent(snap), <<"N", 1>>, GatesOf("task"), {}))

\* bindingForRecord of a decision, in the envelope's branch and commit as well
BindDecision(s, id, scope, branch, commit, refs) ==
    Bind(s, id, Binding(s, GatesOf(scope), branch, commit, None, refs))

\* Refs need not exist yet.
Decision(scope, branch, commit, refs) ==
    /\ Derives("decision")
    /\ Commit(BindDecision(BindTaskEvent(snap), NextId(snap, "D"), scope, branch, commit, refs))

\* The working state refuses an avoid of an address it does not know.
DecisionWithAvoid(scope, branch, commit, refs, ref) ==
    /\ Derives("avoid")
    /\ ref \in DOMAIN snap.bindings
    /\ Commit(BindDecision(BindAvoid(BindTaskEvent(snap), NextId(snap, "A"), ref, scope),
                           NextId(snap, "D"), scope, branch, commit, refs))

-----------------------------------------------------------------------------
(* Invalidation and revalidation.                                          *)

\* The observer records the invalidation itself as well.
Audited(s) == BindRecord(BindTaskEvent(s), NextId(s, "I"), GatesOf("task"), {})

Invalidate(target) ==
    /\ Derives("memory_invalidated")
    /\ target \in DOMAIN snap.bindings
    /\ snap.bindings[target].status # "invalidated"
    /\ Commit(Audited(MarkInvalidated(snap, {target})))

\* Known paths below the target end with it; bindings on any overlapping path
\* do, of whatever branch.
InvalidatePath(target) ==
    /\ Derives("path_invalidated")
    /\ <<snap.current.repo, snap.current.branch, target>> \in PathKeys
    /\ snap.paths[<<snap.current.repo, snap.current.branch, target>>].status
           \in {"active", "stale"}
    /\ LET here(k) == k[1] = snap.current.repo /\ k[2] = snap.current.branch
           ended == {k \in PathKeys : /\ here(k) /\ PathWithin(k[3], target)
                                      /\ snap.paths[k].status \in {"active", "stale"}}
           s1 == Bumped(snap, {k[3] : k \in ended})
           s2 == [s1 EXCEPT !.paths = [k \in PathKeys |->
                     IF k \in ended THEN Marked(snap.paths[k], "invalidated")
                     ELSE snap.paths[k]]]
           hit == {id \in DOMAIN snap.bindings :
                      /\ snap.bindings[id].status # "invalidated"
                      /\ snap.bindings[id].path # None
                      /\ PathsOverlap(snap.bindings[id].path, target)}
       IN Commit(Audited(MarkInvalidated(s2, hit)))

Bug_RefsHold(s, refs) == refs \subseteq DOMAIN s.bindings  \* known is enough
RefsHold(s, refs) == refs \subseteq Eligible(s)

\* The binding is moved to the current scope, where its gates ask for one.
Retargeted(s, b) ==
    LET gated(gate, now) == IF gate \in b.gates THEN now ELSE None
    IN Captured(s, [b EXCEPT !.status = "active",
                             !.repo = gated("repo", s.current.repo),
                             !.task = gated("task", s.current.task),
                             !.branch = gated("branch", s.current.branch),
                             !.commit = gated("commit", s.current.commit)])

\* applyRevalidation of a record at the revision it is stale at, on evidence that
\* is eligible before this event; events are never revalidated.
Revalidate(target, evidence) ==
    /\ Derives("memory_revalidated")
    /\ target \in DOMAIN snap.bindings /\ target[1] # "E"
    /\ snap.bindings[target].status = "stale"
    /\ LET b == snap.bindings[target]
           at == <<snap.current.repo, snap.current.branch, b.path>>
       IN /\ RefsHold(snap, {evidence})
          /\ b.path # None => /\ at \in PathKeys /\ snap.paths[at].status = "active"
                              /\ ~TerminalOverlap(snap, at[1], at[2], b.path)
          /\ RefsHold(snap, b.refs)
          /\ Commit(BindTaskEvent(Bind(snap, target, Retargeted(snap, b))))

\* The same of a path, whose digest must be the one it had.
RevalidatePath(target, digest, evidence) ==
    /\ Derives("path_revalidated")
    /\ <<snap.current.repo, snap.current.branch, target>> \in PathKeys
    /\ evidence \in Eligible(snap)
    /\ LET key == <<snap.current.repo, snap.current.branch, target>>
       IN /\ snap.paths[key].status = "stale"
          /\ snap.paths[key].digest \in {None, digest}
          /\ Commit(BindTaskEvent([snap EXCEPT !.paths[key].status = "active",
                                               !.paths[key].commit = snap.current.commit]))

-----------------------------------------------------------------------------
Bound == DOMAIN snap.bindings
MaybeCommits == Commits \cup {None}

ScopeEvent ==
    \/ \E r \in Repos, b \in Branches, c \in MaybeCommits : TaskStarted(r, b, c)
    \/ \E b \in Branches, c \in MaybeCommits : BranchChange(b, c)
    \/ \E c \in Commits : CommitChange(c)

PathEvent ==
    \/ \E p \in Paths, d \in Digests : FileSnapshot(p, d)
    \/ \E p, q \in Paths, d \in Digests \cup {None}, e \in Envelopes["file_renamed"] :
           FileRenamed(p, q, d, e[2])
    \/ \E p \in Paths : InvalidatePath(p)
    \/ \E p \in Paths, d \in Digests, e \in Bound : RevalidatePath(p, d, e)

\* The refs of a decision: one address that exists, or the decision itself.
RefChoices == {{}} \cup {{id} : id \in Bound \cup {NextId(snap, "D")}}

RecordEvent ==
    \/ \E e \in Envelopes["command_output"], p \in Paths \cup {None} : CommandFails(e[1], e[2], p)
    \/ Instruction
    \/ NextAction
    \/ \E scope \in Scopes, e \in Envelopes["decision"], refs \in RefChoices :
           Decision(scope, e[1], e[2], refs)
    \/ \E scope \in Scopes, e \in Envelopes["avoid"], refs \in RefChoices, id \in Bound :
           DecisionWithAvoid(scope, e[1], e[2], refs, id)

StandingEvent ==
    \/ \E id \in Bound : Invalidate(id)
    \/ \E id, e \in Bound : Revalidate(id, e)

Next == ScopeEvent \/ PathEvent \/ RecordEvent \/ StandingEvent

Spec == Init /\ [][Next]_snap

-----------------------------------------------------------------------------
(* Properties.                                                             *)

maxEpoch(left, right) == IF right > left THEN right ELSE left

\* What a materialized page describes itself by; None is a component it lacks.
Descriptors == [repo : Repos, branch : Branches, commit : Commits \cup {None},
                path : Paths \cup {None}, onBranch : BOOLEAN]

\* The epochs of a descriptor's components, and their maximum: Generation and
\* currentDescriptorGeneration.
Epochs(s, d) == <<IF d.onBranch THEN BranchEpoch(s, d) ELSE 0, CommitEpoch(s, d), PathEpoch(s, d)>>
Generation(epochs) == maxEpoch(maxEpoch(epochs[1], epochs[2]), epochs[3])

\* The generation a page carries is "a collision-free summary" of its scope
\* (state.go, Generation): it never goes back, and while it stays what it was no
\* component has moved.  A page whose generation still matches therefore
\* describes the scope as it was when the page was made.
GenerationsAreTokens ==
    [][\A d \in Descriptors :
          LET before == Epochs(snap, d)
              after == Epochs(snap', d)
          IN /\ Generation(before) <= Generation(after)
             /\ Generation(before) = Generation(after) => before = after]_snap

Live(s, id) == s.bindings[id].status = "active" /\ InScope(s, s.bindings[id])

\* An observer emitted the record again.
Rebound(id) == snap'.bindings[id].evidence # snap.bindings[id].evidence

\* An event that takes a live binding out of scope also takes its active status
\* (applyEvent: "never leave such a binding status=active but ineligible, because
\* that state cannot be CAS-revalidated"), so leaving a scope can be undone only by
\* a revalidation.
LapsedMeansStale ==
    [][\A id \in Bound :
          Live(snap, id) /\ ~InScope(snap', snap'.bindings[id])
              => snap'.bindings[id].status # "active"]_snap

\* The binding names a branch or a commit that the session has not been in.
NeverEntered(s, b) ==
    /\ "branch" \in b.gates
    /\ \/ b.branch # None /\ BranchEpoch(s, b) = 0
       \/ "commit" \in b.gates /\ b.commit # None /\ CommitEpoch(s, b) = 0

\* Moving to another task, branch or commit makes nothing live that was not, except
\* what names a branch or a commit that is entered now for the first time: an
\* event may carry either on its envelope before the session gets there (bindEvent,
\* bindingForRecord), and an epoch of 0 matches the first entry
\* (bindingMatchesCurrent).  A round trip between branches, commits or
\* repositories brings nothing back (docs/architecture.md, scope epochs).
ScopeChangesReviveNothing ==
    [][snap'.current # snap.current =>
          \A id \in Bound :
              Live(snap', id) => \/ Live(snap, id)
                                 \/ Rebound(id)
                                 \/ NeverEntered(snap, snap.bindings[id])]_snap

\* What becomes active again, by revalidation or because its record is emitted
\* again, can be used at once: the epochs, scope and refs that made it stale are
\* all repaired by the same step (applyRevalidation, captureEpochs).
RevalidatedIsEligible ==
    [][\A id \in Bound :
          /\ snap.bindings[id].status = "stale" /\ snap'.bindings[id].status = "active"
          => id \in Eligible(snap')]_snap

\* An invalidation reaches everything that was derived from what it ends, at any
\* distance: whatever refers to, or has its evidence in, a binding that ends in
\* this step is invalidated when the step is over (cascadeInvalidation).
CascadeComplete ==
    [][\A id, dep \in Bound :
          /\ snap.bindings[id].status # "invalidated"
          /\ snap'.bindings[id].status = "invalidated"
          /\ (id \in snap.bindings[dep].refs \/ snap.bindings[dep].evidence = id)
          => snap'.bindings[dep].status = "invalidated"]_snap

\* An invalidated binding changes only if its record is emitted again, and an
\* invalidated path never does: no marking, revalidation, snapshot or rename moves
\* them (docs/architecture.md: path invalidation "is terminal for its known
\* subtree and blocks later snapshots or renames that overlap").
TerminalUnlessEmittedAgain ==
    [][/\ \A id \in Bound : snap.bindings[id].status = "invalidated" =>
              snap'.bindings[id] = snap.bindings[id] \/ Rebound(id)
       /\ \A k \in PathKeys : snap.paths[k].status = "invalidated" =>
              snap'.paths[k] = snap.paths[k]]_snap

\* docs/architecture.md: "A terminal memory_invalidated target cannot be
\* revalidated", and nothing else may revive it either.  The staleness observer
\* emits the active task again on a change of branch or commit, and BindUpdates
\* replaces its invalidated binding by an active one.
TerminalIsFinal ==
    [][\A id \in Bound : snap.bindings[id].status = "invalidated"
          => snap'.bindings[id].status = "invalidated"]_snap
=============================================================================
