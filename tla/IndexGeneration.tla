--------------------------- MODULE IndexGeneration ---------------------------
(***************************************************************************)
(* The files of the warm index and the handles over them: Open with its    *)
(* recovery and its replacement of an index of another configuration,      *)
(* Rebuild with its cutover, operations that rebind to the generation that *)
(* serves, Close, and the operator's purge (internal/indexer/index.go,     *)
(* rebuild.go, internal/operator/purge.go).                                *)
(*                                                                         *)
(* A file is a database with its WAL; a name of the directory is bound to  *)
(* at most one file, and a handle keeps the file it opened whatever        *)
(* happens to its name.  The lease of the directory is a readers-writer    *)
(* lock: operations share it, and one Open or Rebuild at a time, the one   *)
(* xpc follows, has it alone.  All handles of a process have its           *)
(* configuration.  The dense tables are in DenseProjection.                *)
(***************************************************************************)
EXTENDS Naturals, FiniteSets

CONSTANTS
    Handles,      \* the Index values a process may hold
    Files,        \* database files
    Configs,      \* configurations: an embedding namespace, and the ABI (schema
                  \* and compiler versions) of the binary
    None,         \* no file
    MaxGen,       \* bound: generations
    MaxFaults,    \* bound: failures of the file system and of the database
    MaxProcesses  \* bound: processes that open the directory

ASSUME NoneAssumption == None \notin Files \cup Handles
ASSUME BoundsAssumption == {MaxGen, MaxFaults, MaxProcesses} \subseteq Nat

VARIABLES
    disk,       \* what is in each file
    name,       \* warm.db, warm.db.old, warm.rebuild.db
    lock,       \* the rebuild lock file: of a "live" or a "dead" process
    accidents,  \* history: a "purge" that stopped half way, a failed "restore", a
                \* handle "misnumbered" by a rebuild that was undone
    config,     \* of the process
    lease,      \* lease.generation: 0 before the first Open of a process
    db,         \* Index.db of each handle
    bound,      \* Index.generation of each handle
    op,         \* the handles in an operation, which share the lease
    xpc,        \* where the Open or Rebuild that has the lease alone is
    xh,         \* its handle
    xgen,       \* the generation it has read
    faults,     \* failures so far
    processes   \* processes so far

directory == <<disk, name>>
handles == <<db, bound>>
counts == <<faults, processes>>
vars == <<disk, name, lock, accidents, config, lease, db, bound, op, xpc, xh, xgen,
          faults, processes>>

OpenPcs == {"recover", "clean", "open", "meta", "replace", "create", "remeta",
            "bump", "publish"}
BuildPcs == {"build", "fill"}
CutPcs == {"close", "drop", "retire", "promote", "reopen", "dense", "undo",
           "restore", "sweep"}

\* "schema": tables without metadata.  "partial": a rebuild not yet validated.
Databases == [gen : Nat, config : Configs, content : {"schema", "partial", "whole"}]

TypeOK ==
    /\ disk \in [Files -> Databases]
    /\ name \in [{"serving", "backup", "rebuild"} -> Files \cup {None}]
    /\ lock \in {"none", "live", "dead"} /\ accidents \subseteq {"purge", "restore", "misnumbered"}
    /\ config \in Configs
    /\ lease \in Nat /\ xgen \in Nat
    /\ db \in [Handles -> Files \cup {None}]
    /\ bound \in [Handles -> Nat]
    /\ op \subseteq Handles
    /\ xpc \in {"idle"} \cup OpenPcs \cup BuildPcs \cup CutPcs
    /\ xh \in Handles \cup {None}

Serving == name["serving"]

\* The files that have a name or are open.
InUse == {name[n] : n \in DOMAIN name} \cup {db[h] : h \in Handles}

Init ==
    /\ \E c \in Configs :
          /\ config = c
          /\ disk = [f \in Files |-> [gen |-> 0, config |-> c, content |-> "schema"]]
    /\ name = [n \in {"serving", "backup", "rebuild"} |-> None]
    /\ lock = "none" /\ accidents = {}
    /\ lease = 0 /\ xgen = 0
    /\ db = [h \in Handles |-> None] /\ bound = [h \in Handles |-> 0]
    /\ op = {}
    /\ xpc = "idle" /\ xh = None
    /\ faults = 0 /\ processes = 1

-----------------------------------------------------------------------------
(* What the steps are made of.                                             *)

\* openDB of a name without a file creates one.
Created(n, content, gen) ==
    \E f \in Files \ InUse :
        /\ name' = [name EXCEPT ![n] = f]
        /\ disk' = [disk EXCEPT ![f] =
                        [gen |-> gen, config |-> config, content |-> content]]

Removed(n) == name' = [name EXCEPT ![n] = None]

\* os.Rename, which replaces what has the new name and needs the old one.
Renamed(m, n) ==
    name' = IF name[m] = None THEN name ELSE [name EXCEPT ![n] = name[m], ![m] = None]

Returns == xpc' = "idle" /\ xh' = None /\ xgen' = 0 /\ UNCHANGED op
Goes(from, to) == xpc = from /\ xpc' = to /\ UNCHANGED <<op, xh>>
Fault == faults < MaxFaults /\ faults' = faults + 1 /\ UNCHANGED processes

\* The lease is free for one that wants it alone.
LeaseFree == xpc = "idle" /\ op = {}

\* ensureMeta of a file that has metadata.
Compatible(f) == disk[f].content = "schema" \/ disk[f].config = config

-----------------------------------------------------------------------------
(* Open.                                                                   *)

OpenBegins(h) ==
    /\ db[h] = None /\ LeaseFree
    /\ xpc' = "recover" /\ xh' = h
    /\ UNCHANGED <<directory, lock, accidents, config, lease, handles, op, xgen, counts>>

\* recoverIndexFiles: a stale lock goes, and the previous generation, or else
\* the rebuilt one, gets back the name a cutover has left without a file.
RecoverRestores ==
    /\ Goes("recover", "clean")
    /\ lock' = "none"
    /\ IF Serving # None THEN UNCHANGED name
       ELSE IF name["backup"] # None THEN Renamed("backup", "serving")
       ELSE Renamed("rebuild", "serving")
    /\ UNCHANGED <<disk, accidents, config, lease, handles, xgen, counts>>

\* ... and then everything else is removed, one file at a time.
RecoverRemoves ==
    /\ xpc = "clean" /\ Serving # None
    /\ \/ name["rebuild"] # None /\ Removed("rebuild")
       \/ name["rebuild"] = None /\ name["backup"] # None /\ Removed("backup")
    /\ UNCHANGED <<disk, lock, accidents, config, lease, handles, op, xpc, xh, xgen, counts>>

Bug_Recovered ==  \* what is left over may stay
    /\ Goes("clean", "open")
    /\ UNCHANGED <<directory, lock, accidents, config, lease, handles, xgen, counts>>
Recovered ==
    /\ Serving # None => name["rebuild"] = None /\ name["backup"] = None
    /\ Goes("clean", "open")
    /\ UNCHANGED <<directory, lock, accidents, config, lease, handles, xgen, counts>>

OpenServing ==
    /\ Goes("open", "meta")
    /\ IF Serving = None THEN Created("serving", "schema", 0) ELSE UNCHANGED directory
    /\ UNCHANGED <<lock, accidents, config, lease, handles, xgen, counts>>

\* ensureMeta writes the metadata of a new index in one transaction.
MetaWritten ==
    disk' = [disk EXCEPT ![Serving] = [gen |-> 1, config |-> config, content |-> "whole"]]

EnsureMeta ==
    /\ xpc = "meta" /\ UNCHANGED <<op, xh>>
    /\ IF disk[Serving].content = "schema"
       THEN MetaWritten /\ xpc' = "publish" /\ xgen' = 0
       ELSE /\ xpc' = IF Compatible(Serving) THEN "publish" ELSE "replace"
            \* Only another namespace carries the generation on.
            /\ xgen' = IF disk[Serving].config.abi = config.abi THEN disk[Serving].gen ELSE 0
            /\ UNCHANGED disk
    /\ UNCHANGED <<name, lock, accidents, config, lease, handles, counts>>

Replace ==
    /\ Goes("replace", "create")
    /\ Removed("serving")
    /\ UNCHANGED <<disk, lock, accidents, config, lease, handles, xgen, counts>>

Recreate ==
    /\ Goes("create", "remeta")
    /\ Created("serving", "schema", 0)
    /\ UNCHANGED <<lock, accidents, config, lease, handles, xgen, counts>>

EnsureMetaAgain ==
    /\ Goes("remeta", IF xgen = 0 THEN "publish" ELSE "bump")
    /\ MetaWritten
    /\ UNCHANGED <<name, lock, accidents, config, lease, handles, xgen, counts>>

WriteGeneration ==
    /\ Goes("bump", "publish") /\ xgen < MaxGen
    /\ disk' = [disk EXCEPT ![Serving].gen = xgen + 1]
    /\ UNCHANGED <<name, lock, accidents, config, lease, handles, xgen, counts>>

\* The lease takes the generation of the file, higher or lower.
OpenReturns ==
    /\ xpc = "publish" /\ Returns
    /\ db' = [db EXCEPT ![xh] = Serving]
    /\ bound' = [bound EXCEPT ![xh] = disk[Serving].gen]
    /\ lease' = disk[Serving].gen
    /\ accidents' = IF disk[Serving].content = "partial" THEN accidents
                    ELSE accidents \ {"purge"}
    /\ UNCHANGED <<directory, lock, config, counts>>

OpenFails ==
    /\ xpc \in OpenPcs /\ Fault /\ Returns
    /\ UNCHANGED <<directory, lock, accidents, config, lease, handles>>

-----------------------------------------------------------------------------
(* Operations, and Close.                                                  *)

\* rebindIfStale: a handle of an older generation opens the file that serves.
Bug_Rebind(h) == UNCHANGED <<handles, lease>>  \* the lease is not asked
Rebind(h) ==
    IF bound[h] >= lease THEN UNCHANGED <<handles, lease>>
    ELSE /\ Serving # None /\ disk[Serving].content # "schema" /\ Compatible(Serving)
         /\ db' = [db EXCEPT ![h] = Serving]
         /\ bound' = [bound EXCEPT ![h] = disk[Serving].gen]
         /\ lease' = IF disk[Serving].gen > lease THEN disk[Serving].gen ELSE lease

BeginOperation(h) ==
    /\ xpc = "idle" /\ h \notin op /\ db[h] # None
    /\ Rebind(h)
    /\ op' = op \cup {h}
    /\ UNCHANGED <<directory, lock, accidents, config, xpc, xh, xgen, counts>>

EndOperation(h) ==
    /\ h \in op
    /\ op' = op \ {h}
    /\ UNCHANGED <<directory, lock, accidents, config, lease, handles, xpc, xh, xgen, counts>>

\* Close does not take the lease; it waits for the Rebuild of its own handle,
\* which has writeMu, and for nothing else.
CloseHandle(h) ==
    /\ db[h] # None
    /\ xpc \in BuildPcs \cup CutPcs => xh # h
    /\ db' = [db EXCEPT ![h] = None] /\ bound' = [bound EXCEPT ![h] = 0]
    /\ UNCHANGED <<directory, lock, accidents, config, lease, op, xpc, xh, xgen, counts>>

-----------------------------------------------------------------------------
(* Rebuild.                                                                *)

RebuildBegins(h) ==
    /\ db[h] # None /\ LeaseFree
    /\ Rebind(h)
    /\ lock' = "live"
    /\ Removed("rebuild")
    /\ xpc' = "build" /\ xh' = h
    /\ UNCHANGED <<disk, accidents, config, op, xgen, counts>>

BuildFile ==
    /\ Goes("build", "fill")
    /\ Created("rebuild", "partial", 1)
    /\ UNCHANGED <<lock, accidents, config, lease, handles, xgen, counts>>

\* The pages are applied, the vectors copied, the whole validated, numbered one
\* above the generation of the handle, and closed.
Fill ==
    /\ xpc = "fill" /\ UNCHANGED <<op, xh>>
    /\ disk[db[xh]].gen \in 1..MaxGen - 1
    /\ xgen' = disk[db[xh]].gen
    /\ disk' = [disk EXCEPT ![name["rebuild"]].content = "whole",
                            ![name["rebuild"]].gen = xgen' + 1]
    /\ xpc' = "close"
    /\ UNCHANGED <<name, lock, accidents, config, lease, handles, counts>>

BuildFails ==
    /\ xpc \in BuildPcs /\ Fault /\ Returns
    /\ Removed("rebuild") /\ lock' = "none"
    /\ UNCHANGED <<disk, accidents, config, lease, handles>>

\* The cutover: the handle lets its file go, warm.db.old is removed, and two
\* renames bring the rebuilt file to serve.
CloseServing ==
    /\ Goes("close", "drop")
    /\ db' = [db EXCEPT ![xh] = None]
    /\ UNCHANGED <<directory, lock, accidents, config, lease, bound, xgen, counts>>

CloseServingFails ==
    /\ xpc = "close" /\ Fault /\ Returns
    /\ lock' = "none"
    /\ UNCHANGED <<directory, accidents, config, lease, handles>>

DropOld ==
    /\ Goes("drop", "retire")
    /\ Removed("backup")
    /\ UNCHANGED <<disk, lock, accidents, config, lease, handles, xgen, counts>>

\* The handle is left without a file.
DropOldFails ==
    /\ xpc = "drop" /\ Fault /\ Returns
    /\ lock' = "none"
    /\ UNCHANGED <<directory, accidents, config, lease, handles>>

Bug_Retire ==  \* the old generation is removed instead of set aside
    /\ Goes("retire", "promote")
    /\ Removed("serving")
    /\ UNCHANGED <<disk, lock, accidents, config, lease, handles, xgen, counts>>
Retire ==
    /\ Goes("retire", "promote")
    /\ Renamed("serving", "backup")
    /\ UNCHANGED <<disk, lock, accidents, config, lease, handles, xgen, counts>>

RetireFails ==
    /\ xpc = "retire" /\ Fault /\ Returns
    /\ db' = [db EXCEPT ![xh] = Serving]
    /\ lock' = "none"
    /\ UNCHANGED <<directory, accidents, config, lease, bound>>

Promote ==
    /\ Goes("promote", "reopen")
    /\ Renamed("rebuild", "serving")
    /\ UNCHANGED <<disk, lock, accidents, config, lease, handles, xgen, counts>>

PromoteFails ==
    /\ Goes("promote", "restore") /\ Fault
    /\ UNCHANGED <<directory, lock, accidents, config, lease, handles, xgen>>

Reopen ==
    /\ Goes("reopen", "dense")
    /\ db' = [db EXCEPT ![xh] = Serving]
    /\ bound' = [bound EXCEPT ![xh] = xgen + 1]
    /\ UNCHANGED <<directory, lock, accidents, config, lease, xgen, counts>>

ReopenFails ==
    /\ Goes("reopen", "undo") /\ Fault
    /\ UNCHANGED <<directory, lock, accidents, config, lease, handles, xgen>>

\* initDense, and the new generation is announced.
Announce ==
    /\ Goes("dense", "sweep")
    /\ lease' = IF xgen + 1 > lease THEN xgen + 1 ELSE lease
    /\ UNCHANGED <<directory, lock, accidents, config, handles, xgen, counts>>

\* The handle gives the file back, and keeps its number.
DenseFails ==
    /\ Goes("dense", "undo") /\ Fault
    /\ db' = [db EXCEPT ![xh] = None]
    /\ accidents' = accidents \cup {"misnumbered"}
    /\ UNCHANGED <<directory, lock, config, lease, bound, xgen>>

Undo ==
    /\ Goes("undo", "restore")
    /\ Removed("serving")
    /\ UNCHANGED <<disk, lock, accidents, config, lease, handles, xgen, counts>>

Restore ==
    /\ xpc = "restore" /\ Returns
    /\ Renamed("backup", "serving")
    /\ db' = [db EXCEPT ![xh] = Serving']
    /\ lock' = "none"
    /\ UNCHANGED <<disk, accidents, config, lease, bound, counts>>

\* The rename back fails too: openDB makes a new file of that name.
RestoreFails ==
    /\ xpc = "restore" /\ Fault /\ Returns
    /\ Created("serving", "schema", 0)
    /\ db' = [db EXCEPT ![xh] = Serving']
    /\ lock' = "none"
    /\ accidents' = accidents \cup {"restore"}
    /\ UNCHANGED <<config, lease, bound>>

Sweep ==
    /\ xpc = "sweep" /\ Returns
    /\ Removed("backup")
    /\ lock' = "none"
    /\ UNCHANGED <<disk, accidents, config, lease, handles, counts>>

SweepFails ==
    /\ xpc = "sweep" /\ Fault /\ Returns
    /\ lock' = "none"
    /\ UNCHANGED <<directory, accidents, config, lease, handles>>

-----------------------------------------------------------------------------
(* Around the index.                                                       *)

\* A process ends, at any moment, and another one starts with any configuration.
NewProcess(c) ==
    /\ processes < MaxProcesses
    /\ processes' = processes + 1
    /\ config' = c
    /\ db' = [h \in Handles |-> None] /\ bound' = [h \in Handles |-> 0]
    /\ lease' = 0 /\ op' = {} /\ xpc' = "idle" /\ xh' = None /\ xgen' = 0
    /\ lock' = IF lock = "live" THEN "dead" ELSE lock
    /\ accidents' = accidents \cap {"purge"}
    /\ UNCHANGED <<directory, faults>>

\* os.RemoveAll of the directory by the operator's purge, which is offline:
\* one file after the other, in any order, and it may stop on the way.
PurgeRemoves(n) ==
    /\ xpc = "idle" /\ \A h \in Handles : db[h] = None
    /\ name[n] # None
    /\ Removed(n)
    /\ accidents' = IF \E m \in DOMAIN name : name'[m] # None
                    THEN accidents \cup {"purge"} ELSE accidents \ {"purge"}
    /\ UNCHANGED <<disk, lock, config, lease, handles, op, xpc, xh, xgen, counts>>

OpenStep ==
    \/ RecoverRestores \/ RecoverRemoves \/ Recovered \/ OpenServing \/ EnsureMeta
    \/ Replace \/ Recreate \/ EnsureMetaAgain \/ WriteGeneration \/ OpenReturns
RebuildStep ==
    \/ BuildFile \/ Fill \/ CloseServing \/ DropOld \/ Retire \/ Promote \/ Reopen
    \/ Announce \/ Undo \/ Restore \/ Sweep
Failure ==
    \/ OpenFails \/ BuildFails \/ CloseServingFails \/ DropOldFails \/ RetireFails
    \/ PromoteFails \/ ReopenFails \/ DenseFails \/ RestoreFails \/ SweepFails

Next ==
    \/ \E h \in Handles :
          OpenBegins(h) \/ BeginOperation(h) \/ EndOperation(h) \/ CloseHandle(h)
          \/ RebuildBegins(h)
    \/ OpenStep \/ RebuildStep \/ Failure
    \/ \E c \in Configs : NewProcess(c)
    \/ \E n \in DOMAIN name : PurgeRemoves(n)

Spec == Init /\ [][Next]_vars

-----------------------------------------------------------------------------
(* Properties.                                                             *)

\* What the next Open would serve if the process ended now.
Recoverable ==
    IF Serving # None THEN Serving
    ELSE IF name["backup"] # None THEN name["backup"] ELSE name["rebuild"]

\* In every state a crash could leave behind, what the next Open recovers is a
\* whole generation or a new index, never an unfinished rebuild, unless a purge
\* was interrupted after it had removed the generation that served.
RecoveryFindsWhole ==
    /\ TypeOK
    /\ Recoverable # None /\ disk[Recoverable].content = "partial"
          => "purge" \in accidents

\* The generation the directory stands for: that of the file an Open would
\* recover, or the previous one while a cutover can still be undone.
KeptFile ==
    IF xpc \in {"reopen", "dense", "undo", "restore"} /\ name["backup"] # None
    THEN name["backup"] ELSE Recoverable
Kept == KeptFile # None /\ disk[KeptFile].content = "whole"

\* A rebuild, wherever it is interrupted, undone or finished, advances the
\* generation by one or keeps it, and no recovery turns it back: an index is
\* lost only to a purge or to an Open of another configuration.  The exceptions
\* are those of NumberedOperationsServe.
GenerationsAdvance ==
    [][Kept /\ KeptFile' # KeptFile =>
        \/ Kept' /\ disk'[KeptFile'].gen = disk[KeptFile].gen + 1
                 /\ disk'[KeptFile'].config = disk[KeptFile].config
        \/ xpc = "replace"
        \/ \E n \in DOMAIN name : PurgeRemoves(n)
        \/ accidents' \cap {"restore", "misnumbered"} # {}
        \/ accidents \cap {"restore", "misnumbered"} # {}]_vars

\* An operation that has passed its check of the lease works on the file that
\* serves, whichever handle rebuilt it and whatever files came and went.
OperationsServe ==
    \A h \in op : db[h] # None => db[h] = Serving

\* The same, unless an undone rebuild has left its handle with the number of the
\* generation that was undone, or the undoing has failed as well.
NumberedOperationsServe ==
    accidents \cap {"restore", "misnumbered"} = {} => OperationsServe
=============================================================================
