------------------------- MODULE IndexGenerationProofs -------------------------
(***************************************************************************)
(* Proofs about IndexGeneration for every set of handles, files and        *)
(* configurations and every bound: what a crash leaves is recovered whole, *)
(* operations work on the file that serves, and no step but a purge or a   *)
(* change of configuration turns the generation back.                      *)
(***************************************************************************)
EXTENDS IndexGeneration, TLAPS

Names == {"serving", "backup", "rebuild"}

Undoable == {"promote", "reopen", "dense", "undo", "restore"}

\* The file of the generation that serves; a cutover sets it aside until it can
\* no longer be undone.
Current == IF xpc \in Undoable THEN name["backup"] ELSE Serving

\* The file a rebuild makes.
Rebuilt == IF xpc \in {"fill", "close", "drop", "retire", "promote"}
           THEN name["rebuild"] ELSE Serving

NamesApart == \A m, n \in DOMAIN name : m # n /\ name[m] # None => name[m] # name[n]

\* What the code relies on at each step of an Open or a Rebuild.
Steps ==
    /\ xpc # "idle" => xh \in Handles /\ op = {}
    /\ xpc = "clean" /\ Serving = None => name["backup"] = None /\ name["rebuild"] = None
    /\ xpc \in OpenPcs \ {"recover", "clean"}
          => name["backup"] = None /\ name["rebuild"] = None
    /\ xpc \in {"meta", "replace", "remeta", "bump", "publish"} => Serving # None
    /\ xpc = "create" => Serving = None
    /\ xpc \in {"bump", "publish"}
          => disk[Serving].content # "schema" /\ disk[Serving].config = config
    /\ xpc \in {"replace", "create", "remeta", "bump"} => \A h \in Handles : db[h] = None
    /\ xpc \in {"build", "fill", "close"} => db[xh] # None
    /\ xpc \in {"promote", "restore"} => Serving = None
    /\ xpc = "dense" => db[xh] = Serving /\ bound[xh] = xgen + 1

\* The file being rebuilt is there and of this configuration; past its
\* validation it is whole and numbered.
RebuiltIsReady ==
    /\ xpc \in {"fill", "close", "drop", "retire", "promote", "reopen", "dense",
                "undo", "sweep"}
          => Rebuilt # None /\ disk[Rebuilt].config = config
    /\ xpc \in {"close", "drop", "retire", "promote", "reopen", "dense", "undo", "sweep"}
          => disk[Rebuilt].content = "whole" /\ disk[Rebuilt].gen = xgen + 1

\* While a handle is open or a rebuild runs, there is a generation that serves,
\* of this configuration.
Held == xpc \in BuildPcs \cup CutPcs \/ \E h \in Handles : db[h] # None
HeldIsCompatible == Held => Current # None /\ Compatible(Current)

Partial(n) == name[n] # None /\ disk[name[n]].content = "partial"

\* An unfinished rebuild has the name of one, and what serves is beside it.
PartialIsRebuild ==
    /\ xpc \in CutPcs => ~Partial("rebuild")
    /\ "purge" \notin accidents =>
          /\ ~Partial("serving") /\ ~Partial("backup")
          /\ Partial("rebuild") => Serving # None

\* The lease has the number of the generation that serves, and no open handle
\* has it over another file; the handle that rebuilds has it until it announces
\* the next.
Numbered ==
    accidents \cap {"restore", "misnumbered"} = {} =>
        /\ Held => lease = disk[Current].gen /\ disk[Current].content # "schema"
        /\ \A h \in Handles : db[h] # None /\ ~(xpc = "dense" /\ h = xh) =>
              bound[h] <= lease /\ (bound[h] = lease => db[h] = Current)
        /\ xpc \in (BuildPcs \cup CutPcs) \ {"dense"} => bound[xh] = lease
        /\ xpc \in CutPcs \ {"sweep"} => xgen = lease
        /\ \A h \in op : db[h] # None => bound[h] = lease

IInv == NamesApart /\ Steps /\ RebuiltIsReady /\ HeldIsCompatible /\ PartialIsRebuild /\ Numbered

-----------------------------------------------------------------------------
(* Types.                                                                  *)

\* A new file has no name and no handle yet.
LEMMA CreatedFile ==
    ASSUME TypeOK, NEW n \in Names, NEW content \in {"schema", "partial", "whole"},
           NEW gen \in Nat, Created(n, content, gen)
    PROVE  /\ name' \in [Names -> Files \cup {None}] /\ disk' \in [Files -> Databases]
           /\ \E f \in Files :
                 /\ \A m \in Names : name[m] # f
                 /\ \A h \in Handles : db[h] # f
                 /\ f # None
                 /\ name' = [name EXCEPT ![n] = f]
                 /\ disk' = [disk EXCEPT ![f] =
                                [gen |-> gen, config |-> config, content |-> content]]
<1>1. /\ name \in [Names -> Files \cup {None}] /\ DOMAIN name = Names
      /\ disk \in [Files -> Databases] /\ config \in Configs
  BY DEF TypeOK, Names
<1>2. PICK f \in Files \ InUse :
         /\ name' = [name EXCEPT ![n] = f]
         /\ disk' = [disk EXCEPT ![f] =
                        [gen |-> gen, config |-> config, content |-> content]]
  BY DEF Created
<1>3. [gen |-> gen, config |-> config, content |-> content] \in Databases
  BY <1>1 DEF Databases
<1>4. name' \in [Names -> Files \cup {None}] /\ disk' \in [Files -> Databases]
  BY <1>1, <1>2, <1>3
<1>. QED  BY <1>1, <1>2, <1>4, NoneAssumption DEF InUse

LEMMA TypeStep ==
    ASSUME TypeOK, Steps, [Next]_vars
    PROVE  TypeOK'
<1>. USE NoneAssumption, BoundsAssumption
     DEF TypeOK, Databases, OpenPcs, BuildPcs, CutPcs, Returns, Goes, Fault,
         Removed, Renamed, directory, handles, counts, Serving
<1>1. ASSUME NEW h \in Handles, OpenBegins(h) PROVE TypeOK'
  BY <1>1 DEF OpenBegins
<1>2. ASSUME NEW h \in Handles, EndOperation(h) PROVE TypeOK'
  BY <1>2 DEF EndOperation
<1>3. ASSUME NEW h \in Handles, CloseHandle(h) PROVE TypeOK'
  BY <1>3 DEF CloseHandle
<1>4. ASSUME NEW h \in Handles, BeginOperation(h) PROVE TypeOK'
  BY <1>4 DEF BeginOperation, Rebind
<1>5. ASSUME NEW h \in Handles, RebuildBegins(h) PROVE TypeOK'
  BY <1>5 DEF RebuildBegins, Rebind
<1>6. CASE OpenServing
  <2>1. CASE name["serving"] = None
    <3>1. name' \in [Names -> Files \cup {None}] /\ disk' \in [Files -> Databases]
      BY <1>6, <2>1, CreatedFile DEF OpenServing, Names
    <3>. QED  BY <1>6, <3>1 DEF OpenServing, Names
  <2>2. CASE name["serving"] # None
    BY <1>6, <2>2 DEF OpenServing
  <2>. QED  BY <2>1, <2>2
<1>7. CASE Recreate
  <2>1. name' \in [Names -> Files \cup {None}] /\ disk' \in [Files -> Databases]
    BY <1>7, CreatedFile DEF Recreate, Names
  <2>. QED  BY <1>7, <2>1 DEF Recreate, Names, Steps
<1>8. CASE BuildFile
  <2>1. name' \in [Names -> Files \cup {None}] /\ disk' \in [Files -> Databases]
    BY <1>8, CreatedFile DEF BuildFile, Names
  <2>. QED  BY <1>8, <2>1 DEF BuildFile, Names, Steps
<1>9. CASE RestoreFails
  <2>1. name' \in [Names -> Files \cup {None}] /\ disk' \in [Files -> Databases]
    BY <1>9, CreatedFile DEF RestoreFails, Names
  <2>. QED  BY <1>9, <2>1 DEF RestoreFails, Names, Steps
<1>10. CASE RecoverRestores
  BY <1>10 DEF RecoverRestores, MetaWritten, Steps
<1>11. CASE RecoverRemoves
  BY <1>11 DEF RecoverRemoves, MetaWritten, Steps
<1>12. CASE Recovered
  BY <1>12 DEF Recovered, MetaWritten, Steps
<1>13. CASE EnsureMeta
  BY <1>13 DEF EnsureMeta, MetaWritten, Steps
<1>14. CASE Replace
  BY <1>14 DEF Replace, MetaWritten, Steps
<1>15. CASE EnsureMetaAgain
  BY <1>15 DEF EnsureMetaAgain, MetaWritten, Steps
<1>16. CASE WriteGeneration
  BY <1>16 DEF WriteGeneration, MetaWritten, Steps
<1>17. CASE OpenReturns
  BY <1>17 DEF OpenReturns, MetaWritten, Steps
<1>18. CASE Fill
  <2>. DEFINE r == name["rebuild"]
  <2>1. xgen' \in Nat /\ xgen' = disk[db[xh]].gen
    BY <1>18 DEF Fill
  <2>2. disk' = [disk EXCEPT ![r].content = "whole", ![r].gen = xgen' + 1]
    BY <1>18 DEF Fill
  <2>3. ASSUME r \in Files
        PROVE  [disk[r] EXCEPT !.content = "whole", !.gen = xgen' + 1] \in Databases
    <3>1. \A d \in Databases, g \in Nat : [d EXCEPT !.content = "whole", !.gen = g] \in Databases
      OBVIOUS
    <3>2. disk[r] \in Databases /\ xgen' + 1 \in Nat
      BY <2>1, <2>3
    <3>. QED  BY <3>1, <3>2, Zenon
  <2>4. disk' = [disk EXCEPT ![r] = [disk[r] EXCEPT !.content = "whole", !.gen = xgen' + 1]]
    BY <2>2
  <2>5. disk' \in [Files -> Databases]
    BY <2>3, <2>4
  <2>. QED  BY <1>18, <2>1, <2>5 DEF Fill
<1>19. CASE CloseServing
  BY <1>19 DEF CloseServing, MetaWritten, Steps
<1>20. CASE DropOld
  BY <1>20 DEF DropOld, MetaWritten, Steps
<1>21. CASE Retire
  BY <1>21 DEF Retire, MetaWritten, Steps
<1>22. CASE Promote
  BY <1>22 DEF Promote, MetaWritten, Steps
<1>23. CASE Reopen
  BY <1>23 DEF Reopen, MetaWritten, Steps
<1>24. CASE Announce
  BY <1>24 DEF Announce, MetaWritten, Steps
<1>25. CASE Undo
  BY <1>25 DEF Undo, MetaWritten, Steps
<1>26. CASE Restore
  BY <1>26 DEF Restore, MetaWritten, Steps
<1>27. CASE Sweep
  BY <1>27 DEF Sweep, MetaWritten, Steps
<1>28. CASE OpenFails
  BY <1>28 DEF OpenFails, MetaWritten, Steps
<1>29. CASE BuildFails
  BY <1>29 DEF BuildFails, MetaWritten, Steps
<1>30. CASE CloseServingFails
  BY <1>30 DEF CloseServingFails, MetaWritten, Steps
<1>31. CASE DropOldFails
  BY <1>31 DEF DropOldFails, MetaWritten, Steps
<1>32. CASE RetireFails
  BY <1>32 DEF RetireFails, MetaWritten, Steps
<1>33. CASE PromoteFails
  BY <1>33 DEF PromoteFails, MetaWritten, Steps
<1>34. CASE ReopenFails
  BY <1>34 DEF ReopenFails, MetaWritten, Steps
<1>35. CASE DenseFails
  BY <1>35 DEF DenseFails, MetaWritten, Steps
<1>36. CASE SweepFails
  BY <1>36 DEF SweepFails, MetaWritten, Steps
<1>37. ASSUME NEW c \in Configs, NewProcess(c) PROVE TypeOK'
  BY <1>37 DEF NewProcess
<1>38. ASSUME NEW n \in DOMAIN name, PurgeRemoves(n) PROVE TypeOK'
  BY <1>38 DEF PurgeRemoves
<1>39. CASE UNCHANGED vars
  BY <1>39 DEF vars
<1>. QED  BY <1>1, <1>2, <1>3, <1>4, <1>5, <1>6, <1>7, <1>8, <1>9, <1>10,
             <1>11, <1>12, <1>13, <1>14, <1>15, <1>16, <1>17, <1>18, <1>19, <1>20,
             <1>21, <1>22, <1>23, <1>24, <1>25, <1>26, <1>27, <1>28, <1>29, <1>30,
             <1>31, <1>32, <1>33, <1>34, <1>35, <1>36, <1>37, <1>38, <1>39
          DEF Next, OpenStep, RebuildStep, Failure

-----------------------------------------------------------------------------
(* The invariant.                                                          *)

LEMMA IInvStep ==
    ASSUME TypeOK, IInv, [Next]_vars
    PROVE  IInv'
<1>. USE NoneAssumption
     DEF TypeOK, OpenPcs, BuildPcs, CutPcs, Returns, Goes, Fault, Removed, Renamed,
         directory, handles, counts, Serving, LeaseFree, Compatible, Names,
         IInv, NamesApart, Steps, RebuiltIsReady, HeldIsCompatible, PartialIsRebuild,
         Numbered, Undoable, Current, Rebuilt, Held, Partial
<1>1. ASSUME NEW h \in Handles, OpenBegins(h)
      PROVE  IInv'
  BY <1>1 DEF OpenBegins
<1>2. ASSUME NEW h \in Handles, EndOperation(h)
      PROVE  IInv'
  BY <1>2 DEF EndOperation
<1>3. ASSUME NEW h \in Handles, CloseHandle(h)
      PROVE  IInv'
  BY <1>3 DEF CloseHandle
<1>4. ASSUME NEW h \in Handles, BeginOperation(h)
      PROVE  IInv'
  BY <1>4 DEF BeginOperation, Rebind
<1>5. ASSUME NEW h \in Handles, RebuildBegins(h)
      PROVE  IInv'
  BY <1>5 DEF RebuildBegins, Rebind
<1>6. CASE OpenServing
  BY <1>6, CreatedFile DEF OpenServing
<1>7. CASE Recreate
  BY <1>7, CreatedFile DEF Recreate
<1>8. CASE BuildFile
  BY <1>8, CreatedFile DEF BuildFile
<1>9. CASE RestoreFails
  BY <1>9, CreatedFile DEF RestoreFails
<1>10. CASE RecoverRestores
  BY <1>10 DEF RecoverRestores
<1>11. CASE RecoverRemoves
  BY <1>11 DEF RecoverRemoves
<1>12. CASE Recovered
  BY <1>12 DEF Recovered
<1>13. CASE EnsureMeta
  BY <1>13 DEF EnsureMeta, MetaWritten
<1>14. CASE Replace
  BY <1>14 DEF Replace
<1>15. CASE EnsureMetaAgain
  BY <1>15 DEF EnsureMetaAgain, MetaWritten
<1>16. CASE WriteGeneration
  BY <1>16 DEF WriteGeneration
<1>17. CASE OpenReturns
  <2>1. NamesApart'
    BY <1>17 DEF OpenReturns
  <2>2. Steps'
    BY <1>17 DEF OpenReturns
  <2>3. RebuiltIsReady'
    BY <1>17 DEF OpenReturns
  <2>4. HeldIsCompatible'
    BY <1>17 DEF OpenReturns
  <2>5. PartialIsRebuild'
    BY <1>17 DEF OpenReturns
  <2>6. Numbered'
    <3>1. /\ xpc = "publish" /\ xpc' = "idle" /\ xh \in Handles /\ op' = {}
          /\ db' = [db EXCEPT ![xh] = name["serving"]]
          /\ bound' = [bound EXCEPT ![xh] = disk[name["serving"]].gen]
          /\ lease' = disk[name["serving"]].gen /\ disk[name["serving"]].content # "schema"
          /\ UNCHANGED <<disk, name>>
      BY <1>17 DEF OpenReturns
    <3>2. accidents' \cap {"restore", "misnumbered"} = {}
             => accidents \cap {"restore", "misnumbered"} = {}
      BY <1>17 DEF OpenReturns
    <3>3. ASSUME accidents \cap {"restore", "misnumbered"} = {},
                 NEW h \in Handles, db'[h] # None
          PROVE  bound'[h] <= lease' /\ (bound'[h] = lease' => db'[h] = name["serving"])
      <4>1. disk[name["serving"]].gen \in Nat
        BY <3>1 DEF Databases
      <4>2. CASE h = xh
        BY <3>1, <4>1, <4>2
      <4>3. CASE h # xh
        <5>1. db[h] # None /\ lease = disk[name["serving"]].gen
          BY <3>1, <3>3, <4>3
        <5>. QED  BY <3>1, <3>3, <4>3, <5>1
      <4>. QED  BY <4>2, <4>3
    <3>. QED  BY <3>1, <3>2, <3>3
  <2>. QED  BY <2>1, <2>2, <2>3, <2>4, <2>5, <2>6
<1>18. CASE Fill
  BY <1>18 DEF Fill
<1>19. CASE CloseServing
  BY <1>19 DEF CloseServing
<1>20. CASE DropOld
  BY <1>20 DEF DropOld
<1>21. CASE Retire
  BY <1>21 DEF Retire
<1>22. CASE Promote
  BY <1>22 DEF Promote
<1>23. CASE Reopen
  BY <1>23 DEF Reopen
<1>24. CASE Announce
  BY <1>24 DEF Announce
<1>25. CASE Undo
  BY <1>25 DEF Undo
<1>26. CASE Restore
  BY <1>26 DEF Restore
<1>27. CASE Sweep
  BY <1>27 DEF Sweep
<1>28. CASE OpenFails
  BY <1>28 DEF OpenFails
<1>29. CASE BuildFails
  BY <1>29 DEF BuildFails
<1>30. CASE CloseServingFails
  BY <1>30 DEF CloseServingFails
<1>31. CASE DropOldFails
  BY <1>31 DEF DropOldFails
<1>32. CASE RetireFails
  BY <1>32 DEF RetireFails
<1>33. CASE PromoteFails
  BY <1>33 DEF PromoteFails
<1>34. CASE ReopenFails
  BY <1>34 DEF ReopenFails
<1>35. CASE DenseFails
  BY <1>35 DEF DenseFails
<1>36. CASE SweepFails
  BY <1>36 DEF SweepFails
<1>37. ASSUME NEW c \in Configs, NewProcess(c)
      PROVE  IInv'
  BY <1>37 DEF NewProcess
<1>38. ASSUME NEW n \in Names, PurgeRemoves(n)
      PROVE  IInv'
  BY <1>38 DEF PurgeRemoves
<1>39. CASE UNCHANGED vars
  BY <1>39 DEF vars
<1>. QED  BY <1>1, <1>2, <1>3, <1>4, <1>5, <1>6, <1>7, <1>8, <1>9, <1>10,
             <1>11, <1>12, <1>13, <1>14, <1>15, <1>16, <1>17, <1>18, <1>19, <1>20,
             <1>21, <1>22, <1>23, <1>24, <1>25, <1>26, <1>27, <1>28, <1>29, <1>30,
             <1>31, <1>32, <1>33, <1>34, <1>35, <1>36, <1>37, <1>38, <1>39
          DEF Next, OpenStep, RebuildStep, Failure

LEMMA Invariance == Spec => [](TypeOK /\ IInv)
<1>1. Init => TypeOK
  BY NoneAssumption DEF Init, TypeOK, Databases, Serving
<1>2. Init => IInv
  BY DEF Init, IInv, NamesApart, Steps, RebuiltIsReady, HeldIsCompatible, PartialIsRebuild,
     Numbered, Undoable, Current, Rebuilt, Held, Partial, Serving, OpenPcs, BuildPcs, CutPcs
<1>3. TypeOK /\ IInv /\ [Next]_vars => (TypeOK /\ IInv)'
  BY TypeStep, IInvStep DEF IInv
<1>. QED  BY <1>1, <1>2, <1>3, PTL DEF Spec

-----------------------------------------------------------------------------
(* The generation that is kept.                                            *)

\* What GenerationsAdvance asks of a step.
Advances ==
    Kept /\ KeptFile' # KeptFile =>
        \/ Kept' /\ disk'[KeptFile'].gen = disk[KeptFile].gen + 1
                 /\ disk'[KeptFile'].config = disk[KeptFile].config
        \/ xpc = "replace"
        \/ \E n \in DOMAIN name : PurgeRemoves(n)
        \/ accidents' \cap {"restore", "misnumbered"} # {}
        \/ accidents \cap {"restore", "misnumbered"} # {}

LEMMA AdvanceStep ==
    ASSUME TypeOK, IInv, [Next]_vars
    PROVE  Advances
<1>. USE NoneAssumption
     DEF TypeOK, OpenPcs, BuildPcs, CutPcs, Returns, Goes, Fault, Removed, Renamed,
         directory, handles, counts, Serving, LeaseFree, Compatible, Names,
         IInv, NamesApart, Steps, RebuiltIsReady, HeldIsCompatible, Numbered, Undoable,
         Current, Rebuilt, Held, Advances, Kept, KeptFile, Recoverable
<1>1. ASSUME NEW h \in Handles, OpenBegins(h)
      PROVE  Advances
  BY <1>1 DEF OpenBegins
<1>2. ASSUME NEW h \in Handles, EndOperation(h)
      PROVE  Advances
  BY <1>2 DEF EndOperation
<1>3. ASSUME NEW h \in Handles, CloseHandle(h)
      PROVE  Advances
  BY <1>3 DEF CloseHandle
<1>4. ASSUME NEW h \in Handles, BeginOperation(h)
      PROVE  Advances
  BY <1>4 DEF BeginOperation
<1>5. ASSUME NEW h \in Handles, RebuildBegins(h)
      PROVE  Advances
  BY <1>5 DEF RebuildBegins
<1>6. CASE OpenServing
  BY <1>6, CreatedFile DEF OpenServing
<1>7. CASE Recreate
  BY <1>7, CreatedFile DEF Recreate
<1>8. CASE BuildFile
  BY <1>8, CreatedFile DEF BuildFile
<1>9. CASE RestoreFails
  BY <1>9, CreatedFile DEF RestoreFails
<1>10. CASE RecoverRestores
  BY <1>10 DEF RecoverRestores
<1>11. CASE RecoverRemoves
  BY <1>11 DEF RecoverRemoves
<1>12. CASE Recovered
  BY <1>12 DEF Recovered
<1>13. CASE EnsureMeta
  BY <1>13 DEF EnsureMeta
<1>14. CASE Replace
  BY <1>14 DEF Replace
<1>15. CASE EnsureMetaAgain
  BY <1>15 DEF EnsureMetaAgain
<1>16. CASE WriteGeneration
  BY <1>16 DEF WriteGeneration
<1>17. CASE OpenReturns
  BY <1>17 DEF OpenReturns
<1>18. CASE Fill
  BY <1>18 DEF Fill
<1>19. CASE CloseServing
  BY <1>19 DEF CloseServing
<1>20. CASE DropOld
  BY <1>20 DEF DropOld
<1>21. CASE Retire
  BY <1>21 DEF Retire
<1>22. CASE Promote
  BY <1>22 DEF Promote
<1>23. CASE Reopen
  BY <1>23 DEF Reopen
<1>24. CASE Announce
  BY <1>24 DEF Announce
<1>25. CASE Undo
  BY <1>25 DEF Undo
<1>26. CASE Restore
  BY <1>26 DEF Restore
<1>27. CASE Sweep
  BY <1>27 DEF Sweep
<1>28. CASE OpenFails
  BY <1>28 DEF OpenFails
<1>29. CASE BuildFails
  BY <1>29 DEF BuildFails
<1>30. CASE CloseServingFails
  BY <1>30 DEF CloseServingFails
<1>31. CASE DropOldFails
  BY <1>31 DEF DropOldFails
<1>32. CASE RetireFails
  BY <1>32 DEF RetireFails
<1>33. CASE PromoteFails
  BY <1>33 DEF PromoteFails
<1>34. CASE ReopenFails
  BY <1>34 DEF ReopenFails
<1>35. CASE DenseFails
  BY <1>35 DEF DenseFails
<1>36. CASE SweepFails
  BY <1>36 DEF SweepFails
<1>37. ASSUME NEW c \in Configs, NewProcess(c)
      PROVE  Advances
  BY <1>37 DEF NewProcess
<1>38. ASSUME NEW n \in DOMAIN name, PurgeRemoves(n)
      PROVE  Advances
  BY <1>38
<1>39. CASE UNCHANGED vars
  BY <1>39 DEF vars
<1>. QED  BY <1>1, <1>2, <1>3, <1>4, <1>5, <1>6, <1>7, <1>8, <1>9, <1>10,
             <1>11, <1>12, <1>13, <1>14, <1>15, <1>16, <1>17, <1>18, <1>19, <1>20,
             <1>21, <1>22, <1>23, <1>24, <1>25, <1>26, <1>27, <1>28, <1>29, <1>30,
             <1>31, <1>32, <1>33, <1>34, <1>35, <1>36, <1>37, <1>38, <1>39
          DEF Next, OpenStep, RebuildStep, Failure

-----------------------------------------------------------------------------
(* The results.                                                            *)

\* recoverIndexFiles after a crash at any step of Open, Rebuild or their
\* recovery: what it brings back is a whole generation or a new index, never a
\* rebuild that was under way, unless a purge stopped half way.
THEOREM CrashesLeaveWhole == Spec => []RecoveryFindsWhole
<1>1. TypeOK /\ IInv => RecoveryFindsWhole
  BY DEF IInv, PartialIsRebuild, Partial, RecoveryFindsWhole, Recoverable, Serving, TypeOK
<1>. QED  BY <1>1, Invariance, PTL

\* rebindIfStale: an operation that shares the lease works on the file that
\* serves, whichever handle rebuilt it, unless an undone rebuild left its handle
\* misnumbered or could not be undone.
THEOREM OperationsServeCurrent == Spec => []NumberedOperationsServe
<1>1. TypeOK /\ IInv => NumberedOperationsServe
  BY DEF IInv, Steps, Numbered, Current, Undoable, NumberedOperationsServe, OperationsServe,
     Serving, TypeOK
<1>. QED  BY <1>1, Invariance, PTL

\* Wherever a rebuild is interrupted, undone or finished, the generation the
\* directory stands for is kept or replaced by the next one of its configuration;
\* only a purge or an Open of another configuration loses it.
THEOREM GenerationsOnlyAdvance == Spec => GenerationsAdvance
<1>1. TypeOK /\ IInv /\ [Next]_vars => Advances
  BY AdvanceStep
<1>2. Advances <=> (Kept /\ KeptFile' # KeptFile =>
        \/ Kept' /\ disk'[KeptFile'].gen = disk[KeptFile].gen + 1
                 /\ disk'[KeptFile'].config = disk[KeptFile].config
        \/ xpc = "replace"
        \/ \E n \in DOMAIN name : PurgeRemoves(n)
        \/ accidents' \cap {"restore", "misnumbered"} # {}
        \/ accidents \cap {"restore", "misnumbered"} # {})
  BY Zenon DEF Advances
<1>. QED  BY <1>1, <1>2, Invariance, PTL DEF Spec, GenerationsAdvance
=============================================================================
