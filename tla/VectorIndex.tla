----------------------------- MODULE VectorIndex -----------------------------
(***************************************************************************)
(* The life of the semantic collections: src/search/vector_indexing/       *)
(* builder.py on top of the Qdrant store (src/search/vector/               *)
(* qdrant_store.py) and the profile sidecars on disk                       *)
(* (src/search/vector/profile.py).                                         *)
(*                                                                         *)
(* Every operator command is a process of its own (vector_indexing/cli.py) *)
(* and there is no lock: a command is a sequence of store requests and     *)
(* file operations, and each of those is one action here.  No command has  *)
(* a handler that undoes anything, so an exception, a request that timed   *)
(* out after it was applied and a killed process are all the same step,    *)
(* Abort: the command is gone and what it wrote stays.                     *)
(*                                                                         *)
(* Collections are named by their sequence number: names carry the UTC     *)
(* date, and only names of the same day can ever collide.  A document is   *)
(* represented by the batch it is upserted with, a build by a number that  *)
(* the code does not have (it is only there for the properties).           *)
(***************************************************************************)
EXTENDS Naturals, FiniteSets, FiniteSetsExt

CONSTANTS
    Procs,          \* operator processes
    MaxName,        \* bound: collection sequence numbers of the day
    MaxBuild,       \* bound: builds started
    BatchCount,     \* embedding batches a corpus is upserted in
    Dims,           \* embedding dimensions an operator may have configured
    DeleteOld,      \* the values --delete-old is given: a subset of BOOLEAN
    MayAbort        \* whether commands may die between two steps

ASSUME BoundsAssumption ==
    /\ MaxName \in Nat
    /\ MaxBuild \in Nat
    /\ BatchCount \in Nat \ {0}
ASSUME FlagsAssumption == DeleteOld \subseteq BOOLEAN /\ MayAbort \in BOOLEAN
ASSUME DimsAssumption == Dims \subseteq Nat

Names == 1..MaxName
Builds == 1..MaxBuild
Batches == 1..BatchCount
NoName == 0
NoBuild == 0

VARIABLES
    collections,    \* Qdrant: name -> the collection, for those that exist
    alias,          \* Qdrant: the name the serving alias leads to, or NoName
    sidecars,       \* disk: name -> the profile, for those that exist
    op,             \* the command each process is running
    builds,         \* ghost: how many builds have been started
    passed,         \* ghost: <<build, name>> whose validation and eval passed
    failed          \* ghost: the builds whose validation or eval failed

stores == <<collections, alias, sidecars>>
vars == <<collections, alias, sidecars, op, builds, passed, failed>>

-----------------------------------------------------------------------------
(* Types *)

Collection == [dims : Dims, points : SUBSET Batches,
               creator : Builds, writers : SUBSET Builds]
Sidecar == [build : Builds, dims : Dims]

BuildPcs == {"create", "upsert", "count", "config", "evaluate", "sidecar"}
ActivatePcs == {"check", "previous"}

BuildCommand == [pc : BuildPcs \cup {"swap"}, name : Names, build : Builds,
                 dims : Dims, batch : Batches, activate : BOOLEAN,
                 deleteOld : {FALSE}, previous : {NoName}]
ActivateCommand == [pc : ActivatePcs \cup {"swap", "drop", "forget"}, name : Names,
                    build : {NoBuild}, dims : Dims, batch : {1}, activate : {FALSE},
                    deleteOld : BOOLEAN, previous : Names \cup {NoName}]

Idle == [pc |-> "idle", name |-> NoName, build |-> NoBuild, dims |-> 0,
         batch |-> 1, activate |-> FALSE, deleteOld |-> FALSE,
         previous |-> NoName]

(* A command as it leaves its first step. *)
NewBuild(n, b, dims, activate) ==
    [pc |-> "create", name |-> n, build |-> b, dims |-> dims, batch |-> 1,
     activate |-> activate, deleteOld |-> FALSE, previous |-> NoName]
NewActivation(n, dims, deleteOld) ==
    [pc |-> "check", name |-> n, build |-> NoBuild, dims |-> dims, batch |-> 1,
     activate |-> FALSE, deleteOld |-> deleteOld, previous |-> NoName]

Commands == BuildCommand \cup ActivateCommand \cup {Idle}

TypeOK ==
    /\ \E S \in SUBSET Names : collections \in [S -> Collection]
    /\ \E S \in SUBSET Names : sidecars \in [S -> Sidecar]
    /\ alias \in Names \cup {NoName}
    /\ op \in [Procs -> Commands]
    /\ builds \in 0..MaxBuild
    /\ passed \subseteq Builds \X Names
    /\ failed \subseteq Builds

-----------------------------------------------------------------------------
(* Helpers *)

Put(f, k, v) == [x \in DOMAIN f \cup {k} |-> IF x = k THEN v ELSE f[x]]
Drop(f, k) == [x \in DOMAIN f \ {k} |-> f[x]]

Exists(n) == n \in DOMAIN collections

(* collection_config_mismatches: the live vector size against the profile. *)
ConfigMatches(n, dims) == collections[n].dims = dims

(* _next_collection_name: one above the largest suffix listed today. *)
NextName == IF DOMAIN collections = {} THEN 1 ELSE Max(DOMAIN collections) + 1

Goto(p, pc) == op' = [op EXCEPT ![p].pc = pc]
Finish(p) == op' = [op EXCEPT ![p] = Idle]

-----------------------------------------------------------------------------
(* build_semantic_collection *)

Init ==
    /\ collections = [n \in {} |-> 0]
    /\ alias = NoName
    /\ sidecars = [n \in {} |-> 0]
    /\ op = [p \in Procs |-> Idle]
    /\ builds = 0
    /\ passed = {}
    /\ failed = {}

(* Snapshot, corpus policy and preflight change nothing; listing the
   collections fixes the name the rest of the command works on. *)
StartBuild(p, dims, activate) ==
    /\ op[p].pc = "idle"
    /\ builds < MaxBuild
    /\ NextName \in Names
    /\ builds' = builds + 1
    /\ op' = [op EXCEPT ![p] = NewBuild(NextName, builds + 1, dims, activate)]
    /\ UNCHANGED <<collections, alias, sidecars, passed, failed>>

(* Slips: an existing collection is taken over, or replaced. *)
CreateOrReuse(p) ==
    /\ op[p].pc = "create"
    /\ collections' = IF Exists(op[p].name) THEN collections
                      ELSE Put(collections, op[p].name,
                               [dims |-> op[p].dims, points |-> {},
                                creator |-> op[p].build, writers |-> {}])
    /\ Goto(p, "upsert")
    /\ UNCHANGED <<alias, sidecars, builds, passed, failed>>

CreateOrReplace(p) ==
    /\ op[p].pc = "create"
    /\ collections' = Put(collections, op[p].name,
                          [dims |-> op[p].dims, points |-> {},
                           creator |-> op[p].build, writers |-> {}])
    /\ Goto(p, "upsert")
    /\ UNCHANGED <<alias, sidecars, builds, passed, failed>>

(* Qdrant refuses to create a collection that exists.  The payload indices
   that follow leave what is modelled alone. *)
CreateCollection(p) ==
    /\ op[p].pc = "create"
    /\ ~Exists(op[p].name)
    /\ collections' = Put(collections, op[p].name,
                          [dims |-> op[p].dims, points |-> {},
                           creator |-> op[p].build, writers |-> {}])
    /\ Goto(p, "upsert")
    /\ UNCHANGED <<alias, sidecars, builds, passed, failed>>

(* Slip: one turn too many. *)
UpsertPastEnd(p) ==
    LET n == op[p].name
        b == op[p].batch
    IN  /\ op[p].pc = "upsert"
        /\ Exists(n) /\ ConfigMatches(n, op[p].dims)
        /\ collections' = [collections EXCEPT
                             ![n].points = @ \cup {b},
                             ![n].writers = @ \cup {op[p].build}]
        /\ op' = [op EXCEPT ![p].pc = IF b > BatchCount THEN "count" ELSE "upsert",
                            ![p].batch = IF b > BatchCount THEN 1 ELSE b + 1]
        /\ UNCHANGED <<alias, sidecars, builds, passed, failed>>

(* One turn of _embed_and_upsert: point ids are derived from document ids, so
   writing a document twice leaves one point. *)
UpsertBatch(p) ==
    LET n == op[p].name
        b == op[p].batch
    IN  /\ op[p].pc = "upsert"
        /\ Exists(n) /\ ConfigMatches(n, op[p].dims)
        /\ collections' = [collections EXCEPT
                             ![n].points = @ \cup {b},
                             ![n].writers = @ \cup {op[p].build}]
        /\ op' = [op EXCEPT ![p].pc = IF b = BatchCount THEN "count" ELSE "upsert",
                            ![p].batch = IF b = BatchCount THEN 1 ELSE b + 1]
        /\ UNCHANGED <<alias, sidecars, builds, passed, failed>>

(* _validate_collection: the exact point count ...  (When it disagrees the
   config is read as well, for the report only.) *)
CountPoints(p) ==
    /\ op[p].pc = "count"
    /\ Exists(op[p].name)
    /\ Cardinality(collections[op[p].name].points) = BatchCount
    /\ Goto(p, "config")
    /\ UNCHANGED <<stores, builds, passed, failed>>

(* ... and the live config. *)
ValidateConfig(p) ==
    /\ op[p].pc = "config"
    /\ Exists(op[p].name)
    /\ ConfigMatches(op[p].name, op[p].dims)
    /\ Goto(p, "evaluate")
    /\ UNCHANGED <<stores, builds, passed, failed>>

(* Slip: the alias is swapped before the profile is written. *)
EvaluationPassesThenSwap(p) ==
    /\ op[p].pc = "evaluate"
    /\ Exists(op[p].name)
    /\ passed' = passed \cup {<<op[p].build, op[p].name>>}
    /\ Goto(p, IF op[p].activate THEN "swap" ELSE "sidecar")
    /\ UNCHANGED <<stores, builds, failed>>

(* evaluate_semantic_collection found no hard failure. *)
EvaluationPasses(p) ==
    /\ op[p].pc = "evaluate"
    /\ Exists(op[p].name)
    /\ passed' = passed \cup {<<op[p].build, op[p].name>>}
    /\ Goto(p, "sidecar")
    /\ UNCHANGED <<stores, builds, failed>>

(* Slip: the evaluation's verdict does not reach report["ok"]. *)
EvaluationIgnored(p) ==
    /\ op[p].pc = "evaluate"
    /\ Exists(op[p].name)
    /\ failed' = failed \cup {op[p].build}
    /\ Goto(p, "sidecar")
    /\ UNCHANGED <<stores, builds, passed>>

(* The count or the config disagrees, or a CONFIRMED case misses an id: the
   report says so, nothing is written and the collection stays. *)
ValidationFails(p) ==
    LET n == op[p].name IN
    /\ Exists(n)
    /\ \/ op[p].pc = "count" /\ Cardinality(collections[n].points) # BatchCount
       \/ op[p].pc = "config" /\ ~ConfigMatches(n, op[p].dims)
       \/ op[p].pc = "evaluate"
    /\ failed' = failed \cup {op[p].build}
    /\ Finish(p)
    /\ UNCHANGED <<stores, builds, passed>>

(* Slip: the profile is written before the evaluation. *)
WriteSidecarEarly(p) ==
    /\ op[p].pc \in {"evaluate", "sidecar"}
    /\ sidecars' = Put(sidecars, op[p].name,
                       [build |-> op[p].build, dims |-> op[p].dims])
    /\ IF op[p].activate THEN Goto(p, "swap") ELSE Finish(p)
    /\ UNCHANGED <<collections, alias, builds, passed, failed>>

(* write_semantic_profile replaces the file in one step (os.replace). *)
WriteSidecar(p) ==
    /\ op[p].pc = "sidecar"
    /\ sidecars' = Put(sidecars, op[p].name,
                       [build |-> op[p].build, dims |-> op[p].dims])
    /\ IF op[p].activate THEN Goto(p, "swap") ELSE Finish(p)
    /\ UNCHANGED <<collections, alias, builds, passed, failed>>

-----------------------------------------------------------------------------
(* activate_semantic_collection *)

(* read_semantic_profile raises when there is no file, so a command only gets
   past its first step when there is one. *)
StartActivate(p, n, deleteOld) ==
    /\ op[p].pc = "idle"
    /\ n \in DOMAIN sidecars
    /\ op' = [op EXCEPT ![p] = NewActivation(n, sidecars[n].dims, deleteOld)]
    /\ UNCHANGED <<stores, builds, passed, failed>>

CheckConfig(p) ==
    /\ op[p].pc = "check"
    /\ Exists(op[p].name)
    /\ ConfigMatches(op[p].name, op[p].dims)
    /\ Goto(p, "previous")
    /\ UNCHANGED <<stores, builds, passed, failed>>

(* Slips: the name being activated counts as previous; a first activation,
   with nothing to replace, returns early. *)
ReadPreviousOrSelf(p) ==
    /\ op[p].pc = "previous"
    /\ op' = [op EXCEPT ![p].pc = "swap", ![p].previous = alias]
    /\ UNCHANGED <<stores, builds, passed, failed>>

ReadPreviousOrReturn(p) ==
    /\ op[p].pc = "previous"
    /\ IF alias = NoName
       THEN Finish(p)
       ELSE op' = [op EXCEPT ![p].pc = "swap",
                             ![p].previous = IF alias = op[p].name THEN NoName ELSE alias]
    /\ UNCHANGED <<stores, builds, passed, failed>>

(* _previous_targets *)
ReadPrevious(p) ==
    /\ op[p].pc = "previous"
    /\ op' = [op EXCEPT ![p].pc = "swap",
                        ![p].previous = IF alias = op[p].name THEN NoName ELSE alias]
    /\ UNCHANGED <<stores, builds, passed, failed>>

(* One update_collection_aliases request: delete, then create.  A build that
   activates takes the same step and never deletes anything. *)
SwapAlias(p) ==
    /\ op[p].pc = "swap"
    /\ Exists(op[p].name)
    /\ alias' = op[p].name
    /\ IF op[p].deleteOld /\ op[p].previous # NoName THEN Goto(p, "drop") ELSE Finish(p)
    /\ UNCHANGED <<collections, sidecars, builds, passed, failed>>

(* Qdrant accepts deleting a collection that is gone, and removes an alias
   with the collection it leads to. *)
DropPrevious(p) ==
    /\ op[p].pc = "drop"
    /\ collections' = Drop(collections, op[p].previous)
    /\ alias' = IF alias = op[p].previous THEN NoName ELSE alias
    /\ Goto(p, "forget")
    /\ UNCHANGED <<sidecars, builds, passed, failed>>

(* Slip: the profile of the deleted collection stays. *)
ForgetNothing(p) ==
    /\ op[p].pc = "forget"
    /\ Finish(p)
    /\ UNCHANGED <<stores, builds, passed, failed>>

ForgetPrevious(p) ==
    /\ op[p].pc = "forget"
    /\ sidecars' = Drop(sidecars, op[p].previous)
    /\ Finish(p)
    /\ UNCHANGED <<collections, alias, builds, passed, failed>>

-----------------------------------------------------------------------------
(* The store refuses a request, or activation finds a config that is not the
   profile's: the command raises and ends where it is. *)
Refused(p) ==
    LET n == op[p].name IN
    /\ \/ op[p].pc = "create" /\ Exists(n)
       \/ op[p].pc \in {"upsert", "count", "config", "evaluate", "check", "swap"}
          /\ ~Exists(n)
       \/ op[p].pc \in {"upsert", "check"}
          /\ Exists(n) /\ ~ConfigMatches(n, op[p].dims)
    /\ Finish(p)
    /\ UNCHANGED <<stores, builds, passed, failed>>

Abort(p) ==
    /\ MayAbort
    /\ op[p].pc # "idle"
    /\ Finish(p)
    /\ UNCHANGED <<stores, builds, passed, failed>>

Step(p) ==
    \/ CreateCollection(p) \/ UpsertBatch(p) \/ CountPoints(p)
    \/ ValidateConfig(p) \/ EvaluationPasses(p) \/ ValidationFails(p)
    \/ WriteSidecar(p) \/ CheckConfig(p) \/ ReadPrevious(p) \/ SwapAlias(p)
    \/ DropPrevious(p) \/ ForgetPrevious(p) \/ Refused(p)

Start(p) ==
    \/ \E dims \in Dims, activate \in BOOLEAN : StartBuild(p, dims, activate)
    \/ \E n \in Names, deleteOld \in DeleteOld : StartActivate(p, n, deleteOld)

Next == \E p \in Procs : Start(p) \/ Step(p) \/ Abort(p)

Spec == Init /\ [][Next]_vars

(* A running command keeps making requests; nobody has to start one. *)
FairSpec == Spec /\ \A p \in Procs : WF_vars(Step(p))

-----------------------------------------------------------------------------
(* Properties *)

(* The module docstring: a build that fails validation never becomes the
   served collection.  The name the alias leads to has a profile, every point
   behind it was written by the build that profile describes, none is
   missing, and that build passed validation and evaluation. *)
ServedWasValidated ==
    alias # NoName =>
        /\ alias \in DOMAIN collections
        /\ alias \in DOMAIN sidecars
        /\ Cardinality(collections[alias].points) = BatchCount
        /\ collections[alias].writers = {sidecars[alias].build}
        /\ collections[alias].dims = sidecars[alias].dims
        /\ <<sidecars[alias].build, alias>> \in passed

(* The docstring word for word: a build that fails validation never becomes
   the served collection. *)
FailedBuildsAreNotServed ==
    alias \in DOMAIN collections => collections[alias].writers \cap failed = {}

(* Every profile on disk, served or not, describes the collection of its name
   exactly: what activation and rollback rely on when they read only the
   profile and the vector size. *)
SidecarsDescribeCollections ==
    \A n \in DOMAIN sidecars :
        /\ n \in DOMAIN collections
        /\ collections[n].writers = {sidecars[n].build}
        /\ collections[n].dims = sidecars[n].dims

(* Concurrent builds pick their names without a lock, yet no collection ever
   holds points of two builds. *)
OneWriterPerCollection ==
    \A n \in DOMAIN collections : collections[n].writers \subseteq {collections[n].creator}

EverPassed(n) == \E b \in Builds : <<b, n>> \in passed

(* Whatever operators do, a name that never passed validation and evaluation
   is not served. *)
ServedNameOncePassed ==
    alias # NoName => EverPassed(alias)

(* profile.py calls the sidecar immutable: once written it is neither changed
   nor replaced while it exists, whichever commands interleave. *)
SidecarsAreImmutable ==
    [][\A n \in DOMAIN sidecars \cap DOMAIN sidecars' : sidecars'[n] = sidecars[n]]_vars

(* While a collection is served, no command adds to it or removes it: builds
   in progress work on other names, whatever the interleaving, and --delete-old,
   where commands do not overlap, takes nothing that was activated once more. *)
ServedCollectionIsFrozen ==
    [][alias # NoName /\ alias \in DOMAIN collections =>
         /\ alias \in DOMAIN collections'
         /\ collections'[alias] = collections[alias]]_vars

(* delete_semantic_profile: a deleted collection leaves no orphan profile.
   When no command is running, every profile has its collection. *)
NoOrphanSidecarAtRest ==
    (\A p \in Procs : op[p].pc = "idle") => DOMAIN sidecars \subseteq DOMAIN collections

(* An activation or rollback that was given a profiled name takes effect: the
   alias leads there at some later moment, unless the command was aborted. *)
ActivationTakesEffect ==
    \A p \in Procs, n \in Names :
        (op[p].pc = "check" /\ op[p].name = n) ~> (alias = n)

-----------------------------------------------------------------------------
(* Refinement: a version is a build; it is published when its profile and its
   collection exist. *)
PublishedBuilds ==
    {sidecars[n].build : n \in DOMAIN sidecars \cap DOMAIN collections}
ServingBuild ==
    IF alias \in DOMAIN sidecars THEN sidecars[alias].build ELSE NoBuild

Served == INSTANCE ServedVersions
          WITH Versions <- Builds, NoVersion <- NoBuild,
               published <- PublishedBuilds, serving <- ServingBuild

ServesPublishedVersions == Served!ServedSpec

-----------------------------------------------------------------------------
(* Why a served name always passed once, whatever is deleted or aborted: the  *)
(* inductive invariant behind ServedNameOncePassed.                           *)

VouchedInv ==
    /\ TypeOK
    /\ \A p \in Procs :
         /\ op[p].pc = "sidecar" => <<op[p].build, op[p].name>> \in passed
         /\ op[p].pc \in {"check", "previous", "swap"} => EverPassed(op[p].name)
    /\ \A n \in DOMAIN sidecars : EverPassed(n)
    /\ ServedNameOncePassed

-----------------------------------------------------------------------------
(* Why it holds when no command deletes: the inductive invariant behind the   *)
(* properties above, for DeleteOld \subseteq {FALSE}.                         *)

InBuild(p) == op[p].pc \in BuildPcs
Owns(p) == op[p].pc \in BuildPcs \ {"create"}

(* Commands hold what their earlier steps found. *)
CommandsWellFormed ==
    \A p \in Procs :
        /\ op[p].pc \notin {"drop", "forget"}
        /\ ~op[p].deleteOld
        /\ InBuild(p) => op[p].build \in (1..builds) \ failed
        /\ op[p].pc \in {"check", "previous", "swap"} => op[p].name \in DOMAIN sidecars

(* A build number is in one command only, and that command's sidecar is still
   to be written. *)
BuildsAreUnique ==
    \A p \in Procs : InBuild(p) =>
        /\ \A q \in Procs : InBuild(q) /\ q # p => op[q].build # op[p].build
        /\ \A n \in DOMAIN sidecars : sidecars[n].build # op[p].build
        /\ op[p].pc = "create" =>
             \A n \in DOMAIN collections : collections[n].creator # op[p].build

(* A running build still owns the collection it created. *)
BuildersOwnTheirCollection ==
    \A p \in Procs : Owns(p) =>
        LET n == op[p].name IN
        /\ n \in DOMAIN collections
        /\ collections[n].creator = op[p].build
        /\ collections[n].dims = op[p].dims
        /\ op[p].pc \in {"config", "evaluate", "sidecar"} =>
             Cardinality(collections[n].points) = BatchCount
        /\ op[p].pc = "sidecar" => <<op[p].build, n>> \in passed

CollectionsHaveOneWriter ==
    \A n \in DOMAIN collections :
        /\ collections[n].creator \in 1..builds
        /\ collections[n].writers \subseteq {collections[n].creator}
        /\ collections[n].points # {} =>
             collections[n].writers = {collections[n].creator}

SidecarsAreEarned ==
    \A n \in DOMAIN sidecars :
        /\ n \in DOMAIN collections
        /\ collections[n].creator = sidecars[n].build
        /\ collections[n].dims = sidecars[n].dims
        /\ Cardinality(collections[n].points) = BatchCount
        /\ <<sidecars[n].build, n>> \in passed
        /\ sidecars[n].build \notin failed

RetainedInv ==
    /\ TypeOK
    /\ CommandsWellFormed
    /\ BuildsAreUnique
    /\ BuildersOwnTheirCollection
    /\ CollectionsHaveOneWriter
    /\ SidecarsAreEarned
    /\ failed \subseteq 1..builds
    /\ alias # NoName => alias \in DOMAIN sidecars

-----------------------------------------------------------------------------
(* Why it holds when commands delete, as long as one is run after the other   *)
(* and to its end: the inductive invariant behind NoOrphanSidecarAtRest.      *)

(* The one moment a profile may be without its collection. *)
Forgetting(n) == \E p \in Procs : op[p].pc = "forget" /\ op[p].previous = n

(* What a command relies on; what it is about to delete is not what it has
   made the alias lead to. *)
CommandsTakeTurns ==
    \A p \in Procs :
        /\ InBuild(p) => op[p].build \in (1..builds) \ failed
        /\ op[p].pc \in {"check", "previous", "swap"} => op[p].name \in DOMAIN sidecars
        /\ op[p].pc = "swap" => op[p].previous # op[p].name
        /\ op[p].pc \in {"drop", "forget"} =>
             alias = op[p].name /\ op[p].previous # op[p].name
        /\ op[p].pc = "forget" => op[p].previous \notin DOMAIN collections

CreatorsAreDistinct ==
    \A m, n \in DOMAIN collections :
        collections[m].creator = collections[n].creator => m = n

KeptSidecarsAreEarned ==
    \A n \in DOMAIN sidecars :
        \/ Forgetting(n)
        \/ /\ n \in DOMAIN collections
           /\ collections[n].creator = sidecars[n].build
           /\ collections[n].dims = sidecars[n].dims
           /\ Cardinality(collections[n].points) = BatchCount
           /\ <<sidecars[n].build, n>> \in passed
           /\ sidecars[n].build \notin failed

OneOperatorInv ==
    /\ TypeOK
    /\ CommandsTakeTurns
    /\ BuildsAreUnique
    /\ BuildersOwnTheirCollection
    /\ CollectionsHaveOneWriter
    /\ CreatorsAreDistinct
    /\ KeptSidecarsAreEarned
    /\ failed \subseteq 1..builds
    /\ alias # NoName => alias \in DOMAIN sidecars
=============================================================================
