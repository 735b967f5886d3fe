---------------------------- MODULE LexicalIndex ----------------------------
(***************************************************************************)
(* The life of the lexical indices: src/search/indexing/builder.py on top  *)
(* of the OpenSearch operations of src/search/opensearch_client.py.        *)
(*                                                                         *)
(* It differs from the semantic side in three ways that matter: the build  *)
(* profile is written into the index when it is created, so having one     *)
(* says nothing about validation; the alias is a set of indices, read in   *)
(* one request and changed in a second one; and there is no second store.  *)
(* Commands are processes without locks, and Abort stands for everything   *)
(* that ends one between two requests.                                     *)
(***************************************************************************)
EXTENDS Naturals, FiniteSets, FiniteSetsExt

CONSTANTS
    Procs,          \* operator processes
    MaxName,        \* bound: index sequence numbers of the day
    MaxBuild,       \* bound: builds started
    BatchCount,     \* bulk requests a corpus is sent in
    DeleteOld,      \* the values --delete-old is given: a subset of BOOLEAN
    ReportedOnly,   \* operators activate only what a build reported as ok
    MayAbort        \* whether commands may die between two requests

ASSUME BoundsAssumption ==
    /\ MaxName \in Nat
    /\ MaxBuild \in Nat
    /\ BatchCount \in Nat \ {0}
ASSUME FlagsAssumption ==
    DeleteOld \subseteq BOOLEAN /\ ReportedOnly \in BOOLEAN /\ MayAbort \in BOOLEAN

Names == 1..MaxName
Builds == 1..MaxBuild
Batches == 1..BatchCount
NoName == 0
NoBuild == 0

VARIABLES
    indices,    \* OpenSearch: name -> the index, for those that exist
    alias,      \* OpenSearch: the indices that carry the serving alias
    op,         \* the command each process is running
    builds,     \* ghost: how many builds have been started
    passed,     \* ghost: <<build, name>> reported ok by the golden set
    failed,     \* ghost: the builds the golden set rejected
    raced,      \* ghost: an alias swap fell between another command's read of
                \* the alias and its own swap
    overtaken   \* ghost: the processes whose command is deleting what it
                \* replaced while another command has swapped the alias again

stores == <<indices, alias>>
ghosts == <<builds, passed, failed, raced, overtaken>>
vars == <<indices, alias, op, builds, passed, failed, raced, overtaken>>

-----------------------------------------------------------------------------
(* Types *)

(* "creator" is the build whose profile the index carries in _meta, NoBuild
   for an index OpenSearch made up for a bulk request. *)
Index == [creator : Builds \cup {NoBuild}, docs : SUBSET Batches, writers : SUBSET Builds]

BuildPcs == {"create", "bulk", "validate"}
SwapPcs == {"targets", "swap"}

BuildCommand == [pc : BuildPcs \cup SwapPcs, name : Names, build : Builds,
                 batch : Batches, activate : BOOLEAN, deleteOld : {FALSE},
                 previous : SUBSET Names]
ActivateCommand == [pc : SwapPcs \cup {"drop"}, name : Names, build : {NoBuild},
                    batch : {1}, activate : {TRUE}, deleteOld : BOOLEAN,
                    previous : SUBSET Names]

Idle == [pc |-> "idle", name |-> NoName, build |-> NoBuild, batch |-> 1,
         activate |-> FALSE, deleteOld |-> FALSE, previous |-> {}]
NewBuild(n, b, activate) ==
    [pc |-> "create", name |-> n, build |-> b, batch |-> 1,
     activate |-> activate, deleteOld |-> FALSE, previous |-> {}]
NewActivation(n, deleteOld) ==
    [pc |-> "targets", name |-> n, build |-> NoBuild, batch |-> 1,
     activate |-> TRUE, deleteOld |-> deleteOld, previous |-> {}]

Commands == BuildCommand \cup ActivateCommand \cup {Idle}

TypeOK ==
    /\ \E S \in SUBSET Names : indices \in [S -> Index]
    /\ alias \subseteq DOMAIN indices
    /\ op \in [Procs -> Commands]
    /\ builds \in 0..MaxBuild
    /\ passed \subseteq Builds \X Names
    /\ failed \subseteq Builds
    /\ raced \in BOOLEAN
    /\ overtaken \subseteq Procs

-----------------------------------------------------------------------------
(* Helpers *)

Put(f, k, v) == [x \in DOMAIN f \cup {k} |-> IF x = k THEN v ELSE f[x]]
Drop(f, k) == [x \in DOMAIN f \ {k} |-> f[x]]

Exists(n) == n \in DOMAIN indices
Reported(n) == \E b \in Builds : <<b, n>> \in passed

(* _next_physical_index_name: one above the largest suffix listed today. *)
NextName == IF DOMAIN indices = {} THEN 1 ELSE Max(DOMAIN indices) + 1

Goto(p, pc) == op' = [op EXCEPT ![p].pc = pc]
Finish(p) == op' = [op EXCEPT ![p] = Idle]

-----------------------------------------------------------------------------
(* build_index *)

Init ==
    /\ indices = [n \in {} |-> 0]
    /\ alias = {}
    /\ op = [p \in Procs |-> Idle]
    /\ builds = 0
    /\ passed = {}
    /\ failed = {}
    /\ raced = FALSE
    /\ overtaken = {}

StartBuild(p, activate) ==
    /\ op[p].pc = "idle"
    /\ builds < MaxBuild
    /\ NextName \in Names
    /\ builds' = builds + 1
    /\ op' = [op EXCEPT ![p] = NewBuild(NextName, builds + 1, activate)]
    /\ UNCHANGED <<stores, passed, failed, raced, overtaken>>

(* Slip: an index that exists is taken over. *)
CreateOrReuse(p) ==
    /\ op[p].pc = "create"
    /\ indices' = IF Exists(op[p].name) THEN indices
                  ELSE Put(indices, op[p].name,
                           [creator |-> op[p].build, docs |-> {}, writers |-> {}])
    /\ Goto(p, "bulk")
    /\ UNCHANGED <<alias, ghosts>>

(* The profile goes in with the mapping; creating a name that exists fails. *)
CreateIndex(p) ==
    /\ op[p].pc = "create"
    /\ ~Exists(op[p].name)
    /\ indices' = Put(indices, op[p].name,
                      [creator |-> op[p].build, docs |-> {}, writers |-> {}])
    /\ Goto(p, "bulk")
    /\ UNCHANGED <<alias, ghosts>>

(* What a bulk request finds: OpenSearch makes up an index, without a profile,
   when there is none of that name. *)
BulkTarget(n) ==
    IF Exists(n) THEN indices[n]
    ELSE [creator |-> NoBuild, docs |-> {}, writers |-> {}]

(* Slip: one request too many. *)
BulkPastEnd(p) ==
    LET n == op[p].name
        b == op[p].batch
        old == BulkTarget(n)
    IN  /\ op[p].pc = "bulk"
        /\ indices' = Put(indices, n, [creator |-> old.creator,
                                       docs |-> old.docs \cup {b},
                                       writers |-> old.writers \cup {op[p].build}])
        /\ op' = [op EXCEPT ![p].pc = IF b > BatchCount THEN "validate" ELSE "bulk",
                            ![p].batch = IF b > BatchCount THEN 1 ELSE b + 1]
        /\ UNCHANGED <<alias, ghosts>>

(* One request of bulk_index. *)
BulkIndex(p) ==
    LET n == op[p].name
        b == op[p].batch
        old == BulkTarget(n)
    IN  /\ op[p].pc = "bulk"
        /\ indices' = Put(indices, n, [creator |-> old.creator,
                                       docs |-> old.docs \cup {b},
                                       writers |-> old.writers \cup {op[p].build}])
        /\ op' = [op EXCEPT ![p].pc = IF b = BatchCount THEN "validate" ELSE "bulk",
                            ![p].batch = IF b = BatchCount THEN 1 ELSE b + 1]
        /\ UNCHANGED <<alias, ghosts>>

(* refresh, then _validate_golden_set: no hard failure, or some. *)
ValidationPasses(p) ==
    /\ op[p].pc = "validate"
    /\ Exists(op[p].name)
    /\ passed' = passed \cup {<<op[p].build, op[p].name>>}
    /\ IF op[p].activate THEN Goto(p, "targets") ELSE Finish(p)
    /\ UNCHANGED <<stores, builds, failed, raced, overtaken>>

(* Slip: the hard failures do not reach report["ok"]. *)
FailuresIgnored(p) ==
    /\ op[p].pc = "validate"
    /\ Exists(op[p].name)
    /\ failed' = failed \cup {op[p].build}
    /\ IF op[p].activate THEN Goto(p, "targets") ELSE Finish(p)
    /\ UNCHANGED <<stores, builds, passed, raced, overtaken>>

ValidationFails(p) ==
    /\ op[p].pc = "validate"
    /\ Exists(op[p].name)
    /\ failed' = failed \cup {op[p].build}
    /\ Finish(p)
    /\ UNCHANGED <<stores, builds, passed, raced, overtaken>>

-----------------------------------------------------------------------------
(* activate_index, and _swap at the end of a build that activates *)

(* ensure_compatible_index asks for a profile of the running code's versions
   and for nothing else; ReportedOnly is what the operator adds to it. *)
StartActivate(p, n, deleteOld) ==
    /\ op[p].pc = "idle"
    /\ Exists(n) /\ indices[n].creator # NoBuild
    /\ ReportedOnly => Reported(n)
    /\ op' = [op EXCEPT ![p] = NewActivation(n, deleteOld)]
    /\ UNCHANGED <<stores, ghosts>>

(* Slip: the index that is activated is among those to be replaced. *)
ReadAllTargets(p) ==
    /\ op[p].pc = "targets"
    /\ op' = [op EXCEPT ![p].pc = "swap", ![p].previous = alias]
    /\ UNCHANGED <<stores, ghosts>>

ReadTargets(p) ==
    /\ op[p].pc = "targets"
    /\ op' = [op EXCEPT ![p].pc = "swap", ![p].previous = alias \ {op[p].name}]
    /\ UNCHANGED <<stores, ghosts>>

(* Another command has read the alias and not swapped it yet. *)
SwapPending(p) == \E q \in Procs \ {p} : op[q].pc = "swap"

(* The commands that are past their swap when p swaps. *)
Deleting(p) == {q \in Procs \ {p} : op[q].pc = "drop"}

(* Slip: the alias is added and not removed. *)
AddOnly(p) ==
    /\ op[p].pc = "swap"
    /\ op[p].previous \cup {op[p].name} \subseteq DOMAIN indices
    /\ alias' = alias \cup {op[p].name}
    /\ raced' = (raced \/ SwapPending(p))
    /\ overtaken' = Deleting(p)
    /\ IF op[p].deleteOld /\ op[p].previous # {} THEN Goto(p, "drop") ELSE Finish(p)
    /\ UNCHANGED <<indices, builds, passed, failed>>

(* One _aliases request, refused as a whole when it names an index that is
   gone; removing the alias from an index that no longer carries it is fine. *)
SwapAlias(p) ==
    /\ op[p].pc = "swap"
    /\ op[p].previous \cup {op[p].name} \subseteq DOMAIN indices
    /\ alias' = (alias \ op[p].previous) \cup {op[p].name}
    /\ raced' = (raced \/ SwapPending(p))
    /\ overtaken' = Deleting(p)
    /\ IF op[p].deleteOld /\ op[p].previous # {} THEN Goto(p, "drop") ELSE Finish(p)
    /\ UNCHANGED <<indices, builds, passed, failed>>

(* One turn of the --delete-old loop: 404 is tolerated, and an index takes its
   alias with it. *)
DropPrevious(p) ==
    /\ op[p].pc = "drop"
    /\ \E old \in op[p].previous :
         /\ indices' = Drop(indices, old)
         /\ alias' = alias \ {old}
         /\ IF op[p].previous = {old} THEN Finish(p)
            ELSE op' = [op EXCEPT ![p].previous = @ \ {old}]
    /\ UNCHANGED ghosts

-----------------------------------------------------------------------------
(* OpenSearch refuses a request: the command raises and ends where it is. *)
Refused(p) ==
    /\ \/ op[p].pc = "create" /\ Exists(op[p].name)
       \/ op[p].pc = "validate" /\ ~Exists(op[p].name)
       \/ /\ op[p].pc = "swap"
          /\ ~(op[p].previous \cup {op[p].name} \subseteq DOMAIN indices)
    /\ Finish(p)
    /\ UNCHANGED <<stores, ghosts>>

Abort(p) ==
    /\ MayAbort
    /\ op[p].pc # "idle"
    /\ Finish(p)
    /\ UNCHANGED <<stores, ghosts>>

Step(p) ==
    \/ CreateIndex(p) \/ BulkIndex(p) \/ ValidationPasses(p) \/ ValidationFails(p)
    \/ ReadTargets(p) \/ SwapAlias(p) \/ DropPrevious(p) \/ Refused(p)

Start(p) ==
    \/ \E activate \in BOOLEAN : StartBuild(p, activate)
    \/ \E n \in Names, deleteOld \in DeleteOld : StartActivate(p, n, deleteOld)

Next == \E p \in Procs : Start(p) \/ Step(p) \/ Abort(p)

Spec == Init /\ [][Next]_vars

-----------------------------------------------------------------------------
(* Properties *)

(* read_index_profile: the serving alias must resolve to exactly one physical
   index.  The read path raises alias_multiple_targets otherwise. *)
SingleServingTarget == Cardinality(alias) <= 1

(* The docstring of builder.py: a build that fails golden-set validation never
   becomes the served index. *)
FailedBuildsAreNotServed == \A n \in alias : indices[n].writers \cap failed = {}

(* The alias only ever gets a second target when one activation swapped it
   between another's read of the targets and its swap: crashes, deletions and
   lone activations, however many, cannot do it. *)
TwoTargetsNeedARace == ~raced => \A m, n \in alias : m = n

(* When operators activate only what a build reported as ok and delete
   nothing, each served index holds the whole corpus of one build, the one
   its profile names, and the golden set accepted that build. *)
ServedWereValidated ==
    \A n \in alias :
        /\ indices[n].docs = Batches
        /\ indices[n].writers = {indices[n].creator}
        /\ <<indices[n].creator, n>> \in passed
        /\ indices[n].creator \notin failed

(* While an index carries the alias no bulk request reaches it and nobody
   removes it. *)
ServedIndexIsFrozen ==
    [][\A n \in alias : n \in DOMAIN indices' /\ indices'[n] = indices[n]]_vars

(* The --delete-old loop works through what the alias led to before the swap.
   However activations, builds, deletions and crashes interleave, it deletes an
   index that is being served only when another activation moved the alias
   after the deleting command had. *)
ServedIsDeletedOnlyIfOvertaken ==
    [][\A n \in alias : n \notin DOMAIN indices' =>
         \E p \in overtaken : op[p].pc = "drop" /\ n \in op[p].previous]_vars

-----------------------------------------------------------------------------
(* Why two targets need a race: until one happened, a command about to swap    *)
(* still holds everything the alias leads to.                                  *)

RaceInv ==
    /\ TypeOK
    /\ TwoTargetsNeedARace
    /\ ~raced => \A p \in Procs :
         op[p].pc = "swap" => alias \subseteq op[p].previous \cup {op[p].name}

(* Why a deletion of what is served was overtaken: a command that nobody        *)
(* overtook still holds only names its own swap took the alias from.            *)
DeletionInv ==
    /\ TypeOK
    /\ \A p \in Procs :
         /\ op[p].pc \in {"swap", "drop"} => op[p].name \notin op[p].previous
         /\ op[p].pc = "drop" /\ p \notin overtaken => op[p].previous \cap alias = {}

-----------------------------------------------------------------------------
(* Why what is served was validated when nobody deletes and operators activate *)
(* only reported builds: the inductive invariant of ServedWereValidated and    *)
(* ServedIndexIsFrozen, for DeleteOld \subseteq {FALSE} and ReportedOnly.        *)

InBuild(p) == op[p].pc \in BuildPcs
Owns(p) == op[p].pc \in BuildPcs \ {"create"}

(* A command that is to swap works on a reported name, and none drops. *)
CommandsWellFormed ==
    \A p \in Procs :
        /\ op[p].pc # "drop"
        /\ ~op[p].deleteOld
        /\ InBuild(p) => op[p].build \in (1..builds) \ failed
        /\ op[p].pc = "create" => op[p].batch = 1
        /\ op[p].pc \in SwapPcs => Reported(op[p].name)

(* The number of a running build is in no other command, in no report, and in
   no index but the one it created. *)
BuildsAreUnique ==
    \A p \in Procs : InBuild(p) =>
        /\ \A q \in Procs : InBuild(q) /\ q # p => op[q].build # op[p].build
        /\ \A n \in Names : <<op[p].build, n>> \notin passed
        /\ op[p].pc = "create" =>
             \A n \in DOMAIN indices : indices[n].creator # op[p].build

BuildersOwnTheirIndex ==
    \A p \in Procs : Owns(p) =>
        LET n == op[p].name IN
        /\ n \in DOMAIN indices
        /\ indices[n].creator = op[p].build
        /\ indices[n].docs =
             IF op[p].pc = "validate" THEN Batches ELSE 1..(op[p].batch - 1)

IndicesHaveOneWriter ==
    \A n \in DOMAIN indices :
        /\ indices[n].creator \in 1..builds
        /\ indices[n].writers \subseteq {indices[n].creator}
        /\ indices[n].docs # {} => indices[n].writers = {indices[n].creator}

ReportsAreEarned ==
    \A b \in Builds, n \in Names : <<b, n>> \in passed =>
        /\ b \in (1..builds) \ failed
        /\ n \in DOMAIN indices
        /\ indices[n].creator = b
        /\ indices[n].docs = Batches

RetainedInv ==
    /\ TypeOK
    /\ CommandsWellFormed
    /\ BuildsAreUnique
    /\ BuildersOwnTheirIndex
    /\ IndicesHaveOneWriter
    /\ ReportsAreEarned
    /\ failed \subseteq 1..builds
    /\ \A n \in alias : Reported(n)
=============================================================================
