-------------------------- MODULE VectorIndexProofs --------------------------
(***************************************************************************)
(* Theorems about VectorIndex for every number of operators, names, builds *)
(* and batches.                                                            *)
(***************************************************************************)
EXTENDS VectorIndex, FiniteSetTheorems, TLAPS

(* The three kinds of command cannot be mistaken for each other. *)
LEMMA CommandKinds ==
    ASSUME TypeOK, NEW p \in Procs
    PROVE  /\ op[p].pc \in BuildPcs => op[p] \in BuildCommand
           /\ op[p].pc \in ActivatePcs \cup {"drop", "forget"} => op[p] \in ActivateCommand
           /\ op[p].pc = "swap" => op[p] \in BuildCommand \cup ActivateCommand
           /\ op[p].pc # "idle" => op[p].name \in Names /\ op[p].dims \in Dims
<1>1. op[p] \in BuildCommand \/ op[p] \in ActivateCommand \/ op[p] = Idle
  BY DEF TypeOK, Commands
<1>2. CASE op[p] \in BuildCommand
  BY <1>2 DEF BuildCommand, BuildPcs, ActivatePcs
<1>3. CASE op[p] \in ActivateCommand
  BY <1>3 DEF ActivateCommand, BuildPcs, ActivatePcs
<1>4. CASE op[p] = Idle
  BY <1>4 DEF Idle, BuildPcs, ActivatePcs
<1> QED
  BY <1>1, <1>2, <1>3, <1>4

(* Goto keeps the kind of a command. *)
LEMMA GotoBuild ==
    ASSUME TypeOK, NEW p \in Procs, op[p].pc \in BuildPcs,
           NEW pc \in BuildPcs \cup {"swap"}, Goto(p, pc)
    PROVE  op' \in [Procs -> Commands]
<1>1. op[p] \in BuildCommand
  BY CommandKinds
<1>2. [op[p] EXCEPT !.pc = pc] \in BuildCommand
  BY <1>1 DEF BuildCommand
<1> QED
  BY <1>2 DEF TypeOK, Goto, Commands

LEMMA GotoActivate ==
    ASSUME TypeOK, NEW p \in Procs, op[p] \in ActivateCommand,
           NEW pc \in ActivatePcs \cup {"swap", "drop", "forget"}, Goto(p, pc)
    PROVE  op' \in [Procs -> Commands]
<1>1. [op[p] EXCEPT !.pc = pc] \in ActivateCommand
  BY DEF ActivateCommand
<1> QED
  BY <1>1 DEF TypeOK, Goto, Commands

LEMMA FinishType ==
    ASSUME TypeOK, NEW p \in Procs, Finish(p)
    PROVE  op' \in [Procs -> Commands]
BY DEF TypeOK, Finish, Commands

(* What Goto and Finish change, and what they leave alone. *)
LEMMA GotoEffect ==
    ASSUME TypeOK, NEW p \in Procs, NEW pc, Goto(p, pc)
    PROVE  /\ op'[p].pc = pc
           /\ op'[p].name = op[p].name /\ op'[p].build = op[p].build
           /\ op'[p].dims = op[p].dims /\ op'[p].deleteOld = op[p].deleteOld
           /\ \A q \in Procs : q # p => op'[q] = op[q]
<1>1. op[p] \in BuildCommand \/ op[p] \in ActivateCommand \/ op[p] = Idle
  BY DEF TypeOK, Commands
<1>2. op'[p] = [op[p] EXCEPT !.pc = pc] /\ \A q \in Procs : q # p => op'[q] = op[q]
  BY DEF TypeOK, Goto
<1>3. CASE op[p] \in BuildCommand
  BY <1>2, <1>3 DEF BuildCommand
<1>4. CASE op[p] \in ActivateCommand
  BY <1>2, <1>4 DEF ActivateCommand
<1>5. CASE op[p] = Idle
  BY <1>2, <1>5 DEF Idle
<1> QED
  BY <1>1, <1>3, <1>4, <1>5

LEMMA FinishEffect ==
    ASSUME TypeOK, NEW p \in Procs, Finish(p)
    PROVE  op'[p] = Idle /\ \A q \in Procs : q # p => op'[q] = op[q]
BY DEF TypeOK, Finish

(* Put and Drop keep a map from names well typed. *)
LEMMA PutType ==
    ASSUME NEW R, NEW f, NEW k \in Names, NEW v \in R,
           \E S \in SUBSET Names : f \in [S -> R]
    PROVE  \E S \in SUBSET Names : Put(f, k, v) \in [S -> R]
<1>1. PICK S \in SUBSET Names : f \in [S -> R]
  OBVIOUS
<1>2. Put(f, k, v) \in [S \cup {k} -> R]
  BY <1>1 DEF Put
<1> QED
  BY <1>2

LEMMA DropType ==
    ASSUME NEW R, NEW f, NEW k,
           \E S \in SUBSET Names : f \in [S -> R]
    PROVE  \E S \in SUBSET Names : Drop(f, k) \in [S -> R]
<1>1. PICK S \in SUBSET Names : f \in [S -> R]
  OBVIOUS
<1>2. Drop(f, k) \in [S \ {k} -> R]
  BY <1>1 DEF Drop
<1> QED
  BY <1>2

-----------------------------------------------------------------------------
LEMMA InitType == Init => TypeOK
<1> SUFFICES ASSUME Init PROVE TypeOK
  OBVIOUS
<1>1. /\ collections \in [{} -> Collection] /\ sidecars \in [{} -> Sidecar]
      /\ alias = NoName /\ builds = 0 /\ passed = {} /\ failed = {}
      /\ op \in [Procs -> Commands]
  BY DEF Init, Commands
<1>2. /\ \E S \in SUBSET Names : collections \in [S -> Collection]
      /\ \E S \in SUBSET Names : sidecars \in [S -> Sidecar]
  BY <1>1
<1>3. builds \in 0..MaxBuild
  BY <1>1, BoundsAssumption
<1> QED
  BY <1>1, <1>2, <1>3 DEF TypeOK

LEMMA StartType ==
    ASSUME TypeOK, NEW p \in Procs, Start(p)
    PROVE  TypeOK'
<1>1. ASSUME NEW dims \in Dims, NEW activate \in BOOLEAN,
             StartBuild(p, dims, activate)
      PROVE  TypeOK'
  <2>1. builds + 1 \in Builds /\ builds + 1 \in 0..MaxBuild /\ NextName \in Names
    BY <1>1, BoundsAssumption DEF StartBuild, TypeOK, Builds
  <2>2. 1 \in Batches /\ "create" \in BuildPcs
    BY BoundsAssumption DEF Batches, BuildPcs
  <2>3. NewBuild(NextName, builds + 1, dims, activate) \in BuildCommand
    BY <2>1, <2>2 DEF BuildCommand, NewBuild
  <2>4. op' \in [Procs -> Commands]
    BY <1>1, <2>3 DEF StartBuild, TypeOK, Commands
  <2> QED
    BY <1>1, <2>1, <2>4 DEF StartBuild, TypeOK
<1>2. ASSUME NEW n \in Names, NEW deleteOld \in DeleteOld,
             StartActivate(p, n, deleteOld)
      PROVE  TypeOK'
  <2>1. sidecars[n].dims \in Dims
    BY <1>2 DEF StartActivate, TypeOK, Sidecar
  <2>2. NewActivation(n, sidecars[n].dims, deleteOld) \in ActivateCommand
    BY <2>1, FlagsAssumption DEF ActivateCommand, ActivatePcs, NewActivation
  <2>3. op' \in [Procs -> Commands]
    BY <1>2, <2>2 DEF StartActivate, TypeOK, Commands
  <2> QED
    BY <1>2, <2>3 DEF StartActivate, TypeOK, stores
<1> QED
  BY <1>1, <1>2 DEF Start

LEMMA StepType ==
    ASSUME TypeOK, NEW p \in Procs, Step(p)
    PROVE  TypeOK'
<1> USE DEF stores
<1>1. CASE CreateCollection(p)
  <2>1. op[p] \in BuildCommand
    BY <1>1, CommandKinds DEF CreateCollection, BuildPcs
  <2> DEFINE c == [dims |-> op[p].dims, points |-> {},
                   creator |-> op[p].build, writers |-> {}]
  <2>2. c \in Collection /\ op[p].name \in Names
    BY <2>1 DEF BuildCommand, Collection
  <2>3. \E S \in SUBSET Names : collections' \in [S -> Collection]
    BY <1>1, <2>2, PutType DEF CreateCollection, TypeOK
  <2>4. op' \in [Procs -> Commands]
    BY <1>1, GotoBuild DEF CreateCollection, BuildPcs
  <2> QED
    BY <1>1, <2>3, <2>4 DEF CreateCollection, TypeOK
<1>2. CASE UpsertBatch(p)
  <2> DEFINE n == op[p].name
             b == op[p].batch
             c == [op[p] EXCEPT !.pc = IF b = BatchCount THEN "count" ELSE "upsert",
                                !.batch = IF b = BatchCount THEN 1 ELSE b + 1]
  <2>1. op[p] \in BuildCommand
    BY <1>2, CommandKinds DEF UpsertBatch, BuildPcs
  <2>2. b \in Batches /\ op[p].build \in Builds
    BY <2>1 DEF BuildCommand
  <2>3. PICK S \in SUBSET Names : collections \in [S -> Collection]
    BY DEF TypeOK
  <2>4. n \in S
    BY <1>2, <2>3 DEF UpsertBatch, Exists
  <2>5. [collections[n] EXCEPT !.points = @ \cup {b},
                               !.writers = @ \cup {op[p].build}] \in Collection
    BY <2>2, <2>3, <2>4 DEF Collection
  <2>6. collections' \in [S -> Collection]
    BY <1>2, <2>3, <2>4, <2>5 DEF UpsertBatch
  <2>7. /\ (IF b = BatchCount THEN 1 ELSE b + 1) \in Batches
        /\ (IF b = BatchCount THEN "count" ELSE "upsert") \in BuildPcs
    BY <2>2, BoundsAssumption DEF Batches, BuildPcs
  <2>8. c \in BuildCommand
    BY <2>1, <2>7 DEF BuildCommand
  <2>9. op' \in [Procs -> Commands]
    BY <1>2, <2>8 DEF UpsertBatch, TypeOK, Commands
  <2> QED
    BY <1>2, <2>6, <2>9 DEF UpsertBatch, TypeOK
<1>3. CASE CountPoints(p) \/ ValidateConfig(p)
  <2>1. op' \in [Procs -> Commands]
    BY <1>3, GotoBuild DEF CountPoints, ValidateConfig, BuildPcs
  <2> QED
    BY <1>3, <2>1 DEF CountPoints, ValidateConfig, TypeOK
<1>4. CASE EvaluationPasses(p)
  <2>1. op' \in [Procs -> Commands]
    BY <1>4, GotoBuild DEF EvaluationPasses, BuildPcs
  <2>2. op[p].build \in Builds /\ op[p].name \in Names
    BY <1>4, CommandKinds DEF EvaluationPasses, BuildPcs, BuildCommand
  <2> QED
    BY <1>4, <2>1, <2>2 DEF EvaluationPasses, TypeOK
<1>5. CASE ValidationFails(p)
  <2>1. op' \in [Procs -> Commands]
    BY <1>5, FinishType DEF ValidationFails
  <2>2. op[p].build \in Builds
    BY <1>5, CommandKinds DEF ValidationFails, BuildPcs, BuildCommand
  <2> QED
    BY <1>5, <2>1, <2>2 DEF ValidationFails, TypeOK
<1>6. CASE WriteSidecar(p)
  <2>1. op[p] \in BuildCommand
    BY <1>6, CommandKinds DEF WriteSidecar, BuildPcs
  <2> DEFINE s == [build |-> op[p].build, dims |-> op[p].dims]
  <2>2. s \in Sidecar /\ op[p].name \in Names
    BY <2>1 DEF BuildCommand, Sidecar
  <2>3. \E S \in SUBSET Names : sidecars' \in [S -> Sidecar]
    BY <1>6, <2>2, PutType DEF WriteSidecar, TypeOK
  <2>4. op' \in [Procs -> Commands]
    BY <1>6, GotoBuild, FinishType DEF WriteSidecar, BuildPcs
  <2> QED
    BY <1>6, <2>3, <2>4 DEF WriteSidecar, TypeOK
<1>7. CASE CheckConfig(p)
  <2>1. op' \in [Procs -> Commands]
    BY <1>7, GotoActivate, CommandKinds DEF CheckConfig, ActivatePcs
  <2> QED
    BY <1>7, <2>1 DEF CheckConfig, TypeOK
<1>8. CASE ReadPrevious(p)
  <2> DEFINE o == IF alias = op[p].name THEN NoName ELSE alias
  <2>1. op[p] \in ActivateCommand
    BY <1>8, CommandKinds DEF ReadPrevious, ActivatePcs
  <2>2. o \in Names \cup {NoName}
    BY DEF TypeOK
  <2>3. [op[p] EXCEPT !.pc = "swap", !.previous = o] \in ActivateCommand
    BY <2>1, <2>2 DEF ActivateCommand
  <2>4. op' \in [Procs -> Commands]
    BY <1>8, <2>3 DEF ReadPrevious, TypeOK, Commands
  <2> QED
    BY <1>8, <2>4 DEF ReadPrevious, TypeOK
<1>9. CASE SwapAlias(p)
  <2>1. op[p].name \in Names
    BY <1>9, CommandKinds DEF SwapAlias
  <2>2. op[p].deleteOld => op[p] \in ActivateCommand
    BY <1>9, CommandKinds DEF SwapAlias, BuildCommand
  <2>3. op' \in [Procs -> Commands]
    BY <1>9, <2>2, GotoActivate, FinishType DEF SwapAlias
  <2> QED
    BY <1>9, <2>1, <2>3 DEF SwapAlias, TypeOK
<1>10. CASE DropPrevious(p)
  <2>1. op' \in [Procs -> Commands]
    BY <1>10, GotoActivate, CommandKinds DEF DropPrevious
  <2>2. \E S \in SUBSET Names : collections' \in [S -> Collection]
    BY <1>10, DropType DEF DropPrevious, TypeOK
  <2> QED
    BY <1>10, <2>1, <2>2 DEF DropPrevious, TypeOK
<1>11. CASE ForgetPrevious(p)
  <2>1. op' \in [Procs -> Commands]
    BY <1>11, FinishType DEF ForgetPrevious
  <2>2. \E S \in SUBSET Names : sidecars' \in [S -> Sidecar]
    BY <1>11, DropType DEF ForgetPrevious, TypeOK
  <2> QED
    BY <1>11, <2>1, <2>2 DEF ForgetPrevious, TypeOK
<1>12. CASE Refused(p)
  <2>1. op' \in [Procs -> Commands]
    BY <1>12, FinishType DEF Refused
  <2> QED
    BY <1>12, <2>1 DEF Refused, TypeOK
<1> QED
  BY <1>1, <1>2, <1>3, <1>4, <1>5, <1>6, <1>7, <1>8, <1>9, <1>10, <1>11, <1>12 DEF Step

LEMMA AbortType ==
    ASSUME TypeOK, NEW p \in Procs, Abort(p)
    PROVE  TypeOK'
<1>1. op' \in [Procs -> Commands]
  BY FinishType DEF Abort
<1> QED
  BY <1>1 DEF Abort, TypeOK, stores

LEMMA NextType == TypeOK /\ [Next]_vars => TypeOK'
<1>1. ASSUME TypeOK, UNCHANGED vars PROVE TypeOK'
  BY <1>1 DEF TypeOK, vars
<1> QED
  BY <1>1, StartType, StepType, AbortType DEF Next

(* Every step of every command, in any interleaving and with any aborts,
   leaves the stores and the commands well formed. *)
THEOREM TypeCorrect == Spec => []TypeOK
BY InitType, NextType, PTL DEF Spec

-----------------------------------------------------------------------------
(* A step only has to account for its own command, the sidecars and the alias. *)
LEMMA VouchedFrame ==
    ASSUME VouchedInv, TypeOK', NEW p \in Procs,
           \A q \in Procs : q # p => op'[q] = op[q],
           passed \subseteq passed',
           op'[p].pc = "sidecar" => <<op'[p].build, op'[p].name>> \in passed',
           (op[p].pc \in {"check", "previous", "swap"} => EverPassed(op[p].name))',
           \A n \in DOMAIN sidecars' : n \in DOMAIN sidecars \/ EverPassed(n)',
           alias' \in {alias, NoName} \/ EverPassed(alias)'
    PROVE  VouchedInv'
<1>1. \A n : EverPassed(n) => EverPassed(n)'
  BY DEF EverPassed
<1>2. ASSUME NEW q \in Procs
      PROVE  /\ op'[q].pc = "sidecar" => <<op'[q].build, op'[q].name>> \in passed'
             /\ (op[q].pc \in {"check", "previous", "swap"} => EverPassed(op[q].name))'
  <2>1. CASE q = p
    BY <2>1
  <2>2. CASE q # p
    BY <1>1, <2>2 DEF VouchedInv
  <2> QED
    BY <2>1, <2>2
<1>3. \A n \in DOMAIN sidecars' : EverPassed(n)'
  BY <1>1 DEF VouchedInv
<1>4. ServedNameOncePassed'
  BY <1>1 DEF VouchedInv, ServedNameOncePassed
<1> QED
  BY <1>2, <1>3, <1>4 DEF VouchedInv

LEMMA VouchedStep ==
    ASSUME VouchedInv, NEW p \in Procs, Start(p) \/ Step(p) \/ Abort(p)
    PROVE  VouchedInv'
<1> USE DEF stores
<1>0. TypeOK /\ TypeOK' /\ op \in [Procs -> Commands]
  BY NextType DEF VouchedInv, Next, TypeOK
<1>1. ASSUME NEW dims \in Dims, NEW activate \in BOOLEAN, StartBuild(p, dims, activate)
      PROVE  VouchedInv'
  <2>1. op'[p].pc = "create" /\ \A q \in Procs : q # p => op'[q] = op[q]
    BY <1>0, <1>1 DEF StartBuild, NewBuild
  <2> QED
    BY <1>0, <1>1, <2>1, VouchedFrame DEF StartBuild
<1>2. ASSUME NEW n \in Names, NEW deleteOld \in DeleteOld, StartActivate(p, n, deleteOld)
      PROVE  VouchedInv'
  <2>1. op'[p].pc = "check" /\ op'[p].name = n /\ \A q \in Procs : q # p => op'[q] = op[q]
    BY <1>0, <1>2 DEF StartActivate, NewActivation
  <2>2. EverPassed(op[p].name)'
    BY <1>2, <2>1 DEF StartActivate, VouchedInv, EverPassed
  <2> QED
    BY <1>0, <1>2, <2>1, <2>2, VouchedFrame DEF StartActivate
<1>3. CASE CreateCollection(p) \/ CountPoints(p) \/ ValidateConfig(p)
  <2>1. op'[p].pc \in {"upsert", "config", "evaluate"} /\ \A q \in Procs : q # p => op'[q] = op[q]
    BY <1>0, <1>3, GotoEffect DEF CreateCollection, CountPoints, ValidateConfig
  <2> QED
    BY <1>0, <1>3, <2>1, VouchedFrame DEF CreateCollection, CountPoints, ValidateConfig
<1>4. CASE UpsertBatch(p)
  <2>1. op'[p].pc \in {"upsert", "count"} /\ \A q \in Procs : q # p => op'[q] = op[q]
    BY <1>0, <1>4 DEF UpsertBatch
  <2> QED
    BY <1>0, <1>4, <2>1, VouchedFrame DEF UpsertBatch
<1>5. CASE EvaluationPasses(p)
  <2>1. /\ op'[p].pc = "sidecar"
        /\ op'[p].build = op[p].build /\ op'[p].name = op[p].name
        /\ \A q \in Procs : q # p => op'[q] = op[q]
    BY <1>0, <1>5 DEF EvaluationPasses, Goto
  <2> QED
    BY <1>0, <1>5, <2>1, VouchedFrame DEF EvaluationPasses
<1>6. CASE ValidationFails(p) \/ Refused(p) \/ Abort(p)
  <2>1. op'[p].pc = "idle" /\ \A q \in Procs : q # p => op'[q] = op[q]
    BY <1>0, <1>6 DEF ValidationFails, Refused, Abort, Finish, Idle
  <2> QED
    BY <1>0, <1>6, <2>1, VouchedFrame DEF ValidationFails, Refused, Abort
<1>7. CASE WriteSidecar(p)
  <2>1. op[p].build \in Builds
    BY <1>0, <1>7, CommandKinds DEF WriteSidecar, BuildPcs, BuildCommand
  <2>2. \A n : n = op[p].name => EverPassed(n)'
    BY <1>7, <2>1 DEF WriteSidecar, VouchedInv, EverPassed
  <2>3. /\ op'[p].pc \in {"swap", "idle"}
        /\ op'[p].pc = "swap" => op'[p].name = op[p].name
        /\ \A q \in Procs : q # p => op'[q] = op[q]
    <3>1. Goto(p, "swap") \/ Finish(p)
      BY <1>7 DEF WriteSidecar
    <3> QED
      BY <1>0, <3>1, GotoEffect, FinishEffect DEF Idle
  <2>4. \A n \in DOMAIN sidecars' : n \in DOMAIN sidecars \/ EverPassed(n)'
    BY <1>7, <2>2 DEF WriteSidecar, Put
  <2>5. (op[p].pc \in {"check", "previous", "swap"} => EverPassed(op[p].name))'
    BY <2>2, <2>3
  <2> QED
    BY <1>0, <1>7, <2>3, <2>4, <2>5, VouchedFrame DEF WriteSidecar
<1>8. CASE CheckConfig(p) \/ ReadPrevious(p)
  <2>1. /\ op'[p].pc \in {"previous", "swap"} /\ op'[p].name = op[p].name
        /\ \A q \in Procs : q # p => op'[q] = op[q]
    <3>1. CASE CheckConfig(p)
      BY <1>0, <3>1, GotoEffect DEF CheckConfig
    <3>2. CASE ReadPrevious(p)
      <4>1. op[p] \in ActivateCommand
        BY <1>0, <3>2, CommandKinds DEF ReadPrevious, ActivatePcs
      <4> QED
        BY <1>0, <3>2, <4>1 DEF ReadPrevious, ActivateCommand
    <3> QED
      BY <1>8, <3>1, <3>2
  <2>2. EverPassed(op[p].name)'
    BY <1>8, <2>1 DEF CheckConfig, ReadPrevious, VouchedInv, EverPassed
  <2> QED
    BY <1>0, <1>8, <2>1, <2>2, VouchedFrame DEF CheckConfig, ReadPrevious
<1>9. CASE SwapAlias(p)
  <2>1. op'[p].pc \in {"drop", "idle"} /\ \A q \in Procs : q # p => op'[q] = op[q]
    <3>1. Goto(p, "drop") \/ Finish(p)
      BY <1>9 DEF SwapAlias
    <3> QED
      BY <1>0, <3>1, GotoEffect, FinishEffect DEF Idle
  <2>2. EverPassed(alias)'
    BY <1>9 DEF SwapAlias, VouchedInv, EverPassed
  <2> QED
    BY <1>0, <1>9, <2>1, <2>2, VouchedFrame DEF SwapAlias
<1>10. CASE DropPrevious(p) \/ ForgetPrevious(p)
  <2>1. op'[p].pc \in {"forget", "idle"} /\ \A q \in Procs : q # p => op'[q] = op[q]
    BY <1>0, <1>10, GotoEffect, FinishEffect DEF DropPrevious, ForgetPrevious, Idle
  <2>2. DOMAIN sidecars' \subseteq DOMAIN sidecars /\ alias' \in {alias, NoName}
    BY <1>10 DEF DropPrevious, ForgetPrevious, Drop
  <2>3. passed' = passed
    BY <1>10 DEF DropPrevious, ForgetPrevious
  <2> QED
    BY <1>0, <2>1, <2>2, <2>3, VouchedFrame
<1> QED
  BY <1>1, <1>2, <1>3, <1>4, <1>5, <1>6, <1>7, <1>8, <1>9, <1>10 DEF Start, Step

(* A name is served only if a build of that name passed its validation and
   evaluation before, with any number of operators, with or without
   --delete-old, and wherever commands are cut off. *)
THEOREM OnlyVouchedNamesAreServed == Spec => []ServedNameOncePassed
<1>1. Init => VouchedInv
  BY InitType DEF Init, Idle, VouchedInv, ServedNameOncePassed
<1>2. VouchedInv /\ [Next]_vars => VouchedInv'
  <2>1. ASSUME VouchedInv, UNCHANGED vars PROVE VouchedInv'
    BY <2>1 DEF VouchedInv, TypeOK, EverPassed, ServedNameOncePassed, vars
  <2> QED
    BY <2>1, VouchedStep DEF Next
<1>3. VouchedInv => ServedNameOncePassed
  BY DEF VouchedInv
<1> QED
  BY <1>1, <1>2, <1>3, PTL DEF Spec

-----------------------------------------------------------------------------
(* From here on no command deletes what it replaces. *)

LEMMA RetainedInit == Init => RetainedInv
<1> SUFFICES ASSUME Init PROVE RetainedInv
  OBVIOUS
<1>1. /\ TypeOK /\ DOMAIN collections = {} /\ DOMAIN sidecars = {} /\ failed = {}
      /\ alias = NoName
      /\ \A p \in Procs : op[p].pc = "idle" /\ ~op[p].deleteOld
  BY InitType DEF Init, Idle
<1> QED
  BY <1>1 DEF RetainedInv, CommandsWellFormed, BuildsAreUnique, InBuild, Owns, BuildPcs,
     BuildersOwnTheirCollection, CollectionsHaveOneWriter, SidecarsAreEarned

LEMMA RetainedStep ==
    ASSUME DeleteOld \subseteq {FALSE}, RetainedInv, NEW p \in Procs,
           Start(p) \/ Step(p) \/ Abort(p)
    PROVE  RetainedInv'
<1> USE DEF stores
<1>0. TypeOK /\ TypeOK'
  BY NextType DEF RetainedInv, Next
<1>a. /\ builds \in Nat /\ builds' \in Nat
      /\ collections = [n \in DOMAIN collections |-> collections[n]]
      /\ sidecars = [n \in DOMAIN sidecars |-> sidecars[n]]
  BY <1>0 DEF TypeOK
<1>b. DOMAIN collections \subseteq Names /\ DOMAIN sidecars \subseteq Names /\ NoName \notin Names
  BY <1>0 DEF TypeOK, Names, NoName
<1>1. ASSUME NEW dims \in Dims, NEW activate \in BOOLEAN, StartBuild(p, dims, activate)
      PROVE  RetainedInv'
  <2>1. /\ op'[p].pc = "create" /\ op'[p].build = builds + 1 /\ ~op'[p].deleteOld
        /\ \A q \in Procs : q # p => op'[q] = op[q]
    BY <1>0, <1>1 DEF StartBuild, NewBuild, TypeOK
  <2>2. /\ builds' = builds + 1
        /\ UNCHANGED <<collections, alias, sidecars, passed, failed>>
    BY <1>1 DEF StartBuild
  <2>3. CommandsWellFormed'
    BY <1>a, <2>1, <2>2 DEF RetainedInv, CommandsWellFormed, InBuild, BuildPcs
  <2>f. /\ \A k \in DOMAIN collections : collections[k].creator # builds + 1
        /\ \A k \in DOMAIN sidecars : sidecars[k].build # builds + 1
        /\ \A q \in Procs : InBuild(q) => op[q].build # builds + 1
    <3>1. \A k \in DOMAIN collections : collections[k].creator \in 1..builds
      BY DEF RetainedInv, CollectionsHaveOneWriter
    <3>2. \A k \in DOMAIN sidecars : sidecars[k].build \in 1..builds
      BY <3>1 DEF RetainedInv, SidecarsAreEarned
    <3>3. \A q \in Procs : InBuild(q) => op[q].build \in 1..builds
      BY DEF RetainedInv, CommandsWellFormed
    <3>4. builds + 1 \notin 1..builds
      BY <1>a
    <3> QED
      BY <3>1, <3>2, <3>3, <3>4
  <2>4. BuildsAreUnique'
    BY <2>1, <2>2, <2>f DEF RetainedInv, BuildsAreUnique, InBuild, BuildPcs
  <2>5. BuildersOwnTheirCollection'
    BY <2>1, <2>2 DEF RetainedInv, BuildersOwnTheirCollection, Owns, BuildPcs
  <2>6. CollectionsHaveOneWriter' /\ SidecarsAreEarned' /\ (failed \subseteq 1..builds)'
    BY <1>a, <2>2 DEF RetainedInv, CollectionsHaveOneWriter, SidecarsAreEarned
  <2> QED
    BY <1>0, <2>2, <2>3, <2>4, <2>5, <2>6 DEF RetainedInv
<1>2. ASSUME NEW n \in Names, NEW deleteOld \in DeleteOld, StartActivate(p, n, deleteOld)
      PROVE  RetainedInv'
  <2>1. /\ op'[p].pc = "check" /\ op'[p].name = n /\ ~op'[p].deleteOld
        /\ \A q \in Procs : q # p => op'[q] = op[q]
    BY <1>0, <1>2 DEF StartActivate, NewActivation, TypeOK
  <2>2. UNCHANGED <<collections, alias, sidecars, builds, passed, failed>> /\ n \in DOMAIN sidecars
    BY <1>2 DEF StartActivate
  <2>3. CommandsWellFormed'
    BY <2>1, <2>2 DEF RetainedInv, CommandsWellFormed, InBuild, BuildPcs
  <2>4. BuildsAreUnique' /\ BuildersOwnTheirCollection'
    BY <2>1, <2>2 DEF RetainedInv, BuildsAreUnique, BuildersOwnTheirCollection, InBuild, Owns, BuildPcs
  <2> QED
    BY <1>0, <2>2, <2>3, <2>4 DEF RetainedInv, CollectionsHaveOneWriter, SidecarsAreEarned
<1>3. CASE CreateCollection(p)
  <2> DEFINE m == op[p].name
  <2>1. /\ op[p].pc = "create" /\ op'[p].pc = "upsert"
        /\ op'[p].name = m /\ op'[p].build = op[p].build
        /\ op'[p].dims = op[p].dims /\ op'[p].deleteOld = op[p].deleteOld
        /\ \A q \in Procs : q # p => op'[q] = op[q]
    BY <1>0, <1>3, GotoEffect DEF CreateCollection
  <2>2. /\ m \notin DOMAIN collections
        /\ DOMAIN collections' = DOMAIN collections \cup {m}
        /\ \A k \in DOMAIN collections : collections'[k] = collections[k]
        /\ collections'[m].creator = op[p].build /\ collections'[m].dims = op[p].dims
        /\ collections'[m].writers = {} /\ collections'[m].points = {}
        /\ UNCHANGED <<alias, sidecars, builds, passed, failed>>
    BY <1>3 DEF CreateCollection, Exists, Put
  <2>3. CommandsWellFormed'
    BY <2>1, <2>2 DEF RetainedInv, CommandsWellFormed, InBuild, BuildPcs
  <2>4. BuildsAreUnique'
    BY <2>1, <2>2 DEF RetainedInv, BuildsAreUnique, InBuild, BuildPcs
  <2>5. BuildersOwnTheirCollection'
    BY <2>1, <2>2 DEF RetainedInv, BuildersOwnTheirCollection, Owns, BuildPcs
  <2>6. CollectionsHaveOneWriter'
    BY <2>1, <2>2 DEF RetainedInv, CollectionsHaveOneWriter, CommandsWellFormed, InBuild, BuildPcs
  <2>7. SidecarsAreEarned'
    BY <2>2 DEF RetainedInv, SidecarsAreEarned
  <2> QED
    BY <1>0, <2>2, <2>3, <2>4, <2>5, <2>6, <2>7 DEF RetainedInv
<1>4. CASE UpsertBatch(p)
  <2> DEFINE m == op[p].name
  <2>0. op[p] \in BuildCommand
    BY <1>0, <1>4, CommandKinds DEF UpsertBatch, BuildPcs
  <2>1. /\ op[p].pc = "upsert" /\ op'[p].pc \in {"upsert", "count"}
        /\ op'[p].name = m /\ op'[p].build = op[p].build
        /\ op'[p].dims = op[p].dims /\ op'[p].deleteOld = op[p].deleteOld
        /\ \A q \in Procs : q # p => op'[q] = op[q]
    BY <1>0, <1>4, <2>0 DEF UpsertBatch, TypeOK, BuildCommand
  <2>2. m \in DOMAIN collections /\ collections[m] \in Collection
    BY <1>0, <1>4 DEF UpsertBatch, Exists, TypeOK
  <2>3. /\ DOMAIN collections' = DOMAIN collections
        /\ \A k \in DOMAIN collections : k # m => collections'[k] = collections[k]
        /\ collections'[m].creator = collections[m].creator
        /\ collections'[m].dims = collections[m].dims
        /\ collections'[m].writers = collections[m].writers \cup {op[p].build}
        /\ UNCHANGED <<alias, sidecars, builds, passed, failed>>
    BY <1>a, <1>4, <2>2 DEF UpsertBatch, Collection
  <2>4. collections[m].creator = op[p].build
    BY <2>1 DEF RetainedInv, BuildersOwnTheirCollection, Owns, BuildPcs
  <2>5. m \notin DOMAIN sidecars
    BY <2>1, <2>4 DEF RetainedInv, BuildsAreUnique, SidecarsAreEarned, InBuild, BuildPcs
  <2>6. CommandsWellFormed'
    BY <2>1, <2>3 DEF RetainedInv, CommandsWellFormed, InBuild, BuildPcs
  <2>7. BuildsAreUnique'
    BY <2>1, <2>2, <2>3 DEF RetainedInv, BuildsAreUnique, InBuild, BuildPcs
  <2>8. \A q \in Procs : q # p /\ Owns(q) => op[q].name # m
    <3> SUFFICES ASSUME NEW q \in Procs, q # p, Owns(q), op[q].name = m PROVE FALSE
      OBVIOUS
    <3>1. op[q].build = op[p].build
      BY <2>4 DEF RetainedInv, BuildersOwnTheirCollection
    <3>2. InBuild(p) /\ InBuild(q)
      BY <2>1 DEF InBuild, Owns, BuildPcs
    <3> QED
      BY <3>1, <3>2 DEF RetainedInv, BuildsAreUnique
  <2>9. BuildersOwnTheirCollection'
    BY <2>1, <2>2, <2>3, <2>8 DEF RetainedInv, BuildersOwnTheirCollection, Owns, BuildPcs
  <2>10. CollectionsHaveOneWriter'
    BY <2>1, <2>2, <2>3, <2>4 DEF RetainedInv, CollectionsHaveOneWriter
  <2>11. SidecarsAreEarned'
    BY <2>3, <2>5 DEF RetainedInv, SidecarsAreEarned
  <2> QED
    BY <1>0, <2>3, <2>6, <2>7, <2>9, <2>10, <2>11 DEF RetainedInv
<1>5. CASE CountPoints(p) \/ ValidateConfig(p) \/ EvaluationPasses(p)
  <2> DEFINE m == op[p].name
  <2>1. /\ Owns(p) /\ Owns(p)' /\ op'[p].pc # "create"
        /\ op'[p].name = m /\ op'[p].build = op[p].build
        /\ op'[p].dims = op[p].dims /\ op'[p].deleteOld = op[p].deleteOld
        /\ \A q \in Procs : q # p => op'[q] = op[q]
    BY <1>0, <1>5, GotoEffect DEF CountPoints, ValidateConfig, EvaluationPasses, Owns, BuildPcs
  <2>2. /\ UNCHANGED <<collections, alias, sidecars, builds, failed>>
        /\ passed \subseteq passed'
    BY <1>5 DEF CountPoints, ValidateConfig, EvaluationPasses
  <2>3. CommandsWellFormed'
    BY <2>1, <2>2 DEF RetainedInv, CommandsWellFormed, InBuild, Owns, BuildPcs
  <2>4. BuildsAreUnique'
    BY <2>1, <2>2 DEF RetainedInv, BuildsAreUnique, InBuild, Owns, BuildPcs
  <2>5. /\ Cardinality(collections[m].points) = BatchCount
        /\ op'[p].pc = "sidecar" => <<op[p].build, m>> \in passed'
    <3>1. CASE CountPoints(p)
      BY <1>0, <3>1, GotoEffect DEF CountPoints
    <3>2. CASE ValidateConfig(p)
      BY <1>0, <2>1, <3>2, GotoEffect DEF ValidateConfig, RetainedInv, BuildersOwnTheirCollection
    <3>3. CASE EvaluationPasses(p)
      BY <2>1, <3>3 DEF EvaluationPasses, RetainedInv, BuildersOwnTheirCollection
    <3> QED
      BY <1>5, <3>1, <3>2, <3>3
  <2>6. BuildersOwnTheirCollection'
    BY <2>1, <2>2, <2>5 DEF RetainedInv, BuildersOwnTheirCollection, Owns
  <2>7. CollectionsHaveOneWriter' /\ SidecarsAreEarned'
    BY <2>2 DEF RetainedInv, CollectionsHaveOneWriter, SidecarsAreEarned
  <2> QED
    BY <1>0, <2>2, <2>3, <2>4, <2>6, <2>7 DEF RetainedInv
<1>6. CASE ValidationFails(p) \/ Refused(p) \/ Abort(p)
  <2>1. /\ op'[p].pc = "idle" /\ ~op'[p].deleteOld
        /\ \A q \in Procs : q # p => op'[q] = op[q]
    BY <1>0, <1>6, FinishEffect DEF ValidationFails, Refused, Abort, Idle
  <2>2. /\ UNCHANGED <<collections, alias, sidecars, builds, passed>>
        /\ failed' = failed \/ (InBuild(p) /\ failed' = failed \cup {op[p].build})
    <3>1. CASE ValidationFails(p)
      BY <3>1 DEF ValidationFails, InBuild, BuildPcs
    <3>2. CASE Refused(p) \/ Abort(p)
      BY <3>2 DEF Refused, Abort
    <3> QED
      BY <1>6, <3>1, <3>2
  <2>3. \A q \in Procs : q # p /\ InBuild(q) => op[q].build \notin failed'
    BY <2>2 DEF RetainedInv, BuildsAreUnique, CommandsWellFormed
  <2>4. \A k \in DOMAIN sidecars : sidecars[k].build \notin failed'
    BY <2>2 DEF RetainedInv, BuildsAreUnique, SidecarsAreEarned
  <2>5. (failed \subseteq 1..builds)'
    BY <2>2 DEF RetainedInv, CommandsWellFormed
  <2>6. CommandsWellFormed'
    BY <2>1, <2>2, <2>3 DEF RetainedInv, CommandsWellFormed, InBuild, BuildPcs
  <2>7. BuildsAreUnique'
    BY <2>1, <2>2 DEF RetainedInv, BuildsAreUnique, InBuild, BuildPcs
  <2>8. BuildersOwnTheirCollection'
    BY <2>1, <2>2 DEF RetainedInv, BuildersOwnTheirCollection, Owns, BuildPcs
  <2>9. CollectionsHaveOneWriter' /\ SidecarsAreEarned'
    BY <2>2, <2>4 DEF RetainedInv, CollectionsHaveOneWriter, SidecarsAreEarned
  <2> QED
    BY <1>0, <2>2, <2>5, <2>6, <2>7, <2>8, <2>9 DEF RetainedInv
<1>7. CASE WriteSidecar(p)
  <2> DEFINE m == op[p].name
  <2>1. /\ op[p].pc = "sidecar" /\ InBuild(p) /\ Owns(p)
        /\ op'[p].pc \in {"swap", "idle"} /\ ~op'[p].deleteOld
        /\ op'[p].pc = "swap" => op'[p].name = m
        /\ \A q \in Procs : q # p => op'[q] = op[q]
    <3>1. Goto(p, "swap") \/ Finish(p)
      BY <1>7 DEF WriteSidecar
    <3>2. op[p].pc = "sidecar" /\ ~op[p].deleteOld
      BY <1>7 DEF WriteSidecar, RetainedInv, CommandsWellFormed
    <3> QED
      BY <1>0, <3>1, <3>2, GotoEffect, FinishEffect DEF Idle, InBuild, Owns, BuildPcs
  <2>2. /\ UNCHANGED <<collections, alias, builds, passed, failed>>
        /\ DOMAIN sidecars' = DOMAIN sidecars \cup {m}
        /\ \A k \in DOMAIN sidecars : k # m => sidecars'[k] = sidecars[k]
        /\ sidecars'[m].build = op[p].build /\ sidecars'[m].dims = op[p].dims
    BY <1>7 DEF WriteSidecar, Put
  <2>3. CommandsWellFormed'
    BY <2>1, <2>2 DEF RetainedInv, CommandsWellFormed, InBuild, BuildPcs
  <2>4. BuildsAreUnique'
    BY <2>1, <2>2 DEF RetainedInv, BuildsAreUnique, InBuild, BuildPcs
  <2>5. BuildersOwnTheirCollection'
    BY <2>1, <2>2 DEF RetainedInv, BuildersOwnTheirCollection, Owns, BuildPcs
  <2>6. CollectionsHaveOneWriter'
    BY <2>2 DEF RetainedInv, CollectionsHaveOneWriter
  <2>7. /\ m \in DOMAIN collections /\ collections[m].creator = op[p].build
        /\ collections[m].dims = op[p].dims
        /\ Cardinality(collections[m].points) = BatchCount
        /\ <<op[p].build, m>> \in passed /\ op[p].build \notin failed
    BY <2>1 DEF RetainedInv, BuildersOwnTheirCollection, CommandsWellFormed
  <2>8. SidecarsAreEarned'
    BY <2>2, <2>7 DEF RetainedInv, SidecarsAreEarned
  <2> QED
    BY <1>0, <2>2, <2>3, <2>4, <2>5, <2>6, <2>8 DEF RetainedInv
<1>8. CASE CheckConfig(p) \/ ReadPrevious(p)
  <2>1. /\ op[p].pc \in {"check", "previous"} /\ op'[p].pc \in {"previous", "swap"}
        /\ op'[p].name = op[p].name /\ op'[p].deleteOld = op[p].deleteOld
        /\ \A q \in Procs : q # p => op'[q] = op[q]
    <3>1. CASE CheckConfig(p)
      BY <1>0, <3>1, GotoEffect DEF CheckConfig
    <3>2. CASE ReadPrevious(p)
      <4>1. op[p] \in ActivateCommand
        BY <1>0, <3>2, CommandKinds DEF ReadPrevious, ActivatePcs
      <4> QED
        BY <1>0, <3>2, <4>1 DEF ReadPrevious, ActivateCommand, TypeOK
    <3> QED
      BY <1>8, <3>1, <3>2
  <2>2. UNCHANGED <<collections, alias, sidecars, builds, passed, failed>>
    BY <1>8 DEF CheckConfig, ReadPrevious
  <2>3. CommandsWellFormed'
    BY <2>1, <2>2 DEF RetainedInv, CommandsWellFormed, InBuild, BuildPcs
  <2>4. BuildsAreUnique' /\ BuildersOwnTheirCollection'
    BY <2>1, <2>2 DEF RetainedInv, BuildsAreUnique, BuildersOwnTheirCollection, InBuild, Owns, BuildPcs
  <2> QED
    BY <1>0, <2>2, <2>3, <2>4 DEF RetainedInv, CollectionsHaveOneWriter, SidecarsAreEarned
<1>9. CASE SwapAlias(p)
  <2>1. op[p].pc = "swap" /\ ~op[p].deleteOld /\ op[p].name \in DOMAIN sidecars
    BY <1>9 DEF SwapAlias, RetainedInv, CommandsWellFormed
  <2>2. /\ op'[p].pc = "idle" /\ ~op'[p].deleteOld
        /\ \A q \in Procs : q # p => op'[q] = op[q]
    BY <1>0, <1>9, <2>1, FinishEffect DEF SwapAlias, Idle
  <2>3. alias' = op[p].name /\ UNCHANGED <<collections, sidecars, builds, passed, failed>>
    BY <1>9 DEF SwapAlias
  <2>4. CommandsWellFormed'
    BY <2>2, <2>3 DEF RetainedInv, CommandsWellFormed, InBuild, BuildPcs
  <2>5. BuildsAreUnique' /\ BuildersOwnTheirCollection'
    BY <2>2, <2>3 DEF RetainedInv, BuildsAreUnique, BuildersOwnTheirCollection, InBuild, Owns, BuildPcs
  <2> QED
    BY <1>0, <2>1, <2>3, <2>4, <2>5 DEF RetainedInv, CollectionsHaveOneWriter, SidecarsAreEarned
<1>10. CASE DropPrevious(p) \/ ForgetPrevious(p)
  BY <1>10 DEF DropPrevious, ForgetPrevious, RetainedInv, CommandsWellFormed
<1> QED
  BY <1>1, <1>2, <1>3, <1>4, <1>5, <1>6, <1>7, <1>8, <1>9, <1>10 DEF Start, Step

(* RetainedInv is an invariant when no command deletes. *)
THEOREM Retained ==
    ASSUME DeleteOld \subseteq {FALSE}
    PROVE  Spec => []RetainedInv
<1>1. RetainedInv /\ [Next]_vars => RetainedInv'
  <2>1. ASSUME RetainedInv, UNCHANGED vars PROVE RetainedInv'
    BY <2>1 DEF RetainedInv, TypeOK, CommandsWellFormed, BuildsAreUnique, InBuild, Owns,
       BuildersOwnTheirCollection, CollectionsHaveOneWriter, SidecarsAreEarned, vars
  <2> QED
    BY <2>1, RetainedStep DEF Next
<1> QED
  BY RetainedInit, <1>1, PTL DEF Spec

(* The docstring's promise, for every number of concurrent builds and
   activations and with any of them cut off anywhere, provided none deletes. *)
THEOREM OnlyValidatedBuildsAreServed ==
    ASSUME DeleteOld \subseteq {FALSE}
    PROVE  Spec => [](ServedWasValidated /\ FailedBuildsAreNotServed)
<1>1. RetainedInv => ServedWasValidated /\ FailedBuildsAreNotServed
  <2> SUFFICES ASSUME RetainedInv PROVE ServedWasValidated /\ FailedBuildsAreNotServed
    OBVIOUS
  <2>1. \A n \in DOMAIN sidecars : collections[n].points # {}
    <3>1. Cardinality({}) # BatchCount
      BY FS_EmptySet, BoundsAssumption
    <3> QED
      BY <3>1 DEF RetainedInv, SidecarsAreEarned
  <2>2. \A n \in DOMAIN sidecars : collections[n].writers = {sidecars[n].build}
    BY <2>1 DEF RetainedInv, SidecarsAreEarned, CollectionsHaveOneWriter
  <2>3. ServedWasValidated
    BY <2>2 DEF RetainedInv, SidecarsAreEarned, ServedWasValidated
  <2>4. alias \in DOMAIN collections => alias # NoName
    <3>1. DOMAIN collections \subseteq Names
      BY DEF RetainedInv, TypeOK
    <3> QED
      BY <3>1 DEF Names, NoName
  <2> QED
    BY <2>2, <2>3, <2>4 DEF RetainedInv, SidecarsAreEarned, FailedBuildsAreNotServed
<1> QED
  BY <1>1, Retained, PTL

(* Concurrent builds never write into one collection, and every profile
   describes the collection of its name. *)
THEOREM ProfilesMatchCollections ==
    ASSUME DeleteOld \subseteq {FALSE}
    PROVE  Spec => [](SidecarsDescribeCollections /\ OneWriterPerCollection)
<1>1. RetainedInv => SidecarsDescribeCollections /\ OneWriterPerCollection
  <2> SUFFICES ASSUME RetainedInv
               PROVE  SidecarsDescribeCollections /\ OneWriterPerCollection
    OBVIOUS
  <2>1. \A n \in DOMAIN sidecars : collections[n].points # {}
    <3>1. Cardinality({}) # BatchCount
      BY FS_EmptySet, BoundsAssumption
    <3> QED
      BY <3>1 DEF RetainedInv, SidecarsAreEarned
  <2> QED
    BY <2>1 DEF RetainedInv, SidecarsAreEarned, CollectionsHaveOneWriter,
       SidecarsDescribeCollections, OneWriterPerCollection
<1> QED
  BY <1>1, Retained, PTL

(* A running build never works on a name that has a profile. *)
LEMMA BuildersAvoidProfiledNames ==
    ASSUME RetainedInv, NEW p \in Procs, Owns(p)
    PROVE  op[p].name \notin DOMAIN sidecars
<1>1. InBuild(p)
  BY DEF Owns, InBuild, BuildPcs
<1>2. collections[op[p].name].creator = op[p].build
  BY DEF RetainedInv, BuildersOwnTheirCollection
<1> QED
  BY <1>1, <1>2 DEF RetainedInv, BuildsAreUnique, SidecarsAreEarned

(* What a step does to names that have a profile: nothing. *)
LEMMA ProfiledNamesAreFrozen ==
    ASSUME RetainedInv, [Next]_vars
    PROVE  \A n \in DOMAIN sidecars :
             /\ n \in DOMAIN collections /\ n \in DOMAIN collections'
             /\ n \in DOMAIN sidecars'
             /\ collections'[n] = collections[n]
             /\ sidecars'[n] = sidecars[n]
<1> USE DEF stores
<1>1. \A n \in DOMAIN sidecars : n \in DOMAIN collections
  BY DEF RetainedInv, SidecarsAreEarned
<1>2. CASE UNCHANGED vars
  BY <1>1, <1>2 DEF vars
<1>3. ASSUME NEW p \in Procs, CreateCollection(p)
      PROVE  /\ sidecars' = sidecars
             /\ \A n \in DOMAIN collections : n \in DOMAIN collections' /\ collections'[n] = collections[n]
  BY <1>3 DEF CreateCollection, Exists, Put
<1>4. ASSUME NEW p \in Procs, UpsertBatch(p)
      PROVE  /\ sidecars' = sidecars
             /\ DOMAIN collections' = DOMAIN collections
             /\ \A n \in DOMAIN sidecars : collections'[n] = collections[n]
  <2>1. op[p].name \notin DOMAIN sidecars
    BY <1>4, BuildersAvoidProfiledNames DEF UpsertBatch, Owns, BuildPcs
  <2>2. collections = [n \in DOMAIN collections |-> collections[n]]
    BY DEF RetainedInv, TypeOK
  <2> QED
    BY <1>1, <1>4, <2>1, <2>2 DEF UpsertBatch
<1>5. ASSUME NEW p \in Procs, WriteSidecar(p)
      PROVE  /\ collections' = collections
             /\ \A n \in DOMAIN sidecars : n \in DOMAIN sidecars' /\ sidecars'[n] = sidecars[n]
  <2>1. op[p].name \notin DOMAIN sidecars
    BY <1>5, BuildersAvoidProfiledNames DEF WriteSidecar, Owns, BuildPcs
  <2> QED
    BY <1>5, <2>1 DEF WriteSidecar, Put
<1>6. ASSUME NEW p \in Procs, Start(p) \/ Step(p) \/ Abort(p),
             ~CreateCollection(p), ~UpsertBatch(p), ~WriteSidecar(p)
      PROVE  UNCHANGED <<collections, sidecars>>
  <2>1. op[p].pc \notin {"drop", "forget"}
    BY DEF RetainedInv, CommandsWellFormed
  <2> QED
    BY <1>6, <2>1 DEF Start, Step, StartBuild, StartActivate, CountPoints, ValidateConfig,
       EvaluationPasses, ValidationFails, CheckConfig, ReadPrevious, SwapAlias,
       DropPrevious, ForgetPrevious, Refused, Abort
<1> QED
  BY <1>1, <1>2, <1>3, <1>4, <1>5, <1>6 DEF Next

(* Profiles are immutable and the served collection is never touched, whatever
   builds and activations run next to it. *)
THEOREM ServedDataIsImmutable ==
    ASSUME DeleteOld \subseteq {FALSE}
    PROVE  Spec => SidecarsAreImmutable /\ ServedCollectionIsFrozen
<1>1. RetainedInv /\ [Next]_vars =>
        [\A n \in DOMAIN sidecars \cap DOMAIN sidecars' : sidecars'[n] = sidecars[n]]_vars
  BY ProfiledNamesAreFrozen
<1>2. RetainedInv /\ [Next]_vars =>
        [alias # NoName /\ alias \in DOMAIN collections =>
           /\ alias \in DOMAIN collections'
           /\ collections'[alias] = collections[alias]]_vars
  BY ProfiledNamesAreFrozen DEF RetainedInv
<1> QED
  BY <1>1, <1>2, Retained, PTL DEF SidecarsAreImmutable, ServedCollectionIsFrozen, Spec

-----------------------------------------------------------------------------
(* The refinement: with every profile matched by its collection, what is
   published is exactly what has a profile. *)
LEMMA PublishedIsProfiled ==
    ASSUME RetainedInv
    PROVE  PublishedBuilds = {sidecars[n].build : n \in DOMAIN sidecars}
BY DEF RetainedInv, SidecarsAreEarned, PublishedBuilds

LEMMA RefinesInit == Init => Served!ServedInit
<1> SUFFICES ASSUME Init PROVE Served!ServedInit
  OBVIOUS
<1>1. DOMAIN sidecars = {}
  BY DEF Init
<1> QED
  BY <1>1 DEF Served!ServedInit, PublishedBuilds, ServingBuild, Init

LEMMA RefinesNext ==
    ASSUME DeleteOld \subseteq {FALSE}, RetainedInv, RetainedInv', [Next]_vars
    PROVE  [Served!ServedNext]_Served!servedVars
<1> USE DEF stores
<1>0. /\ PublishedBuilds = {sidecars[n].build : n \in DOMAIN sidecars}
      /\ PublishedBuilds' = {sidecars'[n].build : n \in DOMAIN sidecars'}
  <2>1. PublishedBuilds = {sidecars[n].build : n \in DOMAIN sidecars}
    BY PublishedIsProfiled
  <2>2. \A n \in DOMAIN sidecars' : n \in DOMAIN collections'
    BY DEF RetainedInv, SidecarsAreEarned
  <2> QED
    BY <2>1, <2>2 DEF PublishedBuilds
<1>1. CASE UNCHANGED <<sidecars, alias>>
  <2>1. UNCHANGED <<PublishedBuilds, ServingBuild>>
    BY <1>0, <1>1 DEF ServingBuild
  <2> QED
    BY <2>1 DEF Served!servedVars
<1>2. ASSUME NEW p \in Procs, WriteSidecar(p)
      PROVE  Served!ServedNext
  <2> DEFINE m == op[p].name
             b == op[p].build
  <2>1. InBuild(p) /\ Owns(p)
    BY <1>2 DEF WriteSidecar, InBuild, Owns, BuildPcs
  <2>2. m \notin DOMAIN sidecars
    BY <2>1, BuildersAvoidProfiledNames
  <2>3. b \in Builds /\ m \in Names
    BY <2>1, CommandKinds DEF RetainedInv, InBuild, BuildCommand
  <2>4. /\ DOMAIN sidecars' = DOMAIN sidecars \cup {m}
        /\ \A n \in DOMAIN sidecars : sidecars'[n] = sidecars[n]
        /\ sidecars'[m].build = b /\ alias' = alias
    BY <1>2, <2>2 DEF WriteSidecar, Put
  <2>5. b \notin PublishedBuilds
    BY <1>0, <2>1 DEF RetainedInv, BuildsAreUnique
  <2>6. PublishedBuilds' = PublishedBuilds \cup {b}
    BY <1>0, <2>4
  <2>7. ServingBuild' = ServingBuild
    <3>1. alias # m
      BY <2>2, <2>3 DEF RetainedInv, Names, NoName
    <3> QED
      BY <2>4, <3>1 DEF ServingBuild
  <2> QED
    BY <2>3, <2>5, <2>6, <2>7 DEF Served!ServedNext, Served!Publish
<1>3. ASSUME NEW p \in Procs, SwapAlias(p)
      PROVE  Served!ServedNext
  <2>1. op[p].name \in DOMAIN sidecars
    BY <1>3 DEF SwapAlias, RetainedInv, CommandsWellFormed
  <2>2. alias' = op[p].name /\ sidecars' = sidecars
    BY <1>3 DEF SwapAlias
  <2> DEFINE b == sidecars[op[p].name].build
  <2>3. ServingBuild' = b
    BY <2>1, <2>2 DEF ServingBuild
  <2>4. b \in PublishedBuilds /\ b \in Builds
    BY <1>0, <2>1 DEF RetainedInv, TypeOK, Sidecar
  <2>5. PublishedBuilds' = PublishedBuilds
    BY <1>0, <2>2
  <2> QED
    BY <2>3, <2>4, <2>5 DEF Served!ServedNext, Served!Serve
<1>4. ASSUME NEW p \in Procs, Start(p) \/ Step(p) \/ Abort(p),
             ~WriteSidecar(p), ~SwapAlias(p)
      PROVE  UNCHANGED <<sidecars, alias>>
  <2>1. op[p].pc \notin {"drop", "forget"}
    BY DEF RetainedInv, CommandsWellFormed
  <2> QED
    BY <1>4, <2>1 DEF Start, Step, StartBuild, StartActivate, CreateCollection, UpsertBatch,
       CountPoints, ValidateConfig, EvaluationPasses, ValidationFails, CheckConfig,
       ReadPrevious, DropPrevious, ForgetPrevious, Refused, Abort
<1> QED
  BY <1>1, <1>2, <1>3, <1>4 DEF Next, vars

(* The lifecycle, without deletion, is a service that publishes versions and
   serves published ones: every step is one of ServedVersions or changes
   nothing that it can see. *)
THEOREM ImplementsServedVersions ==
    ASSUME DeleteOld \subseteq {FALSE}
    PROVE  Spec => ServesPublishedVersions
BY RefinesInit, RefinesNext, Retained, PTL DEF ServesPublishedVersions, Spec, Served!ServedSpec

-----------------------------------------------------------------------------
(* From here on commands may delete, one after the other and to their end. *)

(* Goto leaves what a command remembers as previous alone, and a build has
   nothing there. *)
LEMMA GotoPrevious ==
    ASSUME TypeOK, NEW p \in Procs, NEW pc, Goto(p, pc)
    PROVE  /\ op'[p].previous = op[p].previous
           /\ op[p].pc \in BuildPcs => op[p].previous = NoName
<1>1. op[p] \in BuildCommand \/ op[p] \in ActivateCommand \/ op[p] = Idle
  BY DEF TypeOK, Commands
<1>2. op'[p] = [op[p] EXCEPT !.pc = pc]
  BY DEF TypeOK, Goto
<1>3. CASE op[p] \in BuildCommand
  BY <1>2, <1>3 DEF BuildCommand
<1>4. CASE op[p] \in ActivateCommand
  <2>1. op'[p].previous = op[p].previous
    BY <1>2, <1>4 DEF ActivateCommand
  <2>2. op[p].pc \notin BuildPcs
    BY <1>4 DEF ActivateCommand, ActivatePcs, BuildPcs
  <2> QED
    BY <2>1, <2>2
<1>5. CASE op[p] = Idle
  BY <1>2, <1>5 DEF Idle
<1> QED
  BY <1>1, <1>3, <1>4, <1>5

LEMMA OneOperatorInit == Init => OneOperatorInv
<1> SUFFICES ASSUME Init PROVE OneOperatorInv
  OBVIOUS
<1>1. /\ TypeOK /\ DOMAIN collections = {} /\ DOMAIN sidecars = {} /\ failed = {}
      /\ alias = NoName
      /\ \A p \in Procs : op[p].pc = "idle"
  BY InitType DEF Init, Idle
<1> QED
  BY <1>1 DEF OneOperatorInv, CommandsTakeTurns, BuildsAreUnique, InBuild, Owns, BuildPcs,
     BuildersOwnTheirCollection, CollectionsHaveOneWriter, CreatorsAreDistinct,
     KeptSidecarsAreEarned

(* What the invariant says of the only operator's command. *)
OwnCommand(p) ==
    /\ InBuild(p) =>
         /\ op[p].build \in (1..builds) \ failed
         /\ \A n \in DOMAIN sidecars : sidecars[n].build # op[p].build
         /\ op[p].pc = "create" => \A n \in DOMAIN collections : collections[n].creator # op[p].build
    /\ Owns(p) =>
         /\ op[p].name \in DOMAIN collections
         /\ collections[op[p].name].creator = op[p].build
         /\ collections[op[p].name].dims = op[p].dims
         /\ op[p].pc \in {"config", "evaluate", "sidecar"} =>
              Cardinality(collections[op[p].name].points) = BatchCount
         /\ op[p].pc = "sidecar" => <<op[p].build, op[p].name>> \in passed
    /\ op[p].pc \in {"check", "previous", "swap"} => op[p].name \in DOMAIN sidecars
    /\ op[p].pc = "swap" => op[p].previous # op[p].name
    /\ op[p].pc \in {"drop", "forget"} => alias = op[p].name /\ op[p].previous # op[p].name
    /\ op[p].pc = "forget" => op[p].previous \notin DOMAIN collections

Earned(n) ==
    /\ n \in DOMAIN collections
    /\ collections[n].creator = sidecars[n].build
    /\ collections[n].dims = sidecars[n].dims
    /\ Cardinality(collections[n].points) = BatchCount
    /\ <<sidecars[n].build, n>> \in passed
    /\ sidecars[n].build \notin failed

(* With one operator the invariants about two commands are about one. *)
LEMMA OneCommand ==
    ASSUME NEW p \in Procs, \A q \in Procs : q = p
    PROVE  /\ CommandsTakeTurns /\ BuildsAreUnique /\ BuildersOwnTheirCollection <=> OwnCommand(p)
           /\ \A n : Forgetting(n) <=> op[p].pc = "forget" /\ op[p].previous = n
<1>1. CommandsTakeTurns /\ BuildsAreUnique /\ BuildersOwnTheirCollection => OwnCommand(p)
  BY DEF CommandsTakeTurns, BuildsAreUnique, BuildersOwnTheirCollection, OwnCommand
<1>2. OwnCommand(p) => CommandsTakeTurns /\ BuildsAreUnique /\ BuildersOwnTheirCollection
  BY DEF CommandsTakeTurns, BuildsAreUnique, BuildersOwnTheirCollection, OwnCommand
<1>3. \A n : Forgetting(n) <=> op[p].pc = "forget" /\ op[p].previous = n
  BY DEF Forgetting
<1> QED
  BY <1>1, <1>2, <1>3

(* The same after a step. *)
LEMMA OneCommandNext ==
    ASSUME NEW p \in Procs, \A q \in Procs : q = p, OwnCommand(p)'
    PROVE  (CommandsTakeTurns /\ BuildsAreUnique /\ BuildersOwnTheirCollection)'
BY DEF CommandsTakeTurns, BuildsAreUnique, BuildersOwnTheirCollection, OwnCommand, InBuild, Owns

(* Every step of one operator keeps OneOperatorInv. *)
LEMMA OneOperatorStep ==
    ASSUME MayAbort = FALSE, OneOperatorInv, NEW p \in Procs, \A q \in Procs : q = p,
           Start(p) \/ Step(p) \/ Abort(p)
    PROVE  OneOperatorInv'
<1> USE DEF stores
<1>0. TypeOK /\ TypeOK'
  BY NextType DEF OneOperatorInv, Next
<1>a. /\ builds \in Nat /\ builds' \in Nat
      /\ collections = [n \in DOMAIN collections |-> collections[n]]
      /\ sidecars = [n \in DOMAIN sidecars |-> sidecars[n]]
  BY <1>0 DEF TypeOK
<1>b. DOMAIN collections \subseteq Names /\ DOMAIN sidecars \subseteq Names /\ NoName \notin Names
  BY <1>0 DEF TypeOK, Names, NoName
<1>c. /\ OwnCommand(p)
      /\ \A n \in DOMAIN sidecars : (op[p].pc = "forget" /\ op[p].previous = n) \/ Earned(n)
  BY OneCommand DEF OneOperatorInv, KeptSidecarsAreEarned, Earned
<1>d. /\ CollectionsHaveOneWriter /\ CreatorsAreDistinct /\ failed \subseteq 1..builds
      /\ alias # NoName => alias \in DOMAIN sidecars
  BY DEF OneOperatorInv
<1> DEFINE Holds ==
             /\ OwnCommand(p)' /\ CollectionsHaveOneWriter' /\ CreatorsAreDistinct'
             /\ \A n \in DOMAIN sidecars' :
                  (op'[p].pc = "forget" /\ op'[p].previous = n) \/ Earned(n)'
             /\ (failed \subseteq 1..builds)'
             /\ alias' # NoName => alias' \in DOMAIN sidecars'
<1>e. SUFFICES Holds
  <2>1. (CommandsTakeTurns /\ BuildsAreUnique /\ BuildersOwnTheirCollection)'
    BY <1>e, OneCommandNext
  <2>2. KeptSidecarsAreEarned'
    BY <1>e DEF KeptSidecarsAreEarned, Earned, Forgetting
  <2> QED
    BY <1>0, <1>e, <2>1, <2>2 DEF OneOperatorInv
<1>1. ASSUME NEW dims \in Dims, NEW activate \in BOOLEAN, StartBuild(p, dims, activate)
      PROVE  Holds
  <2>1. /\ op[p].pc = "idle" /\ op'[p].pc = "create" /\ op'[p].build = builds + 1
    BY <1>0, <1>1 DEF StartBuild, NewBuild, TypeOK
  <2>2. /\ builds' = builds + 1
        /\ UNCHANGED <<collections, alias, sidecars, passed, failed>>
    BY <1>1 DEF StartBuild
  <2>3. /\ \A k \in DOMAIN collections : collections[k].creator \in 1..builds
        /\ \A k \in DOMAIN sidecars : Earned(k) /\ sidecars[k].build \in 1..builds
    BY <1>c, <1>d, <2>1 DEF CollectionsHaveOneWriter, Earned
  <2>4. builds + 1 \notin 1..builds /\ 1..builds \subseteq 1..(builds + 1)
        /\ builds + 1 \in 1..(builds + 1)
    BY <1>a
  <2>5. OwnCommand(p)'
    BY <1>d, <2>1, <2>2, <2>3, <2>4 DEF OwnCommand, InBuild, Owns, BuildPcs
  <2>6. CollectionsHaveOneWriter' /\ CreatorsAreDistinct'
    BY <1>d, <2>2, <2>4 DEF CollectionsHaveOneWriter, CreatorsAreDistinct
  <2> QED
    BY <1>d, <2>2, <2>3, <2>4, <2>5, <2>6 DEF Earned
<1>2. ASSUME NEW n \in Names, NEW deleteOld \in DeleteOld, StartActivate(p, n, deleteOld)
      PROVE  Holds
  <2>1. op[p].pc = "idle" /\ op'[p].pc = "check" /\ op'[p].name = n
    BY <1>0, <1>2 DEF StartActivate, NewActivation, TypeOK
  <2>2. UNCHANGED <<collections, alias, sidecars, builds, passed, failed>> /\ n \in DOMAIN sidecars
    BY <1>2 DEF StartActivate
  <2>3. OwnCommand(p)'
    BY <2>1, <2>2 DEF OwnCommand, InBuild, Owns, BuildPcs
  <2> QED
    BY <1>c, <1>d, <2>1, <2>2, <2>3 DEF Earned, CollectionsHaveOneWriter, CreatorsAreDistinct
<1>3. CASE CreateCollection(p)
  <2> DEFINE m == op[p].name
  <2>1. /\ op[p].pc = "create" /\ op'[p].pc = "upsert"
        /\ op'[p].name = m /\ op'[p].build = op[p].build /\ op'[p].dims = op[p].dims
    BY <1>0, <1>3, GotoEffect DEF CreateCollection
  <2>2. /\ m \notin DOMAIN collections
        /\ DOMAIN collections' = DOMAIN collections \cup {m}
        /\ \A k \in DOMAIN collections : collections'[k] = collections[k]
        /\ collections'[m].creator = op[p].build /\ collections'[m].dims = op[p].dims
        /\ collections'[m].writers = {} /\ collections'[m].points = {}
        /\ UNCHANGED <<alias, sidecars, builds, passed, failed>>
    BY <1>3 DEF CreateCollection, Exists, Put
  <2>3. /\ op[p].build \in (1..builds) \ failed
        /\ \A n \in DOMAIN sidecars : sidecars[n].build # op[p].build
        /\ \A n \in DOMAIN collections : collections[n].creator # op[p].build
    BY <1>c, <2>1 DEF OwnCommand, InBuild, BuildPcs
  <2>4. OwnCommand(p)'
    BY <2>1, <2>2, <2>3 DEF OwnCommand, InBuild, Owns, BuildPcs
  <2>5. CollectionsHaveOneWriter'
    BY <1>d, <2>2, <2>3 DEF CollectionsHaveOneWriter
  <2>6. CreatorsAreDistinct'
    BY <1>d, <2>2, <2>3 DEF CreatorsAreDistinct
  <2>7. \A n \in DOMAIN sidecars' : Earned(n)'
    BY <1>c, <2>1, <2>2 DEF Earned
  <2> QED
    BY <1>d, <2>2, <2>4, <2>5, <2>6, <2>7
<1>4. CASE UpsertBatch(p)
  <2> DEFINE m == op[p].name
  <2>0. op[p] \in BuildCommand
    BY <1>0, <1>4, CommandKinds DEF UpsertBatch, BuildPcs
  <2>1. /\ op[p].pc = "upsert" /\ op'[p].pc \in {"upsert", "count"}
        /\ op'[p].name = m /\ op'[p].build = op[p].build /\ op'[p].dims = op[p].dims
    BY <1>0, <1>4, <2>0 DEF UpsertBatch, TypeOK, BuildCommand
  <2>2. m \in DOMAIN collections /\ collections[m] \in Collection
    BY <1>0, <1>4 DEF UpsertBatch, Exists, TypeOK
  <2>3. /\ DOMAIN collections' = DOMAIN collections
        /\ \A k \in DOMAIN collections : k # m => collections'[k] = collections[k]
        /\ collections'[m].creator = collections[m].creator
        /\ collections'[m].dims = collections[m].dims
        /\ collections'[m].writers = collections[m].writers \cup {op[p].build}
        /\ UNCHANGED <<alias, sidecars, builds, passed, failed>>
    BY <1>a, <1>4, <2>2 DEF UpsertBatch, Collection
  <2>4. /\ collections[m].creator = op[p].build /\ collections[m].dims = op[p].dims
        /\ op[p].build \in (1..builds) \ failed
        /\ \A n \in DOMAIN sidecars : sidecars[n].build # op[p].build
    BY <1>c, <2>1 DEF OwnCommand, InBuild, Owns, BuildPcs
  <2>5. m \notin DOMAIN sidecars
    BY <1>c, <2>1, <2>4 DEF Earned
  <2>6. OwnCommand(p)'
    BY <2>1, <2>2, <2>3, <2>4 DEF OwnCommand, InBuild, Owns, BuildPcs
  <2>7. CollectionsHaveOneWriter' /\ CreatorsAreDistinct'
    <3>1. \A k \in DOMAIN collections : collections'[k].creator = collections[k].creator
      BY <2>3
    <3>2. CollectionsHaveOneWriter'
      BY <1>d, <2>2, <2>3, <2>4 DEF CollectionsHaveOneWriter
    <3> QED
      BY <1>d, <2>3, <3>1, <3>2 DEF CreatorsAreDistinct
  <2>8. \A n \in DOMAIN sidecars' : Earned(n)'
    BY <1>c, <2>1, <2>3, <2>5 DEF Earned
  <2> QED
    BY <1>d, <2>3, <2>6, <2>7, <2>8
<1>5. CASE CountPoints(p) \/ ValidateConfig(p) \/ EvaluationPasses(p)
  <2> DEFINE m == op[p].name
  <2>1. /\ Owns(p) /\ op'[p].pc \in {"config", "evaluate", "sidecar"}
        /\ op[p].pc \in {"count", "config", "evaluate"}
        /\ op'[p].name = m /\ op'[p].build = op[p].build /\ op'[p].dims = op[p].dims
    BY <1>0, <1>5, GotoEffect DEF CountPoints, ValidateConfig, EvaluationPasses, Owns, BuildPcs
  <2>2. /\ UNCHANGED <<collections, alias, sidecars, builds, failed>>
        /\ passed \subseteq passed'
    BY <1>5 DEF CountPoints, ValidateConfig, EvaluationPasses
  <2>3. /\ Cardinality(collections[m].points) = BatchCount
        /\ op'[p].pc = "sidecar" => <<op[p].build, m>> \in passed'
    <3>1. CASE CountPoints(p)
      BY <1>0, <3>1, GotoEffect DEF CountPoints
    <3>2. CASE ValidateConfig(p)
      BY <1>0, <1>c, <2>1, <3>2, GotoEffect DEF ValidateConfig, OwnCommand
    <3>3. CASE EvaluationPasses(p)
      BY <1>c, <2>1, <3>3 DEF EvaluationPasses, OwnCommand
    <3> QED
      BY <1>5, <3>1, <3>2, <3>3
  <2>4. OwnCommand(p)'
    BY <1>c, <2>1, <2>2, <2>3 DEF OwnCommand, InBuild, Owns, BuildPcs
  <2>5. \A n \in DOMAIN sidecars' : Earned(n)'
    BY <1>c, <2>1, <2>2 DEF Earned
  <2> QED
    BY <1>d, <2>2, <2>4, <2>5 DEF CollectionsHaveOneWriter, CreatorsAreDistinct
<1>6. CASE ValidationFails(p) \/ Refused(p)
  <2>1. /\ op'[p].pc = "idle" /\ op[p].pc # "forget"
    BY <1>0, <1>6, FinishEffect DEF ValidationFails, Refused, Idle
  <2>2. /\ UNCHANGED <<collections, alias, sidecars, builds, passed>>
        /\ failed' = failed \/ (InBuild(p) /\ failed' = failed \cup {op[p].build})
    <3>1. CASE ValidationFails(p)
      BY <3>1 DEF ValidationFails, InBuild, BuildPcs
    <3>2. CASE Refused(p)
      BY <3>2 DEF Refused
    <3> QED
      BY <1>6, <3>1, <3>2
  <2>3. \A n \in DOMAIN sidecars : sidecars[n].build \notin failed'
    BY <1>c, <2>1, <2>2 DEF OwnCommand, Earned
  <2>4. (failed \subseteq 1..builds)'
    BY <1>c, <1>d, <2>2 DEF OwnCommand
  <2>5. OwnCommand(p)'
    BY <2>1 DEF OwnCommand, InBuild, Owns, BuildPcs
  <2>6. \A n \in DOMAIN sidecars' : Earned(n)'
    BY <1>c, <2>1, <2>2, <2>3 DEF Earned
  <2> QED
    BY <1>d, <2>2, <2>4, <2>5, <2>6 DEF CollectionsHaveOneWriter, CreatorsAreDistinct
<1>7. CASE WriteSidecar(p)
  <2> DEFINE m == op[p].name
  <2>1. /\ op[p].pc = "sidecar" /\ InBuild(p) /\ Owns(p) /\ op[p].pc \in BuildPcs
        /\ op'[p].pc \in {"swap", "idle"}
        /\ op'[p].pc = "swap" => op'[p].name = m /\ op'[p].previous = NoName
    <3>1. Goto(p, "swap") \/ Finish(p)
      BY <1>7 DEF WriteSidecar
    <3>2. op[p].pc = "sidecar" /\ op[p].pc \in BuildPcs
      BY <1>7 DEF WriteSidecar, BuildPcs
    <3>3. CASE Goto(p, "swap")
      <4>1. op'[p].pc = "swap" /\ op'[p].name = m
        BY <1>0, <3>3, GotoEffect
      <4>2. op'[p].previous = NoName
        BY <1>0, <3>2, <3>3, GotoPrevious
      <4> QED
        BY <3>2, <4>1, <4>2 DEF InBuild, Owns, BuildPcs
    <3>4. CASE Finish(p)
      BY <1>0, <3>2, <3>4, FinishEffect DEF Idle, InBuild, Owns, BuildPcs
    <3> QED
      BY <3>1, <3>3, <3>4
  <2>2. /\ UNCHANGED <<collections, alias, builds, passed, failed>>
        /\ DOMAIN sidecars' = DOMAIN sidecars \cup {m}
        /\ \A k \in DOMAIN sidecars : k # m => sidecars'[k] = sidecars[k]
        /\ sidecars'[m].build = op[p].build /\ sidecars'[m].dims = op[p].dims
    BY <1>7 DEF WriteSidecar, Put
  <2>3. /\ m \in DOMAIN collections /\ collections[m].creator = op[p].build
        /\ collections[m].dims = op[p].dims
        /\ Cardinality(collections[m].points) = BatchCount
        /\ <<op[p].build, m>> \in passed /\ op[p].build \notin failed
    BY <1>c, <2>1 DEF OwnCommand
  <2>4. m # NoName
    BY <1>b, <2>3
  <2>5. OwnCommand(p)'
    BY <2>1, <2>2, <2>4 DEF OwnCommand, InBuild, Owns, BuildPcs
  <2>6. \A n \in DOMAIN sidecars' : Earned(n)'
    BY <1>c, <2>1, <2>2, <2>3 DEF Earned
  <2> QED
    BY <1>d, <2>2, <2>5, <2>6 DEF CollectionsHaveOneWriter, CreatorsAreDistinct
<1>8. CASE CheckConfig(p) \/ ReadPrevious(p)
  <2>1. /\ op[p].pc \in {"check", "previous"} /\ op'[p].pc \in {"previous", "swap"}
        /\ op'[p].name = op[p].name
        /\ op'[p].pc = "swap" => op'[p].previous # op[p].name
    <3>1. CASE CheckConfig(p)
      BY <1>0, <3>1, GotoEffect DEF CheckConfig
    <3>2. CASE ReadPrevious(p)
      <4>1. op[p] \in ActivateCommand
        BY <1>0, <3>2, CommandKinds DEF ReadPrevious, ActivatePcs
      <4>2. op[p].name # NoName
        BY <1>b, <4>1 DEF ActivateCommand
      <4> QED
        BY <1>0, <3>2, <4>1, <4>2 DEF ReadPrevious, ActivateCommand, TypeOK
    <3> QED
      BY <1>8, <3>1, <3>2
  <2>2. UNCHANGED <<collections, alias, sidecars, builds, passed, failed>>
    BY <1>8 DEF CheckConfig, ReadPrevious
  <2>3. OwnCommand(p)'
    BY <1>c, <2>1, <2>2 DEF OwnCommand, InBuild, Owns, BuildPcs
  <2>4. \A n \in DOMAIN sidecars' : Earned(n)'
    BY <1>c, <2>1, <2>2 DEF Earned
  <2> QED
    BY <1>d, <2>2, <2>3, <2>4 DEF CollectionsHaveOneWriter, CreatorsAreDistinct
<1>9. CASE SwapAlias(p)
  <2>1. /\ op[p].pc = "swap" /\ op[p].name \in DOMAIN sidecars
        /\ op[p].previous # op[p].name
    BY <1>9, <1>c DEF SwapAlias, OwnCommand
  <2>2. /\ op'[p].pc \in {"idle", "drop"}
        /\ op'[p].pc = "drop" => op'[p].name = op[p].name /\ op'[p].previous = op[p].previous
    <3>1. Goto(p, "drop") \/ Finish(p)
      BY <1>9 DEF SwapAlias
    <3>2. CASE Goto(p, "drop")
      BY <1>0, <3>2, GotoEffect, GotoPrevious
    <3>3. CASE Finish(p)
      BY <1>0, <3>3, FinishEffect DEF Idle
    <3> QED
      BY <3>1, <3>2, <3>3
  <2>3. alias' = op[p].name /\ UNCHANGED <<collections, sidecars, builds, passed, failed>>
    BY <1>9 DEF SwapAlias
  <2>4. OwnCommand(p)'
    BY <2>1, <2>2, <2>3 DEF OwnCommand, InBuild, Owns, BuildPcs
  <2>5. \A n \in DOMAIN sidecars' : Earned(n)'
    BY <1>c, <2>1, <2>3 DEF Earned
  <2> QED
    BY <1>d, <2>1, <2>3, <2>4, <2>5 DEF CollectionsHaveOneWriter, CreatorsAreDistinct
<1>10. CASE DropPrevious(p)
  <2> DEFINE old == op[p].previous
  <2>1. /\ op[p].pc = "drop" /\ op'[p].pc = "forget" /\ op'[p].previous = old
        /\ op'[p].name = op[p].name
    BY <1>0, <1>10, GotoEffect, GotoPrevious DEF DropPrevious
  <2>2. alias = op[p].name /\ old # op[p].name
    BY <1>c, <2>1 DEF OwnCommand
  <2>3. /\ alias' = alias /\ UNCHANGED <<sidecars, builds, passed, failed>>
        /\ DOMAIN collections' = DOMAIN collections \ {old}
        /\ \A n \in DOMAIN collections' : collections'[n] = collections[n]
    BY <1>10, <2>2 DEF DropPrevious, Drop
  <2>4. OwnCommand(p)'
    BY <2>1, <2>2, <2>3 DEF OwnCommand, InBuild, Owns, BuildPcs
  <2>5. \A n \in DOMAIN sidecars' : n = old \/ Earned(n)'
    BY <1>c, <2>1, <2>3 DEF Earned
  <2>6. CollectionsHaveOneWriter' /\ CreatorsAreDistinct'
    BY <1>d, <2>3 DEF CollectionsHaveOneWriter, CreatorsAreDistinct
  <2> QED
    BY <1>d, <2>1, <2>3, <2>4, <2>5, <2>6
<1>11. CASE ForgetPrevious(p)
  <2> DEFINE old == op[p].previous
  <2>1. op[p].pc = "forget" /\ op'[p].pc = "idle"
    BY <1>0, <1>11, FinishEffect DEF ForgetPrevious, Idle
  <2>2. alias = op[p].name /\ old # op[p].name
    BY <1>c, <2>1 DEF OwnCommand
  <2>3. /\ UNCHANGED <<collections, alias, builds, passed, failed>>
        /\ DOMAIN sidecars' = DOMAIN sidecars \ {old}
        /\ \A n \in DOMAIN sidecars' : sidecars'[n] = sidecars[n]
    BY <1>11 DEF ForgetPrevious, Drop
  <2>4. OwnCommand(p)'
    BY <2>1 DEF OwnCommand, InBuild, Owns, BuildPcs
  <2>5. \A n \in DOMAIN sidecars' : Earned(n)'
    BY <1>c, <2>3 DEF Earned
  <2>6. alias' # NoName => alias' \in DOMAIN sidecars'
    BY <1>d, <2>2, <2>3
  <2> QED
    BY <1>d, <2>3, <2>4, <2>5, <2>6 DEF CollectionsHaveOneWriter, CreatorsAreDistinct
<1>12. ~Abort(p)
  BY DEF Abort
<1> HIDE DEF Holds
<1> QED
  BY <1>1, <1>2, <1>3, <1>4, <1>5, <1>6, <1>7, <1>8, <1>9, <1>10, <1>11, <1>12 DEF Start, Step

(* OneOperatorInv is an invariant when commands run one after the other and to
   their end, whatever they delete. *)
THEOREM OneOperator ==
    ASSUME \A p, q \in Procs : p = q, MayAbort = FALSE
    PROVE  Spec => []OneOperatorInv
<1>1. OneOperatorInv /\ [Next]_vars => OneOperatorInv'
  <2>1. ASSUME OneOperatorInv, UNCHANGED vars PROVE OneOperatorInv'
    BY <2>1 DEF OneOperatorInv, TypeOK, CommandsTakeTurns, BuildsAreUnique, InBuild, Owns,
       BuildersOwnTheirCollection, CollectionsHaveOneWriter, CreatorsAreDistinct,
       KeptSidecarsAreEarned, Forgetting, vars
  <2> QED
    BY <2>1, OneOperatorStep DEF Next
<1> QED
  BY OneOperatorInit, <1>1, PTL DEF Spec

(* delete_semantic_profile: no profile is left without its collection when
   commands that delete run one after the other and are not cut off. *)
THEOREM NoOrphanSidecars ==
    ASSUME \A p, q \in Procs : p = q, MayAbort = FALSE
    PROVE  Spec => []NoOrphanSidecarAtRest
<1>1. OneOperatorInv => NoOrphanSidecarAtRest
  BY DEF OneOperatorInv, KeptSidecarsAreEarned, Forgetting, NoOrphanSidecarAtRest
<1> QED
  BY <1>1, OneOperator, PTL

(* What is served is never what is being forgotten. *)
LEMMA ServedIsEarned ==
    ASSUME OneOperatorInv, alias # NoName
    PROVE  alias \in DOMAIN sidecars /\ Earned(alias)
<1>1. alias \in DOMAIN sidecars
  BY DEF OneOperatorInv
<1>2. ~Forgetting(alias)
  BY DEF OneOperatorInv, CommandsTakeTurns, Forgetting
<1> QED
  BY <1>1, <1>2 DEF OneOperatorInv, KeptSidecarsAreEarned, Earned

(* The docstring's promise with --delete-old, for commands run one after the
   other and to their end. *)
THEOREM OneOperatorServesValidated ==
    ASSUME \A p, q \in Procs : p = q, MayAbort = FALSE
    PROVE  Spec => [](ServedWasValidated /\ FailedBuildsAreNotServed)
<1>1. OneOperatorInv => ServedWasValidated /\ FailedBuildsAreNotServed
  <2> SUFFICES ASSUME OneOperatorInv PROVE ServedWasValidated /\ FailedBuildsAreNotServed
    OBVIOUS
  <2>1. CASE alias = NoName
    <3>1. alias \notin DOMAIN collections
      BY <2>1 DEF OneOperatorInv, TypeOK, Names, NoName
    <3> QED
      BY <2>1, <3>1 DEF ServedWasValidated, FailedBuildsAreNotServed
  <2>2. CASE alias # NoName
    <3>1. alias \in DOMAIN sidecars /\ Earned(alias)
      BY <2>2, ServedIsEarned
    <3>2. collections[alias].points # {}
      <4>1. Cardinality({}) # BatchCount
        BY FS_EmptySet, BoundsAssumption
      <4> QED
        BY <3>1, <4>1 DEF Earned
    <3>3. collections[alias].writers = {sidecars[alias].build}
      BY <3>1, <3>2 DEF Earned, OneOperatorInv, CollectionsHaveOneWriter
    <3> QED
      BY <2>2, <3>1, <3>3 DEF Earned, ServedWasValidated, FailedBuildsAreNotServed
  <2> QED
    BY <2>1, <2>2
<1> QED
  BY <1>1, OneOperator, PTL

-----------------------------------------------------------------------------
(* The refinement, with deletion: forgetting a profile retires its version at
   the moment its collection is dropped. *)
LEMMA RefinesNextOneOperator ==
    ASSUME \A p, q \in Procs : p = q, OneOperatorInv, OneOperatorInv', [Next]_vars
    PROVE  [Served!ServedNext]_Served!servedVars
<1> USE DEF stores
<1>0. /\ TypeOK /\ TypeOK'
      /\ DOMAIN sidecars \subseteq Names /\ DOMAIN collections \subseteq Names
      /\ NoName \notin Names
      /\ collections = [n \in DOMAIN collections |-> collections[n]]
  BY DEF OneOperatorInv, TypeOK, Names, NoName
<1>1. CASE UNCHANGED <<sidecars, alias>> /\ DOMAIN sidecars \cap DOMAIN collections'
                                             = DOMAIN sidecars \cap DOMAIN collections
  <2>1. UNCHANGED <<PublishedBuilds, ServingBuild>>
    BY <1>1 DEF ServingBuild, PublishedBuilds
  <2> QED
    BY <2>1 DEF Served!servedVars
<1>2. ASSUME NEW p \in Procs, WriteSidecar(p)
      PROVE  Served!ServedNext
  <2> DEFINE m == op[p].name
             b == op[p].build
  <2>1. OwnCommand(p) /\ InBuild(p) /\ Owns(p) /\ op[p].pc = "sidecar"
    BY <1>2, OneCommand DEF WriteSidecar, InBuild, Owns, BuildPcs, OneOperatorInv
  <2>2. /\ m \in DOMAIN collections /\ collections[m].creator = b
        /\ \A n \in DOMAIN sidecars : sidecars[n].build # b
    BY <2>1 DEF OwnCommand
  <2>3. \A n \in DOMAIN sidecars : Earned(n)
    BY <2>1, OneCommand DEF OneOperatorInv, KeptSidecarsAreEarned, Earned
  <2>4. m \notin DOMAIN sidecars
    BY <2>2, <2>3 DEF Earned
  <2>5. b \in Builds /\ m \in Names
    BY <1>0, <2>1, CommandKinds DEF InBuild, BuildCommand
  <2>6. /\ DOMAIN sidecars' = DOMAIN sidecars \cup {m}
        /\ \A n \in DOMAIN sidecars : sidecars'[n] = sidecars[n]
        /\ sidecars'[m].build = b /\ alias' = alias /\ collections' = collections
    BY <1>2, <2>4 DEF WriteSidecar, Put
  <2>7. b \notin PublishedBuilds
    BY <2>2 DEF PublishedBuilds
  <2>8. PublishedBuilds' = PublishedBuilds \cup {b}
    BY <2>2, <2>4, <2>6 DEF PublishedBuilds
  <2>9. ServingBuild' = ServingBuild
    <3>1. alias # m
      BY <1>0, <2>4, <2>5 DEF OneOperatorInv
    <3> QED
      BY <2>6, <3>1 DEF ServingBuild
  <2> QED
    BY <2>5, <2>7, <2>8, <2>9 DEF Served!ServedNext, Served!Publish
<1>3. ASSUME NEW p \in Procs, SwapAlias(p)
      PROVE  Served!ServedNext
  <2>1. op[p].name \in DOMAIN sidecars /\ op[p].name \in DOMAIN collections
    BY <1>3 DEF SwapAlias, Exists, OneOperatorInv, CommandsTakeTurns
  <2>2. alias' = op[p].name /\ sidecars' = sidecars /\ collections' = collections
    BY <1>3 DEF SwapAlias
  <2> DEFINE b == sidecars[op[p].name].build
  <2>3. ServingBuild' = b
    BY <2>1, <2>2 DEF ServingBuild
  <2>4. b \in PublishedBuilds /\ b \in Builds
    BY <1>0, <2>1 DEF PublishedBuilds, TypeOK, Sidecar
  <2>5. PublishedBuilds' = PublishedBuilds
    BY <2>2 DEF PublishedBuilds
  <2> QED
    BY <2>3, <2>4, <2>5 DEF Served!ServedNext, Served!Serve
<1>4. ASSUME NEW p \in Procs, DropPrevious(p)
      PROVE  Served!ServedNext \/ UNCHANGED <<PublishedBuilds, ServingBuild>>
  <2> DEFINE old == op[p].previous
  <2>1. op[p].pc = "drop" /\ OwnCommand(p)
    BY <1>4, OneCommand DEF DropPrevious, OneOperatorInv
  <2>2. alias = op[p].name /\ old # alias
    BY <2>1 DEF OwnCommand
  <2>3. /\ alias' = alias /\ sidecars' = sidecars
        /\ DOMAIN collections' = DOMAIN collections \ {old}
    BY <1>4, <2>2 DEF DropPrevious, Drop
  <2>4. ServingBuild' = ServingBuild
    BY <2>3 DEF ServingBuild
  <2>5. CASE old \notin DOMAIN sidecars \/ old \notin DOMAIN collections
    <3>1. PublishedBuilds' = PublishedBuilds
      BY <2>3, <2>5 DEF PublishedBuilds
    <3> QED
      BY <2>4, <3>1
  <2>6. CASE old \in DOMAIN sidecars /\ old \in DOMAIN collections
    <3> DEFINE v == sidecars[old].build
    <3>1. v \in PublishedBuilds /\ v \in Builds
      BY <1>0, <2>6 DEF PublishedBuilds, TypeOK, Sidecar
    <3>2. \A n \in DOMAIN sidecars : Earned(n)
      BY <2>1, OneCommand DEF OneOperatorInv, KeptSidecarsAreEarned, Earned
    <3>3. \A n \in DOMAIN sidecars : sidecars[n].build = v => n = old
      BY <2>6, <3>2 DEF Earned, OneOperatorInv, CreatorsAreDistinct
    <3>4. PublishedBuilds' = PublishedBuilds \ {v}
      <4>1. PublishedBuilds' = {sidecars[n].build : n \in DOMAIN sidecars \cap (DOMAIN collections \ {old})}
        BY <2>3 DEF PublishedBuilds
      <4> HIDE DEF v, old
      <4>2. ASSUME NEW x \in PublishedBuilds' PROVE x \in PublishedBuilds \ {v}
        BY <3>3, <4>1 DEF PublishedBuilds
      <4>3. ASSUME NEW x \in PublishedBuilds \ {v} PROVE x \in PublishedBuilds'
        BY <4>1 DEF PublishedBuilds, v
      <4> QED
        BY <4>2, <4>3
    <3>5. alias \in Names
      BY <1>0, <2>1, <2>2, CommandKinds
    <3>6. ServingBuild # v
      <4>1. alias \in DOMAIN sidecars
        BY <1>0, <3>5 DEF OneOperatorInv
      <4> QED
        BY <2>2, <3>3, <4>1 DEF ServingBuild
    <3> QED
      BY <2>4, <3>1, <3>4, <3>6 DEF Served!ServedNext, Served!Retire
  <2> QED
    BY <2>5, <2>6
<1>5. ASSUME NEW p \in Procs, ForgetPrevious(p)
      PROVE  UNCHANGED <<PublishedBuilds, ServingBuild>>
  <2> DEFINE old == op[p].previous
  <2>1. op[p].pc = "forget" /\ OwnCommand(p)
    BY <1>5, OneCommand DEF ForgetPrevious, OneOperatorInv
  <2>2. alias = op[p].name /\ old # alias /\ old \notin DOMAIN collections
    BY <2>1 DEF OwnCommand
  <2>3. /\ alias' = alias /\ collections' = collections
        /\ DOMAIN sidecars' = DOMAIN sidecars \ {old}
        /\ \A n \in DOMAIN sidecars' : sidecars'[n] = sidecars[n]
    BY <1>5 DEF ForgetPrevious, Drop
  <2>4. ServingBuild' = ServingBuild
    BY <2>2, <2>3 DEF ServingBuild
  <2>5. DOMAIN sidecars' \cap DOMAIN collections' = DOMAIN sidecars \cap DOMAIN collections
    BY <2>2, <2>3
  <2>6. PublishedBuilds' = PublishedBuilds
    BY <2>3, <2>5 DEF PublishedBuilds
  <2> QED
    BY <2>4, <2>6
<1>6. ASSUME NEW p \in Procs, CreateCollection(p)
      PROVE  UNCHANGED <<sidecars, alias>> /\ DOMAIN sidecars \cap DOMAIN collections'
                                                = DOMAIN sidecars \cap DOMAIN collections
  <2>1. op[p].pc = "create"
    BY <1>6 DEF CreateCollection
  <2>2. \A n \in DOMAIN sidecars : Earned(n)
    BY <2>1, OneCommand DEF OneOperatorInv, KeptSidecarsAreEarned, Earned
  <2>3. /\ op[p].name \notin DOMAIN sidecars
        /\ DOMAIN collections' = DOMAIN collections \cup {op[p].name}
        /\ UNCHANGED <<sidecars, alias>>
    BY <1>6, <2>2 DEF CreateCollection, Exists, Put, Earned
  <2> QED
    BY <2>3
<1>7. ASSUME NEW p \in Procs, Start(p) \/ Step(p) \/ Abort(p),
             ~WriteSidecar(p), ~SwapAlias(p), ~DropPrevious(p), ~ForgetPrevious(p),
             ~CreateCollection(p)
      PROVE  UNCHANGED <<sidecars, alias>> /\ DOMAIN collections' = DOMAIN collections
  <2>1. ASSUME UpsertBatch(p) PROVE DOMAIN collections' = DOMAIN collections
    BY <1>0, <2>1 DEF UpsertBatch
  <2> QED
    BY <1>7, <2>1 DEF Start, Step, StartBuild, StartActivate, UpsertBatch,
       CountPoints, ValidateConfig, EvaluationPasses, ValidationFails, CheckConfig,
       ReadPrevious, Refused, Abort
<1>8. CASE UNCHANGED vars
  BY <1>1, <1>8 DEF vars
<1>9. ASSUME NEW p \in Procs, Start(p) \/ Step(p) \/ Abort(p)
      PROVE  [Served!ServedNext]_Served!servedVars
  <2>1. CASE CreateCollection(p)
    BY <1>1, <1>6, <2>1
  <2>2. CASE DropPrevious(p)
    BY <1>4, <2>2 DEF Served!servedVars
  <2>3. CASE ForgetPrevious(p)
    BY <1>5, <2>3 DEF Served!servedVars
  <2>4. CASE WriteSidecar(p) \/ SwapAlias(p)
    BY <1>2, <1>3, <2>4
  <2>5. CASE ~WriteSidecar(p) /\ ~SwapAlias(p) /\ ~DropPrevious(p) /\ ~ForgetPrevious(p)
             /\ ~CreateCollection(p)
    <3>1. UNCHANGED <<sidecars, alias>> /\ DOMAIN collections' = DOMAIN collections
      BY <1>7, <1>9, <2>5
    <3> QED
      BY <1>1, <3>1
  <2> QED
    BY <2>1, <2>2, <2>3, <2>4, <2>5
<1> QED
  BY <1>8, <1>9 DEF Next

(* The lifecycle with deletion, one command after the other, still publishes,
   serves and retires versions as ServedVersions does: what is retired is never
   what is served. *)
THEOREM OneOperatorImplementsServedVersions ==
    ASSUME \A p, q \in Procs : p = q, MayAbort = FALSE
    PROVE  Spec => ServesPublishedVersions
BY RefinesInit, RefinesNextOneOperator, OneOperator, PTL
   DEF ServesPublishedVersions, Spec, Served!ServedSpec

(* Deleting changes nothing for what stays: profiles are immutable and the
   served collection is frozen. *)
LEMMA OneOperatorFreezes ==
    ASSUME \A p, q \in Procs : p = q, OneOperatorInv, [Next]_vars
    PROVE  /\ \A n \in DOMAIN sidecars \cap DOMAIN sidecars' : sidecars'[n] = sidecars[n]
           /\ alias # NoName /\ alias \in DOMAIN collections =>
                alias \in DOMAIN collections' /\ collections'[alias] = collections[alias]
<1> DEFINE Frozen ==
             /\ \A n \in DOMAIN sidecars \cap DOMAIN sidecars' : sidecars'[n] = sidecars[n]
             /\ alias # NoName /\ alias \in DOMAIN collections =>
                  alias \in DOMAIN collections' /\ collections'[alias] = collections[alias]
<1> USE DEF stores
<1>1. collections = [n \in DOMAIN collections |-> collections[n]]
  BY DEF OneOperatorInv, TypeOK
<1>2. ASSUME NEW p \in Procs, Owns(p)
      PROVE  op[p].name \notin DOMAIN sidecars
  <2>1. OwnCommand(p) /\ InBuild(p) /\ op[p].pc # "forget"
    BY <1>2, OneCommand DEF Owns, InBuild, BuildPcs, OneOperatorInv
  <2>2. \A n \in DOMAIN sidecars : Earned(n)
    BY <2>1, OneCommand DEF OneOperatorInv, KeptSidecarsAreEarned, Earned
  <2> QED
    BY <1>2, <2>1, <2>2 DEF OwnCommand, Earned
<1>3. CASE UNCHANGED vars
  BY <1>3 DEF vars
<1>4. ASSUME NEW p \in Procs, UpsertBatch(p) PROVE Frozen
  <2>1. op[p].name \notin DOMAIN sidecars
    BY <1>2, <1>4 DEF UpsertBatch, Owns, BuildPcs
  <2>2. sidecars' = sidecars /\ DOMAIN collections' = DOMAIN collections
        /\ \A n \in DOMAIN collections : n # op[p].name => collections'[n] = collections[n]
    BY <1>1, <1>4 DEF UpsertBatch
  <2>3. alias # NoName => alias # op[p].name
    BY <2>1 DEF OneOperatorInv
  <2> QED
    BY <2>2, <2>3
<1>5. ASSUME NEW p \in Procs, WriteSidecar(p) PROVE Frozen
  <2>1. op[p].name \notin DOMAIN sidecars
    BY <1>2, <1>5 DEF WriteSidecar, Owns, BuildPcs
  <2> QED
    BY <1>5, <2>1 DEF WriteSidecar, Put
<1>6. ASSUME NEW p \in Procs, DropPrevious(p) PROVE Frozen
  <2>1. OwnCommand(p) /\ op[p].pc = "drop"
    BY <1>6, OneCommand DEF OneOperatorInv, DropPrevious
  <2>2. op[p].previous # alias
    BY <2>1 DEF OwnCommand
  <2> QED
    BY <1>6, <2>2 DEF DropPrevious, Drop
<1>7. ASSUME NEW p \in Procs, CreateCollection(p) \/ ForgetPrevious(p) PROVE Frozen
  BY <1>7 DEF CreateCollection, Exists, Put, ForgetPrevious, Drop
<1>8. ASSUME NEW p \in Procs, Start(p) \/ Step(p) \/ Abort(p),
             ~CreateCollection(p), ~UpsertBatch(p), ~WriteSidecar(p), ~DropPrevious(p),
             ~ForgetPrevious(p)
      PROVE  UNCHANGED <<collections, sidecars>>
  BY <1>8 DEF Start, Step, StartBuild, StartActivate, CountPoints, ValidateConfig,
     EvaluationPasses, ValidationFails, CheckConfig, ReadPrevious, SwapAlias, Refused, Abort
<1>9. ASSUME NEW p \in Procs, Start(p) \/ Step(p) \/ Abort(p) PROVE Frozen
  <2>1. ASSUME UNCHANGED <<collections, sidecars>> PROVE Frozen
    BY <2>1
  <2> HIDE DEF Frozen
  <2> QED
    BY <1>4, <1>5, <1>6, <1>7, <1>8, <1>9, <2>1
<1> QED
  BY <1>3, <1>9 DEF Next

(* One operator who is never interrupted: a sidecar is neither changed nor
   replaced while it exists, and no command adds to the collection that is
   served or removes it. *)
THEOREM OneOperatorServedDataIsImmutable ==
    ASSUME \A p, q \in Procs : p = q, MayAbort = FALSE
    PROVE  Spec => SidecarsAreImmutable /\ ServedCollectionIsFrozen
<1>1. OneOperatorInv /\ [Next]_vars =>
        [\A n \in DOMAIN sidecars \cap DOMAIN sidecars' : sidecars'[n] = sidecars[n]]_vars
  BY OneOperatorFreezes
<1>2. OneOperatorInv /\ [Next]_vars =>
        [alias # NoName /\ alias \in DOMAIN collections =>
           /\ alias \in DOMAIN collections'
           /\ collections'[alias] = collections[alias]]_vars
  BY OneOperatorFreezes
<1> QED
  BY <1>1, <1>2, OneOperator, PTL DEF SidecarsAreImmutable, ServedCollectionIsFrozen, Spec
=============================================================================
