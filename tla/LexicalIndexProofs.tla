------------------------- MODULE LexicalIndexProofs -------------------------
(***************************************************************************)
(* Theorems about LexicalIndex for every number of operators, names,       *)
(* builds and bulk requests.                                               *)
(***************************************************************************)
EXTENDS LexicalIndex, TLAPS

(* What the step of a command shows of its kind. *)
LEMMA CommandKinds ==
    ASSUME TypeOK, NEW p \in Procs
    PROVE  /\ op[p].pc \in BuildPcs => op[p] \in BuildCommand
           /\ op[p].pc = "drop" => op[p] \in ActivateCommand
           /\ op[p].pc \in SwapPcs => op[p] \in BuildCommand \cup ActivateCommand
           /\ op[p].pc # "idle" => op[p].name \in Names /\ op[p].previous \subseteq Names
<1>1. op[p] \in BuildCommand \/ op[p] \in ActivateCommand \/ op[p] = Idle
  BY DEF TypeOK, Commands
<1>2. CASE op[p] \in BuildCommand
  BY <1>2 DEF BuildCommand, BuildPcs, SwapPcs
<1>3. CASE op[p] \in ActivateCommand
  BY <1>3 DEF ActivateCommand, BuildPcs, SwapPcs
<1>4. CASE op[p] = Idle
  BY <1>4 DEF Idle, BuildPcs, SwapPcs
<1> QED
  BY <1>1, <1>2, <1>3, <1>4

LEMMA GotoBuild ==
    ASSUME TypeOK, NEW p \in Procs, op[p] \in BuildCommand,
           NEW pc \in BuildPcs \cup SwapPcs, Goto(p, pc)
    PROVE  op' \in [Procs -> Commands]
<1>1. [op[p] EXCEPT !.pc = pc] \in BuildCommand
  BY DEF BuildCommand
<1> QED
  BY <1>1 DEF TypeOK, Goto, Commands

LEMMA FinishType ==
    ASSUME TypeOK, NEW p \in Procs, Finish(p)
    PROVE  op' \in [Procs -> Commands]
BY DEF TypeOK, Finish, Commands

(* What Goto and Finish change, and what they leave alone. *)
LEMMA GotoEffect ==
    ASSUME TypeOK, NEW p \in Procs, NEW pc, Goto(p, pc)
    PROVE  /\ op'[p].pc = pc
           /\ op'[p].name = op[p].name /\ op'[p].build = op[p].build
           /\ op'[p].batch = op[p].batch
           /\ op'[p].previous = op[p].previous /\ op'[p].deleteOld = op[p].deleteOld
           /\ \A q \in Procs : q # p => op'[q] = op[q]
<1>1. op[p] \in BuildCommand \/ op[p] \in ActivateCommand \/ op[p] = Idle
  BY DEF TypeOK, Commands
<1>2. op'[p] = [op[p] EXCEPT !.pc = pc] /\ \A q \in Procs : q # p => op'[q] = op[q]
  BY DEF TypeOK, Goto
<1>3. CASE op[p] \in BuildCommand
  BY <1>2, <1>3 DEF BuildCommand
<1>4. CASE op[p] \in ActivateCommand
  BY <1>2, <1>4 DEF ActivateCommand
<1>5. CASE op[p] = Idle
  BY <1>2, <1>5 DEF Idle
<1> QED
  BY <1>1, <1>3, <1>4, <1>5

LEMMA FinishEffect ==
    ASSUME TypeOK, NEW p \in Procs, Finish(p)
    PROVE  op'[p] = Idle /\ \A q \in Procs : q # p => op'[q] = op[q]
BY DEF TypeOK, Finish

(* Put and Drop keep a map from names well typed. *)
LEMMA PutType ==
    ASSUME NEW R, NEW f, NEW k \in Names, NEW v \in R,
           \E S \in SUBSET Names : f \in [S -> R]
    PROVE  \E S \in SUBSET Names : Put(f, k, v) \in [S -> R]
<1>1. PICK S \in SUBSET Names : f \in [S -> R]
  OBVIOUS
<1>2. Put(f, k, v) \in [S \cup {k} -> R]
  BY <1>1 DEF Put
<1> QED
  BY <1>2

LEMMA DropType ==
    ASSUME NEW R, NEW f, NEW k,
           \E S \in SUBSET Names : f \in [S -> R]
    PROVE  \E S \in SUBSET Names : Drop(f, k) \in [S -> R]
<1>1. PICK S \in SUBSET Names : f \in [S -> R]
  OBVIOUS
<1>2. Drop(f, k) \in [S \ {k} -> R]
  BY <1>1 DEF Drop
<1> QED
  BY <1>2

LEMMA BulkTargetType ==
    ASSUME TypeOK, NEW n \in Names
    PROVE  BulkTarget(n) \in Index
<1>1. PICK S \in SUBSET Names : indices \in [S -> Index]
  BY DEF TypeOK
<1> QED
  BY <1>1 DEF BulkTarget, Exists, Index

-----------------------------------------------------------------------------
LEMMA InitType == Init => TypeOK
<1> SUFFICES ASSUME Init PROVE TypeOK
  OBVIOUS
<1>1. /\ indices \in [{} -> Index] /\ alias = {} /\ op \in [Procs -> Commands]
      /\ builds = 0 /\ passed = {} /\ failed = {} /\ raced = FALSE /\ overtaken = {}
  BY DEF Init, Commands
<1>2. \E S \in SUBSET Names : indices \in [S -> Index]
  BY <1>1
<1>3. builds \in 0..MaxBuild
  BY <1>1, BoundsAssumption
<1>4. alias \subseteq DOMAIN indices
  BY <1>1
<1> QED
  BY <1>1, <1>2, <1>3, <1>4 DEF TypeOK

LEMMA StartType ==
    ASSUME TypeOK, NEW p \in Procs, Start(p)
    PROVE  TypeOK'
<1>1. ASSUME NEW activate \in BOOLEAN, StartBuild(p, activate)
      PROVE  TypeOK'
  <2>1. builds + 1 \in Builds /\ builds + 1 \in 0..MaxBuild /\ NextName \in Names
    BY <1>1, BoundsAssumption DEF StartBuild, TypeOK, Builds
  <2>2. 1 \in Batches
    BY BoundsAssumption DEF Batches
  <2>3. NewBuild(NextName, builds + 1, activate) \in BuildCommand
    BY <2>1, <2>2 DEF BuildCommand, NewBuild, BuildPcs
  <2>4. op' \in [Procs -> Commands]
    BY <1>1, <2>3 DEF StartBuild, TypeOK, Commands
  <2> QED
    BY <1>1, <2>1, <2>4 DEF StartBuild, TypeOK, stores
<1>2. ASSUME NEW n \in Names, NEW deleteOld \in DeleteOld, StartActivate(p, n, deleteOld)
      PROVE  TypeOK'
  <2>1. NewActivation(n, deleteOld) \in ActivateCommand
    BY FlagsAssumption DEF ActivateCommand, SwapPcs, NewActivation
  <2>2. op' \in [Procs -> Commands]
    BY <1>2, <2>1 DEF StartActivate, TypeOK, Commands
  <2> QED
    BY <1>2, <2>2 DEF StartActivate, TypeOK, stores, ghosts
<1> QED
  BY <1>1, <1>2 DEF Start

LEMMA StepType ==
    ASSUME TypeOK, NEW p \in Procs, Step(p)
    PROVE  TypeOK'
<1> USE DEF stores, ghosts
<1>1. CASE CreateIndex(p)
  <2>1. op[p] \in BuildCommand
    BY <1>1, CommandKinds DEF CreateIndex, BuildPcs
  <2> DEFINE v == [creator |-> op[p].build, docs |-> {}, writers |-> {}]
  <2>2. v \in Index /\ op[p].name \in Names
    BY <2>1 DEF BuildCommand, Index
  <2>3. \E S \in SUBSET Names : indices' \in [S -> Index]
    BY <1>1, <2>2, PutType DEF CreateIndex, TypeOK
  <2>4. op' \in [Procs -> Commands]
    BY <1>1, <2>1, GotoBuild DEF CreateIndex, BuildPcs
  <2>5. alias' \subseteq DOMAIN indices'
    BY <1>1 DEF CreateIndex, Put, TypeOK
  <2> QED
    BY <1>1, <2>3, <2>4, <2>5 DEF CreateIndex, TypeOK
<1>2. CASE BulkIndex(p)
  <2> DEFINE n == op[p].name
             b == op[p].batch
             old == BulkTarget(n)
             v == [creator |-> old.creator, docs |-> old.docs \cup {b},
                   writers |-> old.writers \cup {op[p].build}]
             c == [op[p] EXCEPT !.pc = IF b = BatchCount THEN "validate" ELSE "bulk",
                                !.batch = IF b = BatchCount THEN 1 ELSE b + 1]
  <2>1. op[p] \in BuildCommand
    BY <1>2, CommandKinds DEF BulkIndex, BuildPcs
  <2>2. n \in Names /\ b \in Batches /\ op[p].build \in Builds
    BY <2>1 DEF BuildCommand
  <2>3. old \in Index
    BY <2>2, BulkTargetType
  <2>4. v \in Index
    BY <2>2, <2>3 DEF Index
  <2>5. indices' = Put(indices, n, v) /\ op' = [op EXCEPT ![p] = c]
    BY <1>2 DEF BulkIndex
  <2>6. \E S \in SUBSET Names : indices' \in [S -> Index]
    BY <2>2, <2>4, <2>5, PutType DEF TypeOK
  <2>7. (IF b = BatchCount THEN 1 ELSE b + 1) \in Batches
    BY <2>2, BoundsAssumption DEF Batches
  <2>8. c \in BuildCommand
    BY <2>1, <2>7 DEF BuildCommand, BuildPcs
  <2>9. op' \in [Procs -> Commands]
    BY <2>5, <2>8 DEF TypeOK, Commands
  <2>10. alias' \subseteq DOMAIN indices'
    BY <1>2, <2>5 DEF BulkIndex, Put, TypeOK
  <2> QED
    BY <1>2, <2>6, <2>9, <2>10 DEF BulkIndex, TypeOK
<1>3. CASE ValidationPasses(p)
  <2>1. op[p] \in BuildCommand
    BY <1>3, CommandKinds DEF ValidationPasses, BuildPcs
  <2>2. op[p].build \in Builds /\ op[p].name \in Names
    BY <2>1 DEF BuildCommand
  <2>3. op' \in [Procs -> Commands]
    BY <1>3, <2>1, GotoBuild, FinishType DEF ValidationPasses, SwapPcs
  <2> QED
    BY <1>3, <2>2, <2>3 DEF ValidationPasses, TypeOK
<1>4. CASE ValidationFails(p)
  <2>1. op[p] \in BuildCommand
    BY <1>4, CommandKinds DEF ValidationFails, BuildPcs
  <2>2. op[p].build \in Builds
    BY <2>1 DEF BuildCommand
  <2>3. op' \in [Procs -> Commands]
    BY <1>4, FinishType DEF ValidationFails
  <2> QED
    BY <1>4, <2>2, <2>3 DEF ValidationFails, TypeOK
<1>5. CASE ReadTargets(p)
  <2> DEFINE c == [op[p] EXCEPT !.pc = "swap", !.previous = alias \ {op[p].name}]
  <2>1. op[p] \in BuildCommand \cup ActivateCommand
    BY <1>5, CommandKinds DEF ReadTargets, SwapPcs
  <2>2. alias \subseteq Names
    BY DEF TypeOK
  <2>3. c \in BuildCommand \cup ActivateCommand
    BY <2>1, <2>2 DEF BuildCommand, ActivateCommand, SwapPcs
  <2>4. op' = [op EXCEPT ![p] = c]
    BY <1>5 DEF ReadTargets
  <2>5. op' \in [Procs -> Commands]
    BY <2>3, <2>4 DEF TypeOK, Commands
  <2> QED
    BY <1>5, <2>5 DEF ReadTargets, TypeOK
<1>6. CASE SwapAlias(p)
  <2>1. op[p] \in BuildCommand \cup ActivateCommand
    BY <1>6, CommandKinds DEF SwapAlias, SwapPcs
  <2>2. CASE op[p].deleteOld /\ op[p].previous # {}
    <3>1. op[p] \in ActivateCommand
      BY <2>1, <2>2 DEF BuildCommand
    <3>2. [op[p] EXCEPT !.pc = "drop"] \in ActivateCommand
      BY <3>1 DEF ActivateCommand
    <3> QED
      BY <1>6, <2>2, <3>2 DEF SwapAlias, Deleting, Goto, TypeOK, Commands
  <2>3. CASE ~(op[p].deleteOld /\ op[p].previous # {})
    BY <1>6, <2>3, FinishType DEF SwapAlias, Deleting, TypeOK
  <2> QED
    BY <2>2, <2>3
<1>7. CASE DropPrevious(p)
  <2>1. op[p] \in ActivateCommand
    BY <1>7, CommandKinds DEF DropPrevious
  <2>2. PICK old \in op[p].previous :
          /\ indices' = Drop(indices, old)
          /\ alias' = alias \ {old}
          /\ IF op[p].previous = {old} THEN Finish(p)
             ELSE op' = [op EXCEPT ![p].previous = @ \ {old}]
    BY <1>7 DEF DropPrevious
  <2>3. \E S \in SUBSET Names : indices' \in [S -> Index]
    BY <2>2, DropType DEF TypeOK
  <2>4. [op[p] EXCEPT !.previous = @ \ {old}] \in ActivateCommand
    BY <2>1 DEF ActivateCommand
  <2>5. op' \in [Procs -> Commands]
    BY <2>2, <2>4, FinishType DEF TypeOK, Commands
  <2>6. alias' \subseteq DOMAIN indices'
    BY <2>2 DEF Drop, TypeOK
  <2> QED
    BY <1>7, <2>3, <2>5, <2>6 DEF DropPrevious, TypeOK
<1>8. CASE Refused(p)
  BY <1>8, FinishType DEF Refused, TypeOK
<1> QED
  BY <1>1, <1>2, <1>3, <1>4, <1>5, <1>6, <1>7, <1>8 DEF Step

LEMMA AbortType ==
    ASSUME TypeOK, NEW p \in Procs, Abort(p)
    PROVE  TypeOK'
BY FinishType DEF Abort, TypeOK, stores, ghosts

LEMMA NextType == TypeOK /\ [Next]_vars => TypeOK'
<1>1. ASSUME TypeOK, UNCHANGED vars PROVE TypeOK'
  BY <1>1 DEF TypeOK, vars
<1> QED
  BY <1>1, StartType, StepType, AbortType DEF Next

(* Type correctness: commands, indices and alias stay what they are declared
   to be, and the alias leads to indices that exist. *)
THEOREM TypeCorrect == Spec => []TypeOK
BY InitType, NextType, PTL DEF Spec

-----------------------------------------------------------------------------
(* Steps that leave the alias and the ghost alone keep RaceInv when a command
   that is now to swap has just read the alias. *)
LEMMA RaceFrame ==
    ASSUME RaceInv, TypeOK', NEW p \in Procs,
           \A q \in Procs : q # p => op'[q] = op[q],
           alias' \subseteq alias, raced' = raced,
           op'[p].pc = "swap" =>
               alias' \subseteq op'[p].previous \cup {op'[p].name}
    PROVE  RaceInv'
<1>1. TwoTargetsNeedARace'
  BY DEF RaceInv, TwoTargetsNeedARace
<1>2. ASSUME ~raced', NEW q \in Procs, op'[q].pc = "swap"
      PROVE  alias' \subseteq op'[q].previous \cup {op'[q].name}
  BY <1>2 DEF RaceInv
<1> QED
  BY <1>1, <1>2 DEF RaceInv

LEMMA RaceStep ==
    ASSUME RaceInv, NEW p \in Procs, Start(p) \/ Step(p) \/ Abort(p)
    PROVE  RaceInv'
<1> USE DEF stores, ghosts
<1>0. TypeOK /\ TypeOK' /\ op \in [Procs -> Commands]
  BY StartType, StepType, AbortType DEF RaceInv, TypeOK
<1>1. CASE Start(p)
  <2>1. /\ alias' = alias /\ raced' = raced
        /\ \A q \in Procs : q # p => op'[q] = op[q]
        /\ op'[p].pc # "swap"
    BY <1>0, <1>1 DEF Start, StartBuild, StartActivate, NewBuild, NewActivation
  <2> QED
    BY <1>0, <2>1, RaceFrame
<1>2. CASE CreateIndex(p)
  BY <1>0, <1>2, GotoEffect, RaceFrame DEF CreateIndex
<1>3. CASE BulkIndex(p)
  <2>1. op[p] \in BuildCommand
    BY <1>0, <1>3, CommandKinds DEF BulkIndex, BuildPcs
  <2>2. /\ op'[p].pc # "swap" /\ alias' = alias /\ raced' = raced
        /\ \A q \in Procs : q # p => op'[q] = op[q]
    BY <1>0, <1>3, <2>1 DEF BulkIndex, BuildCommand
  <2> QED
    BY <1>0, <2>2, RaceFrame
<1>4. CASE ValidationPasses(p)
  <2>1. /\ op'[p].pc # "swap" /\ alias' = alias /\ raced' = raced
        /\ \A q \in Procs : q # p => op'[q] = op[q]
    BY <1>0, <1>4, GotoEffect, FinishEffect DEF ValidationPasses, Idle
  <2> QED
    BY <1>0, <2>1, RaceFrame
<1>5. CASE ReadTargets(p)
  <2>1. op[p] \in BuildCommand \cup ActivateCommand
    BY <1>0, <1>5, CommandKinds DEF ReadTargets, SwapPcs
  <2>2. /\ op'[p].previous = alias \ {op[p].name} /\ op'[p].name = op[p].name
        /\ alias' = alias /\ raced' = raced
        /\ \A q \in Procs : q # p => op'[q] = op[q]
    BY <1>0, <1>5, <2>1 DEF ReadTargets, BuildCommand, ActivateCommand
  <2>3. alias' \subseteq op'[p].previous \cup {op'[p].name}
    BY <2>2
  <2> QED
    BY <1>0, <2>2, <2>3, RaceFrame
<1>6. CASE SwapAlias(p)
  <2>1. /\ op'[p].pc # "swap"
        /\ \A q \in Procs : q # p => op'[q] = op[q]
    BY <1>0, <1>6, GotoEffect, FinishEffect DEF SwapAlias, Idle
  <2>2. ASSUME ~raced' PROVE ~raced /\ alias' = {op[p].name}
    BY <1>6, <2>2 DEF SwapAlias, RaceInv
  <2>3. ASSUME ~raced', NEW q \in Procs PROVE op'[q].pc # "swap"
    BY <1>6, <2>1, <2>3 DEF SwapAlias, SwapPending
  <2> QED
    BY <1>0, <2>2, <2>3 DEF RaceInv, TwoTargetsNeedARace
<1>7. CASE DropPrevious(p)
  <2>1. op[p] \in ActivateCommand
    BY <1>0, <1>7, CommandKinds DEF DropPrevious
  <2>2. /\ op'[p].pc # "swap" /\ alias' \subseteq alias /\ raced' = raced
        /\ \A q \in Procs : q # p => op'[q] = op[q]
    BY <1>0, <1>7, <2>1 DEF DropPrevious, Finish, Idle, ActivateCommand
  <2> QED
    BY <1>0, <2>2, RaceFrame
<1>8. CASE ValidationFails(p) \/ Refused(p) \/ Abort(p)
  <2>1. /\ op'[p].pc # "swap" /\ alias' = alias /\ raced' = raced
        /\ \A q \in Procs : q # p => op'[q] = op[q]
    BY <1>0, <1>8, FinishEffect DEF ValidationFails, Refused, Abort, Idle
  <2> QED
    BY <1>0, <2>1, RaceFrame
<1> QED
  BY <1>1, <1>2, <1>3, <1>4, <1>5, <1>6, <1>7, <1>8 DEF Step

(* The alias has two targets only after an activation swapped it between the
   read and the swap of another: no crash, deletion or order of commands that
   take turns at the alias gets there. *)
THEOREM OnlyRacesSplitTheAlias == Spec => []TwoTargetsNeedARace
<1>1. Init => RaceInv
  BY InitType DEF Init, Idle, RaceInv, TwoTargetsNeedARace
<1>2. RaceInv /\ [Next]_vars => RaceInv'
  <2>1. ASSUME RaceInv, UNCHANGED vars PROVE RaceInv'
    BY <2>1 DEF RaceInv, TypeOK, TwoTargetsNeedARace, vars
  <2> QED
    BY <2>1, RaceStep DEF Next
<1>3. RaceInv => TwoTargetsNeedARace
  BY DEF RaceInv
<1> QED
  BY <1>1, <1>2, <1>3, PTL DEF Spec

-----------------------------------------------------------------------------
(* Steps that leave the alias and the overtaken alone, or take something from
   the alias, keep DeletionInv when they keep it for the process that steps. *)
LEMMA DeletionFrame ==
    ASSUME DeletionInv, TypeOK', NEW p \in Procs,
           \A q \in Procs : q # p => op'[q] = op[q],
           alias' \subseteq alias, overtaken' = overtaken,
           op'[p].pc \in {"swap", "drop"} => op'[p].name \notin op'[p].previous,
           op'[p].pc = "drop" /\ p \notin overtaken => op'[p].previous \cap alias = {}
    PROVE  DeletionInv'
<1>1. ASSUME NEW q \in Procs
      PROVE  /\ op'[q].pc \in {"swap", "drop"} => op'[q].name \notin op'[q].previous
             /\ op'[q].pc = "drop" /\ q \notin overtaken' => op'[q].previous \cap alias' = {}
  <2>1. CASE q = p
    BY <2>1
  <2>2. CASE q # p
    BY <2>2 DEF DeletionInv
  <2> QED
    BY <2>1, <2>2
<1> QED
  BY <1>1 DEF DeletionInv

LEMMA DeletionStep ==
    ASSUME DeletionInv, NEW p \in Procs, Start(p) \/ Step(p) \/ Abort(p)
    PROVE  DeletionInv'
<1> USE DEF stores, ghosts
<1>0. TypeOK /\ TypeOK' /\ op \in [Procs -> Commands]
  BY StartType, StepType, AbortType DEF DeletionInv, TypeOK
<1>1. CASE Start(p)
  <2>1. /\ alias' = alias /\ overtaken' = overtaken
        /\ \A q \in Procs : q # p => op'[q] = op[q]
        /\ op'[p].pc \notin {"swap", "drop"}
    BY <1>0, <1>1 DEF Start, StartBuild, StartActivate, NewBuild, NewActivation
  <2> QED
    BY <1>0, <2>1, DeletionFrame
<1>2. CASE CreateIndex(p)
  BY <1>0, <1>2, GotoEffect, DeletionFrame DEF CreateIndex
<1>3. CASE BulkIndex(p)
  <2>1. op[p] \in BuildCommand
    BY <1>0, <1>3, CommandKinds DEF BulkIndex, BuildPcs
  <2>2. /\ op'[p].pc \notin {"swap", "drop"} /\ alias' = alias /\ overtaken' = overtaken
        /\ \A q \in Procs : q # p => op'[q] = op[q]
    BY <1>0, <1>3, <2>1 DEF BulkIndex, BuildCommand
  <2> QED
    BY <1>0, <2>2, DeletionFrame
<1>4. CASE ValidationPasses(p)
  <2>1. /\ op'[p].pc \notin {"swap", "drop"} /\ alias' = alias /\ overtaken' = overtaken
        /\ \A q \in Procs : q # p => op'[q] = op[q]
    BY <1>0, <1>4, GotoEffect, FinishEffect DEF ValidationPasses, Idle
  <2> QED
    BY <1>0, <2>1, DeletionFrame
<1>5. CASE ReadTargets(p)
  <2>1. op[p] \in BuildCommand \cup ActivateCommand
    BY <1>0, <1>5, CommandKinds DEF ReadTargets, SwapPcs
  <2>2. /\ op'[p].previous = alias \ {op[p].name} /\ op'[p].name = op[p].name
        /\ op'[p].pc = "swap" /\ alias' = alias /\ overtaken' = overtaken
        /\ \A q \in Procs : q # p => op'[q] = op[q]
    BY <1>0, <1>5, <2>1 DEF ReadTargets, BuildCommand, ActivateCommand
  <2> QED
    BY <1>0, <2>2, DeletionFrame
<1>6. CASE SwapAlias(p)
  <2>1. /\ op[p].pc = "swap" /\ alias' = (alias \ op[p].previous) \cup {op[p].name}
        /\ overtaken' = {q \in Procs \ {p} : op[q].pc = "drop"}
        /\ \A q \in Procs : q # p => op'[q] = op[q]
        /\ \/ op'[p].name = op[p].name /\ op'[p].previous = op[p].previous
           \/ op'[p].pc = "idle"
    BY <1>0, <1>6, GotoEffect, FinishEffect DEF SwapAlias, Deleting, Idle
  <2>2. op[p].name \notin op[p].previous
    BY <2>1 DEF DeletionInv
  <2>3. ASSUME NEW q \in Procs
        PROVE  /\ op'[q].pc \in {"swap", "drop"} => op'[q].name \notin op'[q].previous
               /\ op'[q].pc = "drop" /\ q \notin overtaken' => op'[q].previous \cap alias' = {}
    <3>1. CASE q = p
      BY <2>1, <2>2, <3>1
    <3>2. CASE q # p
      BY <2>1, <3>2 DEF DeletionInv
    <3> QED
      BY <3>1, <3>2
  <2> QED
    BY <1>0, <2>3 DEF DeletionInv
<1>7. CASE DropPrevious(p)
  <2>1. op[p] \in ActivateCommand /\ op[p].pc = "drop"
    BY <1>0, <1>7, CommandKinds DEF DropPrevious
  <2>2. /\ alias' \subseteq alias /\ overtaken' = overtaken
        /\ \A q \in Procs : q # p => op'[q] = op[q]
        /\ \/ op'[p].name = op[p].name /\ op'[p].previous \subseteq op[p].previous
           \/ op'[p].pc = "idle"
    BY <1>0, <1>7, <2>1 DEF DropPrevious, Finish, Idle, ActivateCommand
  <2>3. op[p].name \notin op[p].previous /\ (p \notin overtaken => op[p].previous \cap alias = {})
    BY <2>1 DEF DeletionInv
  <2> QED
    BY <1>0, <2>2, <2>3, DeletionFrame
<1>8. CASE ValidationFails(p) \/ Refused(p) \/ Abort(p)
  <2>1. /\ op'[p].pc \notin {"swap", "drop"} /\ alias' = alias /\ overtaken' = overtaken
        /\ \A q \in Procs : q # p => op'[q] = op[q]
    BY <1>0, <1>8, FinishEffect DEF ValidationFails, Refused, Abort, Idle
  <2> QED
    BY <1>0, <2>1, DeletionFrame
<1> QED
  BY <1>1, <1>2, <1>3, <1>4, <1>5, <1>6, <1>7, <1>8 DEF Step

(* What a step does to an index that is being served: only a deletion takes it
   away, and by DeletionInv the deleting command was overtaken. *)
LEMMA DeletionOfServed ==
    ASSUME DeletionInv, NEW p \in Procs, Start(p) \/ Step(p) \/ Abort(p),
           NEW n \in alias, n \notin DOMAIN indices'
    PROVE  p \in overtaken /\ op[p].pc = "drop" /\ n \in op[p].previous
<1> USE DEF stores, ghosts
<1>1. n \in DOMAIN indices
  BY DEF DeletionInv, TypeOK
<1>2. CASE DropPrevious(p)
  <2>1. PICK old \in op[p].previous : indices' = Drop(indices, old) /\ op[p].pc = "drop"
    BY <1>2 DEF DropPrevious
  <2>2. n = old
    BY <1>1, <2>1 DEF Drop
  <2> QED
    BY <2>1, <2>2 DEF DeletionInv
<1>3. CASE CreateIndex(p) \/ BulkIndex(p)
  BY <1>1, <1>3 DEF CreateIndex, BulkIndex, Put
<1>4. CASE \/ ValidationPasses(p) \/ ValidationFails(p) \/ ReadTargets(p) \/ SwapAlias(p)
           \/ Refused(p) \/ Start(p) \/ Abort(p)
  BY <1>1, <1>4 DEF ValidationPasses, ValidationFails, ReadTargets, SwapAlias, Refused, Abort,
     Start, StartBuild, StartActivate
<1> QED
  BY <1>2, <1>3, <1>4 DEF Step

(* The --delete-old loop of activate_index takes an index away from readers
   only when another activation moved the alias after its own swap: with any
   number of operators, builds, activations, deletions and crashes. *)
THEOREM DeletionsSpareTheServed == Spec => ServedIsDeletedOnlyIfOvertaken
<1>1. Init => DeletionInv
  BY InitType DEF Init, DeletionInv, Idle
<1>2. DeletionInv /\ [Next]_vars => DeletionInv'
  <2>1. DeletionInv /\ UNCHANGED vars => DeletionInv'
    <3> SUFFICES ASSUME DeletionInv, UNCHANGED vars PROVE DeletionInv'
      OBVIOUS
    <3>1. TypeOK'
      BY NextType DEF DeletionInv
    <3> QED
      BY <3>1 DEF DeletionInv, vars
  <2> QED
    BY <2>1, DeletionStep DEF Next
<1>3. DeletionInv /\ [Next]_vars =>
        [\A n \in alias : n \notin DOMAIN indices' =>
           \E p \in overtaken : op[p].pc = "drop" /\ n \in op[p].previous]_vars
  <2> SUFFICES ASSUME DeletionInv, NEW p \in Procs, Start(p) \/ Step(p) \/ Abort(p),
                      NEW n \in alias, n \notin DOMAIN indices'
               PROVE  \E q \in overtaken : op[q].pc = "drop" /\ n \in op[q].previous
    BY DEF Next
  <2> QED
    BY DeletionOfServed
<1> QED
  BY <1>1, <1>2, <1>3, PTL DEF Spec, ServedIsDeletedOnlyIfOvertaken

-----------------------------------------------------------------------------
LEMMA RetainedInit == Init => RetainedInv
<1> SUFFICES ASSUME Init PROVE RetainedInv
  OBVIOUS
<1>1. /\ TypeOK /\ DOMAIN indices = {} /\ failed = {} /\ passed = {} /\ alias = {}
      /\ \A p \in Procs : op[p].pc = "idle" /\ ~op[p].deleteOld
  BY InitType DEF Init, Idle
<1> QED
  BY <1>1 DEF RetainedInv, CommandsWellFormed, BuildsAreUnique, InBuild, Owns, BuildPcs,
     SwapPcs, BuildersOwnTheirIndex, IndicesHaveOneWriter, ReportsAreEarned

(* Steps of commands that build nothing, before and after, keep RetainedInv
   when names to swap and to serve are reported. *)
LEMMA RetainedFrame ==
    ASSUME RetainedInv, TypeOK', NEW p \in Procs,
           \A q \in Procs : q # p => op'[q] = op[q],
           UNCHANGED <<indices, builds, passed, failed>>,
           ~op'[p].deleteOld,
           op'[p].pc \notin BuildPcs \cup {"drop"},
           op'[p].pc \in SwapPcs => Reported(op'[p].name),
           \A n \in alias' : Reported(n)
    PROVE  RetainedInv'
<1>1. CommandsWellFormed'
  BY DEF RetainedInv, CommandsWellFormed, InBuild, BuildPcs, Reported
<1>2. BuildsAreUnique' /\ BuildersOwnTheirIndex'
  BY DEF RetainedInv, BuildsAreUnique, BuildersOwnTheirIndex, InBuild, Owns
<1>3. IndicesHaveOneWriter' /\ ReportsAreEarned' /\ (failed \subseteq 1..builds)'
  BY DEF RetainedInv, IndicesHaveOneWriter, ReportsAreEarned
<1>4. (\A n \in alias : Reported(n))'
  BY DEF Reported
<1> QED
  BY <1>1, <1>2, <1>3, <1>4 DEF RetainedInv

LEMMA RetainedStep ==
    ASSUME DeleteOld \subseteq {FALSE}, ReportedOnly, RetainedInv, NEW p \in Procs,
           Start(p) \/ Step(p) \/ Abort(p)
    PROVE  RetainedInv'
<1> USE DEF stores, ghosts
<1>0. TypeOK /\ TypeOK' /\ op \in [Procs -> Commands]
  BY StartType, StepType, AbortType DEF RetainedInv, TypeOK
<1>a. builds \in Nat /\ DOMAIN indices \subseteq Names
  BY <1>0 DEF TypeOK
<1>b. \A n \in alias : Reported(n)
  BY DEF RetainedInv
<1>1. ASSUME NEW activate \in BOOLEAN, StartBuild(p, activate)
      PROVE  RetainedInv'
  <2>1. /\ op'[p].pc = "create" /\ op'[p].build = builds + 1 /\ ~op'[p].deleteOld
        /\ op'[p].batch = 1
        /\ \A q \in Procs : q # p => op'[q] = op[q]
    BY <1>0, <1>1 DEF StartBuild, NewBuild
  <2>2. builds' = builds + 1 /\ UNCHANGED <<indices, alias, passed, failed>>
    BY <1>1 DEF StartBuild
  <2>3. /\ 1..builds \subseteq 1..builds' /\ builds + 1 \in 1..builds'
        /\ builds + 1 \notin 1..builds
    BY <1>a, <2>2
  <2>4. CommandsWellFormed'
    BY <2>1, <2>2, <2>3 DEF RetainedInv, CommandsWellFormed, InBuild, BuildPcs, SwapPcs, Reported
  <2>5. /\ \A k \in DOMAIN indices : indices[k].creator # builds + 1
        /\ \A q \in Procs : InBuild(q) => op[q].build # builds + 1
        /\ \A n \in Names : <<builds + 1, n>> \notin passed
    <3>1. \A k \in DOMAIN indices : indices[k].creator \in 1..builds
      BY DEF RetainedInv, IndicesHaveOneWriter
    <3>2. \A q \in Procs : InBuild(q) => op[q].build \in 1..builds
      BY DEF RetainedInv, CommandsWellFormed
    <3>3. \A b \in Builds, n \in Names : <<b, n>> \in passed => b \in 1..builds
      BY DEF RetainedInv, ReportsAreEarned
    <3>4. passed \subseteq Builds \X Names
      BY <1>0 DEF TypeOK
    <3> QED
      BY <2>3, <3>1, <3>2, <3>3, <3>4
  <2>6. BuildsAreUnique'
    BY <2>1, <2>2, <2>5 DEF RetainedInv, BuildsAreUnique, InBuild, BuildPcs
  <2>7. BuildersOwnTheirIndex'
    BY <2>1, <2>2 DEF RetainedInv, BuildersOwnTheirIndex, Owns, BuildPcs
  <2>8. IndicesHaveOneWriter' /\ ReportsAreEarned' /\ (failed \subseteq 1..builds)'
    BY <2>2, <2>3 DEF RetainedInv, IndicesHaveOneWriter, ReportsAreEarned
  <2>9. (\A n \in alias : Reported(n))'
    BY <1>b, <2>2 DEF Reported
  <2> QED
    BY <1>0, <2>4, <2>6, <2>7, <2>8, <2>9 DEF RetainedInv
<1>2. ASSUME NEW n \in Names, NEW deleteOld \in DeleteOld, StartActivate(p, n, deleteOld)
      PROVE  RetainedInv'
  <2>1. /\ op'[p].pc = "targets" /\ op'[p].name = n /\ ~op'[p].deleteOld
        /\ \A q \in Procs : q # p => op'[q] = op[q]
    BY <1>0, <1>2 DEF StartActivate, NewActivation
  <2>2. UNCHANGED <<indices, alias, builds, passed, failed>> /\ Reported(n)
    BY <1>2 DEF StartActivate
  <2> QED
    BY <1>0, <1>b, <2>1, <2>2, RetainedFrame DEF BuildPcs, SwapPcs
<1>3. CASE CreateIndex(p)
  <2> DEFINE m == op[p].name
  <2>1. /\ op[p].pc = "create" /\ op'[p].pc = "bulk" /\ op'[p].batch = op[p].batch
        /\ op'[p].name = m /\ op'[p].build = op[p].build
        /\ op'[p].deleteOld = op[p].deleteOld
        /\ \A q \in Procs : q # p => op'[q] = op[q]
    BY <1>0, <1>3, GotoEffect DEF CreateIndex
  <2>2. /\ m \notin DOMAIN indices
        /\ DOMAIN indices' = DOMAIN indices \cup {m}
        /\ \A k \in DOMAIN indices : indices'[k] = indices[k]
        /\ indices'[m].creator = op[p].build
        /\ indices'[m].docs = {} /\ indices'[m].writers = {}
        /\ UNCHANGED <<alias, builds, passed, failed>>
    BY <1>3 DEF CreateIndex, Exists, Put
  <2>3. CommandsWellFormed'
    BY <2>1, <2>2 DEF RetainedInv, CommandsWellFormed, InBuild, BuildPcs, SwapPcs, Reported
  <2>4. BuildsAreUnique'
    BY <2>1, <2>2 DEF RetainedInv, BuildsAreUnique, InBuild, BuildPcs
  <2>5. op'[p].batch = 1
    BY <2>1 DEF RetainedInv, CommandsWellFormed
  <2>6. indices'[m].docs = 1..(op'[p].batch - 1)
    <3>1. 1..(1 - 1) = {}
      OBVIOUS
    <3> QED
      BY <2>2, <2>5, <3>1
  <2>9. BuildersOwnTheirIndex'
    BY <2>1, <2>2, <2>6 DEF RetainedInv, BuildersOwnTheirIndex, Owns, BuildPcs
  <2>7. IndicesHaveOneWriter'
    BY <2>1, <2>2 DEF RetainedInv, IndicesHaveOneWriter, CommandsWellFormed, InBuild, BuildPcs
  <2>8. ReportsAreEarned' /\ (\A n \in alias : Reported(n))'
    BY <1>b, <2>2 DEF RetainedInv, ReportsAreEarned, Reported
  <2> QED
    BY <1>0, <2>2, <2>3, <2>4, <2>7, <2>8, <2>9 DEF RetainedInv
<1>4. CASE BulkIndex(p)
  <2> DEFINE m == op[p].name
             b == op[p].batch
  <2>0. op[p] \in BuildCommand /\ b \in Batches
    BY <1>0, <1>4, CommandKinds DEF BulkIndex, BuildPcs, BuildCommand
  <2>1. /\ op[p].pc = "bulk" /\ Owns(p) /\ InBuild(p)
        /\ op'[p].pc = (IF b = BatchCount THEN "validate" ELSE "bulk")
        /\ op'[p].batch = (IF b = BatchCount THEN 1 ELSE b + 1)
        /\ op'[p].name = m /\ op'[p].build = op[p].build
        /\ op'[p].deleteOld = op[p].deleteOld
        /\ \A q \in Procs : q # p => op'[q] = op[q]
    BY <1>0, <1>4, <2>0 DEF BulkIndex, BuildCommand, Owns, InBuild, BuildPcs
  <2>2. /\ m \in DOMAIN indices /\ indices[m].creator = op[p].build
        /\ indices[m].docs = 1..(b - 1)
    BY <2>1 DEF RetainedInv, BuildersOwnTheirIndex
  <2>3. /\ DOMAIN indices' = DOMAIN indices
        /\ \A k \in DOMAIN indices : k # m => indices'[k] = indices[k]
        /\ indices'[m].creator = op[p].build
        /\ indices'[m].docs = 1..(b - 1) \cup {b}
        /\ indices'[m].writers = indices[m].writers \cup {op[p].build}
        /\ UNCHANGED <<alias, builds, passed, failed>>
    BY <1>4, <2>2 DEF BulkIndex, BulkTarget, Exists, Put
  <2>4. indices'[m].docs = 1..b /\ indices'[m].docs # {}
    BY <2>0, <2>3 DEF Batches
  <2>5. CommandsWellFormed'
    BY <2>1, <2>3 DEF RetainedInv, CommandsWellFormed, InBuild, BuildPcs, SwapPcs, Reported
  <2>6. BuildsAreUnique'
    BY <2>1, <2>2, <2>3 DEF RetainedInv, BuildsAreUnique, InBuild, BuildPcs
  <2>7. \A q \in Procs : q # p /\ Owns(q) => op[q].name # m
    <3> SUFFICES ASSUME NEW q \in Procs, q # p, Owns(q), op[q].name = m PROVE FALSE
      OBVIOUS
    <3>1. op[q].build = op[p].build
      BY <2>2 DEF RetainedInv, BuildersOwnTheirIndex
    <3>2. InBuild(q)
      BY DEF InBuild, Owns
    <3> QED
      BY <2>1, <3>1, <3>2 DEF RetainedInv, BuildsAreUnique
  <2>8. BuildersOwnTheirIndex'
    <3>1. ASSUME NEW q \in Procs, q # p, Owns(q)'
          PROVE  /\ op'[q].name \in DOMAIN indices'
                 /\ indices'[op'[q].name] = indices[op[q].name]
                 /\ op'[q] = op[q] /\ Owns(q)
      BY <2>1, <2>3, <2>7, <3>1 DEF RetainedInv, BuildersOwnTheirIndex, Owns
    <3>2. indices'[m].docs =
            IF op'[p].pc = "validate" THEN Batches ELSE 1..(op'[p].batch - 1)
      <4>1. CASE b = BatchCount
        BY <2>1, <2>4, <4>1 DEF Batches
      <4>2. CASE b # BatchCount
        <5>1. op'[p].pc = "bulk" /\ op'[p].batch - 1 = b
          BY <2>0, <2>1, <4>2 DEF Batches
        <5> QED
          BY <2>4, <5>1
      <4> QED
        BY <4>1, <4>2
    <3>3. ASSUME NEW q \in Procs, q # p, Owns(q)'
          PROVE  /\ op'[q].name \in DOMAIN indices'
                 /\ indices'[op'[q].name].creator = op'[q].build
                 /\ indices'[op'[q].name].docs =
                      IF op'[q].pc = "validate" THEN Batches ELSE 1..(op'[q].batch - 1)
      BY <3>1, <3>3 DEF RetainedInv, BuildersOwnTheirIndex
    <3> QED
      BY <2>1, <2>2, <2>3, <3>2, <3>3 DEF BuildersOwnTheirIndex
  <2>9. IndicesHaveOneWriter'
    BY <2>1, <2>2, <2>3 DEF RetainedInv, IndicesHaveOneWriter
  <2>10. \A n \in Names : <<op[p].build, n>> \notin passed
    BY <2>1 DEF RetainedInv, BuildsAreUnique
  <2>11. ReportsAreEarned'
    BY <1>a, <2>2, <2>3, <2>10 DEF RetainedInv, ReportsAreEarned
  <2>12. (\A n \in alias : Reported(n))'
    BY <1>b, <2>3 DEF Reported
  <2> QED
    BY <1>0, <2>3, <2>5, <2>6, <2>8, <2>9, <2>11, <2>12 DEF RetainedInv
<1>5. CASE ValidationPasses(p)
  <2> DEFINE m == op[p].name
  <2>0. op[p].build \in Builds /\ m \in Names
    BY <1>0, <1>5, CommandKinds DEF ValidationPasses, BuildPcs, BuildCommand
  <2>1. op[p].pc = "validate" /\ InBuild(p) /\ Owns(p) /\ ~op[p].deleteOld
    BY <1>5 DEF ValidationPasses, InBuild, Owns, BuildPcs, RetainedInv, CommandsWellFormed
  <2>2. /\ op'[p].pc \in {"targets", "idle"} /\ ~op'[p].deleteOld
        /\ op'[p].pc = "targets" => op'[p].name = m
        /\ \A q \in Procs : q # p => op'[q] = op[q]
    BY <1>0, <1>5, <2>1, GotoEffect, FinishEffect DEF ValidationPasses, Idle
  <2>3. /\ passed' = passed \cup {<<op[p].build, m>>}
        /\ UNCHANGED <<indices, alias, builds, failed>>
    BY <1>5 DEF ValidationPasses
  <2>4. (\E b \in Builds : <<b, m>> \in passed') /\ \A n : Reported(n) => \E b \in Builds : <<b, n>> \in passed'
    BY <2>0, <2>3 DEF Reported
  <2>5. CommandsWellFormed'
    BY <2>2, <2>3, <2>4 DEF RetainedInv, CommandsWellFormed, InBuild, BuildPcs, SwapPcs, Reported
  <2>6. \A q \in Procs : q # p /\ InBuild(q) => op[q].build # op[p].build
    BY <2>1 DEF RetainedInv, BuildsAreUnique
  <2>7. BuildsAreUnique'
    BY <2>2, <2>3, <2>6 DEF RetainedInv, BuildsAreUnique, InBuild, BuildPcs
  <2>8. BuildersOwnTheirIndex'
    BY <2>2, <2>3 DEF RetainedInv, BuildersOwnTheirIndex, Owns, BuildPcs
  <2>9. /\ op[p].build \in (1..builds) \ failed /\ m \in DOMAIN indices
        /\ indices[m].creator = op[p].build /\ indices[m].docs = Batches
    BY <2>1 DEF RetainedInv, CommandsWellFormed, BuildersOwnTheirIndex
  <2>10. IndicesHaveOneWriter' /\ ReportsAreEarned'
    BY <2>3, <2>9 DEF RetainedInv, IndicesHaveOneWriter, ReportsAreEarned
  <2>11. (\A n \in alias : Reported(n))'
    BY <1>b, <2>3, <2>4 DEF Reported
  <2> QED
    BY <1>0, <2>3, <2>5, <2>7, <2>8, <2>10, <2>11 DEF RetainedInv
<1>6. CASE ValidationFails(p)
  <2>1. op[p].pc = "validate" /\ InBuild(p)
    BY <1>6 DEF ValidationFails, InBuild, BuildPcs
  <2>2. /\ op'[p].pc = "idle" /\ ~op'[p].deleteOld
        /\ \A q \in Procs : q # p => op'[q] = op[q]
    BY <1>0, <1>6, FinishEffect DEF ValidationFails, Idle
  <2>3. /\ failed' = failed \cup {op[p].build}
        /\ UNCHANGED <<indices, alias, builds, passed>>
    BY <1>6 DEF ValidationFails
  <2>4. /\ \A q \in Procs : q # p /\ InBuild(q) => op[q].build # op[p].build
        /\ \A n \in Names : <<op[p].build, n>> \notin passed
        /\ op[p].build \in 1..builds
    BY <2>1 DEF RetainedInv, BuildsAreUnique, CommandsWellFormed
  <2>5. CommandsWellFormed'
    BY <2>2, <2>3, <2>4 DEF RetainedInv, CommandsWellFormed, InBuild, BuildPcs, SwapPcs, Reported
  <2>6. BuildsAreUnique' /\ BuildersOwnTheirIndex'
    BY <2>2, <2>3 DEF RetainedInv, BuildsAreUnique, BuildersOwnTheirIndex, InBuild, Owns, BuildPcs
  <2>7. IndicesHaveOneWriter' /\ ReportsAreEarned' /\ (failed \subseteq 1..builds)'
    BY <2>3, <2>4 DEF RetainedInv, IndicesHaveOneWriter, ReportsAreEarned
  <2>8. (\A n \in alias : Reported(n))'
    BY <1>b, <2>3 DEF Reported
  <2> QED
    BY <1>0, <2>5, <2>6, <2>7, <2>8 DEF RetainedInv
<1>7. CASE ReadTargets(p)
  <2>1. op[p] \in BuildCommand \cup ActivateCommand /\ op[p].pc \in SwapPcs
    BY <1>0, <1>7, CommandKinds DEF ReadTargets, SwapPcs
  <2>2. Reported(op[p].name) /\ ~op[p].deleteOld
    BY <2>1 DEF RetainedInv, CommandsWellFormed
  <2>3. /\ op'[p].pc = "swap" /\ op'[p].name = op[p].name
        /\ op'[p].deleteOld = op[p].deleteOld
        /\ \A q \in Procs : q # p => op'[q] = op[q]
        /\ UNCHANGED <<indices, alias, builds, passed, failed>>
    BY <1>0, <1>7, <2>1 DEF ReadTargets, BuildCommand, ActivateCommand
  <2> QED
    BY <1>0, <1>b, <2>2, <2>3, RetainedFrame DEF BuildPcs
<1>8. CASE SwapAlias(p)
  <2>1. Reported(op[p].name) /\ ~op[p].deleteOld
    BY <1>8 DEF SwapAlias, SwapPcs, RetainedInv, CommandsWellFormed
  <2>2. /\ op'[p].pc = "idle" /\ ~op'[p].deleteOld
        /\ \A q \in Procs : q # p => op'[q] = op[q]
    BY <1>0, <1>8, <2>1, FinishEffect DEF SwapAlias, Idle
  <2>3. /\ \A n \in alias' : Reported(n)
        /\ UNCHANGED <<indices, builds, passed, failed>>
    BY <1>8, <1>b, <2>1 DEF SwapAlias
  <2> QED
    BY <1>0, <2>2, <2>3, RetainedFrame DEF BuildPcs, SwapPcs
<1>9. CASE DropPrevious(p)
  BY <1>9 DEF DropPrevious, RetainedInv, CommandsWellFormed
<1>10. CASE Refused(p) \/ Abort(p)
  <2>1. /\ op'[p].pc = "idle" /\ ~op'[p].deleteOld
        /\ \A q \in Procs : q # p => op'[q] = op[q]
        /\ UNCHANGED <<indices, alias, builds, passed, failed>>
    BY <1>0, <1>10, FinishEffect DEF Refused, Abort, Idle
  <2> QED
    BY <1>0, <1>b, <2>1, RetainedFrame DEF BuildPcs, SwapPcs
<1> QED
  BY <1>1, <1>2, <1>3, <1>4, <1>5, <1>6, <1>7, <1>8, <1>9, <1>10 DEF Start, Step

(* RetainedInv is an invariant when operators activate only what a build
   reported and no command deletes. *)
THEOREM Retained ==
    ASSUME DeleteOld \subseteq {FALSE}, ReportedOnly
    PROVE  Spec => []RetainedInv
<1>1. RetainedInv /\ [Next]_vars => RetainedInv'
  <2>1. ASSUME RetainedInv, UNCHANGED vars PROVE RetainedInv'
    BY <2>1 DEF RetainedInv, TypeOK, CommandsWellFormed, BuildsAreUnique, InBuild, Owns,
       BuildersOwnTheirIndex, IndicesHaveOneWriter, ReportsAreEarned, Reported, vars
  <2> QED
    BY <2>1, RetainedStep DEF Next
<1> QED
  BY RetainedInit, <1>1, PTL DEF Spec

(* The promise of the docstring, for every number of concurrent commands, with
   any of them cut off anywhere and the alias split by a race or not: each
   served index is the whole, accepted work of the one build it names. *)
THEOREM OnlyValidatedBuildsAreServed ==
    ASSUME DeleteOld \subseteq {FALSE}, ReportedOnly
    PROVE  Spec => [](ServedWereValidated /\ FailedBuildsAreNotServed)
<1>1. RetainedInv => ServedWereValidated /\ FailedBuildsAreNotServed
  <2> SUFFICES ASSUME RetainedInv, NEW n \in alias
               PROVE  /\ indices[n].docs = Batches
                      /\ indices[n].writers = {indices[n].creator}
                      /\ <<indices[n].creator, n>> \in passed
                      /\ indices[n].creator \notin failed
    BY DEF ServedWereValidated, FailedBuildsAreNotServed
  <2>1. n \in Names
    BY DEF RetainedInv, TypeOK
  <2>2. PICK b \in Builds : <<b, n>> \in passed
    BY DEF RetainedInv, Reported
  <2>3. /\ n \in DOMAIN indices /\ indices[n].creator = b /\ indices[n].docs = Batches
        /\ b \notin failed
    BY <2>1, <2>2 DEF RetainedInv, ReportsAreEarned
  <2>4. indices[n].docs # {}
    BY <2>3, BoundsAssumption DEF Batches
  <2> QED
    BY <2>2, <2>3, <2>4 DEF RetainedInv, IndicesHaveOneWriter
<1> QED
  BY <1>1, Retained, PTL

(* Under the same conditions no bulk request of any build, whichever name it
   picked, reaches an index that is being served, and nobody removes one. *)
THEOREM ServedDataIsImmutable ==
    ASSUME DeleteOld \subseteq {FALSE}, ReportedOnly
    PROVE  Spec => ServedIndexIsFrozen
<1> USE DEF stores, ghosts
<1>1. ASSUME RetainedInv, [Next]_vars
      PROVE  \A n \in alias : n \in DOMAIN indices' /\ indices'[n] = indices[n]
  <2>1. CASE UNCHANGED vars
    BY <1>1, <2>1 DEF vars, RetainedInv, TypeOK
  <2>2. ASSUME NEW p \in Procs, Start(p) \/ Step(p) \/ Abort(p)
        PROVE  \A n \in alias : n \in DOMAIN indices' /\ indices'[n] = indices[n]
    <3>0. TypeOK /\ alias \subseteq DOMAIN indices
      BY <1>1 DEF RetainedInv, TypeOK
    <3>1. CASE CreateIndex(p)
      BY <3>0, <3>1 DEF CreateIndex, Exists, Put
    <3>2. CASE BulkIndex(p)
      <4>1. InBuild(p) /\ Owns(p)
        BY <3>2 DEF BulkIndex, InBuild, Owns, BuildPcs
      <4>2. op[p].name \notin alias
        <5> SUFFICES ASSUME op[p].name \in alias PROVE FALSE
          OBVIOUS
        <5>1. PICK b \in Builds : <<b, op[p].name>> \in passed
          BY <1>1 DEF RetainedInv, Reported
        <5>2. op[p].name \in Names
          BY <3>0 DEF TypeOK
        <5>3. b = op[p].build
          BY <1>1, <4>1, <5>1, <5>2 DEF RetainedInv, ReportsAreEarned, BuildersOwnTheirIndex
        <5> QED
          BY <1>1, <4>1, <5>1, <5>2, <5>3 DEF RetainedInv, BuildsAreUnique
      <4> QED
        BY <3>0, <3>2, <4>2 DEF BulkIndex, Put
    <3>3. CASE SwapAlias(p)
      BY <3>0, <3>3 DEF SwapAlias
    <3>4. CASE DropPrevious(p)
      BY <1>1, <3>4 DEF DropPrevious, RetainedInv, CommandsWellFormed
    <3>5. CASE \/ ValidationPasses(p) \/ ValidationFails(p) \/ ReadTargets(p)
               \/ Refused(p) \/ Start(p) \/ Abort(p)
      <4>1. UNCHANGED <<indices, alias>>
        BY <3>5 DEF ValidationPasses, ValidationFails, ReadTargets, Refused, Abort,
           Start, StartBuild, StartActivate
      <4> QED
        BY <3>0, <4>1
    <3> QED
      BY <2>2, <3>1, <3>2, <3>3, <3>4, <3>5 DEF Step
  <2> QED
    BY <1>1, <2>1, <2>2 DEF Next
<1>2. RetainedInv /\ [Next]_vars =>
        [\A n \in alias : n \in DOMAIN indices' /\ indices'[n] = indices[n]]_vars
  BY <1>1
<1> QED
  BY Retained, <1>2, PTL DEF Spec, ServedIndexIsFrozen
=============================================================================
