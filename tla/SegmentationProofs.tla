------------------------- MODULE SegmentationProofs -------------------------
(***************************************************************************)
(* What the segmentation endpoints answer, proved for any files, any       *)
(* requests and any changes of the files while a request is answered.      *)
(***************************************************************************)
EXTENDS Segmentation, FiniteSetTheorems, SequenceTheorems, TLAPS

-----------------------------------------------------------------------------
(* Types                                                                    *)

Contents == ManifestRecord \cup PayloadRecord \cup Defective \cup {NoFile}
GeneratedRecord == [form : {"generated"}, segments : Seq([start : Int, end : Int])]

(* The steps of the two loads, the one of /generate and the loop they share. *)
LoadPcs == {"name", "manifest_file", "surah_file", "read", "fields", "unique", "ids"}
Pcs == LoadPcs \cup {"workflow", "scan", "replied"}
Outcomes == {"none", "ok", "not_found", "invalid", "untyped"}

Calls == [endpoint : {"manifest", "surah", "generate"}, artifact : Artifacts \cup {Unsafe},
          surah : Int, ayahs : Seq(Nat \ {0}), pc : Pcs, data : Contents \cup GeneratedRecord,
          next : Nat \ {0}, previousEnd : Int, outcome : Outcomes, since : Nat]

Typed ==
    /\ manifests \in [Artifacts -> Contents]
    /\ payloads \in [Artifacts \X Published -> Contents]
    /\ writes \in Nat
    /\ call \in Calls

-----------------------------------------------------------------------------
(* The inductive invariant                                                  *)

InRange(segments) ==
    \A i \in DOMAIN segments : segments[i].start >= 1 /\ segments[i].start <= segments[i].end

(* What the loop over the segments knows after next - 1 turns: it compared
   neighbours, which is enough because ends grow. *)
Scanned(segments, next, previousEnd) ==
    /\ next <= Len(segments) + 1
    /\ previousEnd = IF next = 1 THEN 0 ELSE segments[next - 1].end
    /\ \A i \in DOMAIN segments : i < next => segments[i].end <= previousEnd
    /\ \A i, j \in DOMAIN segments :
         i < j /\ j < next => segments[i].end < segments[j].start

(* What the checks that are behind a call made sure of, whatever happened to
   the files since. *)
Checked ==
    /\ call.pc \in LoadPcs => call.endpoint # "generate"
    /\ call.pc = "workflow" => call.endpoint = "generate" /\ call.next = 1 /\ call.previousEnd = 0
    /\ call.pc \in LoadPcs \ {"ids"} => call.next = 1 /\ call.previousEnd = 0
    /\ call.pc = "surah_file" => call.endpoint = "surah"
    /\ call.pc = "unique" => call.endpoint = "manifest"
    /\ call.pc = "scan" => call.endpoint # "manifest"
    /\ call.pc \in LoadPcs \cup {"scan"} /\ call.pc # "name" /\ call.endpoint # "generate" =>
         /\ call.artifact \in Artifacts
         /\ call.endpoint = "surah" => call.surah \in 1..LastSurah
    /\ call.pc \in {"unique", "ids", "scan"} /\ call.endpoint # "generate" =>
         FieldsFit(call.data, call.endpoint)
    /\ call.pc = "fields" => call.data \in Contents
    /\ call.pc = "scan" =>
         /\ call.data.segments \in Seq([start : Int, end : Int])
         /\ InRange(call.data.segments)
         /\ Scanned(call.data.segments, call.next, call.previousEnd)
    /\ call.pc = "scan" /\ call.endpoint = "generate" =>
         /\ Len(call.data.segments) = 1
         /\ \A i \in DOMAIN call.ayahs : call.ayahs[i] \in Ayahs(call.data.segments[1])
    /\ call.pc = "ids" =>
         /\ call.endpoint = "manifest" => ListsEachSurahOnce(call.data.entries)
         /\ call.endpoint = "surah" => WellSegmented(call.data.segments)
    /\ call.pc # "replied" => call.outcome = "none"
    /\ call.endpoint = "generate" => call.outcome \in {"none", "ok"}
    /\ AnswersAreValid

(* What a call knows of the files, while none changed. *)
HasRead ==
    \/ call.pc \in {"fields", "unique", "ids"}
    \/ call.pc = "scan" /\ call.endpoint = "surah"

Agrees ==
    call.since = writes =>
        /\ call.pc \in {"surah_file", "read"} => Visible(manifests[call.artifact])
        /\ HasRead => Visible(manifests[call.artifact])
        /\ call.pc = "read" \/ HasRead => Visible(File(call))
        /\ HasRead => /\ call.data = File(call)
                      /\ File(call).form \notin {"absent", "barred", "unreadable", "not_json"}
        /\ call.outcome # "none" => call.outcome = Expected(call)

SegmentationInv == Typed /\ Checked /\ Agrees /\ call.since <= writes

-----------------------------------------------------------------------------
(* Reading a call                                                           *)

(* What a call is about does not change while it is answered. *)
SameQuestion ==
    /\ call'.endpoint = call.endpoint /\ call'.artifact = call.artifact
    /\ call'.surah = call.surah /\ call'.ayahs = call.ayahs /\ call'.since = call.since

LEMMA GoesOn ==
    ASSUME call \in Calls, NEW pc \in Pcs, Goes(pc)
    PROVE  /\ call' \in Calls /\ SameQuestion /\ call'.pc = pc
           /\ call'.data = call.data /\ call'.next = call.next
           /\ call'.previousEnd = call.previousEnd /\ call'.outcome = call.outcome
BY DEF Goes, Calls, SameQuestion

LEMMA Replies ==
    ASSUME call \in Calls, NEW outcome \in Outcomes, Reply(outcome)
    PROVE  /\ call' \in Calls /\ SameQuestion /\ call'.pc = "replied"
           /\ call'.outcome = outcome /\ call'.data = call.data
BY DEF Reply, Calls, SameQuestion, Pcs

LEMMA FilesTyped ==
    ASSUME Typed, call.artifact \in Artifacts
    PROVE  manifests[call.artifact] \in Contents /\ File(call) \in Contents
<1>1. manifests[call.artifact] \in Contents
  BY DEF Typed
<1>2. SurahFile(call.artifact, call.surah) \in Contents
  BY DEF Typed, SurahFile, Contents
<1> QED BY <1>1, <1>2 DEF File

LEMMA SameFiles ==
    ASSUME SameQuestion, Still
    PROVE  /\ File(call)' = File(call) /\ Expected(call)' = Expected(call)
           /\ manifests' = manifests /\ payloads' = payloads /\ writes' = writes
<1>1. manifests' = manifests /\ payloads' = payloads /\ writes' = writes
  BY DEF Still, files
<1>2. File(call)' = File(call)
  BY <1>1 DEF SameQuestion, File, SurahFile
<1>3. Expected(call)' = Expected(call)
  BY <1>1, <1>2 DEF SameQuestion, Expected
<1> QED BY <1>1, <1>2, <1>3

(* A step that answers: it is enough that the answer is right. *)
LEMMA ReplyKeepsInv ==
    ASSUME SegmentationInv, NEW outcome \in Outcomes \ {"none", "ok"}, Reply(outcome), Still,
           call.endpoint # "generate",
           call.since = writes => outcome = Expected(call)
    PROVE  SegmentationInv'
<1>1. /\ call' \in Calls /\ SameQuestion /\ call'.pc = "replied" /\ call'.outcome = outcome
      /\ call'.since = call.since /\ call'.endpoint = call.endpoint
  BY Replies DEF SegmentationInv, Typed, SameQuestion
<1>2. /\ Expected(call)' = Expected(call) /\ manifests' = manifests /\ payloads' = payloads
      /\ writes' = writes
  BY <1>1, SameFiles
<1>3. Typed'
  BY <1>1, <1>2 DEF Typed, SegmentationInv
<1>4. Checked'
  BY <1>1 DEF Checked, AnswersAreValid, LoadPcs
<1>5. Agrees'
  <2>1. ~HasRead'
    BY <1>1 DEF HasRead
  <2> QED BY <1>1, <1>2, <2>1 DEF Agrees
<1> QED BY <1>1, <1>2, <1>3, <1>4, <1>5 DEF SegmentationInv

(* A step that goes on in the load of a file. *)
LEMMA GoingOn ==
    ASSUME SegmentationInv, NEW pc \in Pcs \ {"replied", "workflow"}, Goes(pc), Still
    PROVE  /\ call' \in Calls /\ SameQuestion /\ call'.pc = pc /\ call'.data = call.data
           /\ call'.next = call.next /\ call'.previousEnd = call.previousEnd
           /\ call'.outcome = call.outcome
           /\ File(call)' = File(call) /\ manifests' = manifests /\ writes' = writes
           /\ Typed' /\ call'.since <= writes' /\ AnswersAreValid'
           /\ call.pc # "replied" => call.outcome = "none" /\ call'.outcome = "none"
<1>1. /\ call' \in Calls /\ SameQuestion /\ call'.pc = pc /\ call'.data = call.data
      /\ call'.next = call.next /\ call'.previousEnd = call.previousEnd
      /\ call'.outcome = call.outcome
  BY GoesOn DEF SegmentationInv, Typed
<1>2. File(call)' = File(call) /\ manifests' = manifests /\ payloads' = payloads /\ writes' = writes
  BY <1>1, SameFiles
<1>3. Typed' /\ call'.since <= writes'
  BY <1>1, <1>2 DEF Typed, SegmentationInv, SameQuestion
<1>4. AnswersAreValid'
  BY <1>1, <1>2 DEF SegmentationInv, Checked, AnswersAreValid, SameQuestion
<1> QED BY <1>1, <1>2, <1>3, <1>4 DEF SegmentationInv, Checked

-----------------------------------------------------------------------------
(* The steps                                                                *)

LEMMA ReceiveStep == SegmentationInv /\ Receive => SegmentationInv'
<1> SUFFICES ASSUME SegmentationInv, Receive PROVE SegmentationInv'
  OBVIOUS
<1>1. PICK e \in {"manifest", "surah", "generate"}, a \in Artifacts \cup {Unsafe},
           n \in Int, ayahs \in Seq(Nat \ {0}) : call' = NewCall(e, a, n, ayahs)
  <2>1. << >> \in Seq(Nat \ {0})
    OBVIOUS
  <2>2. CASE \E a \in Artifacts \cup {Unsafe} : call' = NewCall("manifest", a, 0, << >>)
    <3>1. PICK a \in Artifacts \cup {Unsafe} : call' = NewCall("manifest", a, 0, << >>)
      BY <2>2
    <3>2. "manifest" \in {"manifest", "surah", "generate"} /\ 0 \in Int
      OBVIOUS
    <3> QED BY <2>1, <3>1, <3>2, Zenon
  <2>3. CASE \E a \in Artifacts \cup {Unsafe}, n \in Numbers :
               call' = NewCall("surah", a, n, << >>)
    <3>1. PICK a \in Artifacts \cup {Unsafe}, n \in Numbers : call' = NewCall("surah", a, n, << >>)
      BY <2>3
    <3>2. "surah" \in {"manifest", "surah", "generate"} /\ n \in Int
      BY NumbersAssumption
    <3> QED BY <2>1, <3>1, <3>2, Zenon
  <2>4. CASE \E ayahs \in AyahLists : call' = NewCall("generate", Unsafe, 0, ayahs)
    <3>1. PICK ayahs \in AyahLists : call' = NewCall("generate", Unsafe, 0, ayahs)
      BY <2>4
    <3>2. /\ "generate" \in {"manifest", "surah", "generate"} /\ 0 \in Int
          /\ ayahs \in Seq(Nat \ {0}) /\ Unsafe \in Artifacts \cup {Unsafe}
      BY AyahsAssumption
    <3> QED BY <3>1, <3>2, Zenon
  <2> QED BY <2>2, <2>3, <2>4 DEF Receive
<1>2. manifests' = manifests /\ payloads' = payloads /\ writes' = writes /\ writes \in Nat
  BY DEF Receive, Still, files, SegmentationInv, Typed
<1>3. /\ call'.pc = (IF e = "generate" THEN "workflow" ELSE "name") /\ call'.outcome = "none"
      /\ call'.next = 1 /\ call'.previousEnd = 0 /\ call'.endpoint = e /\ call'.since = writes
  BY <1>1 DEF NewCall
<1>4. call' \in Calls
  BY <1>1, <1>2 DEF NewCall, Calls, Contents, Pcs, LoadPcs, Outcomes
<1>5. Typed'
  BY <1>2, <1>4 DEF Typed, SegmentationInv
<1>6. Checked'
  BY <1>3 DEF Checked, AnswersAreValid, LoadPcs
<1>7. Agrees'
  BY <1>3 DEF Agrees, HasRead
<1> QED BY <1>2, <1>3, <1>5, <1>6, <1>7 DEF SegmentationInv

LEMMA WriteStep == SegmentationInv /\ Write => SegmentationInv'
<1> SUFFICES ASSUME SegmentationInv, Write PROVE SegmentationInv'
  OBVIOUS
<1>1. writes \in Nat /\ call.since \in Nat /\ call.since <= writes /\ writes' = writes + 1
      /\ call' = call
  BY DEF SegmentationInv, Typed, Calls, Write
<1>2. Manifests \subseteq Contents /\ Payloads \subseteq Contents
  BY FilesAssumption DEF Contents
<1>3. manifests' \in [Artifacts -> Contents] /\ payloads' \in [Artifacts \X Published -> Contents]
  <2>1. CASE \E a \in Artifacts, m \in Manifests :
               manifests' = [manifests EXCEPT ![a] = m] /\ UNCHANGED payloads
    BY <1>2, <2>1 DEF SegmentationInv, Typed
  <2>2. CASE \E path \in DOMAIN payloads, p \in Payloads :
               payloads' = [payloads EXCEPT ![path] = p] /\ UNCHANGED manifests
    BY <1>2, <2>2 DEF SegmentationInv, Typed
  <2> QED BY <2>1, <2>2 DEF Write
<1>4. Typed' /\ Checked'
  <2>1. Typed'
    BY <1>1, <1>3 DEF SegmentationInv, Typed
  <2>2. Checked /\ AnswersAreValid
    BY DEF SegmentationInv, Checked
  <2>3. AnswersAreValid'
    BY <1>1, <2>2 DEF AnswersAreValid
  <2>4. Checked'
    BY <1>1, <2>2, <2>3 DEF Checked
  <2> QED BY <2>1, <2>4
<1>5. Agrees'
  <2>1. call'.since # writes'
    BY <1>1
  <2> QED BY <2>1 DEF Agrees
<1> QED BY <1>1, <1>4, <1>5 DEF SegmentationInv

LEMMA CheckNameStep == SegmentationInv /\ CheckName => SegmentationInv'
<1> SUFFICES ASSUME SegmentationInv, CheckName PROVE SegmentationInv'
  OBVIOUS
<1>1. call.pc = "name" /\ call.endpoint # "generate" /\ Still /\ call \in Calls
  BY DEF CheckName, SegmentationInv, Checked, LoadPcs, Typed
<1> DEFINE bad == call.artifact = Unsafe \/ (call.endpoint = "surah" /\ call.surah \notin 1..LastSurah)
<1>2. CASE bad
  <2>1. Reply("not_found") /\ Expected(call) = "not_found"
    BY <1>1, <1>2 DEF CheckName, Expected
  <2> QED BY <1>1, <2>1, ReplyKeepsInv DEF Outcomes
<1>3. CASE ~bad
  <2>1. Goes("manifest_file")
    BY <1>3 DEF CheckName
  <2>2. /\ SameQuestion /\ call'.pc = "manifest_file" /\ call'.outcome = "none"
        /\ call'.next = call.next /\ call'.previousEnd = call.previousEnd
        /\ Typed' /\ call'.since <= writes' /\ AnswersAreValid'
    BY <1>1, <2>1, GoingOn DEF Pcs, LoadPcs
  <2>3. call.artifact \in Artifacts
    BY <1>1, <1>3 DEF Calls
  <2>4. Checked'
    BY <1>1, <1>3, <2>2, <2>3 DEF Checked, SameQuestion, LoadPcs, SegmentationInv
  <2>5. Agrees'
    BY <2>2 DEF Agrees, HasRead
  <2> QED BY <2>2, <2>4, <2>5 DEF SegmentationInv
<1> QED BY <1>2, <1>3

(* A path is looked at in vain for one of two reasons. *)
LEMMA TwoMisses ==
    /\ NoFile # Barred /\ NoFile.form = "absent" /\ Barred.form = "barred"
    /\ \A f : Visible(f) <=> f # NoFile /\ f # Barred
BY DEF NoFile, Barred, Form, Visible

LEMMA FindManifestStep == SegmentationInv /\ FindManifest => SegmentationInv'
<1> SUFFICES ASSUME SegmentationInv, FindManifest PROVE SegmentationInv'
  OBVIOUS
<1>1. /\ call.pc = "manifest_file" /\ call.endpoint # "generate" /\ Still /\ call \in Calls
      /\ call.artifact \in Artifacts /\ (call.endpoint = "surah" => call.surah \in 1..LastSurah)
      /\ call.artifact # Unsafe
  BY NamesAssumption DEF FindManifest, SegmentationInv, Checked, LoadPcs, Typed
<1>2. CASE manifests[call.artifact] = NoFile
  <2>1. Reply("not_found") /\ Expected(call) = "not_found"
    BY <1>1, <1>2, TwoMisses DEF FindManifest, Expected
  <2> QED BY <1>1, <2>1, ReplyKeepsInv DEF Outcomes
<1>3. CASE manifests[call.artifact] = Barred
  <2>1. Reply("untyped") /\ Expected(call) = "untyped"
    BY <1>1, <1>3, TwoMisses DEF FindManifest, Expected
  <2> QED BY <1>1, <2>1, ReplyKeepsInv DEF Outcomes
<1>4. CASE Visible(manifests[call.artifact])
  <2> DEFINE goal == IF call.endpoint = "manifest" THEN "read" ELSE "surah_file"
  <2>1. Goes(goal) /\ goal \in {"read", "surah_file"}
    BY <1>4, TwoMisses DEF FindManifest
  <2>2. /\ SameQuestion /\ call'.pc = goal /\ call'.outcome = "none"
        /\ call'.next = call.next /\ call'.previousEnd = call.previousEnd
        /\ Typed' /\ call'.since <= writes' /\ AnswersAreValid'
        /\ File(call)' = File(call) /\ manifests' = manifests
    BY <1>1, <2>1, GoingOn DEF Pcs, LoadPcs
  <2>3. Checked'
    BY <1>1, <2>1, <2>2 DEF Checked, SameQuestion, LoadPcs, SegmentationInv, Calls
  <2>4. goal = "read" => File(call) = manifests[call.artifact]
    BY DEF File
  <2>5. Agrees'
    BY <1>4, <2>1, <2>2, <2>4 DEF Agrees, HasRead, SameQuestion
  <2> QED BY <2>2, <2>3, <2>5 DEF SegmentationInv
<1> QED BY <1>2, <1>3, <1>4, TwoMisses

LEMMA FindSurahStep == SegmentationInv /\ FindSurah => SegmentationInv'
<1> SUFFICES ASSUME SegmentationInv, FindSurah PROVE SegmentationInv'
  OBVIOUS
<1>1. /\ call.pc = "surah_file" /\ call.endpoint = "surah" /\ Still /\ call \in Calls
      /\ call.artifact \in Artifacts /\ call.surah \in 1..LastSurah
  BY DEF FindSurah, SegmentationInv, Checked, LoadPcs, Typed
<1>2. CASE File(call) = NoFile
  <2>1. Reply("not_found")
    BY <1>1, <1>2, TwoMisses DEF FindSurah
  <2>2. call.since = writes => Expected(call) = "not_found"
    BY <1>1, <1>2, TwoMisses DEF Expected, SegmentationInv, Agrees
  <2> QED BY <1>1, <2>1, <2>2, ReplyKeepsInv DEF Outcomes
<1>3. CASE File(call) = Barred
  <2>1. Reply("untyped")
    BY <1>1, <1>3, TwoMisses DEF FindSurah
  <2>2. call.since = writes => Visible(manifests[call.artifact])
    BY <1>1 DEF SegmentationInv, Agrees
  <2>3. call.since = writes => Expected(call) = "untyped"
    BY <1>1, <1>3, <2>2, TwoMisses, NamesAssumption DEF Expected
  <2> QED BY <1>1, <2>1, <2>3, ReplyKeepsInv DEF Outcomes
<1>4. CASE Visible(File(call))
  <2>1. Goes("read")
    BY <1>4, TwoMisses DEF FindSurah
  <2>2. /\ SameQuestion /\ call'.pc = "read" /\ call'.outcome = "none"
        /\ call'.next = call.next /\ call'.previousEnd = call.previousEnd
        /\ Typed' /\ call'.since <= writes' /\ AnswersAreValid'
        /\ File(call)' = File(call) /\ manifests' = manifests /\ writes' = writes
    BY <1>1, <2>1, GoingOn DEF Pcs, LoadPcs
  <2>3. Checked'
    BY <1>1, <2>2 DEF Checked, SameQuestion, LoadPcs, SegmentationInv
  <2>4. Agrees'
    BY <1>1, <1>4, <2>2 DEF Agrees, HasRead, SameQuestion, SegmentationInv
  <2> QED BY <2>2, <2>3, <2>4 DEF SegmentationInv
<1> QED BY <1>2, <1>3, <1>4, TwoMisses

LEMMA ReadFileStep == SegmentationInv /\ ReadFile => SegmentationInv'
<1> SUFFICES ASSUME SegmentationInv, ReadFile PROVE SegmentationInv'
  OBVIOUS
<1>1. /\ call.pc = "read" /\ call.endpoint # "generate" /\ Still /\ call \in Calls
      /\ call.artifact \in Artifacts /\ (call.endpoint = "surah" => call.surah \in 1..LastSurah)
      /\ call.artifact # Unsafe /\ call.outcome = "none" /\ Typed
      /\ call.next = 1 /\ call.previousEnd = 0
  BY NamesAssumption DEF ReadFile, SegmentationInv, Checked, LoadPcs, Typed
<1>2. File(call) \in Contents /\ manifests[call.artifact] \in Contents
  BY <1>1, FilesTyped
<1>3. ASSUME call.since = writes
      PROVE  /\ Visible(manifests[call.artifact]) /\ Visible(File(call))
             /\ File(call).form \notin {"absent", "barred"}
  <2>1. Visible(manifests[call.artifact]) /\ Visible(File(call))
    BY <1>1, <1>3 DEF SegmentationInv, Agrees
  <2>2. File(call).form \notin {"absent", "barred"}
    BY <1>2, <2>1, TwoMisses DEF Contents, ManifestRecord, PayloadRecord, Defective, NoFile, Barred, Form
  <2> QED BY <2>1, <2>2
<1>4. CASE File(call).form \in {"absent", "barred", "unreadable"}
  <2>1. Reply("untyped")
    BY <1>4 DEF ReadFile
  <2>2. call.since = writes => Expected(call) = "untyped"
    BY <1>1, <1>3, <1>4, TwoMisses DEF Expected
  <2> QED BY <1>1, <2>1, <2>2, ReplyKeepsInv DEF Outcomes
<1>5. CASE File(call).form = "not_json"
  <2>1. Reply("invalid")
    BY <1>5 DEF ReadFile
  <2>2. call.since = writes => Expected(call) = "invalid"
    BY <1>1, <1>3, <1>5, TwoMisses DEF Expected
  <2> QED BY <1>1, <2>1, <2>2, ReplyKeepsInv DEF Outcomes
<1>6. CASE File(call).form \notin {"absent", "barred", "unreadable", "not_json"}
  <2>1. call' = [call EXCEPT !.data = File(call), !.pc = "fields"]
    BY <1>6 DEF ReadFile
  <2>2. /\ SameQuestion /\ call'.pc = "fields" /\ call'.data = File(call)
        /\ call'.outcome = "none" /\ call'.next = 1 /\ call'.previousEnd = 0
        /\ call' \in Calls
    BY <1>1, <1>2, <2>1 DEF Calls, SameQuestion, Pcs, LoadPcs
  <2>3. /\ File(call)' = File(call) /\ manifests' = manifests /\ payloads' = payloads
        /\ writes' = writes
    BY <1>1, <2>2, SameFiles
  <2>4. Typed' /\ call'.since <= writes'
    BY <1>1, <2>2, <2>3 DEF Typed, SegmentationInv, SameQuestion
  <2>5. Checked'
    BY <1>1, <1>2, <2>2 DEF Checked, SameQuestion, LoadPcs, AnswersAreValid
  <2>6. Agrees'
    BY <1>3, <1>6, <2>2, <2>3 DEF Agrees, HasRead, SameQuestion
  <2> QED BY <2>4, <2>5, <2>6 DEF SegmentationInv
<1> QED BY <1>4, <1>5, <1>6

LEMMA ValidateFieldsStep == SegmentationInv /\ ValidateFields => SegmentationInv'
<1> SUFFICES ASSUME SegmentationInv, ValidateFields PROVE SegmentationInv'
  OBVIOUS
<1>1. /\ call.pc = "fields" /\ call.endpoint # "generate" /\ Still /\ call \in Calls
      /\ call.artifact \in Artifacts /\ (call.endpoint = "surah" => call.surah \in 1..LastSurah)
      /\ call.artifact # Unsafe /\ call.data \in Contents
      /\ call.next = 1 /\ call.previousEnd = 0
  BY NamesAssumption DEF ValidateFields, SegmentationInv, Checked, LoadPcs, Typed
<1>2. ASSUME call.since = writes
      PROVE  /\ Visible(manifests[call.artifact]) /\ Visible(File(call))
             /\ call.data = File(call)
             /\ File(call).form \notin {"absent", "barred", "unreadable", "not_json"}
  BY <1>1, <1>2 DEF SegmentationInv, Agrees, HasRead
<1>3. CASE ~FieldsFit(call.data, call.endpoint)
  <2>1. Reply("invalid")
    BY <1>3 DEF ValidateFields
  <2>2. call.since = writes => Expected(call) = "invalid"
    BY <1>1, <1>2, <1>3, TwoMisses DEF Expected
  <2> QED BY <1>1, <2>1, <2>2, ReplyKeepsInv DEF Outcomes
<1>4. CASE FieldsFit(call.data, call.endpoint)
  <2> DEFINE goal == IF call.endpoint = "manifest" THEN "unique" ELSE "scan"
  <2>1. Goes(goal) /\ goal \in {"unique", "scan"}
    BY <1>4 DEF ValidateFields
  <2>2. /\ SameQuestion /\ call'.pc = goal /\ call'.outcome = "none" /\ call'.data = call.data
        /\ call'.next = 1 /\ call'.previousEnd = 0
        /\ Typed' /\ call'.since <= writes' /\ AnswersAreValid'
        /\ File(call)' = File(call) /\ manifests' = manifests /\ writes' = writes
    BY <1>1, <2>1, GoingOn DEF Pcs, LoadPcs
  <2>3. ASSUME goal = "scan"
        PROVE  /\ call.endpoint = "surah" /\ call.data.segments \in Seq([start : Int, end : Int])
               /\ InRange(call.data.segments) /\ Scanned(call.data.segments, 1, 0)
    <3>1. call.endpoint = "surah"
      BY <1>1, <2>3 DEF Calls
    <3>2. call.data.form = "payload"
      BY <1>4, <3>1 DEF FieldsFit
    <3>3. call.data \in PayloadRecord
      BY <1>1, <3>2 DEF Contents, ManifestRecord, Defective, NoFile, Barred, Form
    <3>4. call.data.segments \in Seq([start : Int, end : Int])
      BY <3>3 DEF PayloadRecord
    <3>5. InRange(call.data.segments)
      BY <1>4, <3>1 DEF FieldsFit, InRange
    <3>6. Scanned(call.data.segments, 1, 0)
      BY <3>4 DEF Scanned
    <3> QED BY <3>1, <3>4, <3>5, <3>6
  <2>4. FieldsFit(call.data, call.endpoint)' = FieldsFit(call.data, call.endpoint)
    BY <2>2 DEF SameQuestion
  <2>5. Checked'
    BY <1>1, <1>4, <2>1, <2>2, <2>3, <2>4 DEF Checked, SameQuestion, LoadPcs
  <2>6. Agrees'
    BY <1>1, <1>2, <2>1, <2>2 DEF Agrees, HasRead, SameQuestion
  <2> QED BY <2>2, <2>5, <2>6 DEF SegmentationInv
<1> QED BY <1>3, <1>4

(* As many distinct numbers as entries: none is listed twice. *)
LEMMA DistinctEntries ==
    ASSUME NEW entries \in Seq(Int)
    PROVE  Cardinality({entries[i] : i \in DOMAIN entries}) = Len(entries)
             <=> ListsEachSurahOnce(entries)
<1> DEFINE T == {entries[i] : i \in DOMAIN entries}
<1>1. Len(entries) \in Nat /\ DOMAIN entries = 1..Len(entries)
  OBVIOUS
<1>2. IsFiniteSet(1..Len(entries)) /\ Cardinality(1..Len(entries)) = Len(entries)
  BY <1>1, FS_Interval
<1>3. entries \in Surjection(1..Len(entries), T)
  BY <1>1 DEF Surjection
<1>4. Cardinality(T) = Len(entries) <=> entries \in Injection(1..Len(entries), T)
  BY <1>2, <1>3, FS_Surjection
<1>5. entries \in Injection(1..Len(entries), T) <=> ListsEachSurahOnce(entries)
  BY <1>1, <1>3 DEF Injection, IsInjective, Surjection, ListsEachSurahOnce
<1> QED BY <1>4, <1>5

LEMMA UniqueSurahsStep == SegmentationInv /\ UniqueSurahs => SegmentationInv'
<1> SUFFICES ASSUME SegmentationInv, UniqueSurahs PROVE SegmentationInv'
  OBVIOUS
<1>1. /\ call.pc = "unique" /\ call.endpoint = "manifest" /\ Still /\ call \in Calls
      /\ call.artifact \in Artifacts /\ call.artifact # Unsafe
      /\ call.next = 1 /\ call.previousEnd = 0
      /\ FieldsFit(call.data, call.endpoint)
  BY NamesAssumption DEF UniqueSurahs, SegmentationInv, Checked, LoadPcs, Typed
<1>2. ASSUME call.since = writes
      PROVE  /\ Visible(manifests[call.artifact]) /\ Visible(File(call))
             /\ call.data = File(call)
             /\ File(call).form \notin {"absent", "barred", "unreadable", "not_json"}
  BY <1>1, <1>2 DEF SegmentationInv, Agrees, HasRead
<1>3. call.data.entries \in Seq(Int)
  <2>1. call.data.form = "manifest"
    BY <1>1 DEF FieldsFit
  <2>2. call.data \in ManifestRecord
    BY <1>1, <2>1 DEF Calls, GeneratedRecord, Contents, PayloadRecord, Defective, NoFile, Barred, Form
  <2> QED BY <2>2 DEF ManifestRecord
<1>4. CASE ~ListsEachSurahOnce(call.data.entries)
  <2>1. Reply("invalid")
    BY <1>3, <1>4, DistinctEntries DEF UniqueSurahs
  <2>2. call.since = writes => Expected(call) = "invalid"
    BY <1>1, <1>2, <1>4, TwoMisses DEF Expected
  <2> QED BY <1>1, <2>1, <2>2, ReplyKeepsInv DEF Outcomes
<1>5. CASE ListsEachSurahOnce(call.data.entries)
  <2>1. Goes("ids")
    BY <1>3, <1>5, DistinctEntries DEF UniqueSurahs
  <2>2. /\ SameQuestion /\ call'.pc = "ids" /\ call'.outcome = "none" /\ call'.data = call.data
        /\ call'.next = 1 /\ call'.previousEnd = 0
        /\ Typed' /\ call'.since <= writes' /\ AnswersAreValid'
        /\ File(call)' = File(call) /\ manifests' = manifests /\ writes' = writes
    BY <1>1, <2>1, GoingOn DEF Pcs, LoadPcs
  <2>3. FieldsFit(call.data, call.endpoint)' = FieldsFit(call.data, call.endpoint)
    BY <2>2 DEF SameQuestion
  <2>4. Checked'
    BY <1>1, <1>5, <2>2, <2>3 DEF Checked, SameQuestion, LoadPcs
  <2>5. Agrees'
    BY <1>1, <1>2, <2>2 DEF Agrees, HasRead, SameQuestion
  <2> QED BY <2>2, <2>4, <2>5 DEF SegmentationInv
<1> QED BY <1>4, <1>5

-----------------------------------------------------------------------------
(* The loop over the segments compares neighbours.                          *)

Segments == Seq([start : Int, end : Int])

LEMMA SegmentTypes ==
    ASSUME NEW segments \in Segments, NEW i \in DOMAIN segments
    PROVE  segments[i].start \in Int /\ segments[i].end \in Int /\ i \in 1..Len(segments)
<1>1. i \in 1..Len(segments)
  BY DEF Segments
<1>2. segments[i] \in [start : Int, end : Int]
  BY <1>1, ElementOfSeq DEF Segments
<1> QED BY <1>1, <1>2

LEMMA ScanTurn ==
    ASSUME NEW segments \in Segments, NEW n \in Nat \ {0}, NEW previousEnd \in Int,
           n <= Len(segments), InRange(segments), Scanned(segments, n, previousEnd),
           ~(segments[n].start <= previousEnd)
    PROVE  Scanned(segments, n + 1, segments[n].end)
<1>1. n \in DOMAIN segments /\ Len(segments) \in Nat
  BY DEF Segments
<1>2. segments[n].start \in Int /\ segments[n].end \in Int /\ segments[n].start <= segments[n].end
  BY <1>1, SegmentTypes DEF InRange
<1>3. ASSUME NEW i \in DOMAIN segments, i < n + 1
      PROVE  segments[i].end <= segments[n].end
  <2>1. CASE i = n
    BY <1>2, <2>1
  <2>2. CASE i < n
    <3>1. segments[i].end <= previousEnd /\ segments[i].end \in Int
      BY <1>3, <2>2, SegmentTypes DEF Scanned
    <3> QED BY <1>2, <3>1
  <2>3. i \in Int
    BY <1>3, SegmentTypes
  <2> QED BY <1>3, <2>1, <2>2, <2>3
<1>4. ASSUME NEW i \in DOMAIN segments, NEW j \in DOMAIN segments, i < j, j < n + 1
      PROVE  segments[i].end < segments[j].start
  <2>1. CASE j < n
    BY <1>4, <2>1 DEF Scanned
  <2>2. CASE j = n
    <3>1. segments[i].end <= previousEnd /\ segments[i].end \in Int
      BY <1>4, <2>2, SegmentTypes DEF Scanned
    <3> QED BY <1>2, <2>2, <3>1
  <2>3. j \in Int
    BY <1>4, SegmentTypes
  <2> QED BY <1>4, <2>1, <2>2, <2>3
<1> QED BY <1>1, <1>3, <1>4 DEF Scanned

LEMMA ScanStops ==
    ASSUME NEW segments \in Segments, NEW n \in Nat \ {0}, NEW previousEnd \in Int,
           n <= Len(segments), InRange(segments), Scanned(segments, n, previousEnd),
           segments[n].start <= previousEnd
    PROVE  n # 1 /\ ~WellSegmented(segments)
<1>1. n \in DOMAIN segments /\ Len(segments) \in Nat
  BY DEF Segments
<1>2. /\ segments[n].start \in Int /\ segments[n].end \in Int
      /\ segments[n].start >= 1 /\ segments[n].start <= segments[n].end
  BY <1>1, SegmentTypes DEF InRange
<1>3. n # 1
  BY <1>2 DEF Scanned
<1>4. n - 1 \in DOMAIN segments /\ n - 1 < n /\ previousEnd = segments[n - 1].end
  BY <1>3 DEF Scanned, Segments
<1>5. segments[n - 1].start \in Int /\ segments[n - 1].end \in Int
  BY <1>4, SegmentTypes
<1>6. segments[n - 1].start < segments[n].start =>
        segments[n].start \in Ayahs(segments[n - 1]) \cap Ayahs(segments[n])
  BY <1>2, <1>4, <1>5 DEF Ayahs
<1> QED BY <1>1, <1>3, <1>4, <1>6 DEF WellSegmented

LEMMA ScanEnds ==
    ASSUME NEW segments \in Segments, NEW n \in Nat \ {0}, NEW previousEnd \in Int,
           n > Len(segments), InRange(segments), Scanned(segments, n, previousEnd)
    PROVE  WellSegmented(segments)
<1>1. ASSUME NEW i \in DOMAIN segments
      PROVE  /\ segments[i].start \in Int /\ segments[i].end \in Int /\ i < n
             /\ segments[i].start >= 1 /\ segments[i].start <= segments[i].end
  BY SegmentTypes DEF InRange, Segments
<1>2. ASSUME NEW i \in DOMAIN segments
      PROVE  segments[i].start \in Ayahs(segments[i])
  BY <1>1 DEF Ayahs
<1>3. ASSUME NEW i \in DOMAIN segments, NEW j \in DOMAIN segments, i < j
      PROVE  /\ Ayahs(segments[i]) \cap Ayahs(segments[j]) = {}
             /\ segments[i].start < segments[j].start
  <2>1. segments[i].end < segments[j].start
    BY <1>1, <1>3 DEF Scanned
  <2> QED BY <1>1, <2>1 DEF Ayahs
<1> QED BY <1>1, <1>2, <1>3 DEF WellSegmented

LEMMA CheckSegmentStep == SegmentationInv /\ CheckSegment => SegmentationInv'
<1> SUFFICES ASSUME SegmentationInv, CheckSegment PROVE SegmentationInv'
  OBVIOUS
<1>1. /\ call.pc = "scan" /\ call.endpoint # "manifest" /\ Still /\ call \in Calls
      /\ call.next <= Len(call.data.segments) /\ call.next \in Nat \ {0}
      /\ call.previousEnd \in Int /\ call.outcome = "none" /\ Typed
  BY DEF CheckSegment, SegmentationInv, Checked, LoadPcs, Typed, Calls
<1> DEFINE segments == call.data.segments
           n == call.next
<1>2. /\ segments \in Segments /\ InRange(segments)
      /\ Scanned(segments, n, call.previousEnd)
      /\ call.endpoint = "generate" => Len(segments) = 1
  BY <1>1 DEF SegmentationInv, Checked, Segments
<1>3. CASE segments[n].start <= call.previousEnd
  <2>1. n # 1 /\ ~WellSegmented(segments)
    BY <1>1, <1>2, <1>3, ScanStops
  <2>2. call.endpoint = "surah"
    <3>1. Len(segments) # 1
      <4>1. Len(segments) \in Nat /\ n \in Nat \ {0} /\ n <= Len(segments) /\ n # 1
        BY <1>1, <1>2, <2>1 DEF Segments
      <4>2. ASSUME NEW l \in Nat, NEW k \in Nat \ {0}, k <= l, k # 1 PROVE l # 1
        BY <4>2
      <4> HIDE DEF segments, n
      <4> QED BY <4>1, <4>2, Zenon
    <3>2. call.endpoint \in {"manifest", "surah", "generate"}
      BY <1>1 DEF Calls
    <3> QED BY <1>1, <1>2, <3>1, <3>2
  <2>3. Reply("invalid")
    BY <1>1, <1>3, <2>2 DEF CheckSegment
  <2>4. call.since = writes => Expected(call) = "invalid"
    <3>1. /\ call.artifact \in Artifacts /\ call.surah \in 1..LastSurah
      BY <1>1, <2>2 DEF SegmentationInv, Checked
    <3>2. call.since = writes =>
             /\ Visible(manifests[call.artifact]) /\ Visible(File(call))
             /\ call.data = File(call)
             /\ File(call).form \notin {"absent", "barred", "unreadable", "not_json"}
      BY <1>1, <2>2 DEF SegmentationInv, Agrees, HasRead
    <3> QED BY <2>1, <2>2, <3>1, <3>2, NamesAssumption, TwoMisses DEF Expected
  <2> QED BY <1>1, <2>2, <2>3, <2>4, ReplyKeepsInv DEF Outcomes
<1>4. CASE ~(segments[n].start <= call.previousEnd)
  <2>1. Scanned(segments, n + 1, segments[n].end) /\ segments[n].end \in Int
    <3>1. n \in DOMAIN segments
      BY <1>1, <1>2 DEF Segments
    <3> QED BY <1>1, <1>2, <1>4, <3>1, ScanTurn, SegmentTypes
  <2>2. call' = [call EXCEPT !.next = n + 1, !.previousEnd = segments[n].end]
    BY <1>1, <1>4 DEF CheckSegment
  <2> HIDE DEF segments, n
  <2>3. /\ SameQuestion /\ call'.pc = "scan" /\ call'.data = call.data
        /\ call'.outcome = "none" /\ call'.next = n + 1 /\ call'.previousEnd = segments[n].end
        /\ call' \in Calls
    <3>1. n + 1 \in Nat \ {0}
      BY <1>1 DEF n
    <3> QED BY <1>1, <2>1, <2>2, <3>1 DEF Calls, SameQuestion
  <2>4. /\ File(call)' = File(call) /\ manifests' = manifests /\ payloads' = payloads
        /\ writes' = writes
    BY <1>1, <2>3, SameFiles
  <2>5. Typed' /\ call'.since <= writes'
    BY <1>1, <2>3, <2>4 DEF Typed, SegmentationInv, SameQuestion
  <2>6. FieldsFit(call.data, call.endpoint)' = FieldsFit(call.data, call.endpoint)
    BY <2>3 DEF SameQuestion
  <2>7. Checked'
    <3>1. AnswersAreValid'
      BY <2>3 DEF AnswersAreValid
    <3>2. call.endpoint # "generate" =>
            /\ call.artifact \in Artifacts
            /\ call.endpoint = "surah" => call.surah \in 1..LastSurah
            /\ FieldsFit(call.data, call.endpoint)
      BY <1>1 DEF SegmentationInv, Checked
    <3>3. call.endpoint = "generate" =>
            \A i \in DOMAIN call.ayahs : call.ayahs[i] \in Ayahs(call.data.segments[1])
      BY <1>1 DEF SegmentationInv, Checked
    <3>4. call.data.segments = segments
      BY DEF segments
    <3> QED BY <1>1, <1>2, <2>1, <2>3, <2>6, <3>1, <3>2, <3>3, <3>4
            DEF Checked, SameQuestion, LoadPcs, Segments
  <2>8. Agrees'
    BY <1>1, <2>3, <2>4 DEF Agrees, HasRead, SameQuestion, SegmentationInv
  <2> QED BY <2>5, <2>7, <2>8 DEF SegmentationInv
<1> QED BY <1>3, <1>4

LEMMA EndOfSegmentsStep == SegmentationInv /\ EndOfSegments => SegmentationInv'
<1> SUFFICES ASSUME SegmentationInv, EndOfSegments PROVE SegmentationInv'
  OBVIOUS
<1>1. /\ call.pc = "scan" /\ call.endpoint # "manifest" /\ Still /\ call \in Calls
      /\ call.next > Len(call.data.segments) /\ call.next \in Nat \ {0}
      /\ call.previousEnd \in Int /\ call.outcome = "none" /\ Typed
      /\ call.endpoint \in {"manifest", "surah", "generate"}
  BY DEF EndOfSegments, SegmentationInv, Checked, LoadPcs, Typed, Calls
<1>2. /\ call.data.segments \in Segments /\ InRange(call.data.segments)
      /\ Scanned(call.data.segments, call.next, call.previousEnd)
  BY <1>1 DEF SegmentationInv, Checked, Segments
<1>3. WellSegmented(call.data.segments)
  BY <1>1, <1>2, ScanEnds
<1>4. CASE call.endpoint = "generate"
  <2>1. Reply("ok")
    BY <1>1, <1>4 DEF EndOfSegments
  <2>2. /\ call' \in Calls /\ SameQuestion /\ call'.pc = "replied"
        /\ call'.outcome = "ok" /\ call'.data = call.data
    BY <1>1, <2>1, Replies DEF Outcomes
  <2>3. /\ Expected(call)' = Expected(call) /\ manifests' = manifests /\ payloads' = payloads
        /\ writes' = writes
    BY <1>1, <2>2, SameFiles
  <2>4. Typed' /\ call'.since <= writes'
    BY <1>1, <2>2, <2>3 DEF Typed, SegmentationInv, SameQuestion
  <2>5. \A i \in DOMAIN call.ayahs : call.ayahs[i] \in Ayahs(call.data.segments[1])
    BY <1>1, <1>4 DEF SegmentationInv, Checked
  <2>6. AnswersAreValid'
    BY <1>3, <1>4, <2>2, <2>5 DEF AnswersAreValid, SameQuestion
  <2>7. Checked'
    BY <2>2, <2>6 DEF Checked, LoadPcs
  <2>8. Agrees'
    BY <1>4, <2>2, <2>3 DEF Agrees, HasRead, Expected
  <2> QED BY <2>4, <2>7, <2>8 DEF SegmentationInv
<1>5. CASE call.endpoint = "surah"
  <2>1. Goes("ids")
    BY <1>1, <1>5 DEF EndOfSegments
  <2>2. /\ SameQuestion /\ call'.pc = "ids" /\ call'.outcome = "none" /\ call'.data = call.data
        /\ Typed' /\ call'.since <= writes' /\ AnswersAreValid'
        /\ File(call)' = File(call) /\ manifests' = manifests /\ writes' = writes
    BY <1>1, <2>1, GoingOn DEF Pcs, LoadPcs
  <2>3. /\ FieldsFit(call.data, call.endpoint)' = FieldsFit(call.data, call.endpoint)
        /\ FieldsFit(call.data, call.endpoint)
        /\ call.artifact \in Artifacts /\ call.surah \in 1..LastSurah
    BY <1>1, <1>5, <2>2 DEF SameQuestion, SegmentationInv, Checked
  <2>4. Checked'
    BY <1>3, <1>5, <2>2, <2>3 DEF Checked, SameQuestion, LoadPcs
  <2>5. Agrees'
    BY <1>1, <1>5, <2>2 DEF Agrees, HasRead, SameQuestion, SegmentationInv
  <2> QED BY <2>2, <2>4, <2>5 DEF SegmentationInv
<1> QED BY <1>1, <1>4, <1>5

LEMMA CheckIdsStep == SegmentationInv /\ CheckIds => SegmentationInv'
<1> SUFFICES ASSUME SegmentationInv, CheckIds PROVE SegmentationInv'
  OBVIOUS
<1>1. /\ call.pc = "ids" /\ call.endpoint # "generate" /\ Still /\ call \in Calls
      /\ call.artifact \in Artifacts /\ (call.endpoint = "surah" => call.surah \in 1..LastSurah)
      /\ call.artifact # Unsafe /\ FieldsFit(call.data, call.endpoint) /\ Typed
      /\ (call.endpoint = "manifest" => ListsEachSurahOnce(call.data.entries))
      /\ (call.endpoint = "surah" => WellSegmented(call.data.segments))
      /\ call.endpoint \in {"manifest", "surah", "generate"}
  BY NamesAssumption DEF CheckIds, SegmentationInv, Checked, LoadPcs, Typed, Calls
<1>2. ASSUME call.since = writes
      PROVE  /\ Visible(manifests[call.artifact]) /\ Visible(File(call))
             /\ call.data = File(call)
             /\ File(call).form \notin {"absent", "barred", "unreadable", "not_json"}
  BY <1>1, <1>2 DEF SegmentationInv, Agrees, HasRead
<1> DEFINE same == /\ call.data.artifact = call.artifact
                   /\ call.endpoint = "surah" => call.data.surah = call.surah
<1>3. CASE ~same
  <2>1. Reply("invalid")
    BY <1>3 DEF CheckIds
  <2>2. call.since = writes => Expected(call) = "invalid"
    BY <1>1, <1>2, <1>3, TwoMisses DEF Expected
  <2> QED BY <1>1, <2>1, <2>2, ReplyKeepsInv DEF Outcomes
<1>4. CASE same
  <2>1. Reply("ok")
    BY <1>4 DEF CheckIds
  <2>2. /\ call' \in Calls /\ SameQuestion /\ call'.pc = "replied"
        /\ call'.outcome = "ok" /\ call'.data = call.data
    BY <1>1, <2>1, Replies DEF Outcomes
  <2>3. /\ Expected(call)' = Expected(call) /\ manifests' = manifests /\ payloads' = payloads
        /\ writes' = writes
    BY <1>1, <2>2, SameFiles
  <2>4. Typed' /\ call'.since <= writes'
    BY <1>1, <2>2, <2>3 DEF Typed, SegmentationInv, SameQuestion
  <2>5. AnswersAreValid'
    BY <1>1, <1>4, <2>2 DEF AnswersAreValid, SameQuestion
  <2>6. Checked'
    BY <1>1, <2>2, <2>5 DEF Checked, LoadPcs, SameQuestion
  <2>7. call.since = writes => Expected(call) = "ok"
    <3>1. call.data.form \in {"manifest", "payload"}
      BY <1>1 DEF FieldsFit
    <3> QED BY <1>1, <1>2, <1>4, <3>1, TwoMisses DEF Expected
  <2>8. Agrees'
    BY <2>2, <2>3, <2>7 DEF Agrees, HasRead, SameQuestion
  <2> QED BY <2>4, <2>6, <2>8 DEF SegmentationInv
<1> QED BY <1>3, <1>4

LEMMA GenerateStep == SegmentationInv /\ Generate => SegmentationInv'
<1> SUFFICES ASSUME SegmentationInv, Generate PROVE SegmentationInv'
  OBVIOUS
<1>1. /\ call.pc = "workflow" /\ call.endpoint = "generate" /\ Still /\ call \in Calls
      /\ call.ayahs \in Seq(Nat \ {0}) /\ call.next = 1 /\ call.previousEnd = 0
      /\ call.outcome = "none" /\ Typed
  BY DEF Generate, SegmentationInv, Checked, LoadPcs, Typed, Calls
<1>2. NumbersOf(call.ayahs) \subseteq Nat \ {0}
  BY <1>1, ElementOfSeq DEF NumbersOf
<1>3. PICK first \in NumbersOf(call.ayahs), last \in NumbersOf(call.ayahs) :
        /\ \A k \in NumbersOf(call.ayahs) : first <= k /\ k <= last
        /\ IF first >= 1 /\ first <= last
           THEN call' = [call EXCEPT !.pc = "scan", !.data =
                   [form |-> "generated", segments |-> <<[start |-> first, end |-> last]>>]]
           ELSE Reply("untyped")
  BY DEF Generate
<1>4. first \in Nat \ {0} /\ last \in Nat \ {0} /\ first <= last /\ first >= 1
  BY <1>2, <1>3
<1> DEFINE segment == [start |-> first, end |-> last]
           data == [form |-> "generated", segments |-> <<segment>>]
<1>5. call' = [call EXCEPT !.pc = "scan", !.data = data]
  BY <1>3, <1>4
<1>6. segment \in [start : Int, end : Int]
  BY <1>4
<1>7. /\ <<segment>> \in Segments /\ Len(<<segment>>) = 1 /\ DOMAIN <<segment>> = {1}
      /\ <<segment>>[1] = segment
  BY <1>6 DEF Segments
<1>8. data \in GeneratedRecord /\ data.segments = <<segment>>
  BY <1>7 DEF GeneratedRecord, Segments
<1>9. InRange(<<segment>>) /\ Scanned(<<segment>>, 1, 0)
  BY <1>4, <1>7 DEF InRange, Scanned
<1>10. \A i \in DOMAIN call.ayahs : call.ayahs[i] \in Ayahs(segment)
  <2>1. ASSUME NEW i \in DOMAIN call.ayahs PROVE call.ayahs[i] \in Ayahs(segment)
    <3>1. call.ayahs[i] \in NumbersOf(call.ayahs)
      BY DEF NumbersOf
    <3> QED BY <1>2, <1>3, <1>4, <3>1 DEF Ayahs
  <2> QED BY <2>1
<1> HIDE DEF data, segment
<1>11. /\ SameQuestion /\ call'.pc = "scan" /\ call'.data = data /\ call'.outcome = "none"
       /\ call'.next = 1 /\ call'.previousEnd = 0 /\ call' \in Calls
  BY <1>1, <1>5, <1>8 DEF Calls, SameQuestion, Pcs
<1>12. manifests' = manifests /\ payloads' = payloads /\ writes' = writes
  BY <1>1, <1>11, SameFiles
<1>13. Typed' /\ call'.since <= writes'
  BY <1>1, <1>11, <1>12 DEF Typed, SegmentationInv, SameQuestion
<1>14. Checked'
  <2>1. AnswersAreValid'
    BY <1>11 DEF AnswersAreValid
  <2> QED BY <1>1, <1>7, <1>8, <1>9, <1>10, <1>11, <2>1 DEF Checked, SameQuestion, LoadPcs, Segments
<1>15. Agrees'
  BY <1>1, <1>11 DEF Agrees, HasRead, SameQuestion
<1> QED BY <1>13, <1>14, <1>15 DEF SegmentationInv

-----------------------------------------------------------------------------
LEMMA SegmentationBegins == SegmentationInit => SegmentationInv
<1> SUFFICES ASSUME SegmentationInit PROVE SegmentationInv
  OBVIOUS
<1>1. Manifests \subseteq Contents /\ Payloads \subseteq Contents
  BY FilesAssumption DEF Contents
<1>2. call = [NewCall("generate", Unsafe, 0, << >>) EXCEPT !.pc = "replied"] /\ writes = 0
  BY DEF SegmentationInit
<1>3. /\ call.endpoint = "generate" /\ call.pc = "replied" /\ call.outcome = "none"
      /\ call.since = 0 /\ call.data = NoFile
  BY <1>2 DEF NewCall
<1>4. << >> \in Seq(Nat \ {0})
  OBVIOUS
<1>5. call \in Calls
  <2>1. NoFile \in Contents
    BY DEF Contents
  <2>2. NewCall("generate", Unsafe, 0, << >>)
          = [endpoint |-> "generate", artifact |-> Unsafe, surah |-> 0, ayahs |-> << >>,
             pc |-> "workflow", data |-> NoFile, next |-> 1, previousEnd |-> 0,
             outcome |-> "none", since |-> 0]
    BY <1>2 DEF NewCall
  <2>3. call = [endpoint |-> "generate", artifact |-> Unsafe, surah |-> 0, ayahs |-> << >>,
                pc |-> "replied", data |-> NoFile, next |-> 1, previousEnd |-> 0,
                outcome |-> "none", since |-> 0]
    BY <1>2, <2>2
  <2> QED BY <1>4, <2>1, <2>3 DEF Calls, Pcs, Outcomes
<1>6. Typed
  BY <1>1, <1>2, <1>5 DEF Typed, SegmentationInit
<1>7. Checked
  BY <1>3 DEF Checked, AnswersAreValid, LoadPcs
<1>8. Agrees
  BY <1>3 DEF Agrees, HasRead
<1> QED BY <1>2, <1>3, <1>6, <1>7, <1>8 DEF SegmentationInv

LEMMA SegmentationStutters ==
    SegmentationInv /\ UNCHANGED segmentationVars => SegmentationInv'
<1> SUFFICES ASSUME SegmentationInv, UNCHANGED segmentationVars PROVE SegmentationInv'
  OBVIOUS
<1>1. manifests' = manifests /\ payloads' = payloads /\ writes' = writes /\ call' = call
  BY DEF segmentationVars
<1>2. Typed' /\ call'.since <= writes'
  BY <1>1 DEF SegmentationInv, Typed
<1>3. Checked'
  <2>1. Checked /\ AnswersAreValid
    BY DEF SegmentationInv, Checked
  <2>2. AnswersAreValid'
    BY <1>1, <2>1 DEF AnswersAreValid
  <2> QED BY <1>1, <2>1, <2>2 DEF Checked
<1>4. Agrees'
  <2>1. SameQuestion /\ Still
    BY <1>1 DEF SameQuestion, Still, files
  <2>2. File(call)' = File(call) /\ Expected(call)' = Expected(call)
    BY <2>1, SameFiles
  <2> QED BY <1>1, <2>2 DEF SegmentationInv, Agrees, HasRead
<1> QED BY <1>2, <1>3, <1>4 DEF SegmentationInv

(* The inductive invariant of the endpoints, for any files, requests and
   changes of the files. *)
THEOREM SegmentationInvariant == SegmentationSpec => []SegmentationInv
<1>1. SegmentationInv /\ [SegmentationNext]_segmentationVars => SegmentationInv'
  BY ReceiveStep, WriteStep, CheckNameStep, FindManifestStep, FindSurahStep, ReadFileStep,
     ValidateFieldsStep, UniqueSurahsStep, CheckSegmentStep, EndOfSegmentsStep, CheckIdsStep,
     GenerateStep, SegmentationStutters
     DEF SegmentationNext
<1> QED BY <1>1, SegmentationBegins, PTL DEF SegmentationSpec

(* FileSegmentationArtifactLoader and /generate: whatever is copied over the
   files meanwhile, an answer is what was asked for and keeps the promises of
   its schema. *)
THEOREM AnswersKeepTheirSchema == SegmentationSpec => []AnswersAreValid
<1>1. SegmentationInv => AnswersAreValid
  BY DEF SegmentationInv, Checked
<1> QED BY <1>1, SegmentationInvariant, PTL

(* The routes' errors: while no file changes the status is exactly what the
   files call for, and /generate never fails. *)
THEOREM StatusesAreExact == SegmentationSpec => []StatusTellsWhy
<1>1. SegmentationInv => StatusTellsWhy
  BY DEF SegmentationInv, Checked, Agrees, StatusTellsWhy
<1> QED BY <1>1, SegmentationInvariant, PTL
=============================================================================
