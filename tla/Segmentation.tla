---------------------------- MODULE Segmentation ----------------------------
(***************************************************************************)
(* The segmentation endpoints (src/api/segmentation.py): the loader of     *)
(* prepared artifacts (src/services/segmentation_artifacts.py) with the    *)
(* validators of src/api/schemas/segmentation.py, and the placeholder      *)
(* workflow behind /generate.                                              *)
(*                                                                         *)
(* Artifacts are files somebody copies into a mounted directory while the  *)
(* service runs, and the loader looks for a file before it reads it.  A    *)
(* path is reduced to how far it can be followed: there is no file, the    *)
(* look for it raises, reading it raises, it is not JSON, it does not have *)
(* the fields of its model, or it is a manifest or a payload, of which     *)
(* only what the validators compare is kept.                               *)
(***************************************************************************)
EXTENDS Integers, Sequences, FiniteSets

CONSTANTS
    Artifacts,      \* names of directories
    Unsafe,         \* a name that cannot be one: empty, a dot or with a separator
    LastSurah,      \* 114
    Numbers,        \* surah numbers that are asked for
    Published,      \* bound: the surahs that may have a file
    Manifests,      \* what a manifest.json may hold
    Payloads,       \* what a file of surahs/ may hold
    AyahLists,      \* the ayahs of a generate request
    MaxWrites       \* bound: files replaced or removed

Form(f) == [form |-> f]
NoFile == Form("absent")

(* Path.is_file takes a missing entry for no file and raises any other OSError:
   a directory that may not be entered, a name too long for the file system. *)
Barred == Form("barred")
Visible(f) == f \notin {NoFile, Barred}

(* What is found may be refused to the reader, be no UTF-8, nest too deeply or
   have an integer of too many digits: each raises, and none is a
   JSONDecodeError.  All of these are "unreadable". *)
Defective == {Barred, Form("unreadable"), Form("not_json"), Form("misfit")}
ManifestRecord == [form : {"manifest"}, artifact : Artifacts \cup {Unsafe},
                   entries : Seq(Int)]
PayloadRecord == [form : {"payload"}, artifact : Artifacts \cup {Unsafe}, surah : Int,
                  segments : Seq([start : Int, end : Int])]

ASSUME FilesAssumption ==
    /\ Manifests \subseteq ManifestRecord \cup PayloadRecord \cup Defective \cup {NoFile}
    /\ Payloads \subseteq ManifestRecord \cup PayloadRecord \cup Defective \cup {NoFile}
ASSUME NamesAssumption == Unsafe \notin Artifacts
ASSUME NumbersAssumption ==
    /\ LastSurah \in Nat
    /\ Numbers \subseteq Int
    /\ Published \subseteq 1..LastSurah
ASSUME AyahsAssumption == AyahLists \subseteq Seq(Nat \ {0})
ASSUME WritesAssumption == MaxWrites \in Nat

VARIABLES
    manifests,      \* the disk: artifact -> its manifest.json
    payloads,       \* the disk: <<artifact, surah>> -> its file
    writes,         \* ghost: how often a file was replaced or removed
    call            \* the request that is being answered

files == <<manifests, payloads>>
segmentationVars == <<manifests, payloads, writes, call>>

-----------------------------------------------------------------------------
NewCall(endpoint, artifact, surah, ayahs) ==
    [endpoint |-> endpoint, artifact |-> artifact, surah |-> surah, ayahs |-> ayahs,
     pc |-> IF endpoint = "generate" THEN "workflow" ELSE "name",
     data |-> NoFile, next |-> 1, previousEnd |-> 0, outcome |-> "none",
     since |-> writes]

(* What the path of the call leads to. *)
SurahFile(artifact, surah) ==
    IF <<artifact, surah>> \in DOMAIN payloads THEN payloads[<<artifact, surah>>] ELSE NoFile
File(c) ==
    IF c.endpoint = "manifest" THEN manifests[c.artifact] ELSE SurahFile(c.artifact, c.surah)

Goes(pc) == call' = [call EXCEPT !.pc = pc]
Reply(outcome) == call' = [call EXCEPT !.pc = "replied", !.outcome = outcome]
Still == UNCHANGED <<files, writes>>

-----------------------------------------------------------------------------
(* Whoever prepares artifacts.  A copy in progress leaves a file that is not
   JSON, or no file, before the whole one; permissions change too. *)
Write ==
    /\ writes < MaxWrites
    /\ writes' = writes + 1
    /\ \/ \E a \in Artifacts, m \in Manifests :
            manifests' = [manifests EXCEPT ![a] = m] /\ UNCHANGED payloads
       \/ \E path \in DOMAIN payloads, p \in Payloads :
            payloads' = [payloads EXCEPT ![path] = p] /\ UNCHANGED manifests
    /\ UNCHANGED call

-----------------------------------------------------------------------------
SegmentationInit ==
    /\ manifests \in [Artifacts -> Manifests]
    /\ payloads \in [Artifacts \X Published -> Payloads]
    /\ writes = 0
    /\ call = [NewCall("generate", Unsafe, 0, << >>) EXCEPT !.pc = "replied"]

Receive ==
    /\ call.pc = "replied"
    /\ \/ \E a \in Artifacts \cup {Unsafe} : call' = NewCall("manifest", a, 0, << >>)
       \/ \E a \in Artifacts \cup {Unsafe}, n \in Numbers :
            call' = NewCall("surah", a, n, << >>)
       \/ \E ayahs \in AyahLists : call' = NewCall("generate", Unsafe, 0, ayahs)
    /\ Still

(* load_surah's range check, and _artifact_dir. *)
CheckName ==
    /\ call.pc = "name"
    /\ IF call.artifact = Unsafe \/ (call.endpoint = "surah" /\ call.surah \notin 1..LastSurah)
       THEN Reply("not_found")
       ELSE Goes("manifest_file")
    /\ Still

(* Slip: a surah is served without looking for its artifact. *)
SkipManifest ==
    /\ call.pc = "manifest_file"
    /\ Goes(IF call.endpoint = "manifest" THEN "read" ELSE "surah_file")
    /\ Still

(* manifest.json must be there for either endpoint; load_surah does not open
   it.  No handler has a branch for a look that raises. *)
FindManifest ==
    /\ call.pc = "manifest_file"
    /\ \/ /\ Visible(manifests[call.artifact])
          /\ Goes(IF call.endpoint = "manifest" THEN "read" ELSE "surah_file")
       \/ manifests[call.artifact] = NoFile /\ Reply("not_found")
       \/ manifests[call.artifact] = Barred /\ Reply("untyped")
    /\ Still

FindSurah ==
    /\ call.pc = "surah_file"
    /\ \/ Visible(File(call)) /\ Goes("read")
       \/ File(call) = NoFile /\ Reply("not_found")
       \/ File(call) = Barred /\ Reply("untyped")
    /\ Still

(* _load_json turns a JSONDecodeError into a typed error and nothing else, such
   as what opening raises when the file is gone or barred by now. *)
ReadFile ==
    /\ call.pc = "read"
    /\ CASE File(call).form \in {"absent", "barred", "unreadable"} -> Reply("untyped")
         [] File(call).form = "not_json" -> Reply("invalid")
         [] OTHER -> call' = [call EXCEPT !.data = File(call), !.pc = "fields"]
    /\ Still

(* The fields of the model and their ranges; each segment by itself. *)
FieldsFit(data, endpoint) ==
    IF endpoint = "manifest"
    THEN /\ data.form = "manifest"
         /\ \A i \in DOMAIN data.entries : data.entries[i] \in 1..LastSurah
    ELSE /\ data.form = "payload"
         /\ data.surah \in 1..LastSurah
         /\ \A i \in DOMAIN data.segments :
              /\ data.segments[i].start >= 1
              /\ data.segments[i].start <= data.segments[i].end

ValidateFields ==
    /\ call.pc = "fields"
    /\ IF FieldsFit(call.data, call.endpoint)
       THEN Goes(IF call.endpoint = "manifest" THEN "unique" ELSE "scan")
       ELSE Reply("invalid")
    /\ Still

(* validate_unique_surahs: as many distinct numbers as entries. *)
UniqueSurahs ==
    /\ call.pc = "unique"
    /\ IF Cardinality({call.data.entries[i] : i \in DOMAIN call.data.entries})
            = Len(call.data.entries)
       THEN Goes("ids") ELSE Reply("invalid")
    /\ Still

(* Slip: segments may share an ayah. *)
TouchingSegment ==
    /\ call.pc = "scan"
    /\ call.next <= Len(call.data.segments)
    /\ LET segment == call.data.segments[call.next]
       IN  IF segment.start < call.previousEnd THEN Reply("invalid")
           ELSE call' = [call EXCEPT !.next = call.next + 1, !.previousEnd = segment.end]
    /\ Still

(* One turn of validate_sorted_non_overlapping_segments, of either response.
   The response of /generate is built outside of any handler. *)
CheckSegment ==
    /\ call.pc = "scan"
    /\ call.next <= Len(call.data.segments)
    /\ LET segment == call.data.segments[call.next]
       IN  IF segment.start <= call.previousEnd
           THEN Reply(IF call.endpoint = "generate" THEN "untyped" ELSE "invalid")
           ELSE call' = [call EXCEPT !.next = call.next + 1, !.previousEnd = segment.end]
    /\ Still

EndOfSegments ==
    /\ call.pc = "scan"
    /\ call.next > Len(call.data.segments)
    /\ IF call.endpoint = "generate" THEN Reply("ok") ELSE Goes("ids")
    /\ Still

(* What is stored must say that it is what was asked for. *)
CheckIds ==
    /\ call.pc = "ids"
    /\ IF /\ call.data.artifact = call.artifact
          /\ call.endpoint = "surah" => call.data.surah = call.surah
       THEN Reply("ok") ELSE Reply("invalid")
    /\ Still

(* run_segmentation_workflow: one segment from the least to the greatest of
   the ayahs, as they are numbered, or the first ayah alone.  Both of its
   checks as a GeneratedSegment are made. *)
NumbersOf(ayahs) == IF ayahs = << >> THEN {1} ELSE {ayahs[i] : i \in DOMAIN ayahs}

Generate ==
    /\ call.pc = "workflow"
    /\ \E first, last \in NumbersOf(call.ayahs) :
         /\ \A n \in NumbersOf(call.ayahs) : first <= n /\ n <= last
         /\ IF first >= 1 /\ first <= last
            THEN call' = [call EXCEPT !.pc = "scan", !.data =
                    [form |-> "generated", segments |-> <<[start |-> first, end |-> last]>>]]
            ELSE Reply("untyped")
    /\ Still

SegmentationNext ==
    \/ Write \/ Receive \/ CheckName \/ FindManifest \/ FindSurah \/ ReadFile
    \/ ValidateFields \/ UniqueSurahs \/ CheckSegment \/ EndOfSegments
    \/ CheckIds \/ Generate

SegmentationSpec == SegmentationInit /\ [][SegmentationNext]_segmentationVars

-----------------------------------------------------------------------------
(* Properties *)

(* Segments of one surah as they should be: ranges, in order, and no ayah in
   two of them. *)
Ayahs(segment) == segment.start..segment.end
WellSegmented(segments) ==
    /\ \A i \in DOMAIN segments : segments[i].start >= 1 /\ Ayahs(segments[i]) # {}
    /\ \A i, j \in DOMAIN segments :
         i < j => /\ Ayahs(segments[i]) \cap Ayahs(segments[j]) = {}
                  /\ segments[i].start < segments[j].start

ListsEachSurahOnce(entries) ==
    \A i, j \in DOMAIN entries : i # j => entries[i] # entries[j]

(* Whatever is copied over the files meanwhile, an answer is what was asked for
   and keeps the promises of its schema: a payload has disjoint segments in
   order although its validator compares neighbours only, a manifest lists no
   surah twice, and a generated segment spans the ayahs it was given. *)
AnswersAreValid ==
    call.outcome = "ok" =>
        CASE call.endpoint = "manifest" ->
               /\ call.data.artifact = call.artifact
               /\ ListsEachSurahOnce(call.data.entries)
          [] call.endpoint = "surah" ->
               /\ call.data.artifact = call.artifact
               /\ call.data.surah = call.surah
               /\ call.surah \in 1..LastSurah
               /\ WellSegmented(call.data.segments)
          [] call.endpoint = "generate" ->
               /\ WellSegmented(call.data.segments)
               /\ \A i \in DOMAIN call.ayahs :
                    call.ayahs[i] \in Ayahs(call.data.segments[1])

(* What the files make of a call, were they read at once. *)
Expected(c) ==
    IF c.endpoint = "generate" THEN "ok"
    ELSE IF \/ c.artifact = Unsafe
            \/ c.endpoint = "surah" /\ c.surah \notin 1..LastSurah
            \/ manifests[c.artifact] = NoFile
            \/ manifests[c.artifact] # Barred /\ File(c) = NoFile
    THEN "not_found"
    ELSE IF Barred \in {manifests[c.artifact], File(c)} \/ File(c).form = "unreadable"
    THEN "untyped"
    ELSE IF \/ File(c).form \in {"not_json", "misfit"}
            \/ ~FieldsFit(File(c), c.endpoint)
            \/ File(c).artifact # c.artifact
            \/ c.endpoint = "manifest" /\ ~ListsEachSurahOnce(File(c).entries)
            \/ c.endpoint = "surah" /\ ~(File(c).surah = c.surah /\ WellSegmented(File(c).segments))
    THEN "invalid"
    ELSE "ok"

(* While no file changes the reply tells what is wrong with the files and
   refuses nothing that is right.  The routes translate two errors: everything
   else that a look or a read can raise reaches the client as an untyped 500,
   but only for a path whose look or read does raise, and never because of what
   a readable file says.  /generate, which opens no file, never fails. *)
StatusTellsWhy ==
    /\ call.outcome # "none" /\ call.since = writes => call.outcome = Expected(call)
    /\ call.endpoint = "generate" => call.outcome \in {"none", "ok"}
=============================================================================
