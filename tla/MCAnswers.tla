----------------------------- MODULE MCAnswers -----------------------------
(* Everything the service answers from data, for TLC: one search over one of  *)
(* the corpora of MCSearchAnswer, the fusion of two rankings, or requests for *)
(* segmentation one after the other.  The three share no state, so all but    *)
(* one are at rest.                                                           *)
EXTENDS MCSearchAnswer, RankFusion, Segmentation

VARIABLE busy

Segment(s, e) == [start |-> s, end |-> e]
MCSegments == {Segment(1, 1), Segment(1, 2), Segment(1, 3), Segment(2, 3), Segment(3, 3)}
MCSegmentLists ==
    UNION {[1..n -> MCSegments] : n \in 0..2}
    \cup {<<Segment(0, 1)>>, <<Segment(3, 2)>>,
          <<Segment(1, 1), Segment(2, 2), Segment(3, 3)>>,
          <<Segment(1, 1), Segment(3, 3), Segment(2, 2)>>,
          <<Segment(1, 2), Segment(3, 3), Segment(1, 1)>>}

MCPayload(artifact, surah, segments) ==
    [form |-> "payload", artifact |-> artifact, surah |-> surah, segments |-> segments]
MCManifest(artifact, entries) ==
    [form |-> "manifest", artifact |-> artifact, entries |-> entries]

MCPayloads ==
    {MCPayload("a", 2, segments) : segments \in MCSegmentLists}
    \cup {MCPayload(".", 2, << >>), MCPayload("a", 1, << >>), MCPayload("a", 3, << >>),
          MCManifest("a", <<2>>), NoFile}
    \cup Defective
MCManifests ==
    {MCManifest("a", <<2, 1>>), MCManifest("a", <<2, 1, 2>>), MCManifest("a", <<3>>),
     MCManifest(".", <<2>>), MCPayload("a", 2, << >>), NoFile}
    \cup Defective
MCAyahLists == UNION {[1..n -> {1, 3, 4}] : n \in 0..2}

(* A search at rest has asked for nothing. *)
SearchAtRest ==
    /\ snapshot = [ayahs |-> {}, names |-> {}]
    /\ request = Plain
    /\ policy = "lexical_v1"
    /\ pc = "rest"
    /\ lexical = {} /\ semantic = {} /\ matched = {}
    /\ filters = FromRequestFilters(request)
    /\ verses = << >> /\ translations = << >>
    /\ chart = << >>
    /\ response = NoResponse

FusionAtRest ==
    /\ lists = << << >>, << >> >>
    /\ canonical = [d \in Docs |-> 1]
    /\ topK = 1
    /\ collapse = FALSE /\ hybrid = FALSE
    /\ stage = "rest"
    /\ at = <<1, 1>>
    /\ merged = << >>
    /\ waiting = {} /\ kept = {}
    /\ result = << >>

SegmentationAtRest ==
    /\ manifests = [a \in Artifacts |-> NoFile]
    /\ payloads = [path \in Artifacts \X Published |-> NoFile]
    /\ SegmentationInit

AnswersInit ==
    \/ /\ busy = "search"
       /\ Init
       /\ FusionAtRest /\ SegmentationAtRest
    \/ /\ busy = "fusion"
       /\ SearchAtRest
       /\ FusionInit
       /\ SegmentationAtRest
    \/ /\ busy = "segmentation"
       /\ SearchAtRest /\ FusionAtRest
       /\ SegmentationInit

AnswersNext ==
    \/ busy = "search" /\ Next /\ UNCHANGED <<fusionVars, segmentationVars, busy>>
    \/ busy = "fusion" /\ FusionNext /\ UNCHANGED <<vars, segmentationVars, busy>>
    \/ busy = "segmentation" /\ SegmentationNext /\ UNCHANGED <<vars, fusionVars, busy>>

AnswersSpec ==
    AnswersInit /\ [][AnswersNext]_<<vars, fusionVars, segmentationVars, busy>>
=============================================================================
