--------------------------- MODULE ServedVersions ---------------------------
(***************************************************************************)
(* What the two index lifecycles promise the request path, with no names,  *)
(* batches, sidecars or aliases: versions that passed validation are       *)
(* published, one published version at a time is served, and a version may *)
(* be retired only while another one is served.                            *)
(***************************************************************************)

CONSTANTS
    Versions,    \* every version an operator could ever build
    NoVersion    \* nothing is served yet; no member of Versions

VARIABLES
    published,   \* the versions that passed validation and still exist
    serving      \* the version the serving alias leads to

servedVars == <<published, serving>>

ServedInit == published = {} /\ serving = NoVersion

Publish(v) ==
    /\ v \notin published
    /\ published' = published \cup {v}
    /\ UNCHANGED serving

Serve(v) ==
    /\ v \in published
    /\ serving' = v
    /\ UNCHANGED published

Retire(v) ==
    /\ v \in published \ {serving}
    /\ published' = published \ {v}
    /\ UNCHANGED serving

ServedNext == \E v \in Versions : Publish(v) \/ Serve(v) \/ Retire(v)

ServedSpec == ServedInit /\ [][ServedNext]_servedVars

(* What the abstract service guarantees at every moment. *)
ServingIsPublished == serving = NoVersion \/ serving \in published
=============================================================================
