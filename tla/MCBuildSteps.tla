---------------------------- MODULE MCBuildSteps ----------------------------
(* BuildSteps for TLC: loads of up to four documents, of which some share an  *)
(* id or are larger than a body, and a golden set for each builder.           *)
EXTENDS BuildSteps

(* Ids are named by the first document that has them. *)
MCIds(n) == {f \in [1..n -> 1..n] : \A i \in 1..n : f[i] <= i /\ f[f[i]] = f[i]}

MCLoads ==
    {<< >>} \cup UNION {{[i \in 1..n |-> [id |-> ids[i], bytes |-> bytes[i]]] :
        ids \in MCIds(n), bytes \in [1..n -> {1, 2, 4}]} : n \in {2, 4}}

Case(ids, confirmed, fits) == [ids |-> ids, confirmed |-> confirmed, fits |-> fits]

(* Document 2 translates document 1. *)
MCCanonical == <<1, 1, 3, 4>>
MCSuites ==
    [lexical  |-> <<Case({3}, TRUE, {1, 2}), Case({1, 3}, FALSE, {2, 3})>>,
     semantic |-> <<Case({1, 3}, FALSE, {1}), Case({}, TRUE, {2}), Case({3}, TRUE, {3})>>]
=============================================================================
