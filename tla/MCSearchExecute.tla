--------------------------- MODULE MCSearchExecute ---------------------------
(* SearchExecute for TLC: of each backend a version the running code can use   *)
(* and one it cannot; the latter index is of another corpus than both          *)
(* collections.                                                                *)
EXTENDS SearchExecute

Version(corpus, compatible) == [corpus |-> corpus, compatible |-> compatible]

MCLexVersions == {Version(1, TRUE), Version(2, FALSE)}
MCSemVersions == {Version(1, TRUE), Version(1, FALSE)}
=============================================================================
