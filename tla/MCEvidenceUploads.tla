--------------------------- MODULE MCEvidenceUploads ---------------------------
(***************************************************************************)
(* An instance of EvidenceUploads for TLC.                                 *)
(***************************************************************************)
EXTENDS EvidenceUploads, TLC

CONSTANTS x1, x2

\* One content, which either side may submit, also the same one twice.
MCContents == {<<"a">>}

\* Extensions only distinguish names.
MCSymmetry == Permutations({x1, x2})
==============================================================================
