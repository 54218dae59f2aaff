--------------------------- MODULE MCOssDownload ---------------------------
(* Bounded instance of OssDownload for TLC. *)
EXTENDS OssDownload, TLC

Callers == Permutations(Caller)
=============================================================================
