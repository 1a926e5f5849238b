----------------------------- MODULE MCKartLink -----------------------------
(* Two callers that may use the same command or different ones.            *)
EXTENDS KartLink

=============================================================================
