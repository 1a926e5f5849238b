--------------------------- MODULE MCDriveSession ---------------------------
(* Two concurrent callers and one command beside neutral: an enable against *)
(* a disable, a command against either, each against setup and teardown.   *)
EXTENDS DriveSession, TLC

CONSTANTS u1, u2, ahead, still

=============================================================================
