----------------------------- MODULE MCLifecycle -----------------------------
(* Two instances, a caller and a pairing client: enough for one daemon to   *)
(* replace another, or to meet it, and for a call to outlast a stop.        *)
EXTENDS Lifecycle

=============================================================================
