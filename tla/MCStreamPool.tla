---------------------------- MODULE MCStreamPool ----------------------------
(* The instance of StreamPool that TLC checks: two callers, room for one   *)
(* stream, and two streams so that one is opened while another is closed.  *)
EXTENDS StreamPool

CONSTANTS p1, p2, s1, s2
=============================================================================
