--------------------------- MODULE MCHttpsRecord ----------------------------
(* The HTTPS record of a domain through three rotations and three faults.  *)
EXTENDS HttpsRecord
=============================================================================
