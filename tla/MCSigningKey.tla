---------------------------- MODULE MCSigningKey ----------------------------
(* First uses of the signing key by three requests that may fail.          *)
EXTENDS SigningKey, TLC

CONSTANTS r1, r2, r3

Requests == Permutations({r1, r2, r3})
=============================================================================
