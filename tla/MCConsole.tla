----------------------------- MODULE MCConsole ------------------------------
(* Two users, two sessions and two concurrent requests.                    *)
EXTENDS Console
=============================================================================
