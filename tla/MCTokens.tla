----------------------------- MODULE MCTokens ------------------------------
(* TokenSource with four tasks, in both build profiles.                   *)
EXTENDS TokenSource
=============================================================================
