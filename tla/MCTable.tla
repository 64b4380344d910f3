------------------------------ MODULE MCTable ------------------------------
(* Table with three rows, two keys and two indexes.                        *)
EXTENDS Table
=============================================================================
