-------------------------------- MODULE MCServer --------------------------------
(***************************************************************************)
(* Instances of Server for TLC: two calls, so that one can be under way     *)
(* while another is answered, and two statuses that errors carry.           *)
(***************************************************************************)
EXTENDS Server

CONSTANTS c1, c2    \* model values
================================================================================
