------------------------------ MODULE MCMonSync ------------------------------
(* The model values of the MonSync runs: a file every configuration has,   *)
(* and the file of a host that comes and goes.                             *)
EXTENDS MonSync
CONSTANTS main, host
=============================================================================
