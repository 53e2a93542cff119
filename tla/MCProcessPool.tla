---------------------------- MODULE MCProcessPool ----------------------------
(***************************************************************************)
(* An instance of ProcessPool for TLC: build ends after one job, as the    *)
(* build processes of md-config-server do; resize is permanent and has     *)
(* priority 20, as in collectd.                                            *)
(***************************************************************************)
EXTENDS ProcessPool

CONSTANTS build, resize

Priorities == [p \in Proc |-> IF p = resize THEN 20 ELSE 0]
==============================================================================
