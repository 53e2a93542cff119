---------------------------- MODULE ServiceActions ----------------------------
(***************************************************************************)
(* The two decision tables of the service state machine.                   *)
(*                                                                         *)
(*  - ServiceActionState (meta_server/servicestate.py) maps the tuple      *)
(*    (target, process, configured, license) to "keep", "start" or "stop"; *)
(*  - ServiceContainer.decide (icsw/service/container.py) maps the action  *)
(*    and the run state of the service to the list of steps of a           *)
(*    ServiceTransition.                                                   *)
(*                                                                         *)
(* Both are pure.  States are named by the last part of their constant in  *)
(* icsw/service/constants.py.                                              *)
(***************************************************************************)
EXTENDS Naturals, Sequences

TargetState == {"stopped", "running"}

ProcessState == {"ok", "dead", "incomplete", "not_installed", "not_configured"}

ConfState == {"run", "stop", "ip_mismatch", "models_changed"}

LicState == {"violated", "valid", "grace", "new_install", "expired",
             "valid_in_future", "none", "not_needed", "fp_mismatch"}

Action == {"keep", "start", "stop"}

(* Licences under which a configured service is (re)started.               *)
LicOk == {"valid", "not_needed", "grace"}

(***************************************************************************)
(* The rows of init_sas, in the order in which they are added.  An absent  *)
(* keyword stands for every value of its dictionary.                       *)
(***************************************************************************)
init_sas ==
  << [target |-> {"running"}, process |-> {"ok"},
      configured |-> {"run"}, license |-> LicOk, action |-> "keep"],
     [target |-> {"running"}, process |-> {"dead"},
      configured |-> {"stop", "ip_mismatch"},
      license |-> {"violated", "expired", "valid_in_future", "none"},
      action |-> "keep"],
     [target |-> {"running"}, process |-> {"incomplete", "not_installed", "dead"},
      configured |-> {"run"}, license |-> LicOk, action |-> "start"],
     [target |-> {"running"}, process |-> {"ok", "incomplete"},
      configured |-> {"stop", "ip_mismatch", "models_changed"},
      license |-> LicState, action |-> "stop"],
     [target |-> {"stopped"},
      process |-> {"dead", "not_installed", "not_configured"},
      configured |-> ConfState, license |-> LicState, action |-> "keep"],
     [target |-> {"stopped"}, process |-> {"incomplete", "ok"},
      configured |-> ConfState, license |-> LicState, action |-> "stop"] >>

(* ServiceActionState.add_state: a later row overwrites an earlier one.    *)
Matches(row, target, process, conf, lic) ==
  /\ target \in row.target
  /\ process \in row.process
  /\ conf \in row.configured
  /\ lic \in row.license

d_dict(target, process, conf, lic) ==
  LET rows == {i \in 1..Len(init_sas) :
                 Matches(init_sas[i], target, process, conf, lic)}
  IN  IF rows = {} THEN "keep"
      ELSE init_sas[CHOOSE i \in rows : \A j \in rows : j <= i].action

(***************************************************************************)
(* get_action, the table read by rows with the same action: the form the   *)
(* other modules use and the proofs expand; lemma Agree of                 *)
(* ServiceCycle_proofs shows that it is d_dict on every tuple.             *)
(***************************************************************************)
get_action(target, process, conf, lic) ==
  IF /\ target = "running" /\ conf = "run" /\ lic \in LicOk
     /\ process \in {"incomplete", "not_installed", "dead"}
  THEN "start"
  ELSE IF /\ process \in {"ok", "incomplete"}
          /\ \/ target = "stopped"
             \/ target = "running" /\ conf \in {"stop", "ip_mismatch", "models_changed"}
       THEN "stop"
       ELSE "keep"

(***************************************************************************)
(* Service.run_state: pids says whether the last check found any pid,      *)
(* simple whether the state comes from an rc script.                       *)
(***************************************************************************)
run_state(process, pids, simple) ==
  IF pids \/ simple
  THEN IF process \in {"ok", "not_configured"} THEN "ok" ELSE "warn"
  ELSE "error"

(* Mutant: a partially running service is cleaned up but not started.      *)
DecideForgetsStart(action, runState) ==
  CASE runState = "error" -> IF action = "start" THEN <<"cleanup", "start">>
                                                 ELSE <<"cleanup">>
    [] runState = "ok" /\ action = "start" -> <<>>
    [] OTHER -> <<"stop", "wait", "cleanup">>

(* Mutant: the start of a running service restarts it.                     *)
DecideRestarts(action, runState) ==
  IF runState = "error" THEN IF action = "start" THEN <<"cleanup", "start">> ELSE <<"cleanup">>
  ELSE IF action = "start" THEN <<"stop", "wait", "cleanup", "start">>
  ELSE <<"stop", "wait", "cleanup">>

(* ServiceContainer.decide for the two actions the meta-server generates.  *)
decide(action, runState) ==
  CASE runState = "error" /\ action = "start" -> <<"cleanup", "start">>
    [] runState = "error" /\ action = "stop"  -> <<"cleanup">>
    [] runState = "warn"  /\ action = "start" -> <<"stop", "wait", "cleanup", "start">>
    [] runState = "warn"  /\ action = "stop"  -> <<"stop", "wait", "cleanup">>
    [] runState = "ok"    /\ action = "start" -> <<>>
    [] runState = "ok"    /\ action = "stop"  -> <<"stop", "wait", "cleanup">>
===============================================================================
