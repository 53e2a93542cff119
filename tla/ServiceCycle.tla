----------------------------- MODULE ServiceCycle -----------------------------
(***************************************************************************)
(* One service under the two decision tables of ServiceActions, without    *)
(* time, locks or other services: a check observes the processes, the      *)
(* action table picks an action, decide picks its steps, and the steps are *)
(* run to the end on the processes.                                        *)
(*                                                                         *)
(* The question is whether the two tables fit together: an action must     *)
(* reach a state the action table is content with, or the meta-server      *)
(* would start and stop the service for ever.                              *)
(***************************************************************************)
EXTENDS ServiceActions

VARIABLES
  kind,      \* "meta" (MSI block) or "simple" (rc script): attribute check_type
  procs,     \* the processes and the MSI file / rc script behind the service
  target,    \* target_dict of the service
  conf,      \* configured state of the last check
  lic,       \* licence state of the last check
  last       \* action taken since the inputs last changed, "none" if none

vars == <<kind, procs, target, conf, lic, last>>

(***************************************************************************)
(* What can be found behind a service:                                     *)
(*   absent  - rc script not installed (simple services only)              *)
(*   dead    - no process, no MSI block                                    *)
(*   up      - all processes                                               *)
(*   partial - MSI block, some of its processes missing                    *)
(*   crashed - MSI block, all of its processes missing                     *)
(***************************************************************************)
Procs(k) == IF k = "meta" THEN {"dead", "up", "partial", "crashed"}
            ELSE {"absent", "dead", "up"}

(* MetaService._check and SimpleService._check: the process state.         *)
ObservedState(p) ==
  CASE p = "absent" -> "not_installed"
    [] p = "dead" -> "dead"
    [] p = "up" -> "ok"
    [] p \in {"partial", "crashed"} -> "incomplete"

(* _add_pids: the pids put into the result of the check.                   *)
HasPids(p) == p \in {"up", "partial"}

(***************************************************************************)
(* The effect of one step of a transition on the processes.  "stop" is     *)
(* followed by "wait" in every plan, so the processes are gone after it.   *)
(* A SIGTERM reaches a process only if the check found a pid; a simple     *)
(* service is started and stopped by its rc script, if there is one.       *)
(***************************************************************************)
StepEffect(step, k, p) ==
  CASE step = "stop" -> IF p \notin {"up", "partial"} THEN p
                       ELSE IF k = "meta" THEN "crashed" ELSE "dead"
    [] step = "wait" -> p
    [] step = "cleanup" -> IF p = "absent" THEN p ELSE "dead"
    [] step = "start" -> IF p = "absent" THEN p ELSE "up"

(* ServiceTransition.step run until its action list is empty.              *)
RunPlan(plan, k, p) ==
  LET after[i \in 0..Len(plan)] ==
        IF i = 0 THEN p ELSE StepEffect(plan[i], k, after[i - 1])
  IN  after[Len(plan)]

CurAction == get_action(target, ObservedState(procs), conf, lic)

CurPlan == decide(CurAction,
                  run_state(ObservedState(procs), HasPids(procs), kind = "simple"))

TypeOK ==
  /\ kind \in {"meta", "simple"}
  /\ procs \in Procs(kind)
  /\ target \in TargetState
  /\ conf \in ConfState
  /\ lic \in LicState
  /\ last \in {"none", "start", "stop"}

Init ==
  /\ kind \in {"meta", "simple"}
  /\ procs \in Procs(kind)
  /\ target \in TargetState
  /\ conf \in ConfState
  /\ lic \in LicState
  /\ last = "none"

(* Mutant: a service that is to be kept gets a transition, too.            *)
ActAlways ==
  /\ procs' = IF CurAction = "keep" THEN procs ELSE RunPlan(CurPlan, kind, procs)
  /\ last' = CurAction
  /\ UNCHANGED <<kind, target, conf, lic>>

(* update + _new_transitions + _handle_transition for this service.        *)
Act ==
  /\ CurAction # "keep"
  /\ procs' = RunPlan(CurPlan, kind, procs)
  /\ last' = CurAction
  /\ UNCHANGED <<kind, target, conf, lic>>

(* A command, a change of the configuration or of the licence, a process   *)
(* that dies: everything the tables react to.                              *)
Change ==
  /\ procs' \in Procs(kind) \ (IF procs = "absent" THEN {} ELSE {"absent"})
  /\ target' \in TargetState
  /\ conf' \in ConfState
  /\ lic' \in LicState
  /\ last' = "none"
  /\ UNCHANGED kind

Next == Act \/ Change

Spec == Init /\ [][Next]_vars

-------------------------------------------------------------------------------
(***************************************************************************)
(* One transition settles an installed service: after the plan chosen by   *)
(* decide has run, the action table keeps the service as it is.  Otherwise *)
(* the meta-server would generate a transition at every check and disable  *)
(* the service after the third start.  A service that is not installed is  *)
(* the exception: it is "started" again and again.                         *)
(***************************************************************************)
OneActionSettles ==
  last # "none" /\ procs # "absent" => CurAction = "keep"
===============================================================================
