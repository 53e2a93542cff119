------------------------------ MODULE MetaServer ------------------------------
(***************************************************************************)
(* The meta-server: it observes the services of a machine, compares them   *)
(* with the target states of its database and starts and stops them.       *)
(*                                                                         *)
(*   meta_server/server.py        main_process, the event loop             *)
(*   meta_server/servicestate.py  ServiceState, targets, history and locks *)
(*   icsw/service/transition.py   ServiceTransition, the steps of an action*)
(*   icsw/service/service.py      the checks and the steps of one service  *)
(*                                                                         *)
(* The server is one thread.  A handler is cut into steps where the code   *)
(* looks at the processes again, because the processes run on meanwhile,   *)
(* and where a signal can abort it: _sig_handler raises an exception in    *)
(* whatever code the main thread is executing.  pc says where the server   *)
(* is in a handler; no other handler starts before pc is "idle" again.     *)
(*                                                                         *)
(* Time is abstracted to what the code compares it with: settled (the      *)
(* stability rules of _check_for_stable_state), locked (LOCK_TIMEOUT),     *)
(* late (wait_time), recent (throttling) and streak (TRANSACTION_WINDOW)   *)
(* change in actions of their own.  ServiceHistory has the clock.          *)
(***************************************************************************)
EXTENDS ServiceActions, FiniteSets

CONSTANTS
  Service,     \* the services with startstop = 1, meta-server itself left out
  Simple,      \* those with check_type "simple" (rc script); the others: "meta"
  Needed,      \* needed-for-start of each service (all symmetrical)
  LongWait,    \* services whose wait_time exceeds LOCK_TIMEOUT
  SlowStart,   \* services that may need more than 5 s to write their MSI block
  Throttle,    \* services in the throttle list of update (uwsgi-init)
  EnvState,    \* configured and licence states a check may find
  Happen,      \* kinds of outside events that happen
  MaxEvents    \* bound on the number of outside events

ASSUME ServiceAssumption ==
  /\ Simple \subseteq Service
  /\ LongWait \subseteq Service
  /\ SlowStart \subseteq Service
  /\ Throttle \subseteq Service
  /\ LongWait \cap Simple = {}

(* instance.py refuses a service that depends on itself or on an unknown one. *)
ASSUME NeededAssumption ==
  /\ Needed \in [Service -> SUBSET Service]
  /\ \A s \in Service : s \notin Needed[s]

ASSUME EnvAssumption ==
  /\ EnvState \subseteq [conf : ConfState, lic : LicState]
  /\ MaxEvents \in Nat

VARIABLES
  \* the machine
  proc,        \* the processes and the MSI block of each service
  env,         \* configured and licence state of each service
  \* servicestate.sqlite
  dbTarget,    \* service.target_state
  dbIgnore,    \* services with ignore = 1
  streak,      \* newest rows of action that are "start", counted up to 3
  settled,     \* services whose records satisfy _check_for_stable_state
  \* ServiceState
  targetDict, ignoreDict, stateDict,
  locked,      \* services with an unexpired entry in __transition_lock_dict
  startProblem, stopProblem,   \* __dependency_problems
  recent,      \* throttled services with a transition less than 5 s ago
  shutdown,    \* __shutdown of ServiceState and __exit_process of main_process
  \* main_process
  transitions, \* __transitions
  timer,       \* __transition_timer
  stranded,    \* services with a transition that a signal left without the timer
  first,       \* __loopcount = 0
  nextStopIsRestart,
  server,      \* "run", "exited" (exit_requested) or "killed"
  \* the handler being executed
  pc,          \* "idle", "check" (before check_system), "new" (_new_transitions)
               \* or "none" (trans_list is empty, _new_transitions not called)
  job,         \* its arguments and what it does at its end
  todo,        \* trans_list, the transitions still to be created
  \* bound
  events       \* outside events so far

machineVars == <<proc, env>>
dbVars == <<dbTarget, dbIgnore, streak, settled>>
dictVars == <<targetDict, ignoreDict>>
probVars == <<startProblem, stopProblem>>
stateVars == <<stateDict, locked, recent, startProblem, stopProblem>>
loopVars == <<transitions, timer, stranded, first>>
jobVars == <<pc, job, todo>>
vars == <<proc, env, dbTarget, dbIgnore, streak, settled, targetDict, ignoreDict,
          stateDict, locked, startProblem, stopProblem, recent, shutdown,
          transitions, timer, stranded, first, nextStopIsRestart, server, pc, job,
          todo, events>>

-------------------------------------------------------------------------------
(***************************************************************************)
(* The processes of a service.                                             *)
(*   dead     - no process, no MSI block                                   *)
(*   starting - processes, MSI block not yet written                       *)
(*   up       - all processes of the MSI block                             *)
(*   partial  - some processes of the MSI block are missing                *)
(*   stopping - got SIGTERM, not yet gone                                  *)
(*   crashed  - MSI block without any process                              *)
(* A simple service is only dead or up: its rc script works synchronously. *)
(***************************************************************************)
ProcState == {"dead", "starting", "up", "partial", "stopping", "crashed"}

(* Service._check: the process state put into the result ...               *)
Observed(p) == IF p \in {"up", "stopping"} THEN "ok"
               ELSE IF p \in {"partial", "crashed"} THEN "incomplete" ELSE "dead"

(* ... and whether the result lists pids (_add_pids).                      *)
HasPids(p) == p \in {"up", "partial", "stopping"}

ServiceRunState(s, p) == run_state(Observed(p), HasPids(p), s \in Simple)

(* Service.stop: SIGTERM to the main pid, or "rc stop".                    *)
StopProc(s, p) == IF s \in Simple THEN "dead"
                  ELSE IF HasPids(p) THEN "stopping" ELSE p

(* Service.start: daemonize.py returns before the MSI block is written.    *)
StartProc(s) == IF s \in Simple THEN "up" ELSE "starting"

(* cleanup (kill -9 by pid and by name, unlink of the MSI block), then     *)
(* start if the transition starts the service.                             *)
EndProc(s, action) == IF action = "start" THEN StartProc(s) ELSE "dead"

(* Mutant: the step "wait" is left out of the plan.                        *)
WaitsNever(s, action, p) == FALSE

(***************************************************************************)
(* The first ServiceTransition.step: a fresh check, decide, and the steps  *)
(* up to "wait".  The wait ends in the same step if no pid is left.        *)
(***************************************************************************)
Waits(s, action, p) ==
  LET plan == decide(action, ServiceRunState(s, p))
  IN  /\ plan # <<>>
      /\ plan[1] = "stop"
      /\ HasPids(StopProc(s, p))

FirstStep(s, action, p) ==
  IF decide(action, ServiceRunState(s, p)) = <<>> THEN p
  ELSE IF Waits(s, action, p) THEN StopProc(s, p)
  ELSE EndProc(s, action)

-------------------------------------------------------------------------------
Problem == {"start", "stop"}

Trans == [svc : Service, action : Problem, late : BOOLEAN, newest : BOOLEAN]

Job == [force : BOOLEAN, scope : SUBSET Service, cont : {"loop", "exit", "sigint"}]

NoState == [p |-> "unknown", c |-> "unknown", l |-> "unknown"]

StateTuple == [p : ProcessState, c : ConfState, l : LicState]

Idle == server = "run" /\ pc = "idle"

(* Service.check: the state tuple it finds.                                *)
Found(s) == [p |-> Observed(proc[s]), c |-> env[s].conf, l |-> env[s].lic]

TypeOK ==
  /\ proc \in [Service -> ProcState]
  /\ env \in [Service -> EnvState]
  /\ dbTarget \in [Service -> TargetState]
  /\ dbIgnore \in SUBSET Service
  /\ streak \in [Service -> 0..3]
  /\ settled \in SUBSET Service
  /\ targetDict \in [Service -> TargetState]
  /\ ignoreDict \in SUBSET Service
  /\ stateDict \in [Service -> StateTuple \cup {NoState}]
  /\ locked \in SUBSET Service
  /\ startProblem \in SUBSET Service
  /\ stopProblem \in SUBSET Service
  /\ recent \in SUBSET Service
  /\ shutdown \in BOOLEAN
  /\ transitions \in SUBSET Trans
  /\ timer \in BOOLEAN
  /\ stranded \in SUBSET Service
  /\ first \in BOOLEAN
  /\ nextStopIsRestart \in BOOLEAN
  /\ server \in {"run", "exited", "killed"}
  /\ pc \in {"idle", "check", "new", "none"}
  /\ job \in Job
  /\ todo \in SUBSET [svc : Service, action : Problem]
  /\ events \in 0..MaxEvents

NoJob == [force |-> FALSE, scope |-> {}, cont |-> "loop"]

(* A server starts on the processes and the database it finds: _init_states, *)
(* sync_with_instance and main_process.__init__.                           *)
Init ==
  /\ proc \in [Service -> {"dead", "up"}]
  /\ env \in [Service -> EnvState]
  /\ dbTarget \in [Service -> TargetState]
  /\ dbIgnore \in SUBSET Service
  /\ streak = [s \in Service |-> 0]
  /\ settled = {}
  /\ targetDict = dbTarget
  /\ ignoreDict = dbIgnore
  /\ stateDict = [s \in Service |-> NoState]
  /\ locked = {} /\ recent = {} /\ startProblem = {} /\ stopProblem = {}
  /\ shutdown = FALSE
  /\ transitions = {} /\ timer = FALSE /\ stranded = {} /\ first = TRUE
  /\ nextStopIsRestart = FALSE
  /\ server = "run"
  /\ pc = "idle" /\ job = NoJob /\ todo = {}
  /\ events = 0

-------------------------------------------------------------------------------
(***************************************************************************)
(* main_process._check_processes up to the call of check_system.           *)
(***************************************************************************)
CallCheck(force, scope, cont) ==
  /\ pc' = "check"
  /\ job' = [force |-> force \/ first, scope |-> scope, cont |-> cont]
  /\ first' = FALSE
  /\ UNCHANGED todo

(* _filter_list: dependencies whose last state is known and configured.    *)
FilterList(deps, sd) == {d \in deps : sd[d].c = "run"}

(* get_stop_dependencies: every dependency of the XML files is symmetrical. *)
NeededForStop(s) == {t \in Service : s \in Needed[t]}

(* _check_dependencies *)
DepsOk(s, action, sd) ==
  IF action = "start"
  THEN \A d \in FilterList(Needed[s], sd) : sd[d].p = "ok"
  ELSE \A d \in FilterList(NeededForStop(s), sd) : sd[d].p # "ok"

(***************************************************************************)
(* check_system and ServiceState.update.                                   *)
(*                                                                         *)
(* Found is taken from one list of processes (update_proc_dict), so all    *)
(* services are observed at once.  act_list, the dependency check and      *)
(* _generate_transition treat each service on its own.                     *)
(***************************************************************************)
CheckList == job.scope

Monitored == CheckList \ ignoreDict

NewStateDict == [s \in Service |-> IF s \in Monitored THEN Found(s) ELSE stateDict[s]]

(* _update_state inserts a record, which is then too young to be stable.   *)
StillSettled == settled \ {s \in Monitored : Found(s) # stateDict[s]}

ActionOf(s) == get_action(targetDict[s], Found(s).p, Found(s).c, Found(s).l)

(* Mutant: only forced checks and shutdown act.                            *)
ActListForced ==
  {s \in Monitored : ActionOf(s) # "keep" /\ (shutdown \/ job.force) /\ s \notin recent}

(* Mutant: services that are ok are not left out.                          *)
ActListAll == {s \in Monitored : (shutdown \/ job.force) /\ s \notin recent}

(* not ok, and stable or forced; _check_for_throttle                       *)
ActList ==
  {s \in Monitored :
     /\ ActionOf(s) # "keep"
     /\ shutdown \/ job.force \/ s \in StillSettled
     /\ s \notin recent}

Fulfilled == {s \in ActList : DepsOk(s, ActionOf(s), NewStateDict)}

(* Mutant: the transition lock is not looked at.                           *)
GeneratedUnlocked == Fulfilled

(* _generate_transition refuses a service whose lock is still active.      *)
Generated == Fulfilled \ locked

(***************************************************************************)
(* ServiceStateTranstaction.post_disable needs more than two starts in the *)
(* window (streak), the oldest more than 30 s ago (left open).             *)
(***************************************************************************)
MayDisable == {s \in Generated : streak[s] = 3}

(* _disable_command and _update_target_ignore_dict for the services in D.  *)
PostDisable(D) ==
  IF D = {}
  THEN UNCHANGED <<dbTarget, targetDict, ignoreDict>>
  ELSE /\ dbTarget' = [s \in Service |-> IF s \in D THEN "stopped" ELSE dbTarget[s]]
       /\ targetDict' = dbTarget'
       /\ ignoreDict' = dbIgnore

NextStreak(D) ==
  [s \in Service |->
     IF s \notin Generated THEN streak[s]
     ELSE IF ActionOf(s) = "stop" \/ (s \in D /\ dbTarget[s] = "running") THEN 0
     ELSE IF streak[s] < 3 THEN streak[s] + 1 ELSE 3]

Update ==
  /\ server = "run" /\ pc = "check"
  /\ stateDict' = NewStateDict
  /\ startProblem' = {s \in Service : IF s \in ActList /\ ActionOf(s) = "start"
                                      THEN s \notin Fulfilled ELSE s \in startProblem}
  /\ stopProblem' = {s \in Service : IF s \in ActList /\ ActionOf(s) = "stop"
                                     THEN s \notin Fulfilled ELSE s \in stopProblem}
  /\ recent' = recent \cup (ActList \cap Throttle)
  /\ locked' = locked \cup Generated
  /\ todo' = {[svc |-> s, action |-> ActionOf(s)] : s \in Generated}
  /\ settled' = StillSettled \ {s \in Generated : ActionOf(s) = "start"}
  /\ \E D \in SUBSET MayDisable : PostDisable(D) /\ streak' = NextStreak(D)
  /\ pc' = IF Generated = {} /\ job.cont # "sigint" THEN "none" ELSE "new"
  /\ UNCHANGED <<machineVars, dbIgnore, shutdown, loopVars, nextStopIsRestart,
                 server, job, events>>

(***************************************************************************)
(* main_process._new_transitions: each transition of trans_list is created *)
(* and makes its first step ...                                            *)
(***************************************************************************)
NewTransition(x) ==
  /\ server = "run" /\ pc = "new"
  /\ x \in todo
  /\ todo' = todo \ {x}
  /\ proc' = [proc EXCEPT ![x.svc] = FirstStep(x.svc, x.action, proc[x.svc])]
  /\ IF Waits(x.svc, x.action, proc[x.svc])
     THEN /\ transitions' =
               {[t EXCEPT !.newest = t.newest /\ t.svc # x.svc] : t \in transitions}
               \cup {[svc |-> x.svc, action |-> x.action, late |-> FALSE, newest |-> TRUE]}
          /\ UNCHANGED locked
     ELSE /\ locked' = locked \ {x.svc}          \* transition_finished
          /\ UNCHANGED transitions
  /\ UNCHANGED <<env, dbVars, dictVars, stateDict, probVars, recent, shutdown, timer,
                 stranded, first, nextStopIsRestart, server, pc, job, events>>

(* Mutant: the timer is only kept armed, never armed.                      *)
KeepTransitionTimer == timer' = (timer /\ transitions # {})

EnableTransitionTimer == timer' = (timer \/ transitions # {})

(* ... then the timer is armed, and the handler does what follows the call. *)
NewTransitionsDone ==
  /\ server = "run" /\ pc \in {"new", "none"}
  /\ todo = {}
  /\ IF pc = "new" THEN EnableTransitionTimer ELSE UNCHANGED timer
  /\ server' = IF job.cont = "exit" \/ (job.cont = "sigint" /\ transitions = {})
               THEN "exited" ELSE "run"
  /\ pc' = "idle"
  /\ job' = NoJob
  /\ UNCHANGED <<machineVars, dbVars, dictVars, stateVars, shutdown, transitions,
                 stranded, first, nextStopIsRestart, todo, events>>

-------------------------------------------------------------------------------
(* The 30 s timer (_check), and the removal of an MSI file.                *)
Check ==
  /\ Idle
  /\ CallCheck(FALSE, Service, "loop")
  /\ UNCHANGED <<machineVars, dbVars, dictVars, stateVars, shutdown, transitions,
                 timer, stranded, nextStopIsRestart, server, events>>

(* _update_or_create_msi_by_file_name: the check of one service.           *)
InotifyEvent(s) ==
  /\ Idle
  /\ s \notin Simple
  /\ CallCheck(FALSE, {s}, "loop")
  /\ UNCHANGED <<machineVars, dbVars, dictVars, stateVars, shutdown, transitions,
                 timer, stranded, nextStopIsRestart, server, events>>

(***************************************************************************)
(* _handle_transition, every 5 s while the timer is armed.  A waiting      *)
(* transition goes on when no pid of its service is left or its wait_time  *)
(* is over.  If one transition of a service goes on, its other ones do:    *)
(* the first one removes the pids the others wait for, and the newest one, *)
(* at the end of the list, decides what is left.                           *)
(***************************************************************************)
GoesOn(s) ==
  \E t \in transitions : t.svc = s /\ (t.late \/ ~HasPids(proc[s]))

HandleTransition ==
  /\ Idle /\ timer
  /\ LET rest == {t \in transitions : ~GoesOn(t.svc)}
         problems == startProblem \cup stopProblem # {}
     IN  /\ transitions' = rest
         /\ proc' = [s \in Service |->
                       IF ~GoesOn(s) THEN proc[s]
                       ELSE IF \E t \in transitions : t.svc = s /\ t.newest /\ t.action = "start"
                            THEN EndProc(s, "start") ELSE EndProc(s, "stop")]
         /\ locked' = {s \in locked : ~GoesOn(s)}
         /\ stranded' = {s \in stranded : ~GoesOn(s)}
         /\ timer' = (rest # {})
         /\ IF rest = {} /\ problems
            THEN CallCheck(TRUE, Service,
                           IF shutdown /\ stopProblem = {} THEN "exit" ELSE "loop")
            ELSE UNCHANGED <<jobVars, first>>
         /\ server' = IF rest = {} /\ ~problems /\ shutdown THEN "exited" ELSE "run"
  /\ UNCHANGED <<env, dbVars, dictVars, stateDict, probVars, recent, shutdown,
                 nextStopIsRestart, events>>

-------------------------------------------------------------------------------
(* An outside event of the given kind.                                     *)
Outside(kind) ==
  /\ kind \in Happen
  /\ events < MaxEvents
  /\ events' = events + 1

(* Mutant: only the targets are reloaded.                                  *)
ReloadTargetsOnly(target, ignore) == targetDict' = target /\ UNCHANGED ignoreDict

UpdateTargetIgnoreDict(target, ignore) == targetDict' = target /\ ignoreDict' = ignore

(***************************************************************************)
(* handle_command: enable, disable, monitor and ignore change the rows of  *)
(* the services named (if they differ), add a row to action for each, and  *)
(* _update_target_ignore_dict reloads all services.  A change triggers a   *)
(* forced check.  In shutdown mode every command is refused.               *)
(***************************************************************************)
Command(changed, target, ignore) ==
  /\ Outside("command")
  /\ Idle /\ ~shutdown
  /\ dbTarget' = target
  /\ dbIgnore' = ignore
  /\ streak' = [s \in Service |-> IF s \in changed THEN 0 ELSE streak[s]]
  /\ UpdateTargetIgnoreDict(target, ignore)
  /\ settled' = settled
  /\ IF target # targetDict \/ ignore # ignoreDict
     THEN CallCheck(TRUE, Service, "loop")
     ELSE UNCHANGED <<jobVars, first>>
  /\ UNCHANGED <<machineVars, stateVars, shutdown, transitions, timer, stranded,
                 nextStopIsRestart, server>>

SetTarget(S, target) == [s \in Service |-> IF s \in S THEN target ELSE dbTarget[s]]

EnableCommand(S) ==
  Command({s \in S : dbTarget[s] = "stopped"}, SetTarget(S, "running"), dbIgnore)

DisableCommand(S) ==
  Command({s \in S : dbTarget[s] = "running"}, SetTarget(S, "stopped"), dbIgnore)

MonitorCommand(S) == Command(S \cap dbIgnore, dbTarget, dbIgnore \ S)

IgnoreCommand(S) == Command(S \ dbIgnore, dbTarget, dbIgnore \cup S)

NextStopIsRestart ==
  /\ Outside("restart")
  /\ Idle
  /\ nextStopIsRestart' = TRUE
  /\ UNCHANGED <<machineVars, dbVars, dictVars, stateVars, shutdown, loopVars,
                 server, jobVars>>

(* _instance_event: sync_with_instance reads the targets anew.             *)
InstanceEvent ==
  /\ Outside("instance")
  /\ Idle
  /\ targetDict' = dbTarget
  /\ ignoreDict' = dbIgnore
  /\ UNCHANGED <<machineVars, dbVars, stateVars, shutdown, loopVars,
                 nextStopIsRestart, server, jobVars>>

(***************************************************************************)
(* _sig_handler raises an exception in the current handler: trans_list is  *)
(* lost, the locks are kept, and the transitions the handler has appended  *)
(* stay in the list.  If the timer was not armed, nothing steps them until *)
(* another call of _new_transitions arms it.                               *)
(***************************************************************************)
AbortHandler ==
  /\ server = "run"
  /\ todo' = {}
  /\ stranded' = stranded \cup (IF timer THEN {} ELSE {t.svc : t \in transitions})
  /\ UNCHANGED <<transitions, timer, first>>

(***************************************************************************)
(* SIGINT or SIGTERM: loop() calls _sigint.  A signal during _sigint       *)
(* itself leaves loop() through its except clause.                         *)
(***************************************************************************)
Sigint ==
  /\ Outside("signal")
  /\ AbortHandler
  /\ \/ /\ job.cont = "sigint"
        /\ server' = "killed"
        /\ UNCHANGED <<pc, job, shutdown, targetDict>>
     \/ /\ job.cont # "sigint" /\ shutdown         \* already requested, ignoring
        /\ pc' = "idle" /\ job' = NoJob
        /\ UNCHANGED <<server, shutdown, targetDict>>
     \/ /\ job.cont # "sigint" /\ ~shutdown /\ nextStopIsRestart
        /\ server' = "exited"
        /\ UNCHANGED <<pc, job, shutdown, targetDict>>
     \/ /\ job.cont # "sigint" /\ ~shutdown /\ ~nextStopIsRestart
        /\ shutdown' = TRUE                         \* enable_shutdown_mode
        /\ targetDict' = [s \in Service |-> "stopped"]
        /\ pc' = "check"
        /\ job' = [force |-> FALSE, scope |-> Service, cont |-> "sigint"]
        /\ UNCHANGED server
  /\ UNCHANGED <<machineVars, dbVars, ignoreDict, stateVars, nextStopIsRestart>>

(***************************************************************************)
(* SIGHUP, SIGALRM or SIGTSTP: the meta-server registers no exception for  *)
(* them, so handle_exception logs an unknown one and loop() goes on as if  *)
(* the handler had ended.                                                  *)
(***************************************************************************)
Sighup ==
  /\ Outside("hup")
  /\ AbortHandler
  /\ IF job.cont = "sigint"
     THEN server' = "killed" /\ UNCHANGED <<pc, job>>
     ELSE pc' = "idle" /\ job' = NoJob /\ UNCHANGED server
  /\ UNCHANGED <<machineVars, dbVars, dictVars, stateVars, shutdown, nextStopIsRestart>>

(* The server is killed, or its machine goes down.                         *)
Kill ==
  /\ Outside("kill")
  /\ server = "run"
  /\ server' = "killed"
  /\ UNCHANGED <<machineVars, dbVars, dictVars, stateVars, shutdown, loopVars,
                 nextStopIsRestart, jobVars>>

(* A new server: only the database survives, the memory is as in Init.     *)
Boot ==
  /\ Outside("boot")
  /\ server # "run"
  /\ UNCHANGED <<machineVars, dbVars>>
  /\ targetDict' = dbTarget
  /\ ignoreDict' = dbIgnore
  /\ stateDict' = [s \in Service |-> NoState]
  /\ locked' = {} /\ recent' = {} /\ startProblem' = {} /\ stopProblem' = {}
  /\ shutdown' = FALSE
  /\ transitions' = {} /\ timer' = FALSE /\ stranded' = {} /\ first' = TRUE
  /\ nextStopIsRestart' = FALSE
  /\ server' = "run"
  /\ pc' = "idle" /\ job' = NoJob /\ todo' = {}

-------------------------------------------------------------------------------
(***************************************************************************)
(* The processes.  Ending by themselves is an outside event; a process     *)
(* that was told to stop ends without one.                                 *)
(***************************************************************************)
ServerUnchanged == UNCHANGED <<dbTarget, dbIgnore, streak, dictVars, stateVars,
                               shutdown, loopVars, nextStopIsRestart, server, jobVars>>

Started(s) ==
  /\ proc[s] = "starting"
  /\ proc' = [proc EXCEPT ![s] = "up"]
  /\ UNCHANGED <<env, settled, events>> /\ ServerUnchanged

Ended(s) ==
  /\ proc[s] = "stopping"
  /\ proc' = [proc EXCEPT ![s] = "dead"]
  /\ UNCHANGED <<env, settled, events>> /\ ServerUnchanged

Crash(s) ==
  /\ Outside("crash")
  /\ proc[s] \in {"starting", "up", "partial", "stopping"}
  /\ \/ /\ s \in Simple \/ proc[s] = "starting"
        /\ proc' = [proc EXCEPT ![s] = "dead"]
     \/ /\ s \notin Simple /\ HasPids(proc[s])
        /\ proc' = [proc EXCEPT ![s] = "crashed"]
     \/ /\ s \notin Simple /\ proc[s] = "up"
        /\ proc' = [proc EXCEPT ![s] = "partial"]
  /\ UNCHANGED <<env, settled>> /\ ServerUnchanged

(* The configuration database or the licence changes.                      *)
Reconfigure(s) ==
  /\ Outside("conf")
  /\ \E e \in EnvState : e # env[s] /\ env' = [env EXCEPT ![s] = e]
  /\ UNCHANGED <<proc, settled>> /\ ServerUnchanged

-------------------------------------------------------------------------------
(***************************************************************************)
(* Time passes.                                                            *)
(***************************************************************************)
TimeUnchanged == UNCHANGED <<machineVars, dbTarget, dbIgnore, dictVars, stateDict,
                             probVars, shutdown, timer, stranded, first,
                             nextStopIsRestart, server, jobVars, events>>

(* The records of s become old enough.  The start of a service that is not *)
(* in SlowStart is over before its start action is 5 s old.                *)
Settle(s) ==
  /\ s \notin settled
  /\ proc[s] = "starting" => s \in SlowStart
  /\ settled' = settled \cup {s}
  /\ UNCHANGED <<streak, locked, recent, transitions>> /\ TimeUnchanged

(* Services with a transition that nothing ends before its lock times out. *)
MayOverlap == LongWait \cup stranded

(* The lock times out.  A list of new transitions is worked off at once,   *)
(* and a transition that the timer steps from its beginning, and has a     *)
(* wait_time below LOCK_TIMEOUT, is over before its lock: ServiceHistory   *)
(* derives this from the times.                                            *)
LockExpires(s) ==
  /\ s \in locked
  /\ \A x \in todo : x.svc # s
  /\ timer \/ pc = "new" => s \in MayOverlap \/ \A t \in transitions : t.svc # s
  /\ locked' = locked \ {s}
  /\ UNCHANGED <<settled, streak, recent, transitions>> /\ TimeUnchanged

WaitExpires(t) ==
  /\ t \in transitions /\ ~t.late
  /\ t.newest => \A u \in transitions \ {t} : u.svc = t.svc => u.late
  /\ transitions' = (transitions \ {t}) \cup {[t EXCEPT !.late = TRUE]}
  /\ UNCHANGED <<settled, streak, locked, recent>> /\ TimeUnchanged

ThrottleExpires(s) ==
  /\ s \in recent
  /\ recent' = recent \ {s}
  /\ UNCHANGED <<settled, streak, locked, transitions>> /\ TimeUnchanged

(* The oldest start leaves TRANSACTION_WINDOW.                             *)
WindowMoves(s) ==
  /\ streak[s] > 0
  /\ streak' = [streak EXCEPT ![s] = @ - 1]
  /\ UNCHANGED <<settled, locked, recent, transitions>> /\ TimeUnchanged

-------------------------------------------------------------------------------
ServerStep ==
  \/ Check
  \/ Update
  \/ \E x \in todo : NewTransition(x)
  \/ NewTransitionsDone
  \/ HandleTransition
  \/ \E s \in Service : InotifyEvent(s)

OutsideStep ==
  \/ \E S \in SUBSET Service \ {{}} :
       EnableCommand(S) \/ DisableCommand(S) \/ MonitorCommand(S) \/ IgnoreCommand(S)
  \/ NextStopIsRestart
  \/ InstanceEvent
  \/ Sigint
  \/ Sighup
  \/ Kill
  \/ Boot
  \/ \E s \in Service : Crash(s) \/ Reconfigure(s)

ProcStep == \E s \in Service : Started(s) \/ Ended(s)

TimeStep ==
  \/ \E s \in Service : \/ Settle(s) \/ LockExpires(s)
                        \/ ThrottleExpires(s) \/ WindowMoves(s)
  \/ \E t \in transitions : WaitExpires(t)

Next == ServerStep \/ OutsideStep \/ ProcStep \/ TimeStep

Spec == Init /\ [][Next]_vars

(***************************************************************************)
(* Fairness.  loop() runs the due timers in every turn, so a timer that is *)
(* armed again and again is served in the end (SF); a handler runs on; the *)
(* clock runs; a started process writes its MSI block, unless it is slow   *)
(* and may be killed and started again before.  Nothing outside and no     *)
(* inotify event is guaranteed, and a process need not react to SIGTERM.   *)
(***************************************************************************)
Fairness ==
  /\ SF_vars(Check) /\ SF_vars(HandleTransition)
  /\ WF_vars(Update) /\ WF_vars(NewTransitionsDone)
  /\ WF_vars(\E x \in todo : NewTransition(x))
  /\ \A s \in Service \ SlowStart : WF_vars(Started(s))
  /\ \A s \in Service :
       WF_vars(Settle(s)) /\ WF_vars(LockExpires(s)) /\ WF_vars(ThrottleExpires(s))
  /\ WF_vars(\E t \in transitions : WaitExpires(t))

FairSpec == Spec /\ Fairness

-------------------------------------------------------------------------------
(***************************************************************************)
(* The dictionaries the checks use are those of the database, whatever mix *)
(* of commands, automatic disabling, instance events and restarts led      *)
(* there.  Shutdown mode is excepted: it overwrites the target dictionary. *)
(***************************************************************************)
CacheCoherent ==
  server = "run" /\ ~shutdown => targetDict = dbTarget /\ ignoreDict = dbIgnore

(***************************************************************************)
(* Between two handlers the transition timer is armed only if there is a   *)
(* transition to step, and an unfinished transition has no timer only if a *)
(* signal cut off the handler that would have armed it: however checks,    *)
(* commands and the end of other transitions arm and disarm it.            *)
(***************************************************************************)
TimerArmed ==
  Idle => /\ timer => transitions # {}
          /\ ~timer => \A t \in transitions : t.svc \in stranded

(***************************************************************************)
(* The transition lock works: a service whose wait_time is below           *)
(* LOCK_TIMEOUT never has two transitions at the same time, in normal mode *)
(* and in shutdown, unless a signal left the first one without the timer.  *)
(***************************************************************************)
OneTransition ==
  server = "run" =>
    /\ \A t, u \in transitions : t.svc = u.svc => t = u \/ t.svc \in MayOverlap
    /\ \A x \in todo, t \in transitions : x.svc = t.svc => x.svc \in MayOverlap

(***************************************************************************)
(* A complete service is stopped or killed by the server only if the last  *)
(* observation asks for it: no stale transition, stale list or cleanup     *)
(* hits a service that has come up meanwhile.  Services where two          *)
(* transitions may overlap are excepted: the older one may do that.        *)
(***************************************************************************)
HealthySurvives ==
  [][\A s \in Service \ MayOverlap :
       ServerStep /\ ~shutdown /\ proc[s] = "up" /\ proc'[s] # "up" =>
         get_action(targetDict[s], stateDict[s].p, stateDict[s].c, stateDict[s].l) = "stop"]_vars

(***************************************************************************)
(* The server carries out one order at a time for each service, as it was  *)
(* given, and in the steps of ServiceControl: the lists of                 *)
(* _new_transitions and _handle_transition hold the orders that have not   *)
(* begun and those that have.  Services that may wait longer than          *)
(* LOCK_TIMEOUT are left out: they may have two orders.                    *)
(***************************************************************************)
OrdersIn(list, waiting, s) ==
  {[action |-> x.action, begun |-> FALSE] : x \in {y \in list : y.svc = s}}
  \cup {[action |-> t.action, begun |-> TRUE] : t \in {u \in waiting : u.svc = s}}

Managed == Service \ LongWait

Adrift == IF server = "run" THEN Managed \cap stranded ELSE {}

Orders(s) ==
  IF server = "run" /\ s \notin stranded THEN OrdersIn(todo, transitions, s) ELSE {}

Control == INSTANCE ServiceControl
  WITH Service <- Managed,
       proc <- [s \in Managed |-> proc[s]],
       order <- [s \in Managed |-> Orders(s)],
       adrift <- Adrift,
       alive <- (server = "run")

OrdersKept == Control!Spec

(***************************************************************************)
(* The service is where its target wants it, or waits for a service that   *)
(* is not where it is needed.                                              *)
(***************************************************************************)
InPlace(s) ==
  LET action == get_action(targetDict[s], Found(s).p, Found(s).c, Found(s).l)
      now == [t \in Service |-> IF t \in ignoreDict THEN stateDict[t] ELSE Found(t)]
  IN  action = "keep" \/ ~DepsOk(s, action, now)

(***************************************************************************)
(* The state machine converges: once nothing happens outside any more, the *)
(* monitored services reach their targets and stay there.  Transitions     *)
(* lost with a killed server and overlapping ones are made up for.         *)
(***************************************************************************)
Converges ==
  <>[](server = "run" /\ ~shutdown => \A s \in Service \ ignoreDict : InPlace(s))

(***************************************************************************)
(* A server told to stop ends (_handle_transition and _sigint set          *)
(* exit_requested when no transition and no dependency problem is left).   *)
(***************************************************************************)
ShutdownCompletes == shutdown ~> server # "run"
===============================================================================
