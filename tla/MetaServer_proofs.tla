-------------------------- MODULE MetaServer_proofs ---------------------------
(***************************************************************************)
(* Proofs about MetaServer, for every set of services, every dependency    *)
(* relation and every bound on outside events.                             *)
(***************************************************************************)
EXTENDS MetaServer, TLAPS

(* The processes a step of a transition leaves behind are of the known     *)
(* kinds (Service.start, Service.stop and Service.cleanup).                *)
LEMMA ProcResults ==
  ASSUME NEW s \in Service, NEW p \in ProcState, NEW action
  PROVE  /\ FirstStep(s, action, p) \in ProcState
         /\ EndProc(s, action) \in ProcState
  BY DEF FirstStep, EndProc, StartProc, StopProc, ProcState

(* A check generates only start and stop transitions (update skips "keep"). *)
LEMMA GeneratedActs ==
  ASSUME NEW s \in Generated
  PROVE  s \in ActList /\ ActionOf(s) \in Problem
  BY DEF Generated, Fulfilled, ActList, ActionOf, get_action, Problem

LEMMA FoundType ==
  ASSUME TypeOK, NEW s \in Service
  PROVE  Found(s) \in StateTuple
  BY EnvAssumption DEF TypeOK, Found, StateTuple, Observed, ProcessState

(* Init gives every variable a value of its type (main_process.__init__).  *)
LEMMA TypeInit == Init => TypeOK
  <1> SUFFICES ASSUME Init PROVE TypeOK
    OBVIOUS
  <1> USE EnvAssumption
  <1>1. stateDict \in [Service -> StateTuple \cup {NoState}]
    BY DEF Init
  <1>2. job \in Job
    BY DEF Init, NoJob, Job
  <1>3. proc \in [Service -> ProcState]
    BY DEF Init, ProcState
  <1>4. streak \in [Service -> 0..3] /\ events \in 0..MaxEvents
    BY DEF Init
  <1> QED
    BY <1>1, <1>2, <1>3, <1>4 DEF Init, TypeOK

(* A check that is called has arguments of the right type.                 *)
LEMMA CallCheckType ==
  ASSUME TypeOK, NEW force \in BOOLEAN, NEW scope \in SUBSET Service,
         NEW cont \in {"loop", "exit", "sigint"}, CallCheck(force, scope, cont)
  PROVE  pc' \in {"idle", "check", "new", "none"} /\ job' \in Job /\ first' \in BOOLEAN
         /\ todo' \in SUBSET [svc : Service, action : Problem]
  BY DEF TypeOK, CallCheck, Job

(* Every step of the server keeps the types.                               *)
LEMMA TypeServerStep == TypeOK /\ ServerStep => TypeOK'
  <1> SUFFICES ASSUME TypeOK, ServerStep PROVE TypeOK'
    OBVIOUS
  <1> USE DEF machineVars, dbVars, dictVars, probVars, stateVars, loopVars, jobVars
  <1>1. CASE Check
    <2>1. CallCheck(FALSE, Service, "loop")
      BY <1>1 DEF Check
    <2>2. pc' \in {"idle", "check", "new", "none"} /\ job' \in Job /\ first' \in BOOLEAN
          /\ todo' \in SUBSET [svc : Service, action : Problem]
      BY <2>1, CallCheckType
    <2> QED
      BY <1>1, <2>2 DEF Check, TypeOK
  <1>2. CASE Update
    <2>1. stateDict' \in [Service -> StateTuple \cup {NoState}]
      BY <1>2, FoundType DEF Update, NewStateDict, TypeOK
    <2>2. Generated \subseteq Service
      BY DEF Generated, Fulfilled, ActList, Monitored, CheckList, TypeOK, Job
    <2>3. todo' \in SUBSET [svc : Service, action : Problem]
      BY <1>2, <2>2, GeneratedActs DEF Update
    <2>4. PICK D \in SUBSET MayDisable : PostDisable(D) /\ streak' = NextStreak(D)
      BY <1>2 DEF Update
    <2>5. dbTarget' \in [Service -> TargetState] /\ targetDict' \in [Service -> TargetState]
          /\ ignoreDict' \in SUBSET Service
      BY <2>4 DEF PostDisable, TypeOK, TargetState
    <2>6. streak' \in [Service -> 0..3]
      BY <2>4 DEF NextStreak, TypeOK
    <2>7. recent' \in SUBSET Service /\ settled' \in SUBSET Service /\ locked' \in SUBSET Service
      BY <1>2, <2>2, ServiceAssumption DEF Update, StillSettled, TypeOK
    <2>8. startProblem' \in SUBSET Service /\ stopProblem' \in SUBSET Service
      BY <1>2 DEF Update
    <2> QED
      BY <1>2, <2>1, <2>3, <2>5, <2>6, <2>7, <2>8 DEF Update, TypeOK
  <1>3. ASSUME NEW x \in todo, NewTransition(x) PROVE TypeOK'
    <2>1. x.svc \in Service /\ x.action \in Problem
      BY DEF TypeOK
    <2>2. proc' \in [Service -> ProcState]
      BY <1>3, <2>1, ProcResults DEF NewTransition, TypeOK
    <2>3. transitions' \in SUBSET Trans
      <3>1. \A t \in transitions : [t EXCEPT !.newest = t.newest /\ t.svc # x.svc] \in Trans
        BY DEF TypeOK, Trans
      <3>2. [svc |-> x.svc, action |-> x.action, late |-> FALSE, newest |-> TRUE] \in Trans
        BY <2>1 DEF Trans
      <3>3. CASE Waits(x.svc, x.action, proc[x.svc])
        BY <1>3, <3>1, <3>2, <3>3 DEF NewTransition
      <3>4. CASE ~Waits(x.svc, x.action, proc[x.svc])
        BY <1>3, <3>4 DEF NewTransition, TypeOK
      <3> QED
        BY <3>3, <3>4
    <2> QED
      BY <1>3, <2>2, <2>3 DEF NewTransition, TypeOK
  <1>4. CASE NewTransitionsDone
    BY <1>4 DEF NewTransitionsDone, EnableTransitionTimer, NoJob, Job, TypeOK
  <1>5. CASE HandleTransition
    <2>1. proc' \in [Service -> ProcState]
      BY <1>5, ProcResults DEF HandleTransition, TypeOK, ProcState, EndProc, StartProc
    <2>2. pc' \in {"idle", "check", "new", "none"} /\ job' \in Job /\ first' \in BOOLEAN
          /\ todo' \in SUBSET [svc : Service, action : Problem]
      <3> DEFINE cont == IF shutdown /\ stopProblem = {} THEN "exit" ELSE "loop"
      <3>1. cont \in {"loop", "exit", "sigint"}
        OBVIOUS
      <3>2. CallCheck(TRUE, Service, cont) \/ UNCHANGED <<jobVars, first>>
        BY <1>5 DEF HandleTransition
      <3>3. CASE CallCheck(TRUE, Service, cont)
        BY <3>1, <3>3, CallCheckType
      <3> QED
        BY <3>2, <3>3 DEF TypeOK
    <2> QED
      BY <1>5, <2>1, <2>2 DEF HandleTransition, TypeOK
  <1>6. ASSUME NEW s \in Service, InotifyEvent(s) PROVE TypeOK'
    <2>1. CallCheck(FALSE, {s}, "loop")
      BY <1>6 DEF InotifyEvent
    <2>2. pc' \in {"idle", "check", "new", "none"} /\ job' \in Job /\ first' \in BOOLEAN
          /\ todo' \in SUBSET [svc : Service, action : Problem]
      BY <2>1, CallCheckType
    <2> QED
      BY <1>6, <2>2 DEF InotifyEvent, TypeOK
  <1> QED
    BY <1>1, <1>2, <1>3, <1>4, <1>5, <1>6 DEF ServerStep

(* Commands, signals and what happens to the server keep the types.        *)
LEMMA TypeOutsideStep == TypeOK /\ OutsideStep => TypeOK'
  <1> SUFFICES ASSUME TypeOK, OutsideStep PROVE TypeOK'
    OBVIOUS
  <1> USE DEF machineVars, dbVars, dictVars, probVars, stateVars, loopVars, jobVars
  <1>e. ASSUME NEW kind, Outside(kind) PROVE events' \in 0..MaxEvents
    BY <1>e, EnvAssumption DEF Outside, TypeOK
  <1>c. ASSUME NEW changed, NEW target \in [Service -> TargetState],
               NEW ignore \in SUBSET Service, Command(changed, target, ignore)
        PROVE  TypeOK'
    <2>1. events' \in 0..MaxEvents
      BY <1>c, <1>e DEF Command
    <2>2. CallCheck(TRUE, Service, "loop") \/ UNCHANGED <<jobVars, first>>
      BY <1>c DEF Command
    <2>3. pc' \in {"idle", "check", "new", "none"} /\ job' \in Job /\ first' \in BOOLEAN
          /\ todo' \in SUBSET [svc : Service, action : Problem]
      <3>1. CASE CallCheck(TRUE, Service, "loop")
        BY <3>1, CallCheckType
      <3> QED
        BY <2>2, <3>1 DEF TypeOK
    <2>4. streak' \in [Service -> 0..3]
      BY <1>c DEF Command, TypeOK
    <2> QED
      BY <1>c, <2>1, <2>3, <2>4 DEF Command, UpdateTargetIgnoreDict, TypeOK
  <1>1. ASSUME NEW S \in SUBSET Service,
               EnableCommand(S) \/ DisableCommand(S) \/ MonitorCommand(S) \/ IgnoreCommand(S)
        PROVE  TypeOK'
    <2>1. SetTarget(S, "running") \in [Service -> TargetState]
          /\ SetTarget(S, "stopped") \in [Service -> TargetState]
      BY DEF SetTarget, TypeOK, TargetState
    <2>2. dbTarget \in [Service -> TargetState] /\ dbIgnore \in SUBSET Service
          /\ dbIgnore \ S \in SUBSET Service /\ dbIgnore \cup S \in SUBSET Service
      BY DEF TypeOK
    <2>3. CASE EnableCommand(S)
      BY <2>1, <2>2, <2>3, <1>c DEF EnableCommand
    <2>4. CASE DisableCommand(S)
      BY <2>1, <2>2, <2>4, <1>c DEF DisableCommand
    <2>5. CASE MonitorCommand(S)
      BY <2>2, <2>5, <1>c DEF MonitorCommand
    <2>6. CASE IgnoreCommand(S)
      BY <2>2, <2>6, <1>c DEF IgnoreCommand
    <2> QED
      BY <1>1, <2>3, <2>4, <2>5, <2>6
  <1>2. CASE NextStopIsRestart
    BY <1>2, <1>e DEF NextStopIsRestart, TypeOK
  <1>3. CASE InstanceEvent
    BY <1>3, <1>e DEF InstanceEvent, TypeOK
  <1>4. CASE Sigint
    <2>1. events' \in 0..MaxEvents
      BY <1>4, <1>e DEF Sigint
    <2>2. job' \in Job /\ pc' \in {"idle", "check", "new", "none"} /\ todo' = {}
          /\ server' \in {"run", "exited", "killed"} /\ shutdown' \in BOOLEAN
      <3>1. NoJob \in Job /\ [force |-> FALSE, scope |-> Service, cont |-> "sigint"] \in Job
        BY DEF NoJob, Job
      <3> QED
        BY <1>4, <3>1 DEF Sigint, AbortHandler, TypeOK
    <2>3. targetDict' \in [Service -> TargetState]
      BY <1>4 DEF Sigint, TypeOK, TargetState
    <2>4. stranded' \in SUBSET Service
      BY <1>4 DEF Sigint, AbortHandler, TypeOK, Trans
    <2> QED
      BY <1>4, <2>1, <2>2, <2>3, <2>4 DEF Sigint, AbortHandler, TypeOK
  <1>5. CASE Kill
    BY <1>5, <1>e DEF Kill, TypeOK
  <1>9. CASE Sighup
    <2>1. events' \in 0..MaxEvents
      BY <1>9, <1>e DEF Sighup
    <2>2. job' \in Job
      <3>1. NoJob \in Job
        BY DEF NoJob, Job
      <3> QED
        BY <1>9, <3>1 DEF Sighup, TypeOK
    <2>3. stranded' \in SUBSET Service
      BY <1>9 DEF Sighup, AbortHandler, TypeOK, Trans
    <2> QED
      BY <1>9, <2>1, <2>2, <2>3 DEF Sighup, AbortHandler, TypeOK
  <1>6. CASE Boot
    <2>1. events' \in 0..MaxEvents
      BY <1>6, <1>e DEF Boot
    <2>2. stateDict' \in [Service -> StateTuple \cup {NoState}] /\ job' \in Job
      BY <1>6 DEF Boot, NoJob, Job
    <2> QED
      BY <1>6, <2>1, <2>2 DEF Boot, TypeOK
  <1>7. ASSUME NEW s \in Service, Crash(s) PROVE TypeOK'
    <2>1. proc' \in [Service -> ProcState] /\ events' \in 0..MaxEvents
      BY <1>7, <1>e DEF Crash, TypeOK, ProcState
    <2> QED
      BY <1>7, <2>1 DEF Crash, ServerUnchanged, TypeOK
  <1>8. ASSUME NEW s \in Service, Reconfigure(s) PROVE TypeOK'
    <2>1. env' \in [Service -> EnvState] /\ events' \in 0..MaxEvents
      BY <1>8, <1>e DEF Reconfigure, TypeOK
    <2> QED
      BY <1>8, <2>1 DEF Reconfigure, ServerUnchanged, TypeOK
  <1> QED
    BY <1>1, <1>2, <1>3, <1>4, <1>5, <1>6, <1>7, <1>8, <1>9 DEF OutsideStep

(* The processes and the clock keep the types.                             *)
LEMMA TypeOtherStep == TypeOK /\ (ProcStep \/ TimeStep) => TypeOK'
  <1> SUFFICES ASSUME TypeOK, ProcStep \/ TimeStep PROVE TypeOK'
    OBVIOUS
  <1> USE DEF machineVars, dictVars, probVars, stateVars, loopVars, jobVars
  <1>1. ASSUME NEW s \in Service, Started(s) \/ Ended(s) PROVE TypeOK'
    <2>1. proc' \in [Service -> ProcState]
      BY <1>1 DEF Started, Ended, TypeOK, ProcState
    <2> QED
      BY <1>1, <2>1 DEF Started, Ended, ServerUnchanged, TypeOK
  <1>2. ASSUME NEW s \in Service,
               Settle(s) \/ LockExpires(s) \/ ThrottleExpires(s) PROVE TypeOK'
    BY <1>2 DEF Settle, LockExpires, ThrottleExpires, TimeUnchanged, TypeOK
  <1>3. ASSUME NEW s \in Service, WindowMoves(s) PROVE TypeOK'
    <2>1. streak' \in [Service -> 0..3]
      BY <1>3 DEF WindowMoves, TypeOK
    <2> QED
      BY <1>3, <2>1 DEF WindowMoves, TimeUnchanged, TypeOK
  <1>4. ASSUME NEW t \in transitions, WaitExpires(t) PROVE TypeOK'
    <2>1. [t EXCEPT !.late = TRUE] \in Trans
      BY DEF TypeOK, Trans
    <2> QED
      BY <1>4, <2>1 DEF WaitExpires, TimeUnchanged, TypeOK
  <1> QED
    BY <1>1, <1>2, <1>3, <1>4 DEF ProcStep, TimeStep

LEMMA TypeNext == TypeOK /\ [Next]_vars => TypeOK'
  <1> SUFFICES ASSUME TypeOK, [Next]_vars PROVE TypeOK'
    OBVIOUS
  <1>1. CASE UNCHANGED vars
    BY <1>1 DEF vars, TypeOK
  <1> QED
    BY <1>1, TypeServerStep, TypeOutsideStep, TypeOtherStep DEF Next

(***************************************************************************)
(* Type correctness of the meta-server: every variable keeps its type in   *)
(* every behaviour of the handlers, commands, signals and processes.       *)
(***************************************************************************)
THEOREM TypeCorrect == Spec => []TypeOK
  <1> QED
    BY TypeInit, TypeNext, PTL DEF Spec

-------------------------------------------------------------------------------
(* Every step keeps the dictionaries equal to the database.                *)
LEMMA CacheNext == CacheCoherent /\ [Next]_vars => CacheCoherent'
  <1> SUFFICES ASSUME CacheCoherent, [Next]_vars PROVE CacheCoherent'
    OBVIOUS
  <1> USE DEF CacheCoherent, dbVars, dictVars
  <1>1. CASE ServerStep
    <2>1. CASE Update
      BY <2>1 DEF Update, PostDisable
    <2>2. CASE Check \/ NewTransitionsDone \/ HandleTransition
      BY <2>2 DEF Check, NewTransitionsDone, HandleTransition, Idle
    <2>3. ASSUME NEW x \in todo, NewTransition(x) PROVE CacheCoherent'
      BY <2>3 DEF NewTransition
    <2>4. ASSUME NEW s \in Service, InotifyEvent(s) PROVE CacheCoherent'
      BY <2>4 DEF InotifyEvent
    <2> QED
      BY <1>1, <2>1, <2>2, <2>3, <2>4 DEF ServerStep
  <1>2. CASE OutsideStep
    <2>1. ASSUME NEW changed, NEW target, NEW ignore, Command(changed, target, ignore)
          PROVE  CacheCoherent'
      BY <2>1 DEF Command, UpdateTargetIgnoreDict
    <2>2. CASE NextStopIsRestart \/ InstanceEvent \/ Kill \/ Boot
      BY <2>2 DEF NextStopIsRestart, InstanceEvent, Kill, Boot
    <2>3. CASE Sigint \/ Sighup
      BY <2>3 DEF Sigint, Sighup, AbortHandler
    <2>4. ASSUME NEW s \in Service, Crash(s) \/ Reconfigure(s) PROVE CacheCoherent'
      BY <2>4 DEF Crash, Reconfigure, ServerUnchanged
    <2> QED
      BY <1>2, <2>1, <2>2, <2>3, <2>4
         DEF OutsideStep, EnableCommand, DisableCommand, MonitorCommand, IgnoreCommand
  <1>3. CASE ProcStep \/ TimeStep
    BY <1>3 DEF ProcStep, TimeStep, Started, Ended, ServerUnchanged, Settle, LockExpires,
       ThrottleExpires, WindowMoves, WaitExpires, TimeUnchanged
  <1>4. CASE UNCHANGED vars
    BY <1>4 DEF vars
  <1> QED
    BY <1>1, <1>2, <1>3, <1>4 DEF Next

(***************************************************************************)
(* Outside shutdown mode the checks work with the targets and the ignore   *)
(* flags of the database, after any sequence of commands, automatic        *)
(* disabling, instance events, crashes and restarts of the server.         *)
(***************************************************************************)
THEOREM CacheCoherence == Spec => []CacheCoherent
  <1>1. Init => CacheCoherent
    BY DEF Init, CacheCoherent
  <1> QED
    BY <1>1, CacheNext, PTL DEF Spec

-------------------------------------------------------------------------------
(***************************************************************************)
(* TimerArmed is not inductive: _new_transitions appends to the list       *)
(* before it arms the timer, and a signal can come in between.             *)
(***************************************************************************)
TimerInv ==
  /\ timer => transitions # {}
  /\ ~timer /\ pc # "new" => \A t \in transitions : t.svc \in stranded

LEMMA TimerNext == TypeOK /\ TimerInv /\ [Next]_vars => TimerInv'
  <1> SUFFICES ASSUME TypeOK, TimerInv, [Next]_vars PROVE TimerInv'
    OBVIOUS
  <1> USE DEF TimerInv, loopVars, jobVars
  <1>0. timer \in BOOLEAN
    BY DEF TypeOK
  <1>1. CASE ServerStep
    <2>1. CASE Update
      BY <2>1 DEF Update
    <2>2. CASE Check
      BY <2>2 DEF Check, CallCheck, Idle
    <2>3. CASE NewTransitionsDone
      BY <1>0, <2>3 DEF NewTransitionsDone, EnableTransitionTimer
    <2>4. CASE HandleTransition
      BY <2>4 DEF HandleTransition
    <2>5. ASSUME NEW x \in todo, NewTransition(x) PROVE TimerInv'
      <3>1. CASE transitions' = transitions
        BY <2>5, <3>1 DEF NewTransition
      <3>2. CASE transitions' # transitions
        <4>1. transitions' # {}
          BY <2>5, <3>2 DEF NewTransition
        <4> QED
          BY <2>5, <4>1 DEF NewTransition
      <3> QED
        BY <3>1, <3>2
    <2>6. ASSUME NEW s \in Service, InotifyEvent(s) PROVE TimerInv'
      BY <2>6 DEF InotifyEvent, CallCheck, Idle
    <2> QED
      BY <1>1, <2>1, <2>2, <2>3, <2>4, <2>5, <2>6 DEF ServerStep
  <1>2. CASE OutsideStep
    <2>1. ASSUME NEW changed, NEW target, NEW ignore, Command(changed, target, ignore)
          PROVE  TimerInv'
      BY <2>1 DEF Command, CallCheck, Idle
    <2>2. CASE NextStopIsRestart \/ InstanceEvent \/ Kill \/ Boot
      BY <2>2 DEF NextStopIsRestart, InstanceEvent, Kill, Boot
    <2>3. CASE Sigint \/ Sighup
      <3>1. AbortHandler
        BY <2>3 DEF Sigint, Sighup
      <3> QED
        BY <1>0, <3>1 DEF AbortHandler
    <2>4. ASSUME NEW s \in Service, Crash(s) \/ Reconfigure(s) PROVE TimerInv'
      BY <2>4 DEF Crash, Reconfigure, ServerUnchanged
    <2> QED
      BY <1>2, <2>1, <2>2, <2>3, <2>4
         DEF OutsideStep, EnableCommand, DisableCommand, MonitorCommand, IgnoreCommand
  <1>3. CASE ProcStep
    BY <1>3 DEF ProcStep, Started, Ended, ServerUnchanged
  <1>4. CASE TimeStep
    <2>1. UNCHANGED <<timer, stranded, pc>>
      BY <1>4 DEF TimeStep, Settle, LockExpires, ThrottleExpires, WindowMoves, WaitExpires,
         TimeUnchanged
    <2>2. \A t \in transitions : [t EXCEPT !.late = TRUE].svc = t.svc
      BY DEF TypeOK, Trans
    <2>3. /\ transitions # {} => transitions' # {}
          /\ \A u \in transitions' : \E t \in transitions : u.svc = t.svc
      BY <1>4, <2>2 DEF TimeStep, Settle, LockExpires, ThrottleExpires, WindowMoves, WaitExpires
    <2> QED
      BY <2>1, <2>3
  <1>5. CASE UNCHANGED vars
    BY <1>5 DEF vars
  <1> QED
    BY <1>1, <1>2, <1>3, <1>4, <1>5 DEF Next

(***************************************************************************)
(* Between two handlers every unfinished transition has its timer, in      *)
(* normal mode and in shutdown, except those a signal left without it.     *)
(***************************************************************************)
THEOREM TransitionTimer == Spec => []TimerArmed
  <1>1. Init => TimerInv
    BY DEF Init, TimerInv
  <1>2. TimerInv => TimerArmed
    BY DEF TimerInv, TimerArmed, Idle
  <1> QED
    BY <1>1, <1>2, TimerNext, TypeCorrect, PTL DEF Spec

-------------------------------------------------------------------------------
(***************************************************************************)
(* OneTransition holds because of the locks: a service with a transition,  *)
(* or about to get one, is locked, and a locked service gets no new one.   *)
(***************************************************************************)
LockInv ==
  /\ pc # "new" => todo = {}
  /\ \A x \in todo : x.svc \in locked
  /\ \A x, y \in todo : x.svc = y.svc => x = y
  /\ \A t \in transitions : t.svc \in locked \/ t.svc \in MayOverlap
  /\ \A t, u \in transitions : t.svc = u.svc => t = u \/ t.svc \in MayOverlap
  /\ \A x \in todo, t \in transitions : x.svc = t.svc => x.svc \in MayOverlap

(* What a transition of x's list adds, and what becomes of the older ones. *)
Added(x) == [svc |-> x.svc, action |-> x.action, late |-> FALSE, newest |-> TRUE]

Aged(t, x) == [t EXCEPT !.newest = t.newest /\ t.svc # x.svc]

(* The list of transitions after one step of _new_transitions.             *)
LEMMA NewTransitionList ==
  ASSUME TypeOK, NEW x \in todo, NewTransition(x)
  PROVE  /\ Waits(x.svc, x.action, proc[x.svc]) =>
               /\ transitions' = {Aged(t, x) : t \in transitions} \cup {Added(x)}
               /\ locked' = locked
         /\ ~Waits(x.svc, x.action, proc[x.svc]) =>
               transitions' = transitions /\ locked' = locked \ {x.svc}
         /\ Added(x).svc = x.svc
         /\ \A t \in transitions : Aged(t, x).svc = t.svc
  <1>1. \A t \in transitions : Aged(t, x).svc = t.svc
    BY DEF TypeOK, Trans, Aged
  <1>2. Added(x).svc = x.svc
    BY DEF Added
  <1> QED
    BY <1>1, <1>2 DEF NewTransition, Added, Aged

LEMMA LockNewTransition ==
  ASSUME TypeOK, LockInv, NEW x \in todo, NewTransition(x)
  PROVE  LockInv'
  <1>1. todo' \subseteq todo /\ x \notin todo' /\ pc' = "new" /\ MayOverlap' = MayOverlap
    BY DEF NewTransition, MayOverlap
  <1>2. \A y \in todo' : y.svc # x.svc
    BY <1>1 DEF LockInv
  <1>3. \A y, z \in todo' : y.svc = z.svc => y = z
    BY <1>1 DEF LockInv
  <1>4. \A o \in transitions : o.svc = x.svc => o.svc \in MayOverlap
    BY DEF LockInv
  <1>5. CASE Waits(x.svc, x.action, proc[x.svc])
    <2>1. /\ transitions' = {Aged(t, x) : t \in transitions} \cup {Added(x)}
          /\ locked' = locked
          /\ Added(x).svc = x.svc
          /\ \A t \in transitions : Aged(t, x).svc = t.svc
      BY <1>5, NewTransitionList
    <2>2. \A t \in transitions' : t.svc \in locked' \/ t.svc \in MayOverlap
      BY <2>1 DEF LockInv
    <2>3. ASSUME NEW t \in transitions', NEW u \in transitions', t.svc = u.svc,
                 t.svc \notin MayOverlap
          PROVE  t = u
      <3>1. CASE t = Added(x) \/ u = Added(x)
        BY <1>4, <2>1, <2>3, <3>1
      <3>2. CASE t # Added(x) /\ u # Added(x)
        <4>1. PICK o \in transitions : t = Aged(o, x)
          BY <2>1, <3>2
        <4>2. PICK v \in transitions : u = Aged(v, x)
          BY <2>1, <3>2
        <4>3. o = v
          BY <2>1, <2>3, <4>1, <4>2 DEF LockInv
        <4> QED
          BY <4>1, <4>2, <4>3
      <3> QED
        BY <3>1, <3>2
    <2>4. \A y \in todo', t \in transitions' : y.svc = t.svc => y.svc \in MayOverlap
      BY <1>1, <1>2, <2>1 DEF LockInv
    <2> QED
      BY <1>1, <1>3, <2>1, <2>2, <2>3, <2>4 DEF LockInv
  <1>6. CASE ~Waits(x.svc, x.action, proc[x.svc])
    <2>1. transitions' = transitions /\ locked' = locked \ {x.svc}
      BY <1>6, NewTransitionList
    <2> QED
      BY <1>1, <1>2, <1>3, <1>4, <2>1 DEF LockInv
  <1> QED
    BY <1>5, <1>6

LEMMA LockNext == TypeOK /\ TimerInv /\ LockInv /\ [Next]_vars => LockInv'
  <1> SUFFICES ASSUME TypeOK, TimerInv, LockInv, [Next]_vars PROVE LockInv'
    OBVIOUS
  <1> USE DEF stateVars, loopVars, jobVars, MayOverlap
  <1>1. CASE ServerStep
    <2>1. CASE Update
      <3>1. transitions' = transitions /\ locked' = locked \cup Generated /\ stranded' = stranded
            /\ (pc' # "new" => Generated = {})
        BY <2>1 DEF Update, loopVars
      <3>2. todo' = {[svc |-> s, action |-> ActionOf(s)] : s \in Generated}
        BY <2>1 DEF Update
      <3>3. Generated \cap locked = {}
        BY DEF Generated
      <3> QED
        BY <3>1, <3>2, <3>3 DEF LockInv
    <2>2. CASE Check
      BY <2>2 DEF Check, CallCheck, Idle, LockInv
    <2>3. CASE NewTransitionsDone
      BY <2>3 DEF NewTransitionsDone, LockInv
    <2>4. CASE HandleTransition
      <3>1. todo = {} /\ todo' = {}
        BY <2>4 DEF HandleTransition, CallCheck, Idle, LockInv
      <3>2. transitions' = {t \in transitions : ~GoesOn(t.svc)}
            /\ locked' = {s \in locked : ~GoesOn(s)}
            /\ stranded' = {s \in stranded : ~GoesOn(s)}
        BY <2>4 DEF HandleTransition
      <3> QED
        BY <3>1, <3>2 DEF LockInv
    <2>5. ASSUME NEW x \in todo, NewTransition(x) PROVE LockInv'
      BY <2>5, LockNewTransition
    <2>6. ASSUME NEW s \in Service, InotifyEvent(s) PROVE LockInv'
      BY <2>6 DEF InotifyEvent, CallCheck, Idle, LockInv
    <2> QED
      BY <1>1, <2>1, <2>2, <2>3, <2>4, <2>5, <2>6 DEF ServerStep
  <1>2. CASE OutsideStep
    <2>1. ASSUME NEW changed, NEW target, NEW ignore, Command(changed, target, ignore)
          PROVE  LockInv'
      BY <2>1 DEF Command, CallCheck, Idle, LockInv
    <2>2. CASE NextStopIsRestart \/ InstanceEvent \/ Kill \/ Boot
      BY <2>2 DEF NextStopIsRestart, InstanceEvent, Kill, Boot, LockInv
    <2>3. CASE Sigint \/ Sighup
      <3>1. AbortHandler /\ locked' = locked
        BY <2>3 DEF Sigint, Sighup
      <3> QED
        BY <3>1 DEF AbortHandler, LockInv
    <2>4. ASSUME NEW s \in Service, Crash(s) \/ Reconfigure(s) PROVE LockInv'
      BY <2>4 DEF Crash, Reconfigure, ServerUnchanged, LockInv
    <2> QED
      BY <1>2, <2>1, <2>2, <2>3, <2>4
         DEF OutsideStep, EnableCommand, DisableCommand, MonitorCommand, IgnoreCommand
  <1>3. CASE ProcStep
    BY <1>3 DEF ProcStep, Started, Ended, ServerUnchanged, LockInv
  <1>4. CASE TimeStep
    <2>1. ASSUME NEW s \in Service, LockExpires(s) PROVE LockInv'
      BY <2>1 DEF LockExpires, TimeUnchanged, TimerInv, LockInv
    <2>2. ASSUME NEW s \in Service, Settle(s) \/ ThrottleExpires(s) \/ WindowMoves(s)
          PROVE  LockInv'
      BY <2>2 DEF Settle, ThrottleExpires, WindowMoves, TimeUnchanged, LockInv
    <2>3. ASSUME NEW t \in transitions, WaitExpires(t) PROVE LockInv'
      <3> DEFINE n == [t EXCEPT !.late = TRUE]
      <3>1. n.svc = t.svc
        BY DEF TypeOK, Trans
      <3>2. transitions' = (transitions \ {t}) \cup {n}
            /\ locked' = locked /\ todo' = todo /\ pc' = pc /\ stranded' = stranded
        BY <2>3 DEF WaitExpires, TimeUnchanged
      <3> HIDE DEF n
      <3> QED
        BY <3>1, <3>2 DEF LockInv
    <2> QED
      BY <1>4, <2>1, <2>2, <2>3 DEF TimeStep
  <1>5. CASE UNCHANGED vars
    BY <1>5 DEF vars, LockInv
  <1> QED
    BY <1>1, <1>2, <1>3, <1>4, <1>5 DEF Next

(***************************************************************************)
(* A service whose wait_time is below LOCK_TIMEOUT never has two           *)
(* transitions, whatever signal aborts the handler that holds its lock,    *)
(* unless the signal left the first of them without the timer.             *)
(***************************************************************************)
THEOREM TransitionLock == Spec => []OneTransition
  <1>1. Init => TimerInv /\ LockInv
    BY DEF Init, TimerInv, LockInv
  <1>2. LockInv => OneTransition
    BY DEF LockInv, OneTransition
  <1> QED
    BY <1>1, <1>2, TimerNext, LockNext, TypeCorrect, PTL DEF Spec

-------------------------------------------------------------------------------
(***************************************************************************)
(* Why a healthy service survives: the processes of a waiting transition   *)
(* were told to stop, and nothing starts the service again before the      *)
(* transition ends; and every stop on the list of _new_transitions is one  *)
(* the last observation asks for.                                          *)
(***************************************************************************)
Asked(s) == get_action(targetDict[s], stateDict[s].p, stateDict[s].c, stateDict[s].l)

HealthInv ==
  /\ \A t \in transitions : t.svc \in MayOverlap \/ proc[t.svc] \notin {"up", "starting"}
  /\ ~shutdown => \A x \in todo : x.action = "stop" => Asked(x.svc) = "stop"

(* A transition waits only for processes that got SIGTERM.                 *)
LEMMA WaitsStopping ==
  ASSUME NEW s, NEW action, NEW p, Waits(s, action, p)
  PROVE  FirstStep(s, action, p) = "stopping"
  BY DEF Waits, FirstStep, StopProc, HasPids

(* The stops generated by update are asked for by what it has just found,  *)
(* also if it disables the service in the same step.                       *)
LEMMA HealthUpdate ==
  ASSUME TypeOK, CacheCoherent, Update, ~shutdown, NEW x \in todo', x.action = "stop"
  PROVE  Asked(x.svc)' = "stop"
  <1>1. PICK s \in Generated : x = [svc |-> s, action |-> ActionOf(s)]
    BY DEF Update
  <1>2. s \in Monitored /\ s \in Service
    BY DEF Generated, Fulfilled, ActList, Monitored, CheckList, TypeOK, Job
  <1>3. stateDict'[s] = Found(s)
    BY <1>2 DEF Update, NewStateDict
  <1>4. targetDict'[s] = targetDict[s] \/ targetDict'[s] = "stopped"
    BY <1>2 DEF Update, PostDisable, CacheCoherent
  <1>5. ActionOf(s) = "stop" /\ x.svc = s
    BY <1>1
  <1> QED
    BY <1>3, <1>4, <1>5 DEF Asked, ActionOf, get_action

LEMMA HealthNewTransition ==
  ASSUME TypeOK, LockInv, HealthInv, NEW x \in todo, NewTransition(x)
  PROVE  HealthInv'
  <1>1. /\ todo' \subseteq todo /\ MayOverlap' = MayOverlap
        /\ UNCHANGED <<targetDict, stateDict, shutdown>>
    BY DEF NewTransition, dictVars, MayOverlap
  <1>2. ~shutdown' => \A y \in todo' : y.action = "stop" => Asked(y.svc)' = "stop"
    BY <1>1 DEF HealthInv, Asked
  <1>3. x.svc \in Service
    BY DEF TypeOK
  <1>4. /\ proc'[x.svc] = FirstStep(x.svc, x.action, proc[x.svc])
        /\ \A s \in Service : s # x.svc => proc'[s] = proc[s]
    BY <1>3 DEF NewTransition, TypeOK
  <1>5. \A t \in transitions : t.svc \in Service
    BY DEF TypeOK, Trans
  <1>6. \A t \in transitions : t.svc \in MayOverlap \/ proc'[t.svc] \notin {"up", "starting"}
    BY <1>4, <1>5 DEF HealthInv, LockInv
  <1>7. ASSUME NEW t \in transitions'
        PROVE  t.svc \in MayOverlap \/ proc'[t.svc] \notin {"up", "starting"}
    <2>1. CASE Waits(x.svc, x.action, proc[x.svc])
      <3>1. proc'[x.svc] = "stopping"
        BY <1>4, <2>1, WaitsStopping
      <3>2. /\ transitions' = {Aged(o, x) : o \in transitions} \cup {Added(x)}
            /\ Added(x).svc = x.svc
            /\ \A o \in transitions : Aged(o, x).svc = o.svc
        BY <2>1, NewTransitionList
      <3> QED
        BY <1>6, <1>7, <3>1, <3>2
    <2>2. CASE ~Waits(x.svc, x.action, proc[x.svc])
      BY <1>6, <1>7, <2>2, NewTransitionList
    <2> QED
      BY <2>1, <2>2
  <1> QED
    BY <1>1, <1>2, <1>7 DEF HealthInv

LEMMA HealthNext ==
  TypeOK /\ CacheCoherent /\ LockInv /\ HealthInv /\ [Next]_vars => HealthInv'
  <1> SUFFICES ASSUME TypeOK, CacheCoherent, LockInv, HealthInv, [Next]_vars
               PROVE  HealthInv'
    OBVIOUS
  <1> USE DEF machineVars, dictVars, stateVars, loopVars, jobVars, MayOverlap
  <1>0. \A t \in transitions : t.svc \in Service
    BY DEF TypeOK, Trans
  <1>1. CASE ServerStep
    <2>1. CASE Update
      BY <2>1, HealthUpdate DEF Update, HealthInv
    <2>2. CASE Check
      BY <2>2 DEF Check, CallCheck, HealthInv, Asked
    <2>3. CASE NewTransitionsDone
      BY <2>3 DEF NewTransitionsDone, HealthInv, Asked
    <2>4. CASE HandleTransition
      <3>1. todo' = {}
        BY <2>4 DEF HandleTransition, CallCheck, Idle, LockInv
      <3>2. /\ transitions' = {t \in transitions : ~GoesOn(t.svc)}
            /\ stranded' = {s \in stranded : ~GoesOn(s)}
        BY <2>4 DEF HandleTransition
      <3>3. \A s \in Service : ~GoesOn(s) => proc'[s] = proc[s]
        BY <2>4 DEF HandleTransition
      <3> QED
        BY <1>0, <3>1, <3>2, <3>3 DEF HealthInv
    <2>5. ASSUME NEW x \in todo, NewTransition(x) PROVE HealthInv'
      BY <2>5, HealthNewTransition
    <2>6. ASSUME NEW s \in Service, InotifyEvent(s) PROVE HealthInv'
      BY <2>6 DEF InotifyEvent, CallCheck, HealthInv, Asked
    <2> QED
      BY <1>1, <2>1, <2>2, <2>3, <2>4, <2>5, <2>6 DEF ServerStep
  <1>2. CASE OutsideStep
    <2>1. ASSUME NEW changed, NEW target, NEW ignore, Command(changed, target, ignore)
          PROVE  HealthInv'
      BY <2>1 DEF Command, CallCheck, Idle, LockInv, HealthInv
    <2>2. CASE NextStopIsRestart \/ Kill
      BY <2>2 DEF NextStopIsRestart, Kill, HealthInv, Asked
    <2>3. CASE InstanceEvent
      BY <2>3 DEF InstanceEvent, Idle, LockInv, HealthInv
    <2>4. CASE Boot
      BY <2>4 DEF Boot, HealthInv
    <2>5. CASE Sigint \/ Sighup
      <3>1. AbortHandler /\ proc' = proc
        BY <2>5 DEF Sigint, Sighup
      <3> QED
        BY <3>1 DEF AbortHandler, HealthInv
    <2>6. ASSUME NEW s \in Service, Crash(s) PROVE HealthInv'
      <3>1. \A r \in Service : proc'[r] \in {"up", "starting"} => proc[r] \in {"up", "starting"}
        BY <2>6 DEF Crash, TypeOK
      <3> QED
        BY <1>0, <2>6, <3>1 DEF Crash, ServerUnchanged, HealthInv, Asked
    <2>7. ASSUME NEW s \in Service, Reconfigure(s) PROVE HealthInv'
      BY <2>7 DEF Reconfigure, ServerUnchanged, HealthInv, Asked
    <2> QED
      BY <1>2, <2>1, <2>2, <2>3, <2>4, <2>5, <2>6, <2>7
         DEF OutsideStep, EnableCommand, DisableCommand, MonitorCommand, IgnoreCommand
  <1>3. CASE ProcStep
    <2>1. \A r \in Service : proc'[r] \in {"up", "starting"} => proc[r] \in {"up", "starting"}
      BY <1>3 DEF ProcStep, Started, Ended, TypeOK
    <2>2. UNCHANGED <<transitions, todo, shutdown, targetDict, stateDict, stranded>>
      BY <1>3 DEF ProcStep, Started, Ended, ServerUnchanged
    <2> QED
      BY <1>0, <2>1, <2>2 DEF HealthInv, Asked
  <1>4. CASE TimeStep
    <2>1. UNCHANGED <<proc, todo, shutdown, targetDict, stateDict, stranded>>
      BY <1>4 DEF TimeStep, Settle, LockExpires, ThrottleExpires, WindowMoves, WaitExpires,
         TimeUnchanged
    <2>2. \A t \in transitions' : \E o \in transitions : t.svc = o.svc
      <3>1. \A o \in transitions : [o EXCEPT !.late = TRUE].svc = o.svc
        BY DEF TypeOK, Trans
      <3> QED
        BY <1>4, <3>1 DEF TimeStep, Settle, LockExpires, ThrottleExpires, WindowMoves, WaitExpires
    <2> QED
      BY <2>1, <2>2 DEF HealthInv, Asked
  <1>5. CASE UNCHANGED vars
    BY <1>5 DEF vars, HealthInv, Asked
  <1> QED
    BY <1>1, <1>2, <1>3, <1>4, <1>5 DEF Next

(* No step of the server hurts a complete service unless it is asked to.   *)
LEMMA HealthyStep ==
  ASSUME TypeOK, LockInv, HealthInv, ServerStep, ~shutdown,
         NEW s \in Service \ MayOverlap, proc[s] = "up", proc'[s] # "up"
  PROVE  Asked(s) = "stop"
  <1> USE DEF machineVars
  <1>1. CASE Check \/ Update \/ NewTransitionsDone
    BY <1>1 DEF Check, Update, NewTransitionsDone
  <1>2. ASSUME NEW r \in Service, InotifyEvent(r) PROVE FALSE
    BY <1>2 DEF InotifyEvent
  <1>3. ASSUME HandleTransition PROVE FALSE
    <2>1. GoesOn(s)
      BY <1>3 DEF HandleTransition
    <2>2. PICK t \in transitions : t.svc = s
      BY <2>1 DEF GoesOn
    <2> QED
      BY <2>2 DEF HealthInv
  <1>4. ASSUME NEW x \in todo, NewTransition(x) PROVE Asked(s) = "stop"
    <2>1. x.svc = s /\ proc'[s] = FirstStep(s, x.action, "up")
      BY <1>4 DEF NewTransition, TypeOK
    <2>2. x.action \in {"start", "stop"}
      BY DEF TypeOK, Problem
    <2>3. CASE x.action = "start"
      <3>1. ServiceRunState(s, "up") = "ok"
        BY DEF ServiceRunState, run_state, Observed, HasPids
      <3>2. decide("start", "ok") = <<>>
        BY DEF decide
      <3> QED
        BY <2>1, <2>3, <3>1, <3>2 DEF FirstStep
    <2> QED
      BY <2>1, <2>2, <2>3 DEF HealthInv
  <1> QED
    BY <1>1, <1>2, <1>3, <1>4 DEF ServerStep

(***************************************************************************)
(* A complete service is stopped or killed only if the last observation    *)
(* asks for it, for every number of services and every dependency          *)
(* relation: no stale transition or cleanup hits it, unless a signal has   *)
(* left a transition of it without the timer.                              *)
(***************************************************************************)
THEOREM HealthyServices == Spec => HealthySurvives
  <1>1. Init => TimerInv /\ LockInv /\ HealthInv
    BY DEF Init, TimerInv, LockInv, HealthInv
  <1>2. TypeOK /\ LockInv /\ HealthInv =>
          [\A s \in Service \ MayOverlap :
             ServerStep /\ ~shutdown /\ proc[s] = "up" /\ proc'[s] # "up" =>
               get_action(targetDict[s], stateDict[s].p, stateDict[s].c, stateDict[s].l) = "stop"]_vars
    BY HealthyStep DEF Asked
  <1> QED
    BY <1>1, <1>2, TimerNext, LockNext, HealthNext, TypeCorrect, CacheCoherence, PTL
       DEF Spec, HealthySurvives

-------------------------------------------------------------------------------
(***************************************************************************)
(* The refinement of ServiceControl.  LockInv gives a managed service at   *)
(* most one order; the transition that is carried out is its newest.       *)
(***************************************************************************)
NewestInv == \A t \in transitions : t.svc \in MayOverlap \/ t.newest

LEMMA NewestNext == TypeOK /\ LockInv /\ NewestInv /\ [Next]_vars => NewestInv'
  <1> SUFFICES ASSUME TypeOK, LockInv, NewestInv, [Next]_vars PROVE NewestInv'
    OBVIOUS
  <1> USE DEF NewestInv, loopVars, MayOverlap
  <1>1. CASE ServerStep
    <2>1. CASE Check \/ Update \/ NewTransitionsDone \/ HandleTransition
      BY <2>1 DEF Check, Update, NewTransitionsDone, HandleTransition
    <2>2. ASSUME NEW x \in todo, NewTransition(x) PROVE NewestInv'
      <3>1. \A t \in transitions : t.svc # x.svc \/ t.svc \in MayOverlap
        BY DEF LockInv
      <3>2. \A t \in transitions : t.svc # x.svc => Aged(t, x) = t
        BY DEF Aged, TypeOK, Trans
      <3>3. Added(x).newest
        BY DEF Added
      <3>4. stranded' = stranded
        BY <2>2 DEF NewTransition
      <3> QED
        BY <2>2, <3>1, <3>2, <3>3, <3>4, NewTransitionList
    <2>3. ASSUME NEW s \in Service, InotifyEvent(s) PROVE NewestInv'
      BY <2>3 DEF InotifyEvent
    <2> QED
      BY <1>1, <2>1, <2>2, <2>3 DEF ServerStep
  <1>2. CASE OutsideStep
    <2>1. CASE Sigint \/ Sighup
      <3>1. AbortHandler
        BY <2>1 DEF Sigint, Sighup
      <3> QED
        BY <3>1 DEF AbortHandler
    <2>2. ASSUME NEW changed, NEW target, NEW ignore, Command(changed, target, ignore)
          PROVE  NewestInv'
      BY <2>2 DEF Command
    <2>3. CASE NextStopIsRestart \/ InstanceEvent \/ Kill \/ Boot
      BY <2>3 DEF NextStopIsRestart, InstanceEvent, Kill, Boot
    <2>4. ASSUME NEW s \in Service, Crash(s) \/ Reconfigure(s) PROVE NewestInv'
      BY <2>4 DEF Crash, Reconfigure, ServerUnchanged
    <2> QED
      BY <1>2, <2>1, <2>2, <2>3, <2>4
         DEF OutsideStep, EnableCommand, DisableCommand, MonitorCommand, IgnoreCommand
  <1>3. CASE ProcStep
    BY <1>3 DEF ProcStep, Started, Ended, ServerUnchanged
  <1>4. CASE TimeStep
    <2>1. \A t \in transitions : /\ [t EXCEPT !.late = TRUE].svc = t.svc
                                 /\ [t EXCEPT !.late = TRUE].newest = t.newest
      BY DEF TypeOK, Trans
    <2> QED
      BY <1>4, <2>1 DEF TimeStep, Settle, LockExpires, ThrottleExpires, WindowMoves, WaitExpires,
         TimeUnchanged
  <1>5. CASE UNCHANGED vars
    BY <1>5 DEF vars
  <1> QED
    BY <1>1, <1>2, <1>3, <1>4, <1>5 DEF Next

(* The order of a managed service comes from its one entry in the lists.   *)
Named(S, s) == \E x \in S : x.svc = s

OneEntry(S, T, s) ==
  /\ \A x, y \in S : x.svc = s /\ y.svc = s => x = y
  /\ \A t, u \in T : t.svc = s /\ u.svc = s => t = u
  /\ ~Named(S, s) \/ ~Named(T, s)

LEMMA OneOrder ==
  ASSUME NEW S, NEW T, NEW s, OneEntry(S, T, s)
  PROVE  /\ \A x \in S : x.svc = s => OrdersIn(S, T, s) = Control!Issued(x.action)
         /\ \A t \in T : t.svc = s => OrdersIn(S, T, s) = Control!Begun(t.action)
         /\ ~Named(S, s) /\ ~Named(T, s) => OrdersIn(S, T, s) = {}
  <1>1. ASSUME NEW x \in S, x.svc = s PROVE OrdersIn(S, T, s) = Control!Issued(x.action)
    <2>1. {y \in S : y.svc = s} = {x} /\ {u \in T : u.svc = s} = {}
      BY <1>1 DEF OneEntry, Named
    <2> QED
      BY <2>1 DEF OrdersIn, Control!Issued
  <1>2. ASSUME NEW t \in T, t.svc = s PROVE OrdersIn(S, T, s) = Control!Begun(t.action)
    <2>1. {y \in S : y.svc = s} = {} /\ {u \in T : u.svc = s} = {t}
      BY <1>2 DEF OneEntry, Named
    <2> QED
      BY <2>1 DEF OrdersIn, Control!Begun
  <1>3. ASSUME ~Named(S, s), ~Named(T, s) PROVE OrdersIn(S, T, s) = {}
    <2>1. {y \in S : y.svc = s} = {} /\ {u \in T : u.svc = s} = {}
      BY <1>3 DEF Named
    <2> QED
      BY <2>1 DEF OrdersIn
  <1> QED
    BY <1>1, <1>2, <1>3

LEMMA Entries ==
  /\ LockInv => \A s \in Managed \ stranded : OneEntry(todo, transitions, s)
  /\ LockInv' => \A s \in Managed \ stranded' : OneEntry(todo', transitions', s)
  BY DEF LockInv, OneEntry, Named, Managed, MayOverlap

(* Two pairs of lists with the same entries for s give it the same order.  *)
LEMMA SameOrder ==
  ASSUME NEW S, NEW T, NEW V, NEW W, NEW s, OneEntry(S, T, s), OneEntry(V, W, s),
         \A x \in S : x.svc = s => x \in V,
         \A x \in V : x.svc = s => x \in S,
         \A t \in T : t.svc = s => \E u \in W : u.svc = s /\ u.action = t.action,
         Named(W, s) => Named(T, s)
  PROVE  OrdersIn(V, W, s) = OrdersIn(S, T, s)
  <1>1. CASE Named(S, s)
    BY <1>1, OneOrder DEF Named
  <1>2. CASE Named(T, s)
    <2>1. PICK t \in T : t.svc = s
      BY <1>2 DEF Named
    <2>2. PICK u \in W : u.svc = s /\ u.action = t.action
      BY <2>1
    <2> QED
      BY <2>1, <2>2, OneOrder
  <1>3. CASE ~Named(S, s) /\ ~Named(T, s)
    <2>1. ~Named(V, s) /\ ~Named(W, s)
      BY <1>3 DEF Named
    <2>2. OrdersIn(S, T, s) = {}
      BY <1>3, OneOrder
    <2>3. OrdersIn(V, W, s) = {}
      BY <2>1, OneOrder
    <2> QED
      BY <2>2, <2>3
  <1> QED
    BY <1>1, <1>2, <1>3

(* A step that changes neither processes nor orders is none of             *)
(* ServiceControl.                                                         *)
LEMMA NoControl ==
  ASSUME UNCHANGED <<server, stranded>>,
         \A s \in Managed : proc'[s] = proc[s] /\ Orders(s)' = Orders(s)
  PROVE  UNCHANGED Control!vars
  BY DEF Control!vars, Adrift

(* A service adrift has no order.                                          *)
LEMMA NoOrder ==
  /\ \A s \in stranded : Orders(s) = {}
  /\ \A s \in stranded' : Orders(s)' = {}
  BY DEF Orders

(* update issues orders, to services that have none.                       *)
LEMMA ControlUpdate ==
  ASSUME TypeOK, LockInv, LockInv', Update
  PROVE  Control!Work
  <1>1. /\ server = "run" /\ server' = "run" /\ todo = {}
        /\ UNCHANGED <<proc, transitions, stranded>>
        /\ todo' = {[svc |-> r, action |-> ActionOf(r)] : r \in Generated}
    BY DEF Update, LockInv, machineVars, loopVars
  <1>2. ASSUME NEW s \in Managed \ stranded PROVE Control!Leave(s) \/ Control!Issue(s)
    <2>1. /\ Orders(s) = OrdersIn(todo, transitions, s)
          /\ Orders(s)' = OrdersIn(todo', transitions', s)
          /\ OneEntry(todo, transitions, s) /\ OneEntry(todo', transitions', s)
      BY <1>1, Entries DEF Orders
    <2>2. CASE s \in Generated
      <3> DEFINE x == [svc |-> s, action |-> ActionOf(s)]
      <3>1. x \in todo' /\ x.svc = s /\ x.action \in Control!Action
        BY <1>1, <2>2, GeneratedActs DEF Problem, Control!Action
      <3>2. Orders(s)' = Control!Issued(x.action)
        BY <2>1, <3>1, OneOrder
      <3>3. ~Named(todo, s) /\ ~Named(transitions, s)
        BY <1>1, <2>2 DEF LockInv, Named, Managed, MayOverlap, Generated
      <3>4. Orders(s) = {}
        BY <2>1, <3>3, OneOrder
      <3> HIDE DEF x
      <3> QED
        BY <1>1, <3>1, <3>2, <3>4 DEF Control!Issue
    <2>3. CASE s \notin Generated
      <3>1. ~Named(todo, s) /\ ~Named(todo', s)
        BY <1>1, <2>3 DEF Named
      <3>2. Orders(s)' = Orders(s)
        BY <1>1, <2>1, <3>1, SameOrder DEF Named
      <3> QED
        BY <1>1, <3>2 DEF Control!Leave
    <2> QED
      BY <2>2, <2>3
  <1>3. ASSUME NEW s \in Managed \cap stranded PROVE Control!Drift(s)
    BY <1>1, <1>3, NoOrder DEF Control!Drift
  <1> QED
    BY <1>1, <1>2, <1>3 DEF Control!Work, Adrift

(* A step of _new_transitions begins an order or carries it out, unless    *)
(* there is nothing to do.                                                 *)
LEMMA FirstSteps ==
  ASSUME NEW s, NEW action \in Problem, NEW p, ~Waits(s, action, p)
  PROVE  /\ decide(action, ServiceRunState(s, p)) = <<>> =>
              action = "start" /\ p \in {"up", "stopping"} /\ FirstStep(s, action, p) = p
         /\ decide(action, ServiceRunState(s, p)) # <<>> =>
              /\ s \in Simple \/ p \notin Control!Running
              /\ FirstStep(s, action, p) \in
                   IF action = "start" THEN {"starting", "up"} ELSE {"dead"}
  <1> USE DEF Problem, Control!Running
  <1>1. ServiceRunState(s, p) \in {"ok", "warn", "error"}
    BY DEF ServiceRunState, run_state
  <1>2. ServiceRunState(s, p) = "ok" => p \in {"up", "stopping"}
    BY DEF ServiceRunState, run_state, Observed
  <1>3. ServiceRunState(s, p) = "error" => ~HasPids(p) /\ s \notin Simple
    BY DEF ServiceRunState, run_state
  <1>4. decide(action, ServiceRunState(s, p)) = <<>> => action = "start" /\ p \in {"up", "stopping"}
    BY <1>1, <1>2 DEF decide
  <1>5. ServiceRunState(s, p) # "error" /\ decide(action, ServiceRunState(s, p)) # <<>> =>
          decide(action, ServiceRunState(s, p))[1] = "stop"
    BY <1>1 DEF decide
  <1>6. ASSUME decide(action, ServiceRunState(s, p)) # <<>>
        PROVE  s \in Simple \/ p \notin Control!Running
    BY <1>3, <1>5, <1>6 DEF Waits, StopProc, HasPids
  <1> QED
    BY <1>4, <1>6 DEF FirstStep, EndProc, StartProc

LEMMA ControlNewTransition ==
  ASSUME TypeOK, LockInv, LockInv', NEW x \in todo, NewTransition(x)
  PROVE  Control!Work
  <1>1. /\ server = "run" /\ server' = "run" /\ todo' = todo \ {x} /\ stranded' = stranded
        /\ x.svc \in Service /\ x.action \in Problem
        /\ proc'[x.svc] = FirstStep(x.svc, x.action, proc[x.svc])
        /\ \A s \in Service : s # x.svc => proc'[s] = proc[s]
    BY DEF NewTransition, TypeOK
  <1>2. ASSUME NEW s \in Managed \ stranded
        PROVE  \/ Control!Leave(s) \/ Control!Begin(s) \/ Control!CarryOut(s) \/ Control!Spare(s)
    <2>1. /\ Orders(s) = OrdersIn(todo, transitions, s)
          /\ Orders(s)' = OrdersIn(todo', transitions', s)
          /\ OneEntry(todo, transitions, s) /\ OneEntry(todo', transitions', s)
      BY <1>1, Entries DEF Orders
    <2>2. CASE s # x.svc
      <3>1. /\ \A y \in todo : y.svc = s => y \in todo'
            /\ \A y \in todo' : y.svc = s => y \in todo
        BY <1>1, <2>2
      <3>2. \A t \in transitions : t.svc = s =>
              \E u \in transitions' : u.svc = s /\ u.action = t.action
        <4>1. \A t \in transitions : Aged(t, x).svc = t.svc /\ Aged(t, x).action = t.action
          BY DEF Aged, TypeOK, Trans
        <4> QED
          BY <4>1, NewTransitionList
      <3>3. Named(transitions', s) => Named(transitions, s)
        BY <2>2, NewTransitionList DEF Named
      <3>4. Orders(s)' = Orders(s)
        BY <2>1, <3>1, <3>2, <3>3, SameOrder
      <3> QED
        BY <1>1, <2>2, <3>4 DEF Control!Leave, Managed
    <2>3. CASE s = x.svc
      <3>1. Orders(s) = Control!Issued(x.action)
        BY <2>1, <2>3, OneOrder
      <3>2. CASE Waits(s, x.action, proc[s])
        <4>1. Added(x) \in transitions' /\ Added(x).svc = s /\ Added(x).action = x.action
          BY <2>3, <3>2, NewTransitionList DEF Added
        <4>2. Orders(s)' = Control!Begun(x.action)
          BY <2>1, <4>1, OneOrder
        <4>3. proc[s] \in Control!Running /\ proc'[s] = "stopping"
          <5>1. proc[s] \in Control!Running
            BY <3>2 DEF Waits, StopProc, HasPids, Control!Running
          <5>2. FirstStep(s, x.action, proc[s]) = "stopping"
            BY <3>2, WaitsStopping
          <5> QED
            BY <1>1, <2>3, <5>1, <5>2
        <4> QED
          BY <1>1, <3>1, <4>2, <4>3 DEF Control!Begin, Control!Action, Problem
      <3>3. CASE ~Waits(s, x.action, proc[s])
        <4>1. ~Named(todo', s) /\ ~Named(transitions', s)
          BY <1>1, <2>3, <3>3, NewTransitionList DEF Named, LockInv, Managed, MayOverlap
        <4>2. Orders(s)' = {}
          BY <2>1, <4>1, OneOrder
        <4> DEFINE p == proc[s]
        <4>3. proc'[s] = FirstStep(s, x.action, p) /\ x.action \in Problem
              /\ ~Waits(s, x.action, p)
          BY <1>1, <2>3, <3>3
        <4> HIDE DEF p
        <4>4. CASE decide(x.action, ServiceRunState(s, p)) = <<>>
          <5>1. x.action = "start" /\ p \in {"up", "stopping"} /\ FirstStep(s, x.action, p) = p
            BY <4>3, <4>4, FirstSteps
          <5> QED
            BY <3>1, <4>2, <4>3, <5>1 DEF Control!Spare, p
        <4>5. CASE decide(x.action, ServiceRunState(s, p)) # <<>>
          <5>1. /\ s \in Simple \/ p \notin Control!Running
                /\ FirstStep(s, x.action, p) \in
                     IF x.action = "start" THEN {"starting", "up"} ELSE {"dead"}
            BY <4>3, <4>5, FirstSteps
          <5> QED
            BY <3>1, <4>2, <4>3, <5>1 DEF Control!CarryOut, Control!Action, Problem, p
        <4> QED
          BY <4>4, <4>5
      <3> QED
        BY <3>2, <3>3
    <2> QED
      BY <2>2, <2>3
  <1>3. ASSUME NEW s \in Managed \cap stranded PROVE Control!Drift(s)
    <2>1. proc'[s] \in {proc[s], "stopping", "dead", "starting", "up"}
      BY <1>1, <1>3 DEF FirstStep, Waits, StopProc, EndProc, StartProc, HasPids, Managed
    <2> QED
      BY <1>1, <1>3, <2>1, NoOrder DEF Control!Drift
  <1> QED
    BY <1>1, <1>2, <1>3 DEF Control!Work, Adrift

(* _handle_transition carries out the orders it goes on with, and only     *)
(* those; perhaps they were the last ones.                                 *)
LEMMA ControlHandle ==
  ASSUME TypeOK, LockInv, LockInv', HealthInv, NewestInv, HandleTransition
  PROVE  Control!Work \/ Control!End
  <1>1. /\ server = "run" /\ server' \in {"run", "exited"} /\ todo = {} /\ todo' = {}
        /\ transitions' = {t \in transitions : ~GoesOn(t.svc)}
        /\ stranded' = {s \in stranded : ~GoesOn(s)}
    BY DEF HandleTransition, Idle, CallCheck, jobVars, LockInv
  <1>2. \A s \in Service : ~GoesOn(s) => proc'[s] = proc[s]
    BY DEF HandleTransition
  <1>3. ASSUME NEW s \in Managed \ stranded, GoesOn(s)
        PROVE  Control!CarryOut(s)
    <2>1. PICK t \in transitions : t.svc = s
      BY <1>3 DEF GoesOn
    <2>2. /\ t.newest /\ t.action \in Problem /\ proc[s] \notin {"up", "starting"}
          /\ \A u \in transitions : u.svc = s => u = t
      BY <2>1 DEF NewestInv, HealthInv, LockInv, TypeOK, Trans, Managed, MayOverlap
    <2>3. proc'[s] = EndProc(s, t.action)
      BY <1>3, <2>1, <2>2 DEF HandleTransition, Problem, Managed
    <2>4. Orders(s) = Control!Begun(t.action)
      BY <1>1, <2>1, OneOrder, Entries DEF Orders
    <2>5. Orders(s)' = {}
      <3>1. ~Named(todo', s) /\ ~Named(transitions', s)
        BY <1>1, <1>3 DEF Named
      <3> QED
        BY <1>1, <3>1, OneOrder, Entries DEF Orders
    <2> QED
      BY <2>2, <2>3, <2>4, <2>5
         DEF Control!CarryOut, Control!Action, Problem, EndProc, StartProc
  <1>4. ASSUME NEW s \in Managed \cap stranded PROVE Control!Drift(s)
    <2>1. proc'[s] \in {proc[s], "dead", "starting", "up"}
      BY <1>2 DEF HandleTransition, EndProc, StartProc, Managed
    <2>2. CASE GoesOn(s)
      <3>1. {t \in transitions' : t.svc = s} = {} /\ {x \in todo' : x.svc = s} = {}
        BY <1>1, <2>2
      <3>2. Orders(s)' = {}
        BY <3>1 DEF Orders, OrdersIn
      <3> QED
        BY <2>1, <3>2 DEF Control!Drift
    <2>3. CASE ~GoesOn(s)
      BY <1>1, <2>1, <2>3, NoOrder DEF Control!Drift
    <2> QED
      BY <2>2, <2>3
  <1>5. CASE server' = "run"
    <2>1. ASSUME NEW s \in Managed \ stranded, ~GoesOn(s) PROVE Control!Leave(s)
      <3>1. OneEntry(todo, transitions, s) /\ OneEntry(todo', transitions', s)
        BY <1>1, Entries
      <3>2. \A t \in transitions : t.svc = s => t \in transitions'
        BY <1>1, <2>1
      <3>3. Named(transitions', s) => Named(transitions, s)
        BY <1>1 DEF Named
      <3>4. OrdersIn(todo', transitions', s) = OrdersIn(todo, transitions, s)
        BY <1>1, <3>1, <3>2, <3>3, SameOrder
      <3> QED
        BY <1>1, <1>2, <1>5, <2>1, <3>4 DEF Control!Leave, Orders, Managed
    <2> QED
      BY <1>1, <1>3, <1>4, <1>5, <2>1 DEF Control!Work, Adrift
  <1>6. CASE server' = "exited"
    <2>1. \A s \in Managed : Orders(s)' = {}
      BY <1>6 DEF Orders
    <2>2. ASSUME NEW s \in Managed \ stranded PROVE proc'[s] = proc[s] \/ Control!CarryOut(s)
      BY <1>2, <1>3, <2>2 DEF Managed
    <2>3. Adrift = Managed \cap stranded /\ Adrift' = {}
      BY <1>1, <1>6 DEF Adrift
    <2> QED
      BY <1>1, <1>4, <1>6, <2>1, <2>2, <2>3 DEF Control!End
  <1> QED
    BY <1>1, <1>5, <1>6

(* The server ends, with nothing done to a service.                        *)
LEMMA ControlEnd ==
  ASSUME server = "run", server' # "run", UNCHANGED proc
  PROVE  Control!End
  BY DEF Control!End, Control!Drift, Orders, Adrift

LEMMA ControlServerStep ==
  ASSUME TypeOK, LockInv, LockInv', HealthInv, NewestInv, ServerStep
  PROVE  [Control!Next]_(Control!vars)
  <1> USE DEF machineVars, loopVars, jobVars
  <1>1. CASE Update
    BY <1>1, ControlUpdate DEF Control!Next
  <1>2. ASSUME NEW x \in todo, NewTransition(x) PROVE Control!Next
    BY <1>2, ControlNewTransition DEF Control!Next
  <1>3. CASE HandleTransition
    BY <1>3, ControlHandle DEF Control!Next
  <1>4. CASE NewTransitionsDone
    <2>1. server = "run" /\ UNCHANGED <<proc, todo, transitions, stranded>>
      BY <1>4 DEF NewTransitionsDone
    <2>2. CASE server' = "run"
      BY <2>1, <2>2, NoControl DEF Orders
    <2>3. CASE server' # "run"
      BY <2>1, <2>3, ControlEnd DEF Control!Next
    <2> QED
      BY <2>2, <2>3
  <1>5. ASSUME Check \/ \E s \in Service : InotifyEvent(s)
        PROVE  UNCHANGED Control!vars
    <2>1. UNCHANGED <<proc, todo, transitions, stranded, server>>
      BY <1>5 DEF Check, InotifyEvent, CallCheck
    <2> QED
      BY <2>1, NoControl DEF Orders
  <1> QED
    BY <1>1, <1>2, <1>3, <1>4, <1>5 DEF ServerStep

(* A signal withdraws the orders that have not begun, and those that have  *)
(* are lost track of if the timer is not armed.                            *)
LEMMA ControlWithdraw ==
  ASSUME TypeOK, AbortHandler, server' = "run", UNCHANGED proc
  PROVE  Control!Withdraw
  <1>1. /\ server = "run" /\ todo' = {} /\ UNCHANGED transitions
        /\ stranded' = stranded \cup (IF timer THEN {} ELSE {t.svc : t \in transitions})
    BY DEF AbortHandler
  <1>2. Adrift = Managed \cap stranded /\ Adrift' = Managed \cap stranded'
    BY <1>1 DEF Adrift
  <1>3. ASSUME NEW s \in Managed \ stranded
        PROVE  /\ {o \in Orders(s) : o.begun} = OrdersIn({}, transitions, s)
               /\ s \notin stranded' => Orders(s)' = OrdersIn({}, transitions, s)
    <2> DEFINE T == {u \in transitions : u.svc = s}
               L == {y \in todo : y.svc = s}
               B == {[action |-> t.action, begun |-> TRUE] : t \in T}
    <2>1. Orders(s) = {[action |-> x.action, begun |-> FALSE] : x \in L} \cup B
      BY <1>1, <1>3 DEF Orders, OrdersIn
    <2>2. OrdersIn({}, transitions, s) = B
      BY DEF OrdersIn
    <2>3. \A o \in B : o.begun = TRUE
      OBVIOUS
    <2>4. s \notin stranded' => Orders(s)' = OrdersIn({}, transitions, s)
      BY <1>1 DEF Orders
    <2> HIDE DEF T, L, B
    <2> QED
      BY <2>1, <2>2, <2>3, <2>4
  <1>4. ASSUME NEW s \in Adrift' \ Adrift
        PROVE  \E o \in Orders(s) : o.begun
    <2>1. s \in Managed \ stranded /\ s \in {t.svc : t \in transitions}
      BY <1>1, <1>2, <1>4
    <2>2. PICK t \in transitions : t.svc = s
      BY <2>1
    <2> DEFINE o == [action |-> t.action, begun |-> TRUE]
    <2>3. o \in OrdersIn({}, transitions, s)
      BY <2>2 DEF OrdersIn
    <2> HIDE DEF o
    <2> QED
      BY <1>3, <2>1, <2>3
  <1>5. ASSUME NEW s \in Managed
        PROVE  Orders(s)' = IF s \in Adrift' THEN {} ELSE {o \in Orders(s) : o.begun}
    BY <1>1, <1>2, <1>3, <1>5, NoOrder
  <1>6. Adrift \subseteq Adrift' /\ Adrift' \subseteq Managed
    BY <1>1, <1>2
  <1>7. [s \in Managed |-> Orders(s)'] =
          [s \in Managed |-> IF s \in Adrift' THEN {}
                            ELSE {o \in [r \in Managed |-> Orders(r)][s] : o.begun}]
    BY <1>5
  <1>8. \A s \in Adrift' \ Adrift : \E o \in [r \in Managed |-> Orders(r)][s] : o.begun
    BY <1>4, <1>6
  <1> QED
    BY <1>1, <1>6, <1>7, <1>8 DEF Control!Withdraw

(* What the processes of a service do by themselves.                       *)
Lives(s) ==
  /\ \A r \in Service : r # s => proc'[r] = proc[r]
  /\ \/ proc[s] = "starting" /\ proc'[s] \in {"up", "dead"}
     \/ proc[s] = "up" /\ proc'[s] \in {"partial", "crashed", "dead"}
     \/ proc[s] \in {"partial", "stopping"} /\ proc'[s] \in {"crashed", "dead"}

LEMMA ControlLive ==
  ASSUME NEW s \in Service, Lives(s), UNCHANGED <<todo, transitions, stranded, server>>
  PROVE  [Control!Next]_(Control!vars)
  <1>1. \A r \in Managed : Orders(r)' = Orders(r)
    BY DEF Orders
  <1>2. CASE s \in Managed
    <2>1. Control!Live(s)
      BY <1>1, <1>2 DEF Control!Live, Lives, Managed, Adrift
    <2> QED
      BY <1>2, <2>1 DEF Control!Next
  <1>3. CASE s \notin Managed
    BY <1>1, <1>3, NoControl DEF Lives, Managed
  <1> QED
    BY <1>2, <1>3

LEMMA ControlOutsideStep ==
  ASSUME TypeOK, LockInv, OutsideStep
  PROVE  [Control!Next]_(Control!vars)
  <1> USE DEF machineVars, loopVars, jobVars
  <1>1. ASSUME NEW changed, NEW target, NEW ignore, Command(changed, target, ignore)
        PROVE  UNCHANGED Control!vars
    <2>1. UNCHANGED <<proc, todo, transitions, stranded, server>>
      BY <1>1 DEF Command, CallCheck
    <2> QED
      BY <2>1, NoControl DEF Orders
  <1>2. ASSUME NextStopIsRestart \/ InstanceEvent \/ \E s \in Service : Reconfigure(s)
        PROVE  UNCHANGED Control!vars
    <2>1. UNCHANGED <<proc, todo, transitions, stranded, server>>
      BY <1>2 DEF NextStopIsRestart, InstanceEvent, Reconfigure, ServerUnchanged
    <2> QED
      BY <2>1, NoControl DEF Orders
  <1>3. CASE Sigint \/ Sighup
    <2>1. AbortHandler /\ UNCHANGED proc
      BY <1>3 DEF Sigint, Sighup
    <2>2. CASE server' = "run"
      BY <2>1, <2>2, ControlWithdraw DEF Control!Next
    <2>3. CASE server' # "run"
      BY <2>1, <2>3, ControlEnd DEF Control!Next, AbortHandler
    <2> QED
      BY <2>2, <2>3
  <1>4. CASE Kill
    <2>1. server = "run" /\ server' # "run" /\ UNCHANGED proc
      BY <1>4 DEF Kill
    <2> QED
      BY <2>1, ControlEnd DEF Control!Next
  <1>5. CASE Boot
    <2>1. /\ server # "run" /\ server' = "run" /\ UNCHANGED proc
          /\ todo' = {} /\ transitions' = {} /\ stranded' = {}
      BY <1>5 DEF Boot
    <2>2. \A s \in Managed : Orders(s) = {} /\ Orders(s)' = {}
      BY <2>1 DEF Orders, OrdersIn
    <2> QED
      BY <2>1, <2>2 DEF Control!Next, Control!Boot, Adrift
  <1>6. ASSUME NEW s \in Service, Crash(s) PROVE [Control!Next]_(Control!vars)
    <2>1. UNCHANGED <<todo, transitions, stranded, server>> /\ Lives(s)
      BY <1>6 DEF Crash, ServerUnchanged, TypeOK, HasPids, Lives
    <2> QED
      BY <2>1, ControlLive
  <1> QED
    BY <1>1, <1>2, <1>3, <1>4, <1>5, <1>6
       DEF OutsideStep, EnableCommand, DisableCommand, MonitorCommand, IgnoreCommand

LEMMA ControlTimeStep ==
  ASSUME TypeOK, LockInv, LockInv', TimeStep
  PROVE  UNCHANGED Control!vars
  <1>1. UNCHANGED <<proc, todo, server, stranded>>
    BY DEF TimeStep, Settle, LockExpires, ThrottleExpires, WindowMoves, WaitExpires,
       TimeUnchanged, machineVars, jobVars
  <1>2. /\ \A t \in transitions : \E u \in transitions' : u.svc = t.svc /\ u.action = t.action
        /\ \A u \in transitions' : \E t \in transitions : u.svc = t.svc
    <2>1. \A t \in transitions : /\ [t EXCEPT !.late = TRUE].svc = t.svc
                                 /\ [t EXCEPT !.late = TRUE].action = t.action
      BY DEF TypeOK, Trans
    <2>2. ASSUME NEW t \in transitions, WaitExpires(t)
          PROVE  transitions' = (transitions \ {t}) \cup {[t EXCEPT !.late = TRUE]}
      BY <2>2 DEF WaitExpires
    <2>3. ASSUME NEW s \in Service,
                 Settle(s) \/ LockExpires(s) \/ ThrottleExpires(s) \/ WindowMoves(s)
          PROVE  transitions' = transitions
      BY <2>3 DEF Settle, LockExpires, ThrottleExpires, WindowMoves
    <2> QED
      BY <2>1, <2>2, <2>3 DEF TimeStep
  <1>3. ASSUME NEW s \in Managed \ stranded PROVE Orders(s)' = Orders(s)
    <2>1. OneEntry(todo, transitions, s) /\ OneEntry(todo', transitions', s)
      BY <1>1, Entries
    <2>2. OrdersIn(todo', transitions', s) = OrdersIn(todo, transitions, s)
      BY <1>1, <1>2, <2>1, SameOrder DEF Named
    <2> QED
      BY <1>1, <2>2 DEF Orders
  <1> QED
    BY <1>1, <1>3, NoOrder, NoControl

LEMMA ControlNext ==
  TypeOK /\ LockInv /\ LockInv' /\ HealthInv /\ NewestInv /\ [Next]_vars
    => [Control!Next]_(Control!vars)
  <1> SUFFICES ASSUME TypeOK, LockInv, LockInv', HealthInv, NewestInv, [Next]_vars
               PROVE  [Control!Next]_(Control!vars)
    OBVIOUS
  <1>1. CASE ServerStep
    BY <1>1, ControlServerStep
  <1>2. CASE OutsideStep
    BY <1>2, ControlOutsideStep
  <1>3. ASSUME NEW s \in Service, Started(s) \/ Ended(s)
        PROVE  [Control!Next]_(Control!vars)
    <2>1. UNCHANGED <<todo, transitions, stranded, server>> /\ Lives(s)
      BY <1>3 DEF Started, Ended, ServerUnchanged, loopVars, jobVars, TypeOK, Lives
    <2> QED
      BY <2>1, ControlLive
  <1>4. CASE TimeStep
    BY <1>4, ControlTimeStep
  <1>5. CASE UNCHANGED vars
    <2>1. UNCHANGED <<proc, todo, transitions, stranded, server>>
      BY <1>5 DEF vars
    <2> QED
      BY <2>1, NoControl DEF Orders
  <1> QED
    BY <1>1, <1>2, <1>3, <1>4, <1>5 DEF Next, ProcStep

LEMMA ControlInit == Init => Control!Init
  <1> SUFFICES ASSUME Init PROVE Control!Init
    OBVIOUS
  <1>1. \A s \in Managed : proc[s] \in {"dead", "up"} /\ Orders(s) = {}
    BY DEF Init, Managed, Orders, OrdersIn
  <1> QED
    BY <1>1 DEF Init, Control!Init, Adrift

(***************************************************************************)
(* The meta-server implements ServiceControl for the services whose        *)
(* wait_time is below LOCK_TIMEOUT: through signals, crashes, kills and    *)
(* restarts each of them has one order at a time, which is carried out as  *)
(* it was given and never without telling the processes to stop first.  A  *)
(* signal can set a service adrift, until the order it has lost ends.      *)
(***************************************************************************)
THEOREM Controlled == Spec => OrdersKept
  <1>1. Init => TimerInv /\ LockInv /\ HealthInv /\ NewestInv
    BY DEF Init, TimerInv, LockInv, HealthInv, NewestInv
  <1> QED
    BY <1>1, ControlInit, ControlNext, TimerNext, LockNext, HealthNext, NewestNext,
       TypeCorrect, CacheCoherence, PTL DEF Spec, OrdersKept, Control!Spec
===============================================================================
