---------------------------- MODULE ServiceHistory ----------------------------
(***************************************************************************)
(* One service of the meta-server with its clock: the rows of the tables   *)
(* state and action of servicestate.sqlite, the stability rules that read  *)
(* them (_check_for_stable_state), the transition lock and the automatic   *)
(* disabling of a service that is started too often                        *)
(* (ServiceStateTranstaction).                                             *)
(*                                                                         *)
(* MetaServer leaves time open; this module has it.  All times are ages in *)
(* ticks, capped where the code no longer tells them apart.  A Tick is     *)
(* refused while a timer of main_process is due.                           *)
(***************************************************************************)
EXTENDS ServiceActions, Selection

CONSTANTS
  StartGrace,     \* a start younger than this (5 s) is not stable
  ReducedTime,    \* _min_state_time with a dependency problem (2 s)
  MinStateTime,   \* MIN_STATE_TIME (20 s)
  StableInterval, \* STABLE_INTERVAL (60 s)
  LockTimeout,    \* LOCK_TIMEOUT (30 s)
  DisableAge,     \* age of the oldest start that allows disabling (30 s)
  Window,         \* TRANSACTION_WINDOW (300 s)
  Rows,           \* LIMIT of the queries (10)
  CheckEvery,     \* period of _check (30 s)
  StepEvery,      \* period of _handle_transition (5 s)
  WaitTime,       \* wait_time of the service (10 s)
  Fate,           \* what the start of the service may lead to: "ok", "dead"
  MaxEvents       \* bound on commands, restarts of the server, changes of depsOk
                  \* and checks forced by a dependency problem

ASSUME TimeAssumption ==
  /\ {StartGrace, ReducedTime, MinStateTime, StableInterval, LockTimeout, DisableAge, Window,
      Rows, CheckEvery, StepEvery, WaitTime, MaxEvents} \subseteq Nat
  /\ 0 < StartGrace /\ StartGrace <= MinStateTime /\ ReducedTime <= MinStateTime
  /\ MinStateTime <= StableInterval /\ StableInterval < Window
  /\ StartGrace <= DisableAge /\ DisableAge < Window
  /\ StepEvery < LockTimeout /\ LockTimeout <= Window
  /\ Fate \subseteq {"ok", "dead"} /\ Fate # {}

VARIABLES
  proc,       \* "ok", "incomplete", "stopping" or "dead"
  target,     \* target_state, in the database and in target_dict
  depsOk,     \* what _check_dependencies finds
  seen,       \* state_dict, "none" if the server has not checked yet
  records,    \* rows of state, newest first
  starts,     \* ages of the "start" rows of action that are younger than Window
              \* and than any other row of action, newest first
  problem,    \* dependency_problems
  lock,       \* age of the transition lock, LockTimeout if there is none
  waits,      \* transitions of the service: action and age of the wait
  due,        \* a forced check is due (first check, trigger of a command, or
              \* the transitions are finished and a dependency problem is left)
  sinceCheck, sinceStep,   \* ages of the last _check and _handle_transition
  events,     \* what MaxEvents bounds, so far
  okSince     \* history: the service was seen "ok" after its last start

vars == <<proc, target, depsOk, seen, records, starts, problem, lock, waits, due,
          sinceCheck, sinceStep, events, okSince>>

(* MetaService._check, as in MetaServer.                                   *)
Observed == IF proc \in {"ok", "stopping"} THEN "ok" ELSE proc

HasPids(p) == p # "dead"

TypeOK ==
  /\ proc \in {"ok", "incomplete", "stopping", "dead"}
  /\ target \in TargetState
  /\ depsOk \in BOOLEAN /\ problem \in BOOLEAN /\ due \in BOOLEAN /\ okSince \in BOOLEAN
  /\ seen \in {"none", "ok", "incomplete", "dead"}
  /\ \A i \in DOMAIN records : /\ records[i].state \in {"ok", "incomplete", "dead"}
                               /\ records[i].age \in 0..StableInterval
  /\ \A i \in DOMAIN starts : starts[i] \in 0..(Window - 1)
  /\ lock \in 0..LockTimeout
  /\ \A i \in DOMAIN waits : waits[i].action \in {"start", "stop"} /\ waits[i].age \in 0..WaitTime
  /\ sinceCheck \in 0..CheckEvery /\ sinceStep \in 0..StepEvery
  /\ events \in 0..MaxEvents

Init ==
  /\ proc \in {"ok", "dead"}
  /\ target \in TargetState
  /\ depsOk \in BOOLEAN
  /\ seen = "none" /\ records = <<>> /\ starts = <<>>
  /\ problem = FALSE /\ lock = LockTimeout /\ waits = <<>>
  /\ due = TRUE /\ sinceCheck = 0 /\ sinceStep = 0
  /\ events = 0 /\ okSince = FALSE

-------------------------------------------------------------------------------
Lower(a, b) == IF a < b THEN a ELSE b

(* _update_state: a row is inserted only if the state has changed.         *)
NewRecords == IF Observed = seen THEN records
              ELSE <<[state |-> Observed, age |-> 0]>> \o records

CurAction == get_action(target, Observed, "run", "valid")

YoungStart == starts # <<>> /\ starts[1] < StartGrace

(* No younger row than StableInterval differs from the newest one.         *)
NoFlap ==
  \A i \in 1..Lower(Rows, Len(NewRecords)) :
    NewRecords[i].age < StableInterval => NewRecords[i].state = NewRecords[1].state

(* Mutant: records are not compared with older ones.                       *)
StableNoFlap == ~YoungStart /\ NewRecords[1].age >= MinStateTime

(* _check_for_stable_state, with both comparisons of the age of the newest row. *)
Stable ==
  /\ ~YoungStart
  /\ NoFlap
  /\ LET minStateTime == IF problem THEN ReducedTime ELSE MinStateTime
         notOk == get_action(target, NewRecords[1].state, "run", "valid") # "keep"
     IN  /\ ~(notOk /\ NewRecords[1].age < minStateTime)
         /\ ~(NewRecords[1].age < MinStateTime)

(* Mutant: the query for the actions returns three rows.                   *)
RepeatThree == Lower(3, Len(starts))

(* ServiceStateTranstaction.repeat: the newest rows that are starts.       *)
Repeat == Lower(Rows, Len(starts))

(* Mutant: the age of the newest start is taken for that of the oldest.    *)
DisableByNewest == Repeat > 2 /\ starts[1] > DisableAge

(* ... and post_disable: max_dt is the age of the oldest of these starts.  *)
post_disable == Repeat > 2 /\ starts[Repeat] > DisableAge

(* Mutant: the lock is not looked at.                                      *)
NeverLocked == FALSE

Locked == lock < LockTimeout

-------------------------------------------------------------------------------
(***************************************************************************)
(* The first step of a new transition: the wait after a stop, or the end   *)
(* of the transition (transition_finished removes the lock).               *)
(***************************************************************************)
Finish(action) ==
  /\ IF action = "start" THEN proc' \in Fate ELSE proc' = "dead"
  /\ lock' = LockTimeout

StepOne(action) ==
  LET plan == decide(action, run_state(Observed, HasPids(proc), FALSE))
  IN  IF plan = <<>>
      THEN lock' = LockTimeout /\ UNCHANGED <<proc, waits>>
      ELSE IF plan[1] = "stop"
      THEN /\ proc' = "stopping" /\ lock' = 0
           /\ waits' = Append(waits, [action |-> action, age |-> 0])
      ELSE Finish(action) /\ UNCHANGED waits

(* _generate_transition, _new_transitions and the disabling in update.     *)
Generate(action) ==
  /\ starts' = IF action = "stop" \/ (post_disable /\ target = "running") THEN <<>>
               ELSE <<0>> \o starts
  /\ target' = IF post_disable THEN "stopped" ELSE target
  /\ StepOne(action)

(* A check of the service; an unforced one needs a stable state.           *)
Check(force) ==
  /\ seen' = Observed
  /\ records' = NewRecords
  /\ sinceCheck' = 0 /\ due' = FALSE
  /\ LET wanted == CurAction # "keep" /\ (force \/ Stable)
     IN  /\ problem' = IF wanted THEN ~depsOk ELSE problem
         /\ IF wanted /\ depsOk /\ ~Locked
            THEN /\ Generate(CurAction)
                 /\ okSince' = (CurAction = "stop" /\ (okSince \/ Observed = "ok"))
            ELSE /\ okSince' = (okSince \/ Observed = "ok")
                 /\ UNCHANGED <<proc, target, starts, lock, waits>>
  /\ UNCHANGED <<depsOk, sinceStep, events>>

TimedCheck == ~due /\ Check(FALSE)

ForcedCheck == due /\ Check(TRUE)

Event == events < MaxEvents /\ events' = events + 1

WaitOver == proc = "dead" \/ \E i \in DOMAIN waits : waits[i].age >= WaitTime

(* _handle_transition: see GoesOn of MetaServer for several transitions.   *)
(* If this was the last transition of the server and a dependency problem  *)
(* is left, of this service or of another one, a check is forced.          *)
HandleTransition ==
  /\ ~due /\ waits # <<>>
  /\ sinceStep' = 0
  /\ \/ /\ WaitOver
        /\ Finish(waits[Len(waits)].action) /\ waits' = <<>>
        /\ \/ Event /\ due' = TRUE
           \/ UNCHANGED <<due, events>>
     \/ /\ ~WaitOver
        /\ UNCHANGED <<proc, lock, waits, due, events>>
  /\ UNCHANGED <<target, depsOk, seen, records, starts, problem, sinceCheck, okSince>>

(* The same check, after the end of another service's transition.          *)
DependencyCheck ==
  /\ Event /\ ~due /\ waits = <<>>
  /\ due' = TRUE
  /\ UNCHANGED <<proc, target, depsOk, seen, records, starts, problem, lock, waits,
                 sinceCheck, sinceStep, okSince>>

-------------------------------------------------------------------------------
(* _enable_command and _disable_command, which trigger a forced check.     *)
Command ==
  /\ Event /\ ~due
  /\ target' = IF target = "running" THEN "stopped" ELSE "running"
  /\ starts' = <<>>
  /\ due' = TRUE
  /\ UNCHANGED <<proc, depsOk, seen, records, problem, lock, waits, sinceCheck,
                 sinceStep, okSince>>

(* The server is restarted; the database is kept.                          *)
Boot ==
  /\ Event /\ ~due
  /\ seen' = "none" /\ problem' = FALSE /\ lock' = LockTimeout /\ waits' = <<>>
  /\ due' = TRUE /\ sinceCheck' = 0 /\ sinceStep' = 0
  /\ UNCHANGED <<proc, target, depsOk, records, starts, okSince>>

(* Processes die, or end after SIGTERM; other services come and go.        *)
Outside ==
  /\ \/ proc = "ok" /\ proc' \in {"dead", "incomplete"} /\ UNCHANGED <<depsOk, events>>
     \/ proc \in {"incomplete", "stopping"} /\ proc' = "dead" /\ UNCHANGED <<depsOk, events>>
     \/ Event /\ depsOk' = ~depsOk /\ UNCHANGED proc
  /\ UNCHANGED <<target, seen, records, starts, problem, lock, waits, due, sinceCheck,
                 sinceStep, okSince>>

Older(rows, cap) == [i \in DOMAIN rows |-> [rows[i] EXCEPT !.age = Lower(cap, @ + 1)]]

(* Mutant: a row exactly as old as the window is still read.               *)
InWindowClosed(age) == age <= Window

(* The rows _generate_transition reads: created > cur_time - TRANSACTION_WINDOW. *)
InWindow(age) == age < Window

(* Rows nobody looks at any more are dropped.                              *)
RecentRecords(rows) == At(rows, {i \in DOMAIN rows : i = 1 \/ rows[i].age < StableInterval})
RecentStarts(ages) == At(ages, {i \in DOMAIN ages : InWindow(ages[i])})

Tick ==
  /\ ~due /\ sinceCheck < CheckEvery
  /\ waits # <<>> => sinceStep < StepEvery
  /\ records' = RecentRecords(Older(records, StableInterval))
  /\ starts' = RecentStarts([i \in DOMAIN starts |-> starts[i] + 1])
  /\ lock' = Lower(LockTimeout, lock + 1)
  /\ waits' = Older(waits, WaitTime)
  /\ sinceCheck' = sinceCheck + 1
  /\ sinceStep' = IF waits = <<>> THEN 0 ELSE sinceStep + 1
  /\ UNCHANGED <<proc, target, depsOk, seen, problem, due, events, okSince>>

Next == \/ TimedCheck \/ ForcedCheck \/ HandleTransition \/ DependencyCheck
        \/ Command \/ Boot \/ Outside \/ Tick

Spec == Init /\ [][Next]_vars

(* The loop serves its timers, and time passes.                            *)
FairSpec == Spec /\ WF_vars(TimedCheck) /\ WF_vars(ForcedCheck)
                 /\ WF_vars(HandleTransition) /\ WF_vars(Tick)

-------------------------------------------------------------------------------
(***************************************************************************)
(* A service that dies again and again is started a bounded number of      *)
(* times before it is disabled.  The bound comes from the grace time after *)
(* a start and the minimal age of the oldest start.  A forced check knows  *)
(* no grace time, so each may add one start, whether it comes with a       *)
(* command, a restart of the server or a dependency problem at the end of  *)
(* a transition; and the LIMIT of the query must show all the starts (with *)
(* the constants of the code: up to two forced checks).                    *)
(***************************************************************************)
StartsBounded ==
  LET most == DisableAge \div StartGrace + 2 + events
  IN  most <= Rows => Len(starts) <= most

(***************************************************************************)
(* A service whose wait_time ends before the lock never has two            *)
(* transitions at a time, at any phase of the three timers.                *)
(***************************************************************************)
OneTransition == WaitTime + StepEvery <= LockTimeout => Len(waits) <= 1

(***************************************************************************)
(* A service that was seen running after its last start is started again   *)
(* by a periodic check only StableInterval after that start, even if the   *)
(* server itself was restarted in between.  The LIMIT of the query must    *)
(* leave room for the row of that running state: every restart of the      *)
(* server adds a row, and at most four others are younger.                 *)
(***************************************************************************)
FlappingIsSlow ==
  [][/\ TimedCheck /\ okSince /\ events + 5 <= Rows
     /\ starts # <<>> /\ starts' # starts /\ CurAction = "start"
     => starts[1] >= StableInterval]_vars

(***************************************************************************)
(* A service that never comes up is disabled in the end (post_disable),    *)
(* unless it needs a service that is down or ignores SIGTERM.              *)
(***************************************************************************)
HopelessDisabled == <>[](target = "stopped" \/ ~depsOk \/ Observed = "ok")
===============================================================================
