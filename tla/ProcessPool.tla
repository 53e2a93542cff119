------------------------------ MODULE ProcessPool ------------------------------
(***************************************************************************)
(* process_pool and process_obj of tools/threading_tools.py, the frame of  *)
(* every server: a main process with an event loop, child processes with   *)
(* loops of their own, and messages between them over 0MQ ROUTER sockets.  *)
(*                                                                         *)
(* A turn of the main loop is top (stop_running_processes, if the exit was *)
(* requested), poll (one message of the internal socket, and whatever the  *)
(* handlers of other sockets do) and check (leave the loop?).  The timers  *)
(* of the loop are in TimerBase.                                           *)
(***************************************************************************)
EXTENDS Integers, Sequences, FiniteSets

CONSTANTS
  Proc,        \* names of child processes
  Worker,      \* those that end after one job (BuildProcess, BackgroundProcess)
  Target,      \* those that get messages of other children, redirected by main
  Priority,    \* keyword priority of process_obj
  MaxJobs,     \* bound on the jobs sent
  MaxFaults    \* bound on the children that die by an unhandled exception

ASSUME PoolAssumption ==
  /\ IsFiniteSet(Proc) /\ Worker \subseteq Proc /\ Target \subseteq Proc
  /\ Priority \in [Proc -> Nat]
  /\ MaxJobs \in Nat /\ MaxFaults \in Nat

VARIABLES
  \* process_pool
  registered,  \* names in __processes
  running,     \* __processes_running
  buffer,      \* __socket_buffer
  stopped,     \* __processes_stopped
  exitRequested,
  pc,          \* place in the turn of loop(), "left" after loop exit
  mainbox,     \* messages in the internal socket of the main process
  \* process_obj
  child,       \* life of the child of each name
  inbox,       \* messages in the socket of the child
  pid,         \* pid of the child, here the number of the job it was started for
  \* history and bounds
  taken,       \* messages the children have taken
  jobs,        \* number of jobs sent
  faults,
  recounted,   \* an exit was counted for a process that is, or was, counted otherwise
  interrupted  \* number of exits counted whose process stayed in the table

poolVars == <<registered, running, stopped, exitRequested>>
counts == <<recounted, interrupted>>
vars == <<registered, running, buffer, stopped, exitRequested, pc, mainbox, child,
          inbox, pid, taken, jobs, faults, recounted, interrupted>>

(***************************************************************************)
(* The life of a child: none - not there (or joined); init - started, not  *)
(* yet connected; up - in its loop; exiting - its loop is over; closing -  *)
(* process_exit is sent, the sockets are being closed; dead - not joined.  *)
(***************************************************************************)
Life == {"none", "init", "up", "exiting", "closing", "dead"}

Message == [kind : {"job"}, id : 1..MaxJobs] \cup [kind : {"exit"}, id : {0}]

PoolMessage == [kind : {"start", "exit"}, from : Proc, pid : 1..MaxJobs]

Exit == [kind |-> "exit", id |-> 0]

Alive(p) == child[p] \in {"init", "up", "exiting", "closing"}

(* ROUTER_MANDATORY: sending works exactly while the child is connected.   *)
Connected(p) == child[p] \in {"up", "exiting", "closing"}

TypeOK ==
  /\ registered \subseteq Proc /\ stopped \subseteq Proc
  /\ running \in Int
  /\ exitRequested \in BOOLEAN
  /\ pc \in {"top", "poll", "check", "left"}
  /\ child \in [Proc -> Life]
  /\ buffer \in [Proc -> Seq(Message)]
  /\ inbox \in [Proc -> Seq(Message)]
  /\ taken \in [Proc -> Seq(Message)]
  /\ mainbox \in Seq(PoolMessage)
  /\ pid \in [Proc -> 0..MaxJobs]
  /\ jobs \in 0..MaxJobs /\ faults \in 0..MaxFaults
  /\ recounted \in BOOLEAN /\ interrupted \in Nat

Init ==
  /\ registered = {} /\ running = 0 /\ stopped = {}
  /\ exitRequested = FALSE
  /\ pc = "top" /\ mainbox = <<>>
  /\ child = [p \in Proc |-> "none"]
  /\ buffer = [p \in Proc |-> <<>>]
  /\ inbox = [p \in Proc |-> <<>>]
  /\ taken = [p \in Proc |-> <<>>]
  /\ pid = [p \in Proc |-> 0]
  /\ jobs = 0 /\ faults = 0 /\ recounted = FALSE /\ interrupted = 0

--------------------------------------------------------------------------------
(***************************************************************************)
(* send_to_process: the buffer of the process is flushed first; a message  *)
(* that cannot be sent, or is behind one that cannot, is put at the end of *)
(* the buffer.  i and b are the sockets and buffers before, P the targets. *)
(***************************************************************************)
(* Mutant: the buffer is forgotten when the process is connected.          *)
ArrivedUnflushed(i, b, P, m) ==
  [p \in Proc |-> IF p \in P /\ Connected(p) THEN Append(i[p], m) ELSE i[p]]

Arrived(i, b, P, m) ==
  [p \in Proc |-> IF p \in P /\ Connected(p) THEN Append(i[p] \o b[p], m) ELSE i[p]]

Kept(b, P, m) ==
  [p \in Proc |-> IF p \notin P THEN b[p]
                  ELSE IF Connected(p) THEN <<>> ELSE Append(b[p], m)]

(* _flush_process_buffers                                                  *)
Flush(p) ==
  IF Connected(p) THEN [i |-> [inbox EXCEPT ![p] = @ \o buffer[p]],
                        b |-> [buffer EXCEPT ![p] = <<>>]]
  ELSE [i |-> inbox, b |-> buffer]

(***************************************************************************)
(* stop_running_processes: the priorities in ascending order up to the     *)
(* first one with a live process.  The live processes of that one get the  *)
(* exit message, the dead ones on the way are taken out (_process_exit     *)
(* with pid 0).  Processes that got their message before are not looked at.*)
(***************************************************************************)
Candidate == registered \ stopped

Turn == {p \in Candidate : \A q \in Candidate : Alive(q) => Priority[p] <= Priority[q]}

Told == {p \in Turn : Alive(p)}

(* Mutant: dead processes are left in the table.                           *)
KeepDead == {}

Forced == Turn \ Told

StopRunningProcesses ==
  /\ stopped' = stopped \cup Told
  /\ registered' = registered \ Forced
  /\ running' = running - Cardinality(Forced)
  /\ child' = [p \in Proc |-> IF p \in Forced THEN "none" ELSE child[p]]

--------------------------------------------------------------------------------
(* loop(): the part before the poll.                                       *)
Top ==
  /\ pc = "top"
  /\ IF exitRequested
     THEN /\ StopRunningProcesses
          /\ inbox' = Arrived(inbox, buffer, Told, Exit)
          /\ buffer' = Kept(buffer, Told, Exit)
          /\ pc' = IF running' # 0 THEN "poll" ELSE "check"
     ELSE /\ pc' = "poll"
          /\ UNCHANGED <<registered, running, stopped, child, inbox, buffer>>
  /\ UNCHANGED <<exitRequested, mainbox, taken, jobs, faults, pid, counts>>

Timeout ==
  /\ pc = "poll" /\ mainbox = <<>>
  /\ pc' = "check"
  /\ UNCHANGED <<poolVars, buffer, mainbox, child, inbox, taken, jobs, faults, pid, counts>>

(* _process_start_zmq                                                      *)
HandleStart ==
  /\ pc = "poll" /\ mainbox # <<>> /\ Head(mainbox).kind = "start"
  /\ mainbox' = Tail(mainbox)
  /\ LET flushed == Flush(Head(mainbox).from)
     IN  IF exitRequested
         THEN /\ StopRunningProcesses
              /\ inbox' = Arrived(flushed.i, flushed.b, Told, Exit)
              /\ buffer' = Kept(flushed.b, Told, Exit)
         ELSE /\ inbox' = flushed.i /\ buffer' = flushed.b
              /\ UNCHANGED <<registered, running, stopped, child>>
  /\ pc' = "check"
  /\ UNCHANGED <<exitRequested, pid, taken, jobs, faults, counts>>

(* Mutant: a process that exits stays in the table.                        *)
HandleExitNoDel ==
  /\ pc = "poll" /\ mainbox # <<>> /\ Head(mainbox).kind = "exit"
  /\ mainbox' = Tail(mainbox)
  /\ running' = running - 1
  /\ pc' = "check"
  /\ UNCHANGED <<registered, child, inbox, buffer, stopped, exitRequested, pid, taken,
                 jobs, faults, counts>>

(***************************************************************************)
(* _process_exit: the counter goes down first; then the process is joined  *)
(* (and killed, if it does not end) and taken out of the table.  If it is  *)
(* not there any more the KeyError ends the turn, and loop() starts a new  *)
(* one.  If another process has got its name, that one is taken out.       *)
(***************************************************************************)
HandleExit ==
  /\ pc = "poll" /\ mainbox # <<>> /\ Head(mainbox).kind = "exit"
  /\ mainbox' = Tail(mainbox)
  /\ running' = running - 1
  /\ LET p == Head(mainbox).from
         gone == Head(mainbox).pid = pid[p]
     IN  IF p \in registered
         THEN /\ registered' = registered \ {p}
              /\ child' = [child EXCEPT ![p] = IF gone THEN "none" ELSE @]
              /\ inbox' = [inbox EXCEPT ![p] = IF gone THEN <<>> ELSE @]
              /\ pc' = "check"
              /\ recounted' = (recounted \/ ~gone)
         ELSE /\ pc' = "top"
              /\ recounted' = TRUE
              /\ UNCHANGED <<registered, child, inbox>>
  /\ UNCHANGED <<buffer, stopped, exitRequested, pid, taken, jobs, faults, interrupted>>

(***************************************************************************)
(* A signal during the join: the exception leaves the process in the table *)
(* although it has been counted, and loop() starts a new turn.  SIGINT and *)
(* SIGTERM request the exit, unless that has happened before; SIGHUP,      *)
(* SIGALRM and SIGTSTP only reload or are logged.                          *)
(***************************************************************************)
InterruptedExit ==
  /\ pc = "poll" /\ mainbox # <<>> /\ Head(mainbox).kind = "exit"
  /\ Head(mainbox).from \in registered
  /\ faults < MaxFaults
  /\ faults' = faults + 1
  /\ mainbox' = Tail(mainbox)
  /\ running' = running - 1
  /\ interrupted' = interrupted + 1
  /\ exitRequested' \in {TRUE, exitRequested}
  /\ pc' = "top"
  /\ UNCHANGED <<registered, buffer, stopped, child, inbox, pid, taken, jobs, recounted>>

(* Mutant: the loop is left as soon as the exit is requested.              *)
CheckFlagOnly ==
  /\ pc = "check"
  /\ pc' = IF exitRequested THEN "left" ELSE "top"
  /\ UNCHANGED <<poolVars, buffer, mainbox, child, inbox, taken, jobs, faults, pid, counts>>

Check ==
  /\ pc = "check"
  /\ pc' = IF exitRequested /\ running = 0 THEN "left" ELSE "top"
  /\ UNCHANGED <<poolVars, buffer, mainbox, child, inbox, taken, jobs, faults, pid, counts>>

--------------------------------------------------------------------------------
(***************************************************************************)
(* What the handlers of the servers do: add_process(start=True) unless the *)
(* name is taken, followed by send_to_process, as _rebuild_config of       *)
(* md-config-server and the background commands of cluster-server do.      *)
(***************************************************************************)
Submit(p) ==
  /\ pc = "poll" /\ jobs < MaxJobs
  /\ jobs' = jobs + 1
  /\ LET job == [kind |-> "job", id |-> jobs + 1]
     IN  IF p \in registered
         THEN /\ inbox' = Arrived(inbox, buffer, {p}, job)
              /\ buffer' = Kept(buffer, {p}, job)
              /\ UNCHANGED <<registered, running, child, pid>>
         ELSE /\ ~Alive(p)              \* bound: one child of a name at a time
              /\ registered' = registered \cup {p}
              /\ child' = [child EXCEPT ![p] = "init"]
              /\ pid' = [pid EXCEPT ![p] = jobs + 1]
              /\ running' = running + 1
              /\ buffer' = [buffer EXCEPT ![p] = Append(@, job)]
              /\ UNCHANGED inbox
  /\ UNCHANGED <<stopped, exitRequested, pc, mainbox, taken, faults, counts>>

(* _tp_message_received with another target than main: only the sending.   *)
Redirect(p) ==
  /\ pc = "poll" /\ jobs < MaxJobs
  /\ jobs' = jobs + 1
  /\ LET job == [kind |-> "job", id |-> jobs + 1]
     IN  /\ inbox' = Arrived(inbox, buffer, {p}, job)
         /\ buffer' = Kept(buffer, {p}, job)
  /\ UNCHANGED <<poolVars, child, pid, pc, mainbox, taken, faults, counts>>

(* A signal or a handler sets exit_requested.                              *)
RequestExit ==
  /\ pc = "poll" /\ ~exitRequested
  /\ exitRequested' = TRUE
  /\ UNCHANGED <<registered, running, stopped, buffer, pc, mainbox, child, inbox,
                 taken, jobs, faults, pid, counts>>

--------------------------------------------------------------------------------
(* _init_sockets and _send_start_message of a child.                       *)
Connect(p) ==
  /\ child[p] = "init" /\ pc # "left"
  /\ child' = [child EXCEPT ![p] = "up"]
  /\ mainbox' = Append(mainbox, [kind |-> "start", from |-> p, pid |-> pid[p]])
  /\ UNCHANGED <<poolVars, buffer, pc, inbox, taken, jobs, faults, pid, counts>>

(***************************************************************************)
(* _handle_message; _exit_process clears run_flag.  The greedy reading of  *)
(* the resolve process of host-monitoring is left out: it can only fail on *)
(* a message of another kind, which is the exception of Crash.             *)
(***************************************************************************)
Receive(p) ==
  /\ child[p] = "up" /\ inbox[p] # <<>>
  /\ inbox' = [inbox EXCEPT ![p] = Tail(@)]
  /\ taken' = [taken EXCEPT ![p] = Append(@, Head(inbox[p]))]
  /\ child' = [child EXCEPT ![p] = IF Head(inbox[p]).kind = "exit" \/ p \in Worker
                                   THEN "exiting" ELSE "up"]
  /\ UNCHANGED <<poolVars, buffer, pc, mainbox, jobs, faults, pid, counts>>

(* Mutant: the message carries the pid of the main process.                *)
SendExitMainPid(p) ==
  /\ child[p] = "exiting" /\ pc # "left"
  /\ child' = [child EXCEPT ![p] = "closing"]
  /\ mainbox' = Append(mainbox, [kind |-> "exit", from |-> p, pid |-> 0])
  /\ UNCHANGED <<poolVars, buffer, pc, inbox, taken, jobs, faults, pid, counts>>

(* process_exit and _close_sockets                                         *)
SendExit(p) ==
  /\ child[p] = "exiting" /\ pc # "left"
  /\ child' = [child EXCEPT ![p] = "closing"]
  /\ mainbox' = Append(mainbox, [kind |-> "exit", from |-> p, pid |-> pid[p]])
  /\ UNCHANGED <<poolVars, buffer, pc, inbox, taken, jobs, faults, pid, counts>>

End(p) ==
  /\ child[p] = "closing"
  /\ child' = [child EXCEPT ![p] = "dead"]
  /\ inbox' = [inbox EXCEPT ![p] = <<>>]
  /\ UNCHANGED <<poolVars, buffer, pc, mainbox, taken, jobs, faults, pid, counts>>

(* An unhandled exception in a handler: the child ends without a message.  *)
Crash(p) ==
  /\ child[p] \in {"init", "up", "exiting"} /\ faults < MaxFaults
  /\ faults' = faults + 1
  /\ child' = [child EXCEPT ![p] = "dead"]
  /\ inbox' = [inbox EXCEPT ![p] = <<>>]
  /\ UNCHANGED <<poolVars, buffer, pc, mainbox, taken, jobs, pid, counts>>

--------------------------------------------------------------------------------
MainStep == Top \/ Timeout \/ HandleStart \/ HandleExit \/ Check

ChildStep(p) == Connect(p) \/ Receive(p) \/ SendExit(p) \/ End(p)

Next ==
  \/ MainStep
  \/ RequestExit
  \/ InterruptedExit
  \/ \E p \in Proc : Submit(p) \/ ChildStep(p) \/ Crash(p)
  \/ \E p \in Target : Redirect(p)

Spec == Init /\ [][Next]_vars

(* The loops run; what comes from outside and the crashes need not happen. *)
FairSpec == Spec /\ WF_vars(MainStep) /\ \A p \in Proc : WF_vars(ChildStep(p))

--------------------------------------------------------------------------------
(***************************************************************************)
(* Sockets and buffers together are one ordered queue per process, however *)
(* connecting, buffering, flushing and ending interleave.                  *)
(***************************************************************************)
Queue(p) == inbox[p] \o buffer[p]

Queues == INSTANCE Mailbox WITH queue <- [p \in Proc |-> Queue(p)],
                                living <- {p \in Proc : Alive(p)}

OrderedDelivery == Queues!Spec

(***************************************************************************)
(* The counter loop() decides with: until the exit is requested it falls   *)
(* short of the number of processes in the table by exactly the joins that *)
(* a signal cut short, and no child lives outside the table.               *)
(***************************************************************************)
CountExact ==
  ~exitRequested => /\ running = Cardinality(registered) - interrupted
                    /\ \A p \in Proc : Alive(p) => p \in registered

(***************************************************************************)
(* loop() is left only when no child is alive, unless the exit of some     *)
(* process was counted twice: it ended by itself and was found dead before *)
(* its message was read, or a signal came during a join.                   *)
(***************************************************************************)
LeavesNone ==
  pc = "left" => recounted \/ interrupted > 0 \/ \A p \in Proc : ~Alive(p)

(***************************************************************************)
(* A server told to stop ends, whatever its children do, except for three  *)
(* ways to hang: a child that died without its message after it was told   *)
(* to exit, a child added under a name that was told before, and a counter *)
(* below zero after a signal during a join.                                *)
(***************************************************************************)
Forgotten(p) ==
  /\ p \in registered \cap stopped
  /\ \A i \in DOMAIN mainbox : mainbox[i].kind = "exit" => mainbox[i].from # p
  /\ \/ child[p] = "dead"
     \/ child[p] \in {"init", "up"} /\ \A i \in DOMAIN Queue(p) : Queue(p)[i] # Exit

ShutdownCompletes ==
  exitRequested ~> pc = "left" \/ running < 0 \/ \E p \in Proc : Forgotten(p)
================================================================================
