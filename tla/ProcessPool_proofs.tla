-------------------------- MODULE ProcessPool_proofs --------------------------
(***************************************************************************)
(* Proofs about ProcessPool, for every set of processes, all priorities    *)
(* and every bound on jobs and faults.                                     *)
(***************************************************************************)
EXTENDS ProcessPool, SequenceTheorems, FiniteSetTheorems, TLAPS

(* A child that was started has a pid (start_process).                     *)
PidInv == \A p \in Proc : child[p] # "none" => pid[p] # 0

(* What was in the socket of a child is gone with it.                      *)
InboxInv == \A p \in Proc : ~Alive(p) => inbox[p] = <<>>

TypeInv == TypeOK /\ PidInv

-----------------------------------------------------------------------------
(* Facts about sequences.                                                  *)

LEMMA ConcatAppend ==
  ASSUME NEW S, NEW s \in Seq(S), NEW t \in Seq(S), NEW m \in S
  PROVE  /\ s \o Append(t, m) = Append(s \o t, m)
         /\ Append(s \o t, m) \o <<>> = Append(s \o t, m)
         /\ Append(s \o t, m) \in Seq(S)
  OBVIOUS

LEMMA ConcatHead ==
  ASSUME NEW S, NEW s \in Seq(S), NEW t \in Seq(S), s # <<>>
  PROVE  /\ s \o t # <<>>
         /\ Head(s \o t) = Head(s)
         /\ Tail(s \o t) = Tail(s) \o t
  OBVIOUS

LEMMA ConcatDrop ==
  ASSUME NEW S, NEW s \in Seq(S), NEW t \in Seq(S)
  PROVE  /\ Len(s) \in 0..Len(s \o t)
         /\ SubSeq(s \o t, Len(s) + 1, Len(s \o t)) = t
         /\ <<>> \o t = t
  OBVIOUS

-----------------------------------------------------------------------------
(* The messages are messages.                                              *)
LEMMA ExitMessage == Exit \in Message
  BY DEF Exit, Message

LEMMA JobMessage ==
  ASSUME TypeOK, jobs < MaxJobs
  PROVE  /\ [kind |-> "job", id |-> jobs + 1] \in Message
         /\ jobs + 1 \in 1..MaxJobs
  BY PoolAssumption DEF TypeOK, Message

(* send_to_process and _flush_process_buffers keep sockets and buffers     *)
(* sequences of messages.                                                  *)
LEMMA SendType ==
  ASSUME NEW i \in [Proc -> Seq(Message)], NEW b \in [Proc -> Seq(Message)],
         NEW P \in SUBSET Proc, NEW m \in Message
  PROVE  /\ Arrived(i, b, P, m) \in [Proc -> Seq(Message)]
         /\ Kept(b, P, m) \in [Proc -> Seq(Message)]
  <1>1. \A p \in Proc : Append(i[p] \o b[p], m) \in Seq(Message)
    BY ConcatAppend
  <1>2. \A p \in Proc : Append(b[p], m) \in Seq(Message)
    OBVIOUS
  <1> QED
    BY <1>1, <1>2 DEF Arrived, Kept

LEMMA FlushType ==
  ASSUME TypeOK, NEW p \in Proc
  PROVE  /\ Flush(p).i \in [Proc -> Seq(Message)]
         /\ Flush(p).b \in [Proc -> Seq(Message)]
  BY DEF TypeOK, Flush

(* What the main process reads from its socket.                            *)
LEMMA MainboxHead ==
  ASSUME TypeOK, mainbox # <<>>
  PROVE  Head(mainbox).from \in Proc /\ Tail(mainbox) \in Seq(PoolMessage)
  <1>1. Head(mainbox) \in PoolMessage /\ Tail(mainbox) \in Seq(PoolMessage)
    BY DEF TypeOK
  <1> QED
    BY <1>1 DEF PoolMessage

LEMMA FiniteTable ==
  ASSUME NEW P \in SUBSET Proc
  PROVE  IsFiniteSet(P) /\ Cardinality(P) \in Nat
  BY PoolAssumption, FS_Subset, FS_CardinalityType

(* stop_running_processes keeps the types.                                 *)
LEMMA StopType ==
  ASSUME TypeInv, StopRunningProcesses
  PROVE  /\ registered' \subseteq Proc /\ stopped' \subseteq Proc /\ running' \in Int
         /\ child' \in [Proc -> Life] /\ Told \subseteq Proc
         /\ \A p \in Proc : child'[p] # "none" => pid[p] # 0
  <1>1. Told \subseteq Proc /\ Forced \subseteq Proc
    BY DEF TypeInv, TypeOK, Told, Forced, Turn, Candidate
  <1>2. Cardinality(Forced) \in Nat
    BY <1>1, FiniteTable
  <1> QED
    BY <1>1, <1>2 DEF TypeInv, TypeOK, PidInv, StopRunningProcesses, Life

-----------------------------------------------------------------------------
(* Type correctness.                                                       *)
LEMMA TypeInit == Init => TypeInv
  <1> SUFFICES ASSUME Init PROVE TypeInv
    OBVIOUS
  <1>1. child \in [Proc -> Life] /\ pid \in [Proc -> 0..MaxJobs] /\ PidInv
    BY PoolAssumption DEF Init, Life, PidInv
  <1>2. /\ buffer \in [Proc -> Seq(Message)] /\ inbox \in [Proc -> Seq(Message)]
        /\ taken \in [Proc -> Seq(Message)] /\ mainbox \in Seq(PoolMessage)
    BY DEF Init
  <1>3. running \in Int /\ jobs \in 0..MaxJobs /\ faults \in 0..MaxFaults /\ interrupted \in Nat
    BY PoolAssumption DEF Init
  <1> QED
    BY <1>1, <1>2, <1>3 DEF Init, TypeInv, TypeOK

LEMMA TypeMain == TypeInv /\ MainStep => TypeInv'
  <1> SUFFICES ASSUME TypeInv, MainStep PROVE TypeInv'
    OBVIOUS
  <1> USE DEF poolVars, counts
  <1>1. CASE Top
    <2>1. CASE exitRequested
      <3>1. StopRunningProcesses
        BY <1>1, <2>1 DEF Top
      <3>2. inbox' \in [Proc -> Seq(Message)] /\ buffer' \in [Proc -> Seq(Message)]
        <4>1. inbox' = Arrived(inbox, buffer, Told, Exit) /\ buffer' = Kept(buffer, Told, Exit)
          BY <1>1, <2>1 DEF Top
        <4> QED
          BY <3>1, <4>1, StopType, SendType, ExitMessage DEF TypeInv, TypeOK
      <3> QED
        BY <1>1, <2>1, <3>1, <3>2, StopType DEF Top, TypeInv, TypeOK, PidInv
    <2>2. CASE ~exitRequested
      BY <1>1, <2>2 DEF Top, TypeInv, TypeOK, PidInv
    <2> QED
      BY <2>1, <2>2
  <1>2. CASE Timeout
    BY <1>2 DEF Timeout, TypeInv, TypeOK, PidInv
  <1>3. CASE HandleStart
    <2>1. Head(mainbox).from \in Proc /\ mainbox' \in Seq(PoolMessage)
      BY <1>3, MainboxHead DEF HandleStart, TypeInv
    <2> DEFINE flushed == Flush(Head(mainbox).from)
    <2>2. flushed.i \in [Proc -> Seq(Message)] /\ flushed.b \in [Proc -> Seq(Message)]
      BY <2>1, FlushType DEF TypeInv
    <2>3. CASE exitRequested
      <3>1. StopRunningProcesses /\ inbox' = Arrived(flushed.i, flushed.b, Told, Exit)
            /\ buffer' = Kept(flushed.b, Told, Exit)
        BY <1>3, <2>3 DEF HandleStart
      <3>2. inbox' \in [Proc -> Seq(Message)] /\ buffer' \in [Proc -> Seq(Message)]
        <4> HIDE DEF flushed
        <4> QED
          BY <2>2, <3>1, StopType, SendType, ExitMessage
      <3> QED
        BY <1>3, <2>1, <2>3, <3>1, <3>2, StopType
           DEF HandleStart, TypeInv, TypeOK, PidInv
    <2>4. CASE ~exitRequested
      BY <1>3, <2>1, <2>2, <2>4 DEF HandleStart, TypeInv, TypeOK, PidInv
    <2> QED
      BY <2>3, <2>4
  <1>4. CASE HandleExit
    <2>1. mainbox' \in Seq(PoolMessage) /\ running' \in Int
      BY <1>4, MainboxHead DEF HandleExit, TypeInv, TypeOK
    <2>2. child' \in [Proc -> Life] /\ inbox' \in [Proc -> Seq(Message)]
          /\ registered' \subseteq Proc
      <3> DEFINE p == Head(mainbox).from
                 gone == Head(mainbox).pid = pid[p]
      <3>1. p \in Proc
        BY <1>4, MainboxHead DEF HandleExit, TypeInv
      <3>2. \/ /\ registered' = registered \ {p}
               /\ child' = [child EXCEPT ![p] = IF gone THEN "none" ELSE @]
               /\ inbox' = [inbox EXCEPT ![p] = IF gone THEN <<>> ELSE @]
            \/ UNCHANGED <<registered, child, inbox>>
        BY <1>4 DEF HandleExit
      <3>3. \/ child' = [child EXCEPT ![p] = "none"] /\ inbox' = [inbox EXCEPT ![p] = <<>>]
            \/ UNCHANGED <<child, inbox>>
        BY <3>1, <3>2 DEF TypeInv, TypeOK
      <3> HIDE DEF p, gone
      <3>4. <<>> \in Seq(Message) /\ "none" \in Life
        BY DEF Life
      <3> QED
        BY <3>1, <3>2, <3>3, <3>4 DEF TypeInv, TypeOK
    <2>3. PidInv'
      BY <1>4 DEF HandleExit, TypeInv, TypeOK, PidInv
    <2>4. pc' \in {"top", "poll", "check", "left"} /\ recounted' \in BOOLEAN
      BY <1>4 DEF HandleExit, TypeInv, TypeOK
    <2> QED
      BY <1>4, <2>1, <2>2, <2>3, <2>4 DEF HandleExit, TypeInv, TypeOK
  <1>5. CASE Check
    BY <1>5 DEF Check, TypeInv, TypeOK, PidInv
  <1> QED
    BY <1>1, <1>2, <1>3, <1>4, <1>5 DEF MainStep

LEMMA TypeOther == TypeInv /\ [Next]_vars /\ ~MainStep => TypeInv'
  <1> SUFFICES ASSUME TypeInv, [Next]_vars, ~MainStep PROVE TypeInv'
    OBVIOUS
  <1> USE DEF poolVars, counts
  <1>1. CASE RequestExit
    BY <1>1 DEF RequestExit, TypeInv, TypeOK, PidInv
  <1>2. CASE InterruptedExit
    <2>1. /\ running' \in Int /\ interrupted' \in Nat /\ faults' \in 0..MaxFaults
          /\ mainbox' \in Seq(PoolMessage)
      BY <1>2, MainboxHead, PoolAssumption DEF InterruptedExit, TypeInv, TypeOK
    <2>2. exitRequested' \in BOOLEAN
      <3>1. exitRequested' = TRUE \/ exitRequested' = exitRequested
        BY <1>2 DEF InterruptedExit
      <3> QED
        BY <3>1 DEF TypeInv, TypeOK
    <2> QED
      BY <1>2, <2>1, <2>2 DEF InterruptedExit, TypeInv, TypeOK, PidInv
  <1>3. ASSUME NEW p \in Proc, Submit(p) PROVE TypeInv'
    <2> DEFINE job == [kind |-> "job", id |-> jobs + 1]
    <2>1. job \in Message /\ jobs + 1 \in 1..MaxJobs
      BY <1>3, JobMessage DEF Submit, TypeInv
    <2>2. jobs' \in 0..MaxJobs
      BY <1>3, <2>1 DEF Submit
    <2>3. CASE p \in registered
      <3>1. inbox' = Arrived(inbox, buffer, {p}, job) /\ buffer' = Kept(buffer, {p}, job)
            /\ UNCHANGED <<registered, running, child, pid>>
        BY <1>3, <2>3 DEF Submit
      <3>2. inbox' \in [Proc -> Seq(Message)] /\ buffer' \in [Proc -> Seq(Message)]
        <4> HIDE DEF job
        <4> QED
          BY <2>1, <3>1, SendType DEF TypeInv, TypeOK
      <3> QED
        BY <1>3, <2>2, <3>1, <3>2 DEF Submit, TypeInv, TypeOK, PidInv
    <2>4. CASE p \notin registered
      <3> DEFINE n == jobs + 1
      <3>a. /\ buffer' = [buffer EXCEPT ![p] = Append(@, job)]
            /\ pid' = [pid EXCEPT ![p] = n] /\ child' = [child EXCEPT ![p] = "init"]
        BY <1>3, <2>4 DEF Submit
      <3>b. n \in 0..MaxJobs /\ n # 0
        BY <2>1
      <3> HIDE DEF job, n
      <3>1. buffer' \in [Proc -> Seq(Message)]
        BY <2>1, <3>a DEF TypeInv, TypeOK
      <3>2. pid' \in [Proc -> 0..MaxJobs] /\ child' \in [Proc -> Life] /\ PidInv'
        BY <3>a, <3>b DEF TypeInv, TypeOK, PidInv, Life
      <3> QED
        BY <1>3, <2>2, <2>4, <3>1, <3>2 DEF Submit, TypeInv, TypeOK
    <2> QED
      BY <2>3, <2>4
  <1>4. ASSUME NEW p \in Target, Redirect(p) PROVE TypeInv'
    <2> DEFINE job == [kind |-> "job", id |-> jobs + 1]
    <2>1. job \in Message /\ jobs + 1 \in 1..MaxJobs
      BY <1>4, JobMessage DEF Redirect, TypeInv
    <2>2. inbox' = Arrived(inbox, buffer, {p}, job) /\ buffer' = Kept(buffer, {p}, job)
      BY <1>4 DEF Redirect
    <2>3. inbox' \in [Proc -> Seq(Message)] /\ buffer' \in [Proc -> Seq(Message)]
      <3> HIDE DEF job
      <3> QED
        BY <2>1, <2>2, SendType, PoolAssumption DEF TypeInv, TypeOK
    <2>4. jobs' \in 0..MaxJobs
      BY <1>4, <2>1 DEF Redirect
    <2> QED
      BY <1>4, <2>3, <2>4 DEF Redirect, TypeInv, TypeOK, PidInv
  <1>5. ASSUME NEW p \in Proc, Connect(p) \/ SendExit(p) PROVE TypeInv'
    <2>1. pid[p] \in 1..MaxJobs
      BY <1>5 DEF Connect, SendExit, TypeInv, TypeOK, PidInv
    <2>2. mainbox' \in Seq(PoolMessage)
      <3>1. \A k \in {"start", "exit"} : [kind |-> k, from |-> p, pid |-> pid[p]] \in PoolMessage
        BY <2>1 DEF PoolMessage
      <3>2. CASE mainbox' = Append(mainbox, [kind |-> "start", from |-> p, pid |-> pid[p]])
        BY <3>1, <3>2 DEF TypeInv, TypeOK
      <3>3. CASE mainbox' = Append(mainbox, [kind |-> "exit", from |-> p, pid |-> pid[p]])
        BY <3>1, <3>3 DEF TypeInv, TypeOK
      <3> QED
        BY <1>5, <3>2, <3>3 DEF Connect, SendExit
    <2>3. child' \in [Proc -> Life] /\ PidInv'
      BY <1>5 DEF Connect, SendExit, TypeInv, TypeOK, PidInv, Life
    <2> QED
      BY <1>5, <2>2, <2>3 DEF Connect, SendExit, TypeInv, TypeOK
  <1>6. ASSUME NEW p \in Proc, Receive(p) PROVE TypeInv'
    <2>1. inbox' \in [Proc -> Seq(Message)] /\ taken' \in [Proc -> Seq(Message)]
      BY <1>6 DEF Receive, TypeInv, TypeOK
    <2>2. child' \in [Proc -> Life] /\ PidInv'
      BY <1>6 DEF Receive, TypeInv, TypeOK, PidInv, Life
    <2> QED
      BY <1>6, <2>1, <2>2 DEF Receive, TypeInv, TypeOK
  <1>7. ASSUME NEW p \in Proc, End(p) PROVE TypeInv'
    BY <1>7 DEF End, TypeInv, TypeOK, PidInv, Life
  <1>8. ASSUME NEW p \in Proc, Crash(p) PROVE TypeInv'
    BY <1>8, PoolAssumption DEF Crash, TypeInv, TypeOK, PidInv, Life
  <1>9. CASE UNCHANGED vars
    BY <1>9 DEF vars, TypeInv, TypeOK, PidInv
  <1> QED
    BY <1>1, <1>2, <1>3, <1>4, <1>5, <1>6, <1>7, <1>8, <1>9 DEF Next, ChildStep

LEMMA TypeStep == TypeInv /\ [Next]_vars => TypeInv'
  BY TypeMain, TypeOther

(* Every variable of process_pool and of its children keeps its type.      *)
THEOREM TypeCorrect == Spec => []TypeOK
  <1>1. TypeInv => TypeOK
    BY DEF TypeInv
  <1> QED
    BY <1>1, TypeInit, TypeStep, PTL DEF Spec

-----------------------------------------------------------------------------
(* The refinement of Mailbox.                                              *)

(* send_to_process to the processes in P, from sockets i and buffers b     *)
(* that hold the same messages in the same order, is a Send.               *)
LEMMA SendMaps ==
  ASSUME NEW i \in [Proc -> Seq(Message)], NEW b \in [Proc -> Seq(Message)],
         \A p \in Proc : Queue(p) = i[p] \o b[p],
         NEW P \in SUBSET Proc, NEW m \in Message,
         inbox' = Arrived(i, b, P, m), buffer' = Kept(b, P, m), taken' = taken,
         \A p \in Proc : Alive(p) => Alive(p)',
         \A p \in Proc \ P : Alive(p)' => Alive(p)
  PROVE  Queues!Send(P, m)
  <1>1. ASSUME NEW p \in P, Connected(p)
        PROVE  inbox'[p] \o buffer'[p] = Append(i[p] \o b[p], m)
    BY <1>1, ConcatAppend DEF Arrived, Kept
  <1>2. ASSUME NEW p \in P, ~Connected(p)
        PROVE  inbox'[p] \o buffer'[p] = Append(i[p] \o b[p], m)
    BY <1>2, ConcatAppend DEF Arrived, Kept
  <1>3. ASSUME NEW p \in Proc \ P
        PROVE  inbox'[p] \o buffer'[p] = i[p] \o b[p]
    BY <1>3 DEF Arrived, Kept
  <1>4. \A p \in Proc : Queue(p)' = IF p \in P THEN Append(Queue(p), m) ELSE Queue(p)
    BY <1>1, <1>2, <1>3 DEF Queue
  <1> QED
    BY <1>4 DEF Queues!Send

(* The end of a child, or its join, drops what is in its socket.           *)
LEMMA EndMaps ==
  ASSUME TypeOK, NEW p \in Proc, inbox' = [inbox EXCEPT ![p] = <<>>],
         buffer' = buffer, taken' = taken, Alive(p), ~Alive(p)',
         \A r \in Proc : r # p => (Alive(r)' <=> Alive(r))
  PROVE  Queues!End(p)
  <1> DEFINE n == Len(inbox[p])
             q == [r \in Proc |-> Queue(r)]
  <1>1. inbox[p] \in Seq(Message) /\ buffer[p] \in Seq(Message)
    BY DEF TypeOK
  <1>2. n \in 0..Len(Queue(p)) /\ SubSeq(Queue(p), n + 1, Len(Queue(p))) = buffer[p]
    BY <1>1, ConcatDrop DEF Queue
  <1>3. Queue(p)' = buffer[p]
    <2>1. inbox'[p] = <<>>
      BY DEF TypeOK
    <2> QED
      BY <1>1, <2>1, ConcatDrop DEF Queue
  <1>4. \A r \in Proc : r # p => Queue(r)' = Queue(r)
    BY DEF Queue, TypeOK
  <1>5. [r \in Proc |-> Queue(r)'] = [q EXCEPT ![p] = SubSeq(@, n + 1, Len(@))]
    BY <1>2, <1>3, <1>4
  <1>6. q[p] = Queue(p)
    OBVIOUS
  <1>7. n \in 0..Len(q[p])
    BY <1>2, <1>6
  <1>8. {r \in Proc : Alive(r)'} = {r \in Proc : Alive(r)} \ {p}
    OBVIOUS
  <1> HIDE DEF n
  <1> QED
    BY <1>5, <1>7, <1>8 DEF Queues!End

(* Nothing changes for the users of the queues.                            *)
LEMMA StutterMaps ==
  ASSUME inbox' = inbox, buffer' = buffer, taken' = taken,
         \A p \in Proc : Alive(p)' <=> Alive(p)
  PROVE  UNCHANGED Queues!vars
  BY DEF Queues!vars, Queue

LEMMA QueueInit == Init => Queues!Init
  <1> SUFFICES ASSUME Init PROVE Queues!Init
    OBVIOUS
  <1>1. \A p \in Proc : Queue(p) = <<>>
    <2>1. \A p \in Proc : inbox[p] = <<>> /\ buffer[p] = <<>>
      BY DEF Init
    <2> QED
      BY <2>1, ConcatEmptySeq DEF Queue
  <1>2. {p \in Proc : Alive(p)} = {}
    BY DEF Init, Alive
  <1> QED
    BY <1>1, <1>2 DEF Init, Queues!Init

(* stop_running_processes takes out dead processes only.                   *)
LEMMA StopAlive ==
  ASSUME TypeInv, StopRunningProcesses
  PROVE  \A p \in Proc : Alive(p)' <=> Alive(p)
  BY DEF TypeInv, TypeOK, StopRunningProcesses, Forced, Told, Turn, Alive

LEMMA InboxInit == Init => InboxInv
  BY DEF Init, InboxInv

(* Only a live child has a socket to send to.                              *)
LEMMA InboxStep == TypeInv /\ InboxInv /\ [Next]_vars => InboxInv'
  <1> SUFFICES ASSUME TypeInv, InboxInv, [Next]_vars, NEW p \in Proc, ~Alive(p)'
               PROVE  inbox'[p] = <<>>
    BY DEF InboxInv
  <1> USE DEF poolVars, counts
  <1>c. ~Alive(p) => ~Connected(p) /\ inbox[p] = <<>>
    BY DEF InboxInv, Alive, Connected
  <1>t. inbox \in [Proc -> Seq(Message)] /\ child \in [Proc -> Life]
    BY DEF TypeInv, TypeOK
  <1>1. CASE Top \/ HandleStart
    <2>1. ~Alive(p)
      <3>1. StopRunningProcesses \/ child' = child
        BY <1>1 DEF Top, HandleStart
      <3> QED
        BY <3>1, StopAlive DEF Alive
    <2>2. CASE Top
      BY <1>c, <2>1, <2>2 DEF Top, Arrived
    <2>3. CASE HandleStart
      <3> DEFINE s == Head(mainbox).from
      <3>1. s \in Proc
        BY <2>3, MainboxHead DEF HandleStart, TypeInv
      <3>2. inbox' = Flush(s).i \/ inbox' = Arrived(Flush(s).i, Flush(s).b, Told, Exit)
        BY <2>3 DEF HandleStart
      <3> HIDE DEF s
      <3>3. Flush(s).i[p] = inbox[p]
        BY <1>c, <1>t, <2>1, <3>1 DEF Flush
      <3> QED
        BY <1>c, <2>1, <3>2, <3>3 DEF Arrived
    <2> QED
      BY <1>1, <2>2, <2>3
  <1>2. CASE HandleExit
    <2> DEFINE s == Head(mainbox).from
               gone == Head(mainbox).pid = pid[s]
    <2>1. s \in Proc
      BY <1>2, MainboxHead DEF HandleExit, TypeInv
    <2>2. \/ /\ inbox' = [inbox EXCEPT ![s] = IF gone THEN <<>> ELSE @]
             /\ child' = [child EXCEPT ![s] = IF gone THEN "none" ELSE @]
          \/ inbox' = inbox /\ child' = child
      BY <1>2 DEF HandleExit
    <2> HIDE DEF s, gone
    <2> QED
      BY <1>c, <1>t, <2>1, <2>2 DEF Alive
  <1>3. CASE \E q \in Proc : Submit(q) \/ (q \in Target /\ Redirect(q))
    <2>1. ~Alive(p)
      BY <1>3, <1>t DEF Submit, Redirect, Alive
    <2> QED
      BY <1>3, <1>c, <2>1 DEF Submit, Redirect, Arrived
  <1>4. CASE \E q \in Proc : Connect(q) \/ SendExit(q) \/ Receive(q) \/ End(q) \/ Crash(q)
    BY <1>4, <1>c, <1>t DEF Connect, SendExit, Receive, End, Crash, Alive
  <1>5. CASE Timeout \/ Check \/ RequestExit \/ InterruptedExit \/ UNCHANGED vars
    BY <1>5, <1>c DEF Timeout, Check, RequestExit, InterruptedExit, vars, Alive
  <1> QED
    BY <1>1, <1>2, <1>3, <1>4, <1>5, PoolAssumption DEF Next, MainStep, ChildStep

(* Every step of process_pool and its children is a step of the queues or  *)
(* leaves them as they are.                                                *)
LEMMA QueueStep == TypeInv /\ InboxInv /\ [Next]_vars => [Queues!Next]_(Queues!vars)
  <1> SUFFICES ASSUME TypeInv, InboxInv, [Next]_vars PROVE Queues!Next \/ UNCHANGED Queues!vars
    OBVIOUS
  <1> USE DEF poolVars, counts
  <1>q. \A p \in Proc : Queue(p) = inbox[p] \o buffer[p]
    BY DEF Queue
  <1>t. inbox \in [Proc -> Seq(Message)] /\ buffer \in [Proc -> Seq(Message)]
    BY DEF TypeInv, TypeOK
  <1>1. CASE Top
    <2>1. CASE exitRequested
      <3>1. /\ StopRunningProcesses /\ inbox' = Arrived(inbox, buffer, Told, Exit)
            /\ buffer' = Kept(buffer, Told, Exit) /\ taken' = taken
        BY <1>1, <2>1 DEF Top
      <3>2. Queues!Send(Told, Exit) /\ Told \in SUBSET Proc
        BY <3>1, <1>q, <1>t, StopType, StopAlive, SendMaps, ExitMessage
      <3> QED
        BY <3>2, ExitMessage DEF Queues!Next
    <2>2. CASE ~exitRequested
      BY <1>1, <2>2, StutterMaps DEF Top, Alive
    <2> QED
      BY <2>1, <2>2
  <1>2. CASE HandleStart
    <2> DEFINE s == Head(mainbox).from
               i == Flush(s).i
               b == Flush(s).b
    <2>1. s \in Proc
      BY <1>2, MainboxHead DEF HandleStart, TypeInv
    <2>2. i \in [Proc -> Seq(Message)] /\ b \in [Proc -> Seq(Message)]
      BY <2>1, FlushType DEF TypeInv
    <2>3. \A p \in Proc : Queue(p) = i[p] \o b[p]
      <3>1. CASE Connected(s)
        <4>1. i[s] = inbox[s] \o buffer[s] /\ b[s] = <<>>
          BY <1>t, <2>1, <3>1 DEF Flush
        <4>2. i[s] \o b[s] = inbox[s] \o buffer[s]
          <5>1. inbox[s] \o buffer[s] \in Seq(Message)
            BY <1>t, <2>1
          <5> HIDE DEF i, b, s
          <5> QED
            BY <4>1, <5>1, ConcatEmptySeq
        <4>3. \A p \in Proc : p # s => i[p] = inbox[p] /\ b[p] = buffer[p]
          BY <1>t, <2>1, <3>1 DEF Flush
        <4> QED
          BY <4>2, <4>3 DEF Queue
      <3>2. CASE ~Connected(s)
        BY <3>2 DEF Flush, Queue
      <3> QED
        BY <3>1, <3>2
    <2>4. CASE exitRequested
      <3>1. /\ StopRunningProcesses /\ inbox' = Arrived(i, b, Told, Exit)
            /\ buffer' = Kept(b, Told, Exit) /\ taken' = taken
        BY <1>2, <2>4 DEF HandleStart
      <3> HIDE DEF i, b
      <3>2. Queues!Send(Told, Exit) /\ Told \in SUBSET Proc
        BY <2>2, <2>3, <3>1, StopType, StopAlive, SendMaps, ExitMessage
      <3> QED
        BY <3>2, ExitMessage DEF Queues!Next
    <2>5. CASE ~exitRequested
      <3>1. inbox' = i /\ buffer' = b /\ taken' = taken /\ child' = child
        BY <1>2, <2>5 DEF HandleStart
      <3>2. \A p \in Proc : Queue(p)' = Queue(p) /\ (Alive(p)' <=> Alive(p))
        BY <2>3, <3>1 DEF Queue, Alive
      <3> QED
        BY <3>1, <3>2 DEF Queues!vars
    <2> QED
      BY <2>4, <2>5
  <1>3. CASE HandleExit
    <2>1. PICK p \in Proc : p = Head(mainbox).from
      BY <1>3, MainboxHead DEF HandleExit, TypeInv
    <2> DEFINE gone == Head(mainbox).pid = pid[p]
    <2>2. \/ inbox' = [inbox EXCEPT ![p] = <<>>] /\ child' = [child EXCEPT ![p] = "none"]
          \/ inbox' = inbox /\ child' = child
      <3>1. \/ /\ inbox' = [inbox EXCEPT ![p] = IF gone THEN <<>> ELSE @]
               /\ child' = [child EXCEPT ![p] = IF gone THEN "none" ELSE @]
            \/ inbox' = inbox /\ child' = child
        BY <1>3, <2>1 DEF HandleExit
      <3> QED
        BY <1>t, <2>1, <3>1 DEF TypeInv, TypeOK
    <2>3. buffer' = buffer /\ taken' = taken
      BY <1>3 DEF HandleExit
    <2>4. CASE inbox' = inbox /\ child' = child
      BY <2>3, <2>4, StutterMaps DEF Alive
    <2>5. CASE /\ inbox' = [inbox EXCEPT ![p] = <<>>]
               /\ child' = [child EXCEPT ![p] = "none"]
      <3>1. ~Alive(p)' /\ \A r \in Proc : r # p => (Alive(r)' <=> Alive(r))
        BY <2>1, <2>5 DEF Alive, TypeInv, TypeOK
      <3>2. CASE Alive(p)
        <4>1. Queues!End(p)
          BY <2>1, <2>3, <2>5, <3>1, <3>2, EndMaps DEF TypeInv
        <4> QED
          BY <2>1, <4>1 DEF Queues!Next
      <3>3. CASE ~Alive(p)
        <4>1. inbox' = inbox
          BY <1>t, <2>1, <2>5, <3>3 DEF InboxInv
        <4>2. \A r \in Proc : Alive(r)' <=> Alive(r)
          BY <3>1, <3>3
        <4> QED
          BY <2>3, <4>1, <4>2, StutterMaps
      <3> QED
        BY <3>2, <3>3
    <2> QED
      BY <2>2, <2>4, <2>5
  <1>4. ASSUME NEW p \in Proc, Submit(p) \/ (p \in Target /\ Redirect(p))
        PROVE  Queues!Next \/ UNCHANGED Queues!vars
    <2> DEFINE job == [kind |-> "job", id |-> jobs + 1]
    <2>1. job \in Message /\ taken' = taken
      BY <1>4, JobMessage DEF Submit, Redirect, TypeInv
    <2>2. \/ inbox' = Arrived(inbox, buffer, {p}, job) /\ buffer' = Kept(buffer, {p}, job)
          \/ ~Alive(p) /\ inbox' = inbox /\ buffer' = [buffer EXCEPT ![p] = Append(@, job)]
      BY <1>4 DEF Submit, Redirect
    <2> HIDE DEF job
    <2>3. ~Alive(p) /\ inbox' = inbox /\ buffer' = [buffer EXCEPT ![p] = Append(@, job)]
          => inbox' = Arrived(inbox, buffer, {p}, job) /\ buffer' = Kept(buffer, {p}, job)
      <3>1. ~Alive(p) => ~Connected(p)
        BY DEF Alive, Connected
      <3> QED
        BY <1>t, <3>1 DEF Arrived, Kept
    <2>4. /\ \A r \in Proc : Alive(r) => Alive(r)'
          /\ \A r \in Proc \ {p} : Alive(r)' => Alive(r)
      BY <1>4 DEF Submit, Redirect, Alive, TypeInv, TypeOK
    <2>5. Queues!Send({p}, job)
      BY <1>q, <1>t, <2>1, <2>2, <2>3, <2>4, SendMaps
    <2> QED
      BY <2>1, <2>5 DEF Queues!Next
  <1>5. ASSUME NEW p \in Proc, Receive(p) PROVE Queues!Next
    <2>1. /\ inbox[p] # <<>> /\ inbox' = [inbox EXCEPT ![p] = Tail(@)] /\ buffer' = buffer
          /\ taken' = [taken EXCEPT ![p] = Append(@, Head(inbox[p]))]
      BY <1>5 DEF Receive
    <2>2. /\ Queue(p) # <<>> /\ Head(Queue(p)) = Head(inbox[p])
          /\ Tail(Queue(p)) = Tail(inbox[p]) \o buffer[p]
      BY <1>t, <2>1, ConcatHead DEF Queue
    <2>3. Queue(p)' = Tail(Queue(p)) /\ \A r \in Proc : r # p => Queue(r)' = Queue(r)
      BY <1>t, <2>1, <2>2 DEF Queue
    <2>4. Alive(p) /\ \A r \in Proc : Alive(r)' <=> Alive(r)
      BY <1>5 DEF Receive, Alive, TypeInv, TypeOK
    <2>5. Queues!Take(p)
      BY <2>1, <2>2, <2>3, <2>4 DEF Queues!Take
    <2> QED
      BY <2>5 DEF Queues!Next
  <1>6. ASSUME NEW p \in Proc, End(p) \/ Crash(p) PROVE Queues!Next
    <2>1. Alive(p) /\ ~Alive(p)' /\ \A r \in Proc : r # p => (Alive(r)' <=> Alive(r))
      BY <1>6 DEF End, Crash, Alive, TypeInv, TypeOK
    <2>2. Queues!End(p)
      BY <1>6, <2>1, EndMaps DEF End, Crash, TypeInv
    <2> QED
      BY <2>2 DEF Queues!Next
  <1>7. CASE \/ Timeout \/ Check \/ RequestExit \/ InterruptedExit \/ UNCHANGED vars
             \/ \E p \in Proc : Connect(p) \/ SendExit(p)
    <2>1. inbox' = inbox /\ buffer' = buffer /\ taken' = taken
      BY <1>7 DEF Timeout, Check, RequestExit, InterruptedExit, Connect, SendExit, vars
    <2>2. \A p \in Proc : Alive(p)' <=> Alive(p)
      BY <1>7 DEF Timeout, Check, RequestExit, InterruptedExit, Connect, SendExit, vars,
                  Alive, TypeInv, TypeOK
    <2> QED
      BY <2>1, <2>2, StutterMaps
  <1> QED
    BY <1>1, <1>2, <1>3, <1>4, <1>5, <1>6, <1>7, PoolAssumption DEF Next, MainStep, ChildStep

(* Sockets, buffers, flushing and the ends of children together implement  *)
(* one ordered queue per process (send_to_process): a message is lost only *)
(* with the process that had it in its socket.                             *)
THEOREM Refinement == Spec => OrderedDelivery
  BY TypeInit, TypeStep, InboxInit, InboxStep, QueueInit, QueueStep, PTL
     DEF Spec, OrderedDelivery, Queues!Spec

-----------------------------------------------------------------------------
(* The counter of running processes.                                       *)

(* As long as no exit was counted twice, the counter is the size of the    *)
(* table less the joins cut short, and every live child is in the table.   *)
CountInv ==
  ~recounted => /\ running = Cardinality(registered) - interrupted
                /\ \A p \in Proc : Alive(p) => p \in registered

(* An exit message belongs to the process that is in the table under its   *)
(* name and has left its loop, and there is one of a process at most.      *)
ExitsOk ==
  \A i \in DOMAIN mainbox : mainbox[i].kind = "exit" =>
    /\ mainbox[i].from \in registered
    /\ mainbox[i].pid = pid[mainbox[i].from]
    /\ child[mainbox[i].from] \in {"closing", "dead"}
ExitsOnce ==
  \A i, j \in DOMAIN mainbox :
    /\ mainbox[i].kind = "exit" /\ mainbox[j].kind = "exit"
    /\ mainbox[i].from = mainbox[j].from
    => i = j

(* That holds until the exit is requested, so that none is counted twice.  *)
ExitInv == ~exitRequested => ~recounted /\ ExitsOk /\ ExitsOnce

PoolInv == TypeInv /\ CountInv /\ ExitInv

LEMMA AfterTail ==
  ASSUME NEW S, NEW s \in Seq(S), s # <<>>
  PROVE  /\ 1 \in DOMAIN s /\ s[1] = Head(s)
         /\ \A i \in DOMAIN Tail(s) :
              i \in Nat /\ i + 1 \in DOMAIN s /\ i + 1 # 1 /\ Tail(s)[i] = s[i + 1]
  OBVIOUS

LEMMA AfterAppend ==
  ASSUME NEW S, NEW s \in Seq(S), NEW m \in S
  PROVE  \A i \in DOMAIN Append(s, m) :
           \/ i \in DOMAIN s /\ Append(s, m)[i] = s[i]
           \/ i = Len(s) + 1 /\ Append(s, m)[i] = m
  OBVIOUS

(* stop_running_processes takes out the dead ones and counts them.         *)
LEMMA StopCount ==
  ASSUME TypeInv, CountInv, StopRunningProcesses, UNCHANGED counts
  PROVE  CountInv'
  <1> USE DEF counts
  <1> SUFFICES ASSUME ~recounted
               PROVE  /\ running' = Cardinality(registered') - interrupted
                      /\ \A p \in Proc : Alive(p)' => p \in registered'
    BY DEF CountInv
  <1>1. Forced \subseteq registered /\ registered \in SUBSET Proc
    BY DEF Forced, Turn, Candidate, TypeInv, TypeOK
  <1>2. Cardinality(registered \ Forced) = Cardinality(registered) - Cardinality(Forced)
    <2>1. registered \cap Forced = Forced
      BY <1>1
    <2>2. IsFiniteSet(registered)
      BY <1>1, FiniteTable
    <2> QED
      BY <2>1, <2>2, FS_Difference
  <1>3. running' = Cardinality(registered') - interrupted
    <2>1. Cardinality(registered) \in Int /\ Cardinality(Forced) \in Int /\ interrupted \in Int
      BY <1>1, FiniteTable DEF TypeInv, TypeOK
    <2> QED
      BY <1>2, <2>1 DEF StopRunningProcesses, CountInv
  <1>4. ASSUME NEW p \in Proc, Alive(p)' PROVE p \in registered'
    <2>1. p \notin Forced /\ Alive(p)
      BY <1>4 DEF StopRunningProcesses, Alive
    <2> QED
      BY <2>1 DEF CountInv, StopRunningProcesses
  <1> QED
    BY <1>3, <1>4

LEMMA CountStep == PoolInv /\ [Next]_vars => CountInv'
  <1> SUFFICES ASSUME TypeInv, CountInv, [Next]_vars PROVE CountInv'
    BY DEF PoolInv
  <1> USE DEF poolVars, counts
  <1>1. CASE Top \/ HandleStart
    <2>1. UNCHANGED counts
          /\ (StopRunningProcesses \/ UNCHANGED <<registered, running, child>>)
      BY <1>1 DEF Top, HandleStart
    <2>2. CASE UNCHANGED <<registered, running, child>>
      BY <2>1, <2>2 DEF CountInv, Alive
    <2> QED
      BY <2>1, <2>2, StopCount
  <1>2. CASE HandleExit
    <2> DEFINE p == Head(mainbox).from
    <2> SUFFICES ASSUME ~recounted'
                 PROVE  /\ running' = Cardinality(registered') - interrupted'
                        /\ \A q \in Proc : Alive(q)' => q \in registered'
      BY DEF CountInv
    <2>1. /\ p \in registered /\ registered' = registered \ {p} /\ running' = running - 1
          /\ child' = [child EXCEPT ![p] = "none"] /\ ~recounted
          /\ interrupted' = interrupted
      BY <1>2 DEF HandleExit
    <2>2. IsFiniteSet(registered) /\ Cardinality(registered) \in Nat /\ interrupted \in Nat
      BY FiniteTable DEF TypeInv, TypeOK
    <2> HIDE DEF p
    <2>3. running' = Cardinality(registered') - interrupted'
      BY <2>1, <2>2, FS_RemoveElement DEF CountInv
    <2>4. \A q \in Proc : Alive(q)' => q \in registered'
      BY <2>1 DEF CountInv, Alive, TypeInv, TypeOK
    <2> QED
      BY <2>3, <2>4
  <1>3. ASSUME NEW p \in Proc, Submit(p) PROVE CountInv'
    <2>1. CASE p \in registered
      BY <1>3, <2>1 DEF Submit, CountInv, Alive
    <2>2. CASE p \notin registered
      <3>1. /\ registered' = registered \cup {p} /\ running' = running + 1
            /\ child' = [child EXCEPT ![p] = "init"] /\ UNCHANGED counts
        BY <1>3, <2>2 DEF Submit
      <3>2. Cardinality(registered') = Cardinality(registered) + 1
        BY <2>2, <3>1, FiniteTable, FS_AddElement DEF TypeInv, TypeOK
      <3>3. \A q \in Proc : Alive(q)' => Alive(q) \/ q = p
        BY <3>1 DEF Alive, TypeInv, TypeOK
      <3>4. Cardinality(registered) \in Int /\ interrupted \in Int
        BY FiniteTable DEF TypeInv, TypeOK
      <3> QED
        BY <3>1, <3>2, <3>3, <3>4 DEF CountInv
    <2> QED
      BY <2>1, <2>2
  <1>4. ASSUME NEW p \in Proc, ChildStep(p) \/ Crash(p) PROVE CountInv'
    <2>1. UNCHANGED <<registered, running, counts>>
      BY <1>4 DEF ChildStep, Connect, Receive, SendExit, End, Crash
    <2>2. \A q \in Proc : Alive(q)' => Alive(q)
      BY <1>4 DEF ChildStep, Connect, Receive, SendExit, End, Crash, Alive, TypeInv, TypeOK
    <2> QED
      BY <2>1, <2>2 DEF CountInv
  <1>5. CASE InterruptedExit
    <2>1. /\ UNCHANGED <<registered, child, recounted>> /\ running' = running - 1
          /\ interrupted' = interrupted + 1
      BY <1>5 DEF InterruptedExit
    <2>2. Cardinality(registered) \in Int /\ interrupted \in Int
      BY FiniteTable DEF TypeInv, TypeOK
    <2> QED
      BY <2>1, <2>2 DEF CountInv, Alive
  <1>6. CASE \/ Timeout \/ Check \/ RequestExit \/ UNCHANGED vars
             \/ \E p \in Target : Redirect(p)
    <2>1. UNCHANGED <<registered, running, child, counts>>
      BY <1>6 DEF Timeout, Check, RequestExit, Redirect, vars
    <2> QED
      BY <2>1 DEF CountInv, Alive
  <1> QED
    BY <1>1, <1>2, <1>3, <1>4, <1>5, <1>6 DEF Next, MainStep

LEMMA ExitStep == PoolInv /\ [Next]_vars => ExitInv'
  <1> SUFFICES ASSUME PoolInv, [Next]_vars, ~exitRequested'
               PROVE  ~recounted' /\ ExitsOk' /\ ExitsOnce'
    BY DEF ExitInv
  <1> USE DEF poolVars, counts
  <1>m. mainbox \in Seq(PoolMessage)
    BY DEF PoolInv, TypeInv, TypeOK
  <1>e. ~exitRequested
    BY DEF Next, MainStep, ChildStep, Top, Timeout, HandleStart, HandleExit, Check, RequestExit,
           InterruptedExit, Submit, Redirect, Connect, Receive, SendExit, End, Crash, vars
  <1>i. ~recounted /\ ExitsOk /\ ExitsOnce /\ CountInv /\ TypeOK
    BY <1>e DEF PoolInv, TypeInv, ExitInv, CountInv
  <1>1. CASE HandleStart \/ InterruptedExit
    <2>1. mainbox # <<>> /\ mainbox' = Tail(mainbox)
          /\ UNCHANGED <<registered, child, pid, recounted>>
      BY <1>1, <1>e DEF HandleStart, InterruptedExit
    <2> QED
      BY <1>m, <1>i, <2>1, AfterTail DEF ExitsOk, ExitsOnce
  <1>2. CASE HandleExit
    <2> DEFINE p == Head(mainbox).from
    <2>1. mainbox # <<>> /\ mainbox' = Tail(mainbox) /\ Head(mainbox).kind = "exit"
      BY <1>2 DEF HandleExit
    <2>2. p \in registered /\ Head(mainbox).pid = pid[p]
      BY <1>m, <1>i, <2>1, AfterTail DEF ExitsOk
    <2>3. /\ registered' = registered \ {p} /\ child' = [child EXCEPT ![p] = "none"]
          /\ ~recounted' /\ pid' = pid
      BY <1>2, <1>i, <2>2 DEF HandleExit
    <2>4. \A i \in DOMAIN mainbox' : mainbox'[i].kind = "exit" => mainbox'[i].from # p
      BY <1>m, <1>i, <2>1, AfterTail DEF ExitsOnce
    <2>5. ExitsOnce'
      BY <1>m, <1>i, <2>1, AfterTail DEF ExitsOnce
    <2>6. ExitsOk'
      <3> SUFFICES ASSUME NEW i \in DOMAIN mainbox', mainbox'[i].kind = "exit"
                   PROVE  /\ mainbox'[i].from \in registered'
                          /\ mainbox'[i].pid = pid'[mainbox'[i].from]
                          /\ child'[mainbox'[i].from] \in {"closing", "dead"}
        BY DEF ExitsOk
      <3>1. i + 1 \in DOMAIN mainbox /\ mainbox'[i] = mainbox[i + 1]
        BY <1>m, <2>1, AfterTail
      <3>2. /\ mainbox[i + 1].from \in registered
            /\ mainbox[i + 1].pid = pid[mainbox[i + 1].from]
            /\ child[mainbox[i + 1].from] \in {"closing", "dead"}
        BY <1>i, <3>1 DEF ExitsOk
      <3> QED
        BY <1>i, <2>3, <2>4, <3>1, <3>2 DEF TypeOK
    <2> QED
      BY <2>3, <2>5, <2>6
  <1>3. ASSUME NEW p \in Proc, Submit(p) PROVE ~recounted' /\ ExitsOk' /\ ExitsOnce'
    <2>1. mainbox' = mainbox /\ recounted' = recounted /\ registered \subseteq registered'
      BY <1>3 DEF Submit
    <2>2. \A q \in registered : pid'[q] = pid[q] /\ child'[q] = child[q]
      BY <1>3, <1>i DEF Submit, TypeOK
    <2> QED
      BY <1>i, <2>1, <2>2 DEF ExitsOk, ExitsOnce
  <1>4. ASSUME NEW p \in Proc, Connect(p) PROVE ~recounted' /\ ExitsOk' /\ ExitsOnce'
    <2> DEFINE m == [kind |-> "start", from |-> p, pid |-> pid[p]]
    <2>1. /\ mainbox' = Append(mainbox, m) /\ UNCHANGED <<registered, pid, recounted>>
          /\ child[p] = "init" /\ child' = [child EXCEPT ![p] = "up"]
      BY <1>4 DEF Connect
    <2>2. m \in PoolMessage /\ m.kind # "exit"
      BY <2>1 DEF PoolInv, TypeInv, TypeOK, PidInv, PoolMessage
    <2>3. \A i \in DOMAIN mainbox : mainbox[i].kind = "exit" => mainbox[i].from # p
      BY <1>i, <2>1 DEF ExitsOk
    <2> HIDE DEF m
    <2>4. \A i \in DOMAIN mainbox' : mainbox'[i].kind = "exit" =>
            i \in DOMAIN mainbox /\ mainbox'[i] = mainbox[i]
      BY <1>m, <2>1, <2>2, AfterAppend
    <2>5. \A q \in Proc : q # p => child'[q] = child[q]
      BY <1>i, <2>1 DEF TypeOK
    <2>6. ExitsOk'
      BY <1>i, <2>1, <2>3, <2>4, <2>5 DEF ExitsOk, TypeOK
    <2>7. ExitsOnce'
      BY <1>i, <2>4 DEF ExitsOnce
    <2> QED
      BY <1>i, <2>1, <2>6, <2>7
  <1>5. ASSUME NEW p \in Proc, SendExit(p) PROVE ~recounted' /\ ExitsOk' /\ ExitsOnce'
    <2> DEFINE m == [kind |-> "exit", from |-> p, pid |-> pid[p]]
    <2>1. /\ mainbox' = Append(mainbox, m) /\ UNCHANGED <<registered, pid, recounted>>
          /\ child[p] = "exiting" /\ child' = [child EXCEPT ![p] = "closing"]
      BY <1>5 DEF SendExit
    <2>2. m \in PoolMessage /\ m.from = p /\ m.pid = pid[p] /\ p \in registered
      <3>1. pid[p] \in 1..MaxJobs
        BY <2>1 DEF PoolInv, TypeInv, TypeOK, PidInv
      <3> QED
        BY <1>i, <2>1, <3>1 DEF PoolMessage, CountInv, Alive
    <2>3. \A i \in DOMAIN mainbox : mainbox[i].kind = "exit" => mainbox[i].from # p
      BY <1>i, <2>1 DEF ExitsOk
    <2>4. child'[p] = "closing" /\ \A q \in Proc : q # p => child'[q] = child[q]
      BY <1>i, <2>1 DEF TypeOK
    <2> HIDE DEF m
    <2>5. \A i \in DOMAIN mainbox' :
            \/ i \in DOMAIN mainbox /\ mainbox'[i] = mainbox[i]
            \/ i = Len(mainbox) + 1 /\ mainbox'[i] = m
      BY <1>m, <2>1, <2>2, AfterAppend
    <2>6. ExitsOk'
      BY <1>i, <2>1, <2>2, <2>3, <2>4, <2>5 DEF ExitsOk, TypeOK
    <2>7. ExitsOnce'
      BY <1>i, <2>2, <2>3, <2>5 DEF ExitsOnce
    <2> QED
      BY <1>i, <2>1, <2>6, <2>7
  <1>6. ASSUME NEW p \in Proc, Receive(p) \/ End(p) \/ Crash(p)
        PROVE  ~recounted' /\ ExitsOk' /\ ExitsOnce'
    <2>1. UNCHANGED <<mainbox, registered, pid, recounted>>
      BY <1>6 DEF Receive, End, Crash
    <2>2. \A q \in Proc : child[q] \in {"closing", "dead"} => child'[q] \in {"closing", "dead"}
      BY <1>6, <1>i DEF Receive, End, Crash, TypeOK
    <2> QED
      BY <1>i, <2>1, <2>2 DEF ExitsOk, ExitsOnce, TypeOK
  <1>7. CASE \/ Top \/ Timeout \/ Check \/ UNCHANGED vars \/ \E p \in Target : Redirect(p)
    <2>1. UNCHANGED <<mainbox, registered, child, pid, recounted>>
      BY <1>7, <1>e DEF Top, Timeout, Check, Redirect, vars
    <2> QED
      BY <1>i, <2>1 DEF ExitsOk, ExitsOnce
  <1>8. ~RequestExit
    BY DEF RequestExit
  <1> QED
    BY <1>1, <1>2, <1>3, <1>4, <1>5, <1>6, <1>7, <1>8 DEF Next, MainStep, ChildStep

LEMMA PoolInit == Init => PoolInv
  <1> SUFFICES ASSUME Init PROVE CountInv /\ ExitInv
    BY TypeInit DEF PoolInv
  <1>1. CountInv
    BY FS_EmptySet DEF Init, CountInv, Alive
  <1>2. DOMAIN mainbox = {}
    BY DEF Init
  <1>3. ExitInv
    BY <1>2 DEF Init, ExitInv, ExitsOk, ExitsOnce
  <1> QED
    BY <1>1, <1>3

LEMMA PoolStep == PoolInv /\ [Next]_vars => PoolInv'
  BY TypeStep, CountStep, ExitStep DEF PoolInv

(* Until the exit is requested __processes_running is the number of        *)
(* processes in the table less the joins that signals cut short, whatever  *)
(* children come, end and die.                                             *)
THEOREM Counted == Spec => []CountExact
  <1>1. PoolInv => CountExact
    BY DEF PoolInv, ExitInv, CountInv, CountExact
  <1> QED
    BY <1>1, PoolInit, PoolStep, PTL DEF Spec

(* loop() is left only when the table is empty, and no child comes to life *)
(* afterwards.                                                             *)
LEMMA LeaveStep == PoolInv /\ LeavesNone /\ [Next]_vars => LeavesNone'
  <1> SUFFICES ASSUME PoolInv, LeavesNone, [Next]_vars, pc' = "left",
                      ~recounted', ~(interrupted' > 0)
               PROVE  \A p \in Proc : ~Alive(p)'
    BY DEF LeavesNone
  <1> USE DEF poolVars, counts
  <1>1. CASE Check /\ pc # "left"
    <2>1. running = 0 /\ interrupted = 0 /\ UNCHANGED <<child, counts>>
      BY <1>1 DEF Check, PoolInv, TypeInv, TypeOK
    <2>2. Cardinality(registered) = 0
      BY <2>1, FiniteTable DEF PoolInv, TypeInv, TypeOK, CountInv
    <2>3. registered = {}
      BY <2>2, FiniteTable, FS_EmptySet DEF PoolInv, TypeInv, TypeOK
    <2> QED
      BY <2>1, <2>3 DEF PoolInv, CountInv, Alive
  <1>2. CASE pc = "left"
    <2>1. UNCHANGED vars \/ \E p \in Proc : Receive(p) \/ End(p) \/ Crash(p)
      <3>1. ~MainStep /\ ~RequestExit /\ ~InterruptedExit
        BY <1>2 DEF MainStep, Top, Timeout, HandleStart, HandleExit, Check, RequestExit,
                InterruptedExit
      <3>2. \A p : ~Submit(p) /\ ~Redirect(p) /\ ~Connect(p) /\ ~SendExit(p)
        BY <1>2 DEF Submit, Redirect, Connect, SendExit
      <3> QED
        BY <3>1, <3>2 DEF Next, ChildStep
    <2>2. UNCHANGED counts
      BY <2>1 DEF Receive, End, Crash, vars
    <2>3. \A p \in Proc : Alive(p)' => Alive(p)
      BY <2>1 DEF Receive, End, Crash, vars, Alive, PoolInv, TypeInv, TypeOK
    <2> QED
      BY <1>2, <2>2, <2>3 DEF LeavesNone
  <1>3. pc = "left" \/ Check
    BY DEF Next, MainStep, ChildStep, Top, Timeout, HandleStart, HandleExit, Check,
           RequestExit, InterruptedExit, Submit, Redirect, Connect, Receive, SendExit, End,
           Crash, vars
  <1> QED
    BY <1>1, <1>2, <1>3

(* A server that leaves its loop leaves no child behind, unless the exit   *)
(* of a process was counted twice or a signal cut a join short.            *)
THEOREM LeftNone == Spec => []LeavesNone
  <1>1. Init => LeavesNone
    BY DEF Init, LeavesNone
  <1> QED
    BY <1>1, PoolInit, PoolStep, LeaveStep, PTL DEF Spec
===============================================================================
