-------------------------------- MODULE Mailbox --------------------------------
(***************************************************************************)
(* What the users of process_pool.send_to_process rely on: every process   *)
(* has one ordered queue.  A message is put at its end and taken from its  *)
(* head; none is lost, repeated or overtaken while the process lives.      *)
(* Only the end of a process may throw away messages, those of that        *)
(* process, and only the oldest ones: what was sent last is kept for a     *)
(* later process of the name, and what waits for a process that is not     *)
(* there stays.                                                            *)
(***************************************************************************)
EXTENDS Integers, Sequences

CONSTANTS Proc, Message

VARIABLES
  queue,     \* messages sent to each process name and not yet taken
  living,    \* names with a process
  taken      \* history: messages taken by the processes of each name

vars == <<queue, living, taken>>

Init ==
  /\ queue = [p \in Proc |-> <<>>]
  /\ living = {}
  /\ taken = [p \in Proc |-> <<>>]

Take(p) ==
  /\ p \in living /\ queue[p] # <<>>
  /\ taken' = [taken EXCEPT ![p] = Append(@, Head(queue[p]))]
  /\ queue' = [queue EXCEPT ![p] = Tail(@)]
  /\ UNCHANGED living

(* The process of this name ends: a prefix of its queue is gone.           *)
End(p) ==
  /\ p \in living /\ living' = living \ {p}
  /\ \E n \in 0..Len(queue[p]) :
       queue' = [queue EXCEPT ![p] = SubSeq(@, n + 1, Len(@))]
  /\ UNCHANGED taken

(* A message to one process, or the same to several of them; a process may *)
(* be started for it.                                                      *)
Send(P, m) ==
  /\ queue' = [p \in Proc |-> IF p \in P THEN Append(queue[p], m) ELSE queue[p]]
  /\ living \subseteq living' /\ living' \subseteq living \cup P
  /\ UNCHANGED taken

Next ==
  \/ \E p \in Proc : Take(p) \/ End(p)
  \/ \E P \in SUBSET Proc, m \in Message : Send(P, m)

Spec == Init /\ [][Next]_vars
================================================================================
