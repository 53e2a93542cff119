---------------------------- MODULE ServiceControl ----------------------------
(***************************************************************************)
(* What the meta-server promises about the services it controls.  It       *)
(* touches a service only to carry out an order, and a service has at most *)
(* one: a new order comes after the end of the one before.  Processes are  *)
(* told to stop before they are killed, and an order that has begun with   *)
(* that is carried out as it was given, unless the server ends; it never   *)
(* hits a service that has come up meanwhile.  A signal withdraws the      *)
(* orders that have not begun, and may set a service adrift whose order    *)
(* has: nothing is promised about it until that order ends.  Apart from    *)
(* this the services live on their own, also while there is no server.     *)
(***************************************************************************)
CONSTANTS
  Service,
  Simple     \* services controlled by an rc script, which stops and starts at once

VARIABLES
  proc,      \* the processes of each service
  order,     \* the order each service has, a set with at most one element
  adrift,    \* the services with an order that was lost track of
  alive      \* the server runs

vars == <<proc, order, adrift, alive>>

Action == {"start", "stop"}
Issued(a) == {[action |-> a, begun |-> FALSE]}
Begun(a) == {[action |-> a, begun |-> TRUE]}

Running == {"up", "partial", "stopping"}

Init ==
  /\ proc \in [Service -> {"dead", "up"}]
  /\ order = [s \in Service |-> {}]
  /\ adrift = {}
  /\ alive = TRUE

-------------------------------------------------------------------------------
(* What the server may do with one service.                                *)
Leave(s) == proc'[s] = proc[s] /\ order'[s] = order[s]

Issue(s) ==
  /\ order[s] = {}
  /\ \E a \in Action : order'[s] = Issued(a)
  /\ proc'[s] = proc[s]

Begin(s) ==
  /\ \E a \in Action : order[s] = Issued(a) /\ order'[s] = Begun(a)
  /\ proc[s] \in Running /\ proc'[s] = "stopping"

CarryOut(s) ==
  /\ \E a \in Action :
       /\ \/ order[s] = Issued(a) /\ (s \in Simple \/ proc[s] \notin Running)
          \/ order[s] = Begun(a) /\ proc[s] \notin {"up", "starting"}
       /\ proc'[s] \in IF a = "start" THEN {"starting", "up"} ELSE {"dead"}
  /\ order'[s] = {}

(* A service that is to be started and already runs.                       *)
Spare(s) ==
  /\ order[s] = Issued("start") /\ order'[s] = {}
  /\ proc[s] \in {"up", "stopping"} /\ proc'[s] = proc[s]

(* A service adrift is stopped, killed or started at any time.             *)
Drift(s) ==
  /\ order'[s] = {}
  /\ proc'[s] \in {proc[s], "stopping", "dead", "starting", "up"}

(* The server works on any number of services in one step.                 *)
Work ==
  /\ alive /\ alive' = TRUE
  /\ adrift' \subseteq adrift       \* until the order ends
  /\ \A s \in Service :
       IF s \in adrift THEN Drift(s)
       ELSE Leave(s) \/ Issue(s) \/ Begin(s) \/ CarryOut(s) \/ Spare(s)

Withdraw ==
  /\ alive /\ alive' = TRUE
  /\ adrift \subseteq adrift'
  /\ \A s \in adrift' \ adrift : \E o \in order[s] : o.begun
  /\ order' = [s \in Service |-> IF s \in adrift' THEN {} ELSE {o \in order[s] : o.begun}]
  /\ UNCHANGED proc

(* The server exits, perhaps after its last orders, or is killed.          *)
End ==
  /\ alive /\ alive' = FALSE
  /\ adrift' = {}
  /\ \A s \in Service : IF s \in adrift THEN Drift(s)
                        ELSE order'[s] = {} /\ (proc'[s] = proc[s] \/ CarryOut(s))

Boot ==
  /\ ~alive /\ alive' = TRUE
  /\ UNCHANGED <<proc, order, adrift>>

(* Processes come up, crash and end.                                       *)
Live(s) ==
  /\ \/ proc[s] = "starting" /\ proc'[s] \in {"up", "dead"}
     \/ proc[s] = "up" /\ proc'[s] \in {"partial", "crashed", "dead"}
     \/ proc[s] \in {"partial", "stopping"} /\ proc'[s] \in {"crashed", "dead"}
  /\ \A r \in Service \ {s} : proc'[r] = proc[r]
  /\ UNCHANGED <<order, adrift, alive>>

Next == Work \/ Withdraw \/ End \/ Boot \/ \E s \in Service : Live(s)

Spec == Init /\ [][Next]_vars
===============================================================================
