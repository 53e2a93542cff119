---------------------------- MODULE PackageClient ----------------------------
(***************************************************************************)
(* The package client of a node (package_install/client) and what the      *)
(* package server keeps of its reports.                                    *)
(*                                                                         *)
(* The client has two processes.  The install process runs one external    *)
(* command at a time (rpm, zypper, yum, aptitude): batches from the server *)
(* wait in pending_commands until package_commands is empty, every package *)
(* runs a pre command (query), if needed a main command (install, erase)   *)
(* and a post command (query), and ends with one report.  The main process *)
(* sends reports and requests to the server, and keeps those it cannot     *)
(* send in a buffer it retries every ten seconds.                          *)
(*                                                                         *)
(* The link to the server goes down and up; a send while it is up arrives, *)
(* one while it is down fails (ROUTER_MANDATORY).  The client restarts, a  *)
(* command exceeds its run time, a repository is outdated, the server      *)
(* refuses a message: MaxFaults bounds these together, MaxOrders what the  *)
(* administrator does at the server.                                       *)
(***************************************************************************)
EXTENDS Integers, SequencesExt, Selection

CONSTANTS Package, Latest, Targets, Flavours, MaxOrders, MaxFaults

ASSUME PackageAssumption ==
  /\ IsFiniteSet(Package) /\ "refresh" \notin Package
  /\ Latest \subseteq Package
  /\ Targets \subseteq {"keep", "install", "upgrade", "erase"}
  /\ Flavours \subseteq {"zypper", "yum", "debian"}
  /\ MaxOrders \in Nat /\ MaxFaults \in Nat

VARIABLES
  pending,   \* pending_commands: batches from the server
  commands,  \* package_commands
  running,   \* simple_command.com_list
  pc,        \* the method of the install process that runs next, or "idle"
  out,       \* reports on their way to the main process
  buffer,    \* __send_buffer
  armed,     \* __rst: the _check_send_buffer timer is registered
  contact,   \* __got_response_from_server and its ten second test
  down,      \* messages of the server on their way to the client
  link,      \* the server is connected
  installed, \* what rpm would answer on the node
  flavour,   \* which InstallProcess class the node runs
  target,    \* package_device_connection.target_state
  recorded,  \* package_device_connection.installed
  stray,     \* main commands that run on without supervision
  orders, faults,
  incident,  \* history: the faults of Expire and of a refused request
  doubt      \* history: packages with a report that was overtaken or refused,
             \* with a retry, or with a main command that outlived its supervision

install == <<pending, commands, running, pc>>
main == <<buffer, armed, contact>>
config == <<flavour, target>>
bounds == <<orders, faults>>
history == <<incident, doubt>>
vars == <<install, out, main, down, link, installed, config, recorded, stray,
          bounds, history>>

Refresh == "refresh"

(* interpret_response of the output of a query for a package.             *)
Maybe(b) == IF b THEN "y" ELSE "n"

(* The elements of package_commands: a package, or the special refresh.    *)
Pdc(p, t) == [id |-> p, want |-> t, init |-> FALSE, retry |-> 0,
              warn |-> FALSE, shown |-> "u"]
RefreshCommand == Pdc(Refresh, "keep")

(* Messages to the server, and from it.                                    *)
Info(c) == [kind |-> "package_info", id |-> c.id, shown |-> c.shown,
            retry |-> c.retry]
Request(k) == [kind |-> k, id |-> Refresh, shown |-> "u", retry |-> 0]
Batch(k) == [kind |-> k, want |-> IF k = "package_list" THEN target ELSE <<>>]

IsReport(m) == m.kind = "package_info"
ReportsOf(ms, p) == {i \in DOMAIN ms : IsReport(ms[i]) /\ ms[i].id = p}
Requests(ms) == {i \in DOMAIN ms : ~IsReport(ms[i])}

(***************************************************************************)
(* The server takes the messages ms in order: _package_info stores what    *)
(* interpret_response reads from a report, and a request is answered at    *)
(* once.  Those at the positions in refused it may not handle (the license *)
(* is used up): the report is lost, and the request comes back under its   *)
(* own name with an error.                                                 *)
(***************************************************************************)
Answer(k) == IF k = "get_repo_list" THEN "repo_list" ELSE "package_list"

Reply(m, refused) == Batch(IF refused THEN m.kind ELSE Answer(m.kind))

ServerTakes(ms, refused, rest) ==
  /\ recorded' = [p \in Package |->
                    LET stored == ReportsOf(ms, p) \ refused
                    IN  IF stored = {} THEN recorded[p] ELSE ms[Max(stored)].shown]
  /\ down' = rest \o At([i \in DOMAIN ms |-> Reply(ms[i], i \in refused)], Requests(ms))
  /\ incident' = IF refused \cap Requests(ms) = {} THEN incident
                 ELSE incident \cup {"refused"}

RefusedReports(ms, refused) == {<<ms[i].id, "refused">> : i \in refused \ Requests(ms)}

Fault == faults < MaxFaults /\ faults' = faults + 1
MayFault(b) == IF b THEN Fault ELSE UNCHANGED faults

(***************************************************************************)
(* The main process.  _send_to_server tries the new message at once, also  *)
(* when older ones are in the buffer, and buffers it on failure.  rest is  *)
(* what is still to come from the server.                                  *)
(***************************************************************************)
SendToServer(ms, refused, rest) ==
  \/ /\ link
     /\ ServerTakes(ms, refused, rest)
     /\ UNCHANGED <<buffer, armed>>
  \/ /\ ~link /\ refused = {}
     /\ buffer' = buffer \o ms
     /\ armed' = TRUE
     /\ down' = rest
     /\ UNCHANGED <<recorded, incident>>

Overtaken(m) == IF link /\ ReportsOf(buffer, m.id) # {} THEN {<<m.id, "overtaken">>} ELSE {}

SendReport ==
  /\ out # <<>>
  /\ LET ms == <<Head(out)>> IN
     \E refused \in SUBSET DOMAIN ms :
       /\ MayFault(refused # {})
       /\ SendToServer(ms, refused, down)
       /\ doubt' = doubt \cup Overtaken(Head(out)) \cup RefusedReports(ms, refused)
  /\ out' = Tail(out)
  /\ UNCHANGED <<install, contact, link, installed, config, stray, orders>>

(* Mutant: the timer is switched off although messages remain.             *)
CheckSendBufferDisarms ==
  /\ armed
  /\ LET n == IF link THEN Len(buffer) ELSE 0 IN
     \E refused \in SUBSET (1 .. n) :
       /\ MayFault(refused # {})
       /\ ServerTakes(SubSeq(buffer, 1, n), refused, down)
       /\ doubt' = doubt \cup RefusedReports(buffer, refused)
       /\ buffer' = SubSeq(buffer, n + 1, Len(buffer))
       /\ armed' = FALSE
  /\ UNCHANGED <<install, out, contact, link, installed, config, stray, orders>>

(* The timer: the buffer in order, up to the first failure.                *)
CheckSendBuffer ==
  /\ armed
  /\ LET n == IF link THEN Len(buffer) ELSE 0 IN
     \E refused \in SUBSET (1 .. n) :
       /\ MayFault(refused # {})
       /\ ServerTakes(SubSeq(buffer, 1, n), refused, down)
       /\ doubt' = doubt \cup RefusedReports(buffer, refused)
       /\ buffer' = SubSeq(buffer, n + 1, Len(buffer))
       /\ armed' = (n < Len(buffer))
  /\ UNCHANGED <<install, out, contact, link, installed, config, stray, orders>>

(* The link fails while the timer is sending: a tail stays in the buffer.  *)
CheckSendBufferCut ==
  /\ armed /\ link /\ Fault
  /\ \E n \in 0 .. Len(buffer) - 1 : \E refused \in SUBSET (1 .. n) :
       /\ ServerTakes(SubSeq(buffer, 1, n), refused, down)
       /\ doubt' = doubt \cup RefusedReports(buffer, refused)
       /\ buffer' = SubSeq(buffer, n + 1, Len(buffer))
  /\ link' = FALSE
  /\ UNCHANGED <<install, out, armed, contact, installed, config, stray, orders>>

(***************************************************************************)
(* A message of the server: new_config asks for the package list, the      *)
(* others go to the install process as a batch (_new_batch_list), which it *)
(* takes when it is back in its loop.                                      *)
(***************************************************************************)
Heard == contact' = IF contact = "none" THEN "some" ELSE contact

NewConfig ==
  /\ down # <<>> /\ Head(down).kind = "new_config"
  /\ LET ms == <<Request("get_package_list")>> IN
     \E refused \in SUBSET DOMAIN ms :
       /\ MayFault(refused # {})
       /\ SendToServer(ms, refused, Tail(down))
  /\ Heard
  /\ UNCHANGED <<install, out, link, installed, config, stray, orders, doubt>>

CommandBatch ==
  /\ down # <<>> /\ Head(down).kind # "new_config"
  /\ pc = "idle"
  /\ pending' = Append(pending, Head(down))
  /\ pc' = "pending"
  /\ down' = Tail(down)
  /\ Heard
  /\ UNCHANGED <<commands, running, out, buffer, armed, link, installed, config,
                 recorded, stray, bounds, history>>

(***************************************************************************)
(* The install process.  handle_pending_commands, _process_commands and    *)
(* pdc_done call each other; every call is the last thing its caller does, *)
(* so that pc names the one that runs next.                                *)
(***************************************************************************)
Untouched == <<main, down, link, config, recorded, bounds, incident>>

PackageList(want) == [i \in DOMAIN SetToSeq(Package) |->
                        Pdc(SetToSeq(Package)[i], want[SetToSeq(Package)[i]])]

(* Mutant: a package list is taken also while commands are at work.        *)
HandlePendingUnguarded ==
  /\ pc = "pending"
  /\ IF pending = <<>>
     THEN pc' = "idle" /\ UNCHANGED <<pending, commands>>
     ELSE /\ pending' = Tail(pending)
          /\ commands' = IF Head(pending).kind = "package_list"
                         THEN commands \o PackageList(Head(pending).want)
                         ELSE Append(commands, RefreshCommand)
          /\ pc' = "process"
  /\ UNCHANGED <<running, out, Untouched, installed, stray, doubt>>

HandlePendingCommands ==
  /\ pc = "pending"
  /\ IF pending = <<>> \/ commands # <<>>
     THEN pc' = "idle" /\ UNCHANGED <<pending, commands>>
     ELSE LET m == Head(pending) IN
          /\ pending' = Tail(pending)
          /\ \/ /\ m.kind = "repo_list"
                /\ \E rewritten \in BOOLEAN :
                     commands' = IF rewritten THEN <<RefreshCommand>> ELSE <<>>
                /\ pc' = "process"
             \/ /\ m.kind = "clear_cache"
                /\ commands' = <<RefreshCommand>>
                /\ pc' = "process"
             \/ /\ m.kind = "package_list" /\ Package # {}
                /\ commands' = PackageList(m.want)
                /\ pc' = "process"
             \/ /\ m.kind \in {"get_package_list", "get_repo_list"} \/ Package = {}
                /\ UNCHANGED <<commands, pc>>
  /\ UNCHANGED <<running, out, Untouched, installed, stray, doubt>>

(* "outdated" is read from the first main_result of the pdc; at most three *)
(* retries, each behind a refresh.  The report goes out in any case.       *)
MaxRetry == 2

(* Mutant: one retry too many.                                             *)
PdcDoneOnceMore(i, c) ==
  /\ out' = Append(out, Info(c))
  /\ commands' = IF c.warn /\ c.retry <= MaxRetry + 1
                 THEN <<RefreshCommand>> \o
                        ReplaceAt(commands, i, [c EXCEPT !.init = FALSE, !.retry = @ + 1])
                 ELSE RemoveAt(commands, i)
  /\ pc' = "process"

PdcDone(i, c) ==
  LET keep == c.warn /\ c.retry <= MaxRetry
      back == [c EXCEPT !.init = FALSE, !.retry = @ + 1]
  IN /\ out' = Append(out, Info(c))
     /\ commands' = IF keep THEN <<RefreshCommand>> \o ReplaceAt(commands, i, back)
                    ELSE RemoveAt(commands, i)
     /\ pc' = "process"

(* Keep has nothing to run under yum, and only a query otherwise.          *)
HasPreCommand(c) == c.id = Refresh \/ c.want # "keep" \/ flavour # "yum"
HasPostCommand(c) == c.want # "keep"

NotInit == {i \in DOMAIN commands : ~commands[i].init}

ProcessCommands ==
  /\ pc = "process"
  /\ IF NotInit = {}
     THEN pc' = "pending" /\ UNCHANGED <<commands, running, out>>
     ELSE LET i == CHOOSE j \in NotInit : \A k \in NotInit : j <= k
              c == [commands[i] EXCEPT !.init = TRUE]
          IN IF HasPreCommand(c)
             THEN /\ commands' = ReplaceAt(commands, i, c)
                  /\ running' = Append(running, [id |-> c.id, stage |-> "pre"])
                  /\ pc' = "idle"
                  /\ UNCHANGED out
             ELSE PdcDone(i, c) /\ UNCHANGED running
  /\ UNCHANGED <<pending, Untouched, installed, stray, doubt>>

(***************************************************************************)
(* simple_command.check finds a finished command: _command_done.  Results  *)
(* are appended to the pdc and the server reads the first of each kind, so *)
(* that only those of the first attempt count.                             *)
(***************************************************************************)
Of(com) == CHOOSE i \in DOMAIN commands : commands[i].id = com.id
Query(c) == [c EXCEPT !.shown = IF c.retry = 0 THEN Maybe(installed[c.id]) ELSE @]

Satisfied(c) ==
  \/ c.want = "install" /\ installed[c.id]
  \/ c.want = "erase" /\ ~installed[c.id]
  \/ /\ c.want = "upgrade" /\ installed[c.id]
     /\ flavour = "debian" \/ (flavour = "zypper" /\ c.id \notin Latest)

(* Mutant: the refresh ends without looking for the next command.          *)
RefreshDoneForgets(com) ==
  /\ com.id = Refresh
  /\ commands' = RemoveAt(commands, Of(com))
  /\ running' = Tail(running)
  /\ UNCHANGED <<pending, pc, out, Untouched, installed, stray, doubt>>

RefreshDone(com) ==
  /\ com.id = Refresh
  /\ commands' = RemoveAt(commands, Of(com))
  /\ pc' = "process"
  /\ running' = Tail(running)
  /\ UNCHANGED <<pending, out, Untouched, installed, stray, doubt>>

PreDone(com) ==
  /\ com.id # Refresh /\ com.stage = "pre"
  /\ LET i == Of(com)
         c == Query(commands[i])
     IN IF ~HasPostCommand(c) \/ Satisfied(c)
        THEN /\ PdcDone(i, c)
             /\ running' = Tail(running)
             /\ doubt' = IF c.retry > 0 THEN doubt \cup {<<c.id, "retried">>} ELSE doubt
        ELSE /\ commands' = ReplaceAt(commands, i, c)
             /\ running' = Append(Tail(running), [id |-> c.id, stage |-> "main"])
             /\ UNCHANGED <<pc, out, doubt>>
  /\ UNCHANGED <<pending, Untouched, installed, stray>>

(* The main command succeeds, or fails, or leaves all as it was because    *)
(* the repositories are outdated (only zypper says so).                    *)
Effect(p, want) == [installed EXCEPT ![p] = (want # "erase")]

MainDone(com) ==
  /\ com.stage = "main"
  /\ LET i == Of(com)
         c == commands[i]
     IN \E result \in {"done", "failed", "outdated"} :
          /\ result = "outdated" => flavour = "zypper"
          /\ MayFault(result = "outdated")
          /\ installed' = IF result = "done" THEN Effect(c.id, c.want) ELSE installed
          /\ commands' = ReplaceAt(commands, i,
               [c EXCEPT !.warn = IF c.retry = 0 THEN result = "outdated" ELSE @])
  /\ running' = Append(Tail(running), [id |-> com.id, stage |-> "post"])
  /\ UNCHANGED <<pending, pc, out, main, down, link, config, recorded, stray,
                 orders, history>>

PostDone(com) ==
  /\ com.stage = "post"
  /\ LET c == Query(commands[Of(com)]) IN
     /\ PdcDone(Of(com), c)
     /\ doubt' = IF c.retry > 0 THEN doubt \cup {<<c.id, "retried">>} ELSE doubt
  /\ running' = Tail(running)
  /\ UNCHANGED <<pending, Untouched, installed, stray>>

CheckCommands ==
  /\ pc = "idle" /\ running # <<>>
  /\ \/ RefreshDone(Head(running))
     \/ PreDone(Head(running))
     \/ MainDone(Head(running))
     \/ PostDone(Head(running))

(* Main commands nobody waits for any more; they still take effect.        *)
Strays == {[id |-> com.id, want |-> commands[Of(com)].want] :
             com \in {x \in ToSet(running) : x.stage = "main"}}

(* max_run_time exceeded: the command leaves the list, and nothing else.   *)
Expire ==
  /\ pc = "idle" /\ running # <<>> /\ Fault
  /\ running' = Tail(running)
  /\ stray' = stray \cup Strays
  /\ doubt' = doubt \cup {<<s.id, "stray">> : s \in Strays}
  /\ incident' = incident \cup {"expired"}
  /\ UNCHANGED <<pending, commands, pc, out, main, down, link, installed, config,
                 recorded, orders>>

StrayEnds ==
  \E s \in stray :
    /\ installed' = Effect(s.id, s.want)
    /\ stray' = stray \ {s}
    /\ UNCHANGED <<install, out, Untouched, doubt>>

(***************************************************************************)
(* The client starts again with nothing in memory and asks for both lists. *)
(***************************************************************************)
(* Mutant: the package list is not asked for again.                        *)
GreetingReposOnly == <<Request("get_repo_list")>>

Greeting == <<Request("get_repo_list"), Request("get_package_list")>>

ClientStart(refused) ==
  /\ pending' = <<>> /\ commands' = <<>> /\ running' = <<>> /\ pc' = "idle"
  /\ out' = <<>>
  /\ contact' = "none"
  /\ stray' = stray \cup Strays
  /\ doubt' = doubt \cup {<<s.id, "stray">> : s \in Strays}
  /\ \/ /\ link
        /\ ServerTakes(Greeting, refused, <<>>)
        /\ buffer' = <<>> /\ armed' = FALSE
     \/ /\ ~link /\ refused = {}
        /\ buffer' = Greeting /\ armed' = TRUE
        /\ down' = <<>>
        /\ UNCHANGED <<recorded, incident>>
  /\ UNCHANGED <<link, installed, config, orders>>

(* The client is restarted.                                                *)
Restart == Fault /\ \E refused \in SUBSET DOMAIN Greeting : ClientStart(refused)

(* Ten seconds after the start: without an answer so far the client ends,  *)
(* also when one is on its way, and the meta server starts it again.       *)
ConnectionOkTest ==
  \/ /\ contact = "none"
     /\ \E refused \in SUBSET DOMAIN Greeting :
          MayFault(refused # {}) /\ ClientStart(refused)
  \/ /\ contact = "some"
     /\ contact' = "tested"
     /\ UNCHANGED <<install, out, buffer, armed, down, link, installed, config,
                    recorded, stray, bounds, history>>

LinkDown == link /\ Fault /\ link' = FALSE
            /\ UNCHANGED <<install, out, main, down, installed, config, recorded,
                           stray, orders, history>>
LinkUp == ~link /\ link' = TRUE
          /\ UNCHANGED <<install, out, main, down, installed, config, recorded,
                         stray, bounds, history>>

(* The administrator changes a target state and sends the clients the new  *)
(* configuration, or clears the caches; a command that cannot be sent is   *)
(* refused.                                                                *)
Order ==
  /\ orders < MaxOrders /\ orders' = orders + 1
  /\ link
  /\ \/ /\ \E p \in Package, t \in Targets : target' = [target EXCEPT ![p] = t]
        /\ down' = Append(down, Batch("new_config"))
     \/ /\ down' = Append(down, Batch("clear_cache"))
        /\ UNCHANGED target
  /\ UNCHANGED <<install, out, main, link, flavour, installed, recorded, stray, faults, history>>

------------------------------------------------------------------------------
Init ==
  /\ link \in BOOLEAN
  /\ installed \in [Package -> BOOLEAN]
  /\ flavour \in Flavours
  /\ target \in [Package -> Targets]
  /\ recorded = [p \in Package |-> "u"]
  /\ pending = <<>> /\ commands = <<>> /\ running = <<>> /\ pc = "idle" /\ out = <<>>
  /\ buffer = IF link THEN <<>> ELSE Greeting
  /\ armed = ~link
  /\ down = IF link THEN <<Batch("repo_list"), Batch("package_list")>> ELSE <<>>
  /\ contact = "none"
  /\ stray = {} /\ orders = 0 /\ faults = 0 /\ incident = {} /\ doubt = {}

InstallStep == HandlePendingCommands \/ ProcessCommands \/ CheckCommands
MainStep == SendReport \/ CheckSendBuffer \/ NewConfig \/ CommandBatch

Next ==
  \/ InstallStep \/ MainStep \/ ConnectionOkTest
  \/ CheckSendBufferCut \/ Expire \/ StrayEnds \/ Restart \/ LinkDown \/ LinkUp
  \/ Order

Spec == Init /\ [][Next]_vars

(* Both processes keep running, timers fire, and an external command ends. *)
Fairness ==
  /\ WF_vars(HandlePendingCommands) /\ WF_vars(ProcessCommands)
  /\ WF_vars(CheckCommands)
  /\ WF_vars(SendReport) /\ WF_vars(CheckSendBuffer)
  /\ WF_vars(NewConfig) /\ WF_vars(CommandBatch)
  /\ WF_vars(ConnectionOkTest)

FairSpec == Spec /\ Fairness

------------------------------------------------------------------------------
(* The shape of the state; at most three retries are ever counted.         *)
TypeOK ==
  /\ \A i \in DOMAIN pending : pending[i].kind \in
       {"repo_list", "package_list", "clear_cache", "get_repo_list", "get_package_list"}
  /\ \A i \in DOMAIN commands :
       /\ commands[i].id \in Package \cup {Refresh}
       /\ commands[i].retry \in 0 .. MaxRetry + 1
       /\ commands[i].shown \in {"y", "n", "u"}
  /\ \A i \in DOMAIN running : running[i].stage \in {"pre", "main", "post"}
  /\ pc \in {"idle", "pending", "process"}
  /\ armed \in BOOLEAN /\ link \in BOOLEAN
  /\ contact \in {"none", "some", "tested"}
  /\ installed \in [Package -> BOOLEAN]
  /\ flavour \in Flavours /\ target \in [Package -> Targets]
  /\ recorded \in [Package -> {"y", "n", "u"}]
  /\ orders \in 0 .. MaxOrders /\ faults \in 0 .. MaxFaults

(* The install process never runs two package commands at the same time,   *)
(* whatever batches arrive while one runs: handle_pending_commands leaves  *)
(* them in pending_commands until package_commands is empty.               *)
OneAtATime == Len(running) <= 1

(* Between its steps the install process has a command running as long as  *)
(* it has commands: nothing but the end of a running command calls         *)
(* _process_commands again.  A command that exceeded its run time is the   *)
(* exception: check() drops it without its done function.                  *)
NoStall ==
  (pc = "idle" /\ commands # <<>> /\ "expired" \notin incident) => running # <<>>

Quiet ==
  /\ pending = <<>> /\ commands = <<>> /\ pc = "idle"
  /\ out = <<>> /\ buffer = <<>> /\ down = <<>>

Doubts(p) == {d \in doubt : d[1] = p}
RightlyRecorded(p) == recorded[p] \in {"u", Maybe(installed[p])}

(* When all is reported the server's record of a package is what is on the *)
(* node, through lost links, buffered reports and restarts of the client   *)
(* (which asks again).  It is wrong only for a package with a report that  *)
(* was overtaken or refused, a retry, or a main command that outlived its  *)
(* supervision, or after a refused request.                                *)
RecordedState ==
  (Quiet /\ "refused" \notin incident) =>
    \A p \in Package : Doubts(p) = {} => RightlyRecorded(p)

(* If the link stays up in the end, every batch is worked off and every    *)
(* report and request reaches the server, unless a command expired.        *)
Settles == <>[]link => <>(("expired" \in incident) \/ []Quiet)

==============================================================================
