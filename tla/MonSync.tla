------------------------------- MODULE MonSync -------------------------------
(***************************************************************************)
(* How a monitoring configuration reaches a monitoring slave.              *)
(*                                                                         *)
(* md-config-server starts two build processes per request: build1 for the *)
(* master, build2 for the slave, which waits until build1 has announced    *)
(* its routing fingerprint.  build1 opens and closes the build, build2     *)
(* writes the files of the slave and asks for their distribution; nothing  *)
(* orders the two after the fingerprint.  The syncer process of            *)
(* md-config-server sends the requests to the distribution master, which   *)
(* reads the files and sends them to the md-sync-server of the slave; that *)
(* one stores them, reports each file, and reloads the monitoring daemon.  *)
(*                                                                         *)
(* One slave; the master's own copy (handle_local_action) is left out. The *)
(* build processes, the main process and the syncer of md-config-server    *)
(* are joined by ordered queues: a message is handled in the step that     *)
(* sends it, the delay is the sender's.  Between hosts there are queues.   *)
(* What a build process that ends still has in its queue is lost; that it  *)
(* may be kept for the next one of that name is the matter of ProcessPool. *)
(***************************************************************************)
EXTENDS Integers, FiniteSets, SequencesExt

CONSTANTS File,      \* files below etc
          Optional,  \* files a full build may remove (a host's, say)
          Large,     \* files that may exceed MAX_SEND_SIZE
          Modes,     \* build requests: "all" or "some"
          MaxBuilds, MaxFaults

ASSUME MonSyncAssumption ==
  /\ Optional \subseteq File /\ Optional # File /\ Large \subseteq File
  /\ Modes \subseteq {"all", "some"}
  /\ MaxBuilds \in Nat /\ MaxFaults \in Nat

VARIABLES
  master,   \* build1
  worker,   \* build2
  builds,   \* build requests so far
  version,  \* config_version_build of the syncer's SyncConfig
  row,      \* __md_struct: version of the open mon_dist_slave row, or 0
  source,   \* the slave's etc directory on the distribution master
  large,    \* the files there that exceed MAX_SEND_SIZE
  dist,     \* the slave's SyncConfig on the distribution master
  slave,    \* the slave: its SyncConfig, its etc directory, its daemon
  toDist, toSlave, toMaster, toConfig,  \* messages on their way
  faults,
  sent,     \* history: versions and files the distribution master sent
  unsynced, \* history: no sync_slave since the last start_build
  unsent    \* history: the last distribution was given up

procs == <<master, worker, builds>>
syncer == <<version, row>>
queues == <<toDist, toSlave, toMaster, toConfig>>
etc == <<source, large>>
history == <<sent, unsynced, unsent>>
vars == <<procs, syncer, etc, dist, slave, queues, faults, history>>

(* The content of a file: the build that wrote it, 1 for what is there at  *)
(* the start, or Absent.                                                   *)
Absent == 0
Everywhere(c) == [f \in File |-> c]
Present(content) == {f \in File : content[f] # Absent}

(* A build process: the files it still has to write, and their content.    *)
Gone == [pc |-> "none", mode |-> "all", todo |-> {}, content |-> Absent]

(* FileInfo on the slave, by path; None stands for no entry.  (Version 0   *)
(* is what the syncer knows before the first build has started.)           *)
None == -1
Unknown == [version |-> None, created |-> FALSE]
NoInfo == [f \in File |-> Unknown]

(* config_version_send, dist_ok, and __file_dict as the files it holds and *)
(* those among them that are created.                                      *)
DistStart == [send |-> None, ok |-> TRUE, files |-> {}, created |-> {}]

Sync(v) == [kind |-> "sync_slave", version |-> v, content |-> Everywhere(Absent)]
Plain(k) == [kind |-> k, version |-> 0, content |-> Everywhere(Absent)]
Bulk(v, content) ==
  [kind |-> "file_content_bulk", version |-> v, content |-> content]

Init ==
  /\ master = Gone /\ worker = Gone /\ builds = 0
  /\ version = 0 /\ row = 0
  /\ source = Everywhere(1) /\ large = {}
  /\ dist = DistStart
  /\ \E known \in BOOLEAN :
       slave = [disk |-> Everywhere(1), running |-> Everywhere(1), info |-> NoInfo,
                stored |-> known, registered |-> known, hup |-> FALSE]
  /\ toDist = <<>> /\ toSlave = <<>> /\ toMaster = <<>> /\ toConfig = <<>>
  /\ faults = 0
  /\ sent = <<>> /\ unsynced = FALSE /\ unsent = FALSE

-----------------------------------------------------------------------------
(* md-config-server: control, build processes, syncer.                     *)

(* _rebuild_config: a build process that is already there is not started   *)
(* again, and the request sent to it is lost with it; only build2 still    *)
(* waiting for the fingerprint takes the new request.                      *)
Rebuild(mode) ==
  /\ builds < MaxBuilds
  /\ builds' = builds + 1
  /\ master' = IF master.pc = "none" THEN [Gone EXCEPT !.pc = "routing", !.mode = mode]
               ELSE master
  /\ worker' = IF worker.pc \in {"none", "waiting"}
               THEN [Gone EXCEPT !.pc = "waiting", !.mode = mode] ELSE worker
  /\ UNCHANGED <<syncer, etc, dist, slave, queues, faults, history>>

(* _start_build of the master: routing_ok, which control turns into the    *)
(* routing_fingerprint for build2; it starts a build of what the database  *)
(* holds now.                                                              *)
RoutingOk ==
  /\ master.pc = "routing"
  /\ master' = [master EXCEPT !.pc = "start"]
  /\ worker' = IF worker.pc = "waiting"
               THEN [worker EXCEPT !.pc = "write", !.todo = File, !.content = builds + 1]
               ELSE worker
  /\ UNCHANGED <<builds, syncer, etc, dist, slave, queues, faults, history>>

(* fingerprint_set of the master, start_build: the new version is the time *)
(* in seconds, so two builds of one second share it; SyncConfig.start_build*)
(* opens a row for the slave.                                              *)
StartBuild ==
  /\ master.pc = "start"
  /\ master' = [master EXCEPT !.pc = "end"]
  /\ version' \in {version, version + 1} \ {0}
  /\ row' = version'
  /\ unsynced' = TRUE
  /\ UNCHANGED <<worker, builds, etc, dist, slave, queues, faults, sent, unsent>>

(* end_build: only a full build triggers the reload; the syncer's dist_ok  *)
(* is always true, so _check_for_ras sends it at once.                     *)
EndBuild ==
  /\ master.pc = "end"
  /\ master' = Gone
  /\ toDist' = IF master.mode = "all" THEN Append(toDist, Plain("reload_after_sync"))
               ELSE toDist
  /\ UNCHANGED <<worker, builds, syncer, etc, dist, slave, toSlave, toMaster,
                 toConfig, faults, history>>

(* write_content: one file of the slave is written, or removed; its size   *)
(* is what the database makes of it.                                       *)
WriteContent(f) ==
  /\ worker.pc = "write" /\ f \in worker.todo
  /\ worker' = [worker EXCEPT !.todo = @ \ {f}]
  /\ \E c \in {worker.content} \cup (IF f \in Optional /\ worker.mode = "all"
                                 THEN {Absent} ELSE {}),
        oversize \in SUBSET (Large \cap {f}) :
       /\ source' = [source EXCEPT ![f] = c]
       /\ large' = (large \ {f}) \cup (IF c = Absent THEN {} ELSE oversize)
  /\ UNCHANGED <<master, builds, syncer, dist, slave, queues, faults, history>>

(* fingerprint_set of the slave ends with sync_slave; the syncer adds the  *)
(* version of the build it knows of.                                       *)
SyncSlave ==
  /\ worker.pc = "write" /\ worker.todo = {}
  /\ worker' = Gone
  /\ toDist' = Append(toDist, Sync(version))
  /\ unsynced' = FALSE
  /\ UNCHANGED <<master, builds, syncer, etc, dist, slave, toSlave, toMaster,
                 toConfig, faults, sent, unsent>>

(* A configuration that is not valid is neither finished nor distributed.  *)
Invalid ==
  /\ faults < MaxFaults /\ faults' = faults + 1
  /\ worker.pc = "write" /\ worker.todo # {}
  /\ worker' = Gone
  /\ UNCHANGED <<master, builds, syncer, etc, dist, slave, queues, history>>

(* handle_info_action: sync_end closes whatever row is open.  sync_start   *)
(* only writes times and counters and is left out.                         *)
TakeInfo ==
  /\ toConfig # <<>>
  /\ toConfig' = Tail(toConfig)
  /\ row' = 0
  /\ UNCHANGED <<procs, version, etc, dist, slave, toDist, toSlave, toMaster,
                 faults, history>>

-----------------------------------------------------------------------------
(* The distribution master.                                                *)

(* _show_pending_info of the state d: when every file is created the       *)
(* distribution has ended, and the config server is told.                  *)
Complete(d) == d.files = d.created
Ended(d) == IF Complete(d) THEN [d EXCEPT !.ok = TRUE, !.files = {}, !.created = {}]
            ELSE d
(* Mutant: only a distribution without files is reported as ended.        *)
EndInfoEmpty(d) == IF d.files = {} THEN <<"sync_end">> ELSE <<>>
EndInfo(d) == IF Complete(d) THEN <<"sync_end">> ELSE <<>>

(* Mutant: the directories are cleared after the files.                    *)
SendCommandsSwapped(v, content) ==
  (IF Present(content) = {} THEN <<>> ELSE <<Bulk(v, content)>>) \o
  <<Plain("clear_directories")>>

(* _get_send_commands: the directories are cleared, then filled.           *)
SendCommands(v, content) ==
  <<Plain("clear_directories")>> \o
  (IF Present(content) = {} THEN <<>> ELSE <<Bulk(v, content)>>)

(* handle_remote_sync_slave reads the files as they are now, in one step.  *)
(* (It only logs for a slave without an address, which gets nothing.)      *)
HandleSyncSlave ==
  /\ toDist # <<>> /\ Head(toDist).kind = "sync_slave"
  /\ large = {}
  /\ LET v == Head(toDist).version
         d == [send |-> v, ok |-> FALSE, files |-> Present(source), created |-> {}]
     IN /\ dist' = Ended(d)
        /\ toSlave' = toSlave \o SendCommands(v, source)
        /\ toConfig' = toConfig \o EndInfo(d)
        /\ sent' = Append(sent, Bulk(v, source))
  /\ toDist' = Tail(toDist)
  /\ unsent' = FALSE
  /\ UNCHANGED <<procs, syncer, etc, slave, toMaster, faults, unsynced>>

(* A file that exceeds MAX_SEND_SIZE: _get_send_commands calls self._send, *)
(* which does not exist.  The handler is left after the flags were set and *)
(* the files walked so far entered in __file_dict; nothing is sent.        *)
SyncSlaveAborted ==
  /\ toDist # <<>> /\ Head(toDist).kind = "sync_slave"
  /\ \E f \in large, walked \in SUBSET (Present(source) \ large) :
       dist' = [send |-> Head(toDist).version, ok |-> FALSE,
                files |-> walked \cup {f}, created |-> {}]
  /\ toDist' = Tail(toDist)
  /\ unsent' = TRUE
  /\ UNCHANGED <<procs, syncer, etc, slave, toSlave, toMaster, toConfig, faults,
                 sent, unsynced>>

(* handle_remote_reload_after_sync.                                        *)
HandleReload ==
  /\ toDist # <<>> /\ Head(toDist).kind = "reload_after_sync"
  /\ toDist' = Tail(toDist)
  /\ toSlave' = Append(toSlave, Plain("reload_after_sync"))
  /\ UNCHANGED <<procs, syncer, etc, dist, slave, toMaster, toConfig, faults, history>>

(* Mutants: the version is not compared; a file nobody sent is stored.     *)
StoreResultUnversioned(d, report) ==
  LET told == {f \in d.files : report[f].version # None}
  IN [d EXCEPT !.created = (@ \ told) \cup {f \in told : report[f].created}]
StoreResultUnknown(d, report) ==
  LET told == {f \in File : report[f].version # None}
  IN [d EXCEPT !.created = (@ \ told) \cup
        {f \in told : report[f].created /\ report[f].version = d.send}]

(* store_satellite_info with FileInfo.store_result: the report is about    *)
(* the version being sent, or counts as not created.                       *)
StoreResult(d, report) ==
  LET told == {f \in d.files : report[f].version # None}
  IN [d EXCEPT !.created = (@ \ told) \cup
        {f \in told : report[f].created /\ report[f].version = d.send}]

(* handle_remote_satellite_info; without a __file_dict nothing is stored.  *)
HandleSatelliteInfo ==
  /\ toMaster # <<>>
  /\ toMaster' = Tail(toMaster)
  /\ LET d == StoreResult(dist, Head(toMaster))
     IN IF dist.files = {} THEN UNCHANGED <<dist, toConfig>>
        ELSE /\ dist' = Ended(d)
             /\ toConfig' = toConfig \o EndInfo(d)
  /\ UNCHANGED <<procs, syncer, etc, slave, toDist, toSlave, faults, history>>

(* send_register_msg, on its timer; a slave that has stored the address    *)
(* stores the same again, so that repetition is left out.                  *)
SendRegister ==
  /\ ~slave.stored
  /\ ~\E i \in DOMAIN toSlave : toSlave[i].kind = "register_master"
  /\ toSlave' = Append(toSlave, Plain("register_master"))
  /\ UNCHANGED <<procs, syncer, etc, dist, slave, toDist, toMaster, toConfig,
                 faults, history>>

(* A restarted distribution master has the slaves from its config store    *)
(* and forgets what it was sending.                                        *)
DistRestart ==
  /\ faults < MaxFaults /\ faults' = faults + 1
  /\ dist' = DistStart
  /\ toDist' = <<>> /\ toMaster' = <<>>
  /\ UNCHANGED <<procs, syncer, etc, slave, toSlave, toConfig, history>>

-----------------------------------------------------------------------------
(* The md-sync-server of the slave.                                        *)

(* send_satellite_info of the slave state s.                               *)
Reported(s) == IF s.registered THEN Append(toMaster, s.info) ELSE toMaster

Handle(kind) ==
  /\ toSlave # <<>> /\ Head(toSlave).kind = kind
  /\ toSlave' = Tail(toSlave)
  /\ UNCHANGED <<procs, syncer, etc, dist, toDist, toConfig, history>>

(* Mutant: the FileInfo of the removed files stays.                        *)
ClearedDiskOnly(s) == [s EXCEPT !.disk = Everywhere(Absent)]

(* handle_direct_clear_directories, with _clear_dir and _clear_file_info.  *)
Cleared(s) == [s EXCEPT !.disk = Everywhere(Absent), !.info = NoInfo]
ClearDirectories ==
  /\ Handle("clear_directories")
  /\ slave' = Cleared(slave)
  /\ toMaster' = Reported(slave')
  /\ UNCHANGED faults

(* _store_file of f: a file of the version that is already there is not    *)
(* written (_check_version), and an error leaves it without its content.   *)
Renew(s, f, v) == s.info[f].version # v
Stored(s, m, bad) ==
  LET new == {f \in Present(m.content) : Renew(s, f, m.version)}
  IN [s EXCEPT
        !.disk = [f \in File |-> IF f \notin new THEN @[f]
                                ELSE IF f \in bad THEN Absent ELSE m.content[f]],
        !.info = [f \in File |-> IF f \notin new THEN @[f]
                                ELSE [version |-> m.version, created |-> f \notin bad]]]

(* Mutant: no report after the files.                                      *)
FileContentBulkSilent ==
  /\ Handle("file_content_bulk")
  /\ slave' = Stored(slave, Head(toSlave), {})
  /\ UNCHANGED <<toMaster, faults>>

(* handle_direct_file_content_bulk.                                        *)
FileContentBulk ==
  /\ Handle("file_content_bulk")
  /\ \E bad \in {{}} \cup {{f} : f \in Present(Head(toSlave).content)} :
       /\ faults' = IF bad = {} THEN faults ELSE faults + 1
       /\ faults' <= MaxFaults
       /\ slave' = Stored(slave, Head(toSlave), bad)
  /\ toMaster' = Reported(slave')

(* handle_direct_reload_after_sync; dist_ok of the slave is always true,   *)
(* so _check_for_ras sends SIGHUP to the monitoring daemon at once ...     *)
ReloadAfterSync ==
  /\ Handle("reload_after_sync")
  /\ slave' = [slave EXCEPT !.hup = TRUE]
  /\ UNCHANGED <<toMaster, faults>>

(* ... which reads the directory when it comes to it.  (External.)         *)
DaemonReads ==
  /\ slave.hup
  /\ slave' = [slave EXCEPT !.running = slave.disk, !.hup = FALSE]
  /\ UNCHANGED <<procs, syncer, etc, dist, queues, faults, history>>

(* handle_direct_register_master only stores the address ...               *)
RegisterMaster ==
  /\ Handle("register_master")
  /\ slave' = [slave EXCEPT !.stored = TRUE]
  /\ UNCHANGED <<toMaster, faults>>

(* ... which is used by check_for_register_at_master after a restart.      *)
SlaveRestart ==
  /\ faults < MaxFaults /\ faults' = faults + 1
  /\ slave' = [slave EXCEPT !.info = NoInfo, !.registered = slave.stored]
  /\ toMaster' = Reported(slave')
  /\ UNCHANGED <<procs, syncer, etc, dist, toDist, toSlave, toConfig, history>>

(* send_command to a host that is not connected fails with a log entry.    *)
Lose ==
  /\ faults < MaxFaults /\ faults' = faults + 1
  /\ \/ /\ toSlave # <<>> /\ toSlave' = Tail(toSlave) /\ UNCHANGED toMaster
     \/ /\ toMaster # <<>> /\ toMaster' = Tail(toMaster) /\ UNCHANGED toSlave
  /\ UNCHANGED <<procs, syncer, etc, dist, slave, toDist, toConfig, history>>

-----------------------------------------------------------------------------
MasterStep == RoutingOk \/ StartBuild \/ EndBuild
WorkerStep == SyncSlave \/ \E f \in File : WriteContent(f)
DistStep == HandleSyncSlave \/ SyncSlaveAborted \/ HandleReload \/ HandleSatelliteInfo
SlaveStep == ClearDirectories \/ FileContentBulk \/ ReloadAfterSync \/ RegisterMaster

Next ==
  \/ \E mode \in Modes : Rebuild(mode)
  \/ MasterStep \/ WorkerStep \/ TakeInfo \/ DistStep \/ SlaveStep
  \/ SendRegister \/ DaemonReads
  \/ Invalid \/ DistRestart \/ SlaveRestart \/ Lose

Spec == Init /\ [][Next]_vars

(* Every process serves its queue and finishes its build.                  *)
Fairness == /\ WF_vars(MasterStep) /\ WF_vars(WorkerStep) /\ WF_vars(TakeInfo)
            /\ WF_vars(DistStep) /\ WF_vars(SlaveStep)
FairSpec == Spec /\ Fairness

-----------------------------------------------------------------------------
Contents == [File -> 0..(MaxBuilds + 1)]
Messages == [kind : {"sync_slave", "reload_after_sync", "clear_directories",
                     "file_content_bulk", "register_master"},
             version : 0..MaxBuilds, content : Contents]
Infos == [File -> [version : None..MaxBuilds, created : BOOLEAN]]
Process == [pc : {"none", "waiting", "routing", "start", "end", "write"},
            mode : {"all", "some"}, todo : SUBSET File, content : 0..(MaxBuilds + 1)]

(* Type correctness: an open row has the version the syncer last heard of, *)
(* and created files are files that were sent.                             *)
TypeOK ==
  /\ master \in Process /\ worker \in Process /\ builds \in 0..MaxBuilds
  /\ version \in 0..MaxBuilds /\ row \in {0, version}
  /\ source \in Contents /\ large \subseteq Large
  /\ dist \in [send : None..MaxBuilds, ok : BOOLEAN, files : SUBSET File,
               created : SUBSET File]
  /\ dist.created \subseteq dist.files
  /\ slave \in [disk : Contents, running : Contents, info : Infos,
                stored : BOOLEAN, registered : BOOLEAN, hup : BOOLEAN]
  /\ slave.registered => slave.stored
  /\ toDist \in Seq(Messages) /\ toSlave \in Seq(Messages) /\ sent \in Seq(Messages)
  /\ toMaster \in Seq(Infos) /\ toConfig \in Seq({"sync_end"})
  /\ faults \in 0..MaxFaults /\ unsynced \in BOOLEAN /\ unsent \in BOOLEAN

Quiet ==
  /\ master.pc = "none" /\ worker.pc \in {"none", "waiting"}
  /\ toDist = <<>> /\ toSlave = <<>> /\ toMaster = <<>> /\ toConfig = <<>>

SentOnce(v) == Cardinality({i \in DOMAIN sent : sent[i].version = v}) = 1

(* dist_ok can be trusted: whatever is lost, restarted or not written, when*)
(* the distribution master calls a version distributed the slave has every *)
(* file as it was sent -- provided that version was sent once, since       *)
(* store_result compares versions only (send_time_lut is never read), and  *)
(* not given up since, which leaves a part of the files to be waited for.  *)
(* A file to be removed is not covered: a lost clear_directories is not    *)
(* noticed, the slave keeps the file.                                      *)
DistOkSound ==
  dist.ok /\ dist.send # None /\ ~unsent /\ SentOnce(dist.send) =>
    LET content == Last(sent).content
    IN \A f \in Present(content) : slave.disk[f] = content[f]

(* Without faults every configuration that was built arrives: once nothing *)
(* is on its way the slave's files are those on the distribution master,   *)
(* also when two builds overlapped, shared a version, or the files were    *)
(* read while the next build was writing them.  The one exception is a     *)
(* last distribution that was given up for the size of a file; the next    *)
(* one makes up for it.                                                    *)
Delivered == Quiet /\ faults = 0 /\ ~unsent => slave.disk = source

(* Without faults a registered slave's distribution is acknowledged: it    *)
(* ends, and its row in the database is closed unless no sync followed or  *)
(* the distribution was given up.                                          *)
Acknowledged ==
  Quiet /\ faults = 0 /\ ~unsent /\ slave.registered =>
    dist.ok /\ (row # 0 => unsynced)

(* No other message comes between clear_directories and the files: except  *)
(* when the files are next, the slave's directory holds one configuration  *)
(* as it was sent.  So SIGHUP is only sent when it does (the daemon may    *)
(* read later).                                                            *)
DirectoryWhole ==
  faults = 0 =>
    \/ slave.disk \in {Everywhere(1)} \cup {sent[i].content : i \in DOMAIN sent}
    \/ toSlave # <<>> /\ Head(toSlave).kind = "file_content_bulk"

(* A distribution to a registered slave ends, unless a fault intervenes or *)
(* it is given up.                                                         *)
SyncEnds ==
  (dist.files # {} /\ slave.registered /\ faults = 0) ~> (dist.ok \/ faults > 0 \/ unsent)

=============================================================================
