--------------------------- MODULE MonSync_proofs ---------------------------
(***************************************************************************)
(* Proofs about MonSync, for every set of files, every number of builds    *)
(* and every number of faults.                                             *)
(***************************************************************************)
EXTENDS MonSync, FiniteSetTheorems, SequenceTheorems, TLAPS

(* A build takes a new version number only for a request of its own, so    *)
(* that versions never outnumber the requests.                             *)
VersionInv ==
  version + (IF master.pc \in {"routing", "start"} THEN 1 ELSE 0) <= builds

Inv1 == TypeOK /\ VersionInv

(* What the constant records and the messages are.                         *)
LEMMA ContentTypes ==
  /\ Everywhere(Absent) \in Contents /\ Everywhere(1) \in Contents
  /\ NoInfo \in Infos /\ Gone \in Process
  <1> USE MonSyncAssumption
  <1>1. Everywhere(Absent) \in Contents /\ Everywhere(1) \in Contents
    BY DEF Everywhere, Contents, Absent
  <1>2. NoInfo \in Infos
    BY DEF NoInfo, Infos, Unknown, None
  <1>3. Gone \in Process
    BY DEF Gone, Process, Absent
  <1> QED
    BY <1>1, <1>2, <1>3

LEMMA PlainTypes ==
  \A k \in {"reload_after_sync", "clear_directories", "register_master"} :
    Plain(k) \in Messages
  <1>1. 0 \in 0..MaxBuilds
    BY MonSyncAssumption
  <1> QED
    BY <1>1, ContentTypes DEF Plain, Messages

LEMMA MessageTypes ==
  ASSUME NEW v \in 0..MaxBuilds, NEW c \in Contents
  PROVE  Sync(v) \in Messages /\ Bulk(v, c) \in Messages
  BY ContentTypes DEF Sync, Bulk, Messages

LEMMA SeqTypes ==
  ASSUME NEW S, NEW s \in Seq(S), NEW t \in Seq(S), NEW x \in S
  PROVE  s \o t \in Seq(S) /\ Append(s, x) \in Seq(S)
  OBVIOUS

LEMMA HeadTail ==
  ASSUME NEW S, NEW s \in Seq(S), s # <<>>
  PROVE  Head(s) \in S /\ Tail(s) \in Seq(S)
  OBVIOUS

LEMMA SendTypes ==
  ASSUME NEW v \in 0..MaxBuilds, NEW c \in Contents
  PROVE  SendCommands(v, c) \in Seq(Messages)
  <1>1. Plain("clear_directories") \in Messages /\ Bulk(v, c) \in Messages
    BY MessageTypes, PlainTypes
  <1>2. <<Plain("clear_directories")>> \in Seq(Messages) /\ <<Bulk(v, c)>> \in Seq(Messages)
        /\ <<>> \in Seq(Messages)
    BY <1>1
  <1> QED
    BY <1>2 DEF SendCommands

(* The state of the distribution.                                          *)
DistState == [send : None..MaxBuilds, ok : BOOLEAN, files : SUBSET File,
              created : SUBSET File]

LEMMA EndedTypes ==
  ASSUME NEW d \in DistState, d.created \subseteq d.files
  PROVE  /\ Ended(d) \in DistState
         /\ Ended(d).created \subseteq Ended(d).files
         /\ EndInfo(d) \in Seq({"sync_end"})
  <1>1. <<"sync_end">> \in Seq({"sync_end"}) /\ <<>> \in Seq({"sync_end"})
    OBVIOUS
  <1>2. Ended(d) \in DistState /\ Ended(d).created \subseteq Ended(d).files
    BY DEF Ended, DistState
  <1> QED
    BY <1>1, <1>2 DEF EndInfo

LEMMA StoreResultTypes ==
  ASSUME NEW d \in DistState, d.created \subseteq d.files, NEW report \in Infos
  PROVE  /\ StoreResult(d, report) \in DistState
         /\ StoreResult(d, report).created \subseteq StoreResult(d, report).files
  BY DEF StoreResult, DistState

SlaveState == [disk : Contents, running : Contents, info : Infos,
               stored : BOOLEAN, registered : BOOLEAN, hup : BOOLEAN]

LEMMA StoredTypes ==
  ASSUME NEW s \in SlaveState, NEW m \in Messages, NEW bad
  PROVE  /\ Stored(s, m, bad) \in SlaveState
         /\ Stored(s, m, bad).stored = s.stored
         /\ Stored(s, m, bad).registered = s.registered
  <1> DEFINE new == {f \in Present(m.content) : Renew(s, f, m.version)}
             disk == [f \in File |-> IF f \notin new THEN s.disk[f]
                                     ELSE IF f \in bad THEN Absent ELSE m.content[f]]
             info == [f \in File |-> IF f \notin new THEN s.info[f]
                                     ELSE [version |-> m.version, created |-> f \notin bad]]
  <1>1. Stored(s, m, bad) = [s EXCEPT !.disk = disk, !.info = info]
    BY DEF Stored
  <1>2. m.version \in 0..MaxBuilds /\ m.content \in Contents
    BY DEF Messages
  <1>3. s.disk \in Contents /\ s.info \in Infos
    BY DEF SlaveState
  <1> HIDE DEF new
  <1>4. disk \in Contents
    BY <1>2, <1>3, MonSyncAssumption DEF Contents, Absent
  <1>5. info \in Infos
    <2>1. m.version \in None..MaxBuilds
      BY <1>2, MonSyncAssumption DEF None
    <2> QED
      BY <1>3, <2>1 DEF Infos
  <1> HIDE DEF disk, info
  <1> QED
    BY <1>1, <1>4, <1>5 DEF SlaveState

-----------------------------------------------------------------------------
(* The config server keeps the types.                                      *)
LEMMA TypeConfigServer ==
  ASSUME Inv1,
         (\E mode \in Modes : Rebuild(mode)) \/ MasterStep \/ WorkerStep \/ TakeInfo \/ Invalid
  PROVE  Inv1'
  <1> USE MonSyncAssumption DEF procs, syncer, queues, etc, history
  <1>0. /\ master \in Process /\ worker \in Process /\ builds \in 0..MaxBuilds
        /\ version \in 0..MaxBuilds /\ row \in {0, version} /\ source \in Contents
        /\ toDist \in Seq(Messages) /\ large \subseteq Large
    BY DEF Inv1, TypeOK
  <1>1. ASSUME NEW mode \in Modes, Rebuild(mode) PROVE Inv1'
    <2>0. builds < MaxBuilds /\ builds' = builds + 1 /\ version' = version
      BY <1>1 DEF Rebuild
    <2>1. builds' \in 0..MaxBuilds
      BY <1>0, <2>0
    <2>2. master' \in Process
      BY <1>0, <1>1, ContentTypes DEF Rebuild, Process
    <2>3. worker' \in Process
      BY <1>0, <1>1, ContentTypes DEF Rebuild, Process
    <2>4. VersionInv'
      <3>1. version <= builds
        BY <1>0 DEF Inv1, VersionInv
      <3>2. CASE master.pc = "none"
        BY <1>0, <2>0, <3>1 DEF VersionInv
      <3>3. CASE master.pc # "none"
        <4>1. master' = master
          BY <1>1, <3>3 DEF Rebuild
        <4> QED
          BY <1>0, <2>0, <4>1 DEF Inv1, VersionInv
      <3> QED
        BY <3>2, <3>3
    <2> QED
      BY <1>1, <2>1, <2>2, <2>3, <2>4 DEF Rebuild, Inv1, TypeOK
  <1>2. CASE RoutingOk
    <2>1. master' \in Process /\ master'.pc = "start" /\ master.pc = "routing"
      BY <1>0, <1>2 DEF RoutingOk, Process
    <2>2. worker' \in Process
      <3>1. builds + 1 \in 0..(MaxBuilds + 1)
        BY <1>0
      <3> QED
        BY <1>0, <1>2, <3>1 DEF RoutingOk, Process
    <2>3. VersionInv'
      BY <1>2, <2>1 DEF RoutingOk, Inv1, VersionInv
    <2> QED
      BY <1>2, <2>1, <2>2, <2>3 DEF RoutingOk, Inv1, TypeOK
  <1>3. CASE StartBuild
    <2>1. master' \in Process /\ master'.pc = "end" /\ master.pc = "start"
      BY <1>0, <1>3 DEF StartBuild, Process
    <2>2. version' \in 0..MaxBuilds /\ row' \in {0, version'} /\ version' <= builds
      BY <1>0, <1>3 DEF StartBuild, Inv1, VersionInv
    <2>3. VersionInv'
      BY <1>3, <2>1, <2>2, <1>0 DEF StartBuild, VersionInv
    <2> QED
      BY <1>3, <2>1, <2>2, <2>3 DEF StartBuild, Inv1, TypeOK
  <1>4. CASE EndBuild
    <2>1. master' \in Process /\ master'.pc = "none" /\ master.pc = "end"
      BY <1>4, ContentTypes DEF EndBuild, Gone
    <2>2. toDist' \in Seq(Messages)
      <3>1. Plain("reload_after_sync") \in Messages
        BY PlainTypes
      <3> QED
        BY <1>0, <1>4, <3>1 DEF EndBuild
    <2>3. VersionInv'
      BY <1>4, <2>1 DEF EndBuild, Inv1, VersionInv
    <2> QED
      BY <1>4, <2>1, <2>2, <2>3 DEF EndBuild, Inv1, TypeOK
  <1>5. ASSUME NEW f \in File, WriteContent(f) PROVE Inv1'
    <2>1. worker' \in Process
      BY <1>0, <1>5 DEF WriteContent, Process
    <2>2. source' \in Contents
      <3>1. worker.content \in 0..(MaxBuilds + 1) /\ Absent \in 0..(MaxBuilds + 1)
        BY <1>0 DEF Process, Absent
      <3> QED
        BY <1>0, <1>5, <3>1 DEF WriteContent, Contents
    <2>3. large' \subseteq Large
      BY <1>0, <1>5 DEF WriteContent
    <2> QED
      BY <1>5, <2>1, <2>2, <2>3 DEF WriteContent, Inv1, TypeOK, VersionInv
  <1>6. CASE SyncSlave
    <2>1. toDist' \in Seq(Messages)
      <3>1. Sync(version) \in Messages
        BY <1>0, MessageTypes
      <3> QED
        BY <1>0, <1>6, <3>1 DEF SyncSlave
    <2> QED
      BY <1>6, <2>1, ContentTypes DEF SyncSlave, Inv1, TypeOK, VersionInv
  <1>7. CASE TakeInfo
    BY <1>7 DEF TakeInfo, Inv1, TypeOK, VersionInv
  <1>8. CASE Invalid
    <2>1. faults' \in 0..MaxFaults
      BY <1>8 DEF Invalid, Inv1, TypeOK
    <2> QED
      BY <1>8, <2>1, ContentTypes DEF Invalid, Inv1, TypeOK, VersionInv
  <1> QED
    BY <1>1, <1>2, <1>3, <1>4, <1>5, <1>6, <1>7, <1>8 DEF MasterStep, WorkerStep

(* A distribution that is given up waits for files nobody was sent.        *)
LEMMA GivenUp ==
  ASSUME Inv1, SyncSlaveAborted
  PROVE  /\ dist' \in DistState /\ dist'.created = {} /\ dist'.files # {}
         /\ dist'.ok = FALSE /\ dist'.send # None /\ unsent' = TRUE
         /\ UNCHANGED <<toSlave, sent, source, slave, worker, toMaster, toConfig, faults,
                        row, unsynced>>
         /\ toDist' = Tail(toDist)
  <1>1. Head(toDist).version \in 0..MaxBuilds
    <2>1. Head(toDist) \in Messages
      BY HeadTail DEF SyncSlaveAborted, Inv1, TypeOK
    <2> QED
      BY <2>1 DEF Messages
  <1>2. large \subseteq File /\ Present(source) \subseteq File
    BY MonSyncAssumption DEF Inv1, TypeOK, Present
  <1>3. PICK f \in large, walked \in SUBSET (Present(source) \ large) :
          dist' = [send |-> Head(toDist).version, ok |-> FALSE,
                   files |-> walked \cup {f}, created |-> {}]
    BY DEF SyncSlaveAborted
  <1>4. Head(toDist).version \in None..MaxBuilds /\ Head(toDist).version # None
    BY <1>1, MonSyncAssumption DEF None
  <1>5. dist' \in DistState
    BY <1>2, <1>3, <1>4 DEF DistState
  <1> QED
    BY <1>3, <1>4, <1>5 DEF SyncSlaveAborted, procs, syncer, etc

(* So does the distribution master ...                                     *)
LEMMA TypeDist ==
  ASSUME Inv1, DistStep \/ SendRegister \/ DistRestart
  PROVE  Inv1'
  <1> USE MonSyncAssumption DEF procs, syncer, queues, etc, history
  <1>0. /\ source \in Contents /\ dist \in DistState /\ dist.created \subseteq dist.files
        /\ toDist \in Seq(Messages) /\ toSlave \in Seq(Messages) /\ sent \in Seq(Messages)
        /\ toMaster \in Seq(Infos) /\ toConfig \in Seq({"sync_end"})
    BY DEF Inv1, TypeOK, DistState
  <1>1. CASE HandleSyncSlave
    <2> DEFINE v == Head(toDist).version
               d == [send |-> v, ok |-> FALSE, files |-> Present(source), created |-> {}]
    <2>1. v \in 0..MaxBuilds /\ toDist' \in Seq(Messages)
      <3>1. Head(toDist) \in Messages /\ Tail(toDist) \in Seq(Messages)
        BY <1>0, <1>1, HeadTail DEF HandleSyncSlave
      <3> QED
        BY <1>1, <3>1 DEF HandleSyncSlave, Messages
    <2>2. d \in DistState /\ d.created \subseteq d.files
      BY <2>1 DEF DistState, Present, None
    <2>3. /\ dist' = Ended(d) /\ toSlave' = toSlave \o SendCommands(v, source)
          /\ toConfig' = toConfig \o EndInfo(d) /\ sent' = Append(sent, Bulk(v, source))
      BY <1>1 DEF HandleSyncSlave
    <2> HIDE DEF d, v
    <2>4. dist' \in DistState /\ dist'.created \subseteq dist'.files
      BY <2>2, <2>3, EndedTypes
    <2>5. toSlave' \in Seq(Messages)
      BY <1>0, <2>1, <2>3, SendTypes
    <2>6. toConfig' \in Seq({"sync_end"})
      <3>1. EndInfo(d) \in Seq({"sync_end"})
        BY <2>2, EndedTypes
      <3> QED
        BY <1>0, <2>3, <3>1, SeqTypes
    <2>7. sent' \in Seq(Messages)
      <3>1. Bulk(v, source) \in Messages
        BY <1>0, <2>1, MessageTypes
      <3> QED
        BY <1>0, <2>3, <3>1, SeqTypes
    <2>8. unsent' \in BOOLEAN
      BY <1>1 DEF HandleSyncSlave
    <2> QED
      BY <1>1, <2>1, <2>4, <2>5, <2>6, <2>7, <2>8
         DEF HandleSyncSlave, Inv1, TypeOK, VersionInv, DistState
  <1>2. CASE HandleReload
    <2>1. toDist' \in Seq(Messages)
      BY <1>0, <1>2, HeadTail DEF HandleReload
    <2>2. toSlave' \in Seq(Messages)
      <3>1. Plain("reload_after_sync") \in Messages
        BY PlainTypes
      <3> QED
        BY <1>0, <1>2, <3>1 DEF HandleReload
    <2> QED
      BY <1>2, <2>1, <2>2 DEF HandleReload, Inv1, TypeOK, VersionInv
  <1>3. CASE HandleSatelliteInfo
    <2> DEFINE d == StoreResult(dist, Head(toMaster))
    <2>1. Head(toMaster) \in Infos /\ toMaster' \in Seq(Infos)
      BY <1>0, <1>3, HeadTail DEF HandleSatelliteInfo
    <2>2. d \in DistState /\ d.created \subseteq d.files
      BY <1>0, <2>1, StoreResultTypes
    <2>3. \/ UNCHANGED <<dist, toConfig>>
          \/ dist' = Ended(d) /\ toConfig' = toConfig \o EndInfo(d)
      BY <1>3 DEF HandleSatelliteInfo
    <2> HIDE DEF d
    <2>4. dist' \in DistState /\ dist'.created \subseteq dist'.files
      BY <1>0, <2>2, <2>3, EndedTypes
    <2>5. toConfig' \in Seq({"sync_end"})
      <3>1. EndInfo(d) \in Seq({"sync_end"})
        BY <2>2, EndedTypes
      <3> QED
        BY <1>0, <2>3, <3>1, SeqTypes
    <2> QED
      BY <1>3, <2>1, <2>4, <2>5 DEF HandleSatelliteInfo, Inv1, TypeOK, VersionInv, DistState
  <1>4. CASE SendRegister
    <2>1. toSlave' \in Seq(Messages)
      <3>1. Plain("register_master") \in Messages
        BY PlainTypes
      <3> QED
        BY <1>0, <1>4, <3>1 DEF SendRegister
    <2> QED
      BY <1>4, <2>1 DEF SendRegister, Inv1, TypeOK, VersionInv
  <1>5. CASE DistRestart
    <2>1. DistStart \in DistState /\ DistStart.created \subseteq DistStart.files
      BY DEF DistStart, DistState, None
    <2>2. faults' \in 0..MaxFaults
      BY <1>5 DEF DistRestart, Inv1, TypeOK
    <2> QED
      BY <1>5, <2>1, <2>2 DEF DistRestart, Inv1, TypeOK, VersionInv, DistState
  <1>6. CASE SyncSlaveAborted
    <2>1. Head(toDist).version \in 0..MaxBuilds /\ toDist' \in Seq(Messages)
      <3>1. Head(toDist) \in Messages /\ Tail(toDist) \in Seq(Messages)
        BY <1>0, <1>6, HeadTail DEF SyncSlaveAborted
      <3> QED
        BY <1>6, <3>1 DEF SyncSlaveAborted, Messages
    <2>2. dist' \in DistState /\ dist'.created \subseteq dist'.files
      BY <1>6, GivenUp
    <2>3. unsent' \in BOOLEAN
      BY <1>6 DEF SyncSlaveAborted
    <2> QED
      BY <1>6, <2>1, <2>2, <2>3 DEF SyncSlaveAborted, Inv1, TypeOK, VersionInv, DistState
  <1> QED
    BY <1>1, <1>2, <1>3, <1>4, <1>5, <1>6 DEF DistStep

(* ... and the slave.                                                      *)
LEMMA TypeSlave ==
  ASSUME Inv1, SlaveStep \/ DaemonReads \/ SlaveRestart \/ Lose
  PROVE  Inv1'
  <1> USE MonSyncAssumption DEF procs, syncer, queues, etc, history
  <1>0. /\ slave \in SlaveState /\ (slave.registered => slave.stored)
        /\ toSlave \in Seq(Messages) /\ toMaster \in Seq(Infos) /\ faults \in 0..MaxFaults
    BY DEF Inv1, TypeOK, SlaveState
  <1>1. ASSUME NEW s \in SlaveState PROVE Reported(s) \in Seq(Infos)
    BY <1>0, <1>1 DEF Reported, SlaveState
  <1>2. ASSUME slave' \in SlaveState, slave'.registered => slave'.stored,
               toMaster' \in Seq(Infos), faults' \in 0..MaxFaults,
               \E kind \in {"clear_directories", "file_content_bulk", "reload_after_sync",
                            "register_master"} : Handle(kind)
        PROVE  Inv1'
    <2>1. toSlave' \in Seq(Messages)
      BY <1>0, <1>2, HeadTail DEF Handle
    <2> QED
      BY <1>2, <2>1 DEF Handle, Inv1, TypeOK, VersionInv, SlaveState
  <1>3. CASE ClearDirectories
    <2>1. slave' \in SlaveState /\ (slave'.registered => slave'.stored)
      BY <1>0, <1>3, ContentTypes DEF ClearDirectories, Cleared, SlaveState
    <2> QED
      BY <1>0, <1>1, <1>2, <1>3, <2>1 DEF ClearDirectories
  <1>4. CASE FileContentBulk
    <2>1. Head(toSlave) \in Messages
      BY <1>0, <1>4, HeadTail DEF FileContentBulk, Handle
    <2>2. PICK bad : slave' = Stored(slave, Head(toSlave), bad)
      BY <1>4 DEF FileContentBulk
    <2>3. slave' \in SlaveState /\ (slave'.registered => slave'.stored)
      BY <1>0, <2>1, <2>2, StoredTypes
    <2>4. faults' \in 0..MaxFaults
      BY <1>0, <1>4 DEF FileContentBulk
    <2> QED
      BY <1>1, <1>2, <1>4, <2>3, <2>4 DEF FileContentBulk
  <1>5. CASE ReloadAfterSync
    <2>1. slave' \in SlaveState /\ (slave'.registered => slave'.stored)
      BY <1>0, <1>5 DEF ReloadAfterSync, SlaveState
    <2> QED
      BY <1>0, <1>2, <1>5, <2>1 DEF ReloadAfterSync
  <1>6. CASE RegisterMaster
    <2>1. slave' \in SlaveState /\ (slave'.registered => slave'.stored)
      BY <1>0, <1>6 DEF RegisterMaster, SlaveState
    <2> QED
      BY <1>0, <1>2, <1>6, <2>1 DEF RegisterMaster
  <1>7. CASE SlaveRestart
    <2>1. slave' \in SlaveState /\ (slave'.registered => slave'.stored)
      BY <1>0, <1>7, ContentTypes DEF SlaveRestart, SlaveState
    <2>2. toMaster' \in Seq(Infos) /\ faults' \in 0..MaxFaults
      BY <1>0, <1>1, <1>7, <2>1 DEF SlaveRestart
    <2> QED
      BY <1>7, <2>1, <2>2 DEF SlaveRestart, Inv1, TypeOK, VersionInv, SlaveState
  <1>8. CASE Lose
    <2>1. toSlave' \in Seq(Messages) /\ toMaster' \in Seq(Infos) /\ faults' \in 0..MaxFaults
      <3>1. /\ toSlave' = toSlave \/ (toSlave # <<>> /\ toSlave' = Tail(toSlave))
            /\ toMaster' = toMaster \/ (toMaster # <<>> /\ toMaster' = Tail(toMaster))
            /\ faults < MaxFaults /\ faults' = faults + 1
        BY <1>8 DEF Lose
      <3>2. toSlave' \in Seq(Messages)
        BY <1>0, <3>1, HeadTail
      <3>3. toMaster' \in Seq(Infos)
        BY <1>0, <3>1, HeadTail
      <3>4. faults' \in 0..MaxFaults
        BY <1>0, <3>1
      <3> QED
        BY <3>2, <3>3, <3>4
    <2> QED
      BY <1>8, <2>1 DEF Lose, Inv1, TypeOK, VersionInv
  <1>9. CASE DaemonReads
    <2>1. slave' \in SlaveState /\ (slave'.registered => slave'.stored)
      BY <1>0, <1>9 DEF DaemonReads, SlaveState
    <2> QED
      BY <1>9, <2>1 DEF DaemonReads, Inv1, TypeOK, VersionInv, SlaveState
  <1> QED
    BY <1>3, <1>4, <1>5, <1>6, <1>7, <1>8, <1>9 DEF SlaveStep

LEMMA TypeInit == Init => Inv1
  <1> SUFFICES ASSUME Init PROVE Inv1
    OBVIOUS
  <1> USE MonSyncAssumption
  <1>1. dist \in DistState /\ dist.created \subseteq dist.files
    BY DEF Init, DistStart, DistState, None
  <1>2. slave \in SlaveState /\ (slave.registered => slave.stored)
    BY ContentTypes DEF Init, SlaveState
  <1>3. version = 0 /\ builds = 0 /\ master.pc = "none"
    BY DEF Init, Gone
  <1>4. /\ toDist \in Seq(Messages) /\ toSlave \in Seq(Messages) /\ sent \in Seq(Messages)
        /\ toMaster \in Seq(Infos) /\ toConfig \in Seq({"sync_end"})
    BY DEF Init
  <1>5. VersionInv
    BY <1>3 DEF VersionInv
  <1>6. /\ master \in Process /\ worker \in Process /\ builds \in 0..MaxBuilds
        /\ version \in 0..MaxBuilds /\ row \in {0, version} /\ source \in Contents
        /\ faults \in 0..MaxFaults /\ large \subseteq Large
    <2>1. /\ master = Gone /\ worker = Gone /\ builds = 0 /\ version = 0 /\ row = 0
          /\ source = Everywhere(1) /\ faults = 0 /\ large = {}
      BY DEF Init
    <2> QED
      BY <2>1, ContentTypes
  <1>7. unsynced \in BOOLEAN /\ unsent \in BOOLEAN
    BY DEF Init
  <1> QED
    BY <1>1, <1>2, <1>4, <1>5, <1>6, <1>7
       DEF Inv1, TypeOK, DistState, SlaveState

LEMMA TypeStep == Inv1 /\ [Next]_vars => Inv1'
  <1> SUFFICES ASSUME Inv1, [Next]_vars PROVE Inv1'
    OBVIOUS
  <1>1. CASE UNCHANGED vars
    BY <1>1 DEF vars, procs, syncer, queues, etc, history, Inv1, TypeOK, VersionInv
  <1> QED
    BY <1>1, TypeConfigServer, TypeDist, TypeSlave DEF Next

(* Types: in particular an open row always has the version the syncer last *)
(* heard of, and there are at most as many versions as build requests.     *)
THEOREM TypeCorrect == Spec => []TypeOK
  <1>1. Inv1 => TypeOK
    BY DEF Inv1
  <1> QED
    BY <1>1, TypeInit, TypeStep, PTL DEF Spec
-----------------------------------------------------------------------------
(* The last configuration the distribution master has read and sent.       *)
LastSent == sent[Len(sent)]
LastContent == IF sent = <<>> THEN Everywhere(1) ELSE LastSent.content

Bulks == {i \in DOMAIN toSlave : toSlave[i].kind = "file_content_bulk"}
Clears == {i \in DOMAIN toSlave : toSlave[i].kind = "clear_directories"}

(* The slave's directory on the distribution master is never without a     *)
(* mandatory file.                                                         *)
SourceFull ==
  /\ \A f \in File \ Optional : source[f] # Absent
  /\ worker.pc = "write" => worker.content # Absent

(* What is on its way to the slave was sent, and ends with what was sent   *)
(* last, whatever was lost before; the distribution is about that one      *)
(* unless it was given up.                                                 *)
QueueInv ==
  /\ \A k \in DOMAIN sent : sent[k].kind = "file_content_bulk"
  /\ \A i \in Bulks : \E k \in DOMAIN sent : toSlave[i] = sent[k]
  /\ \A i \in Bulks \cup Clears :
       sent # <<>> /\ \E j \in DOMAIN toSlave : j >= i /\ toSlave[j] = LastSent
  /\ dist.send # None /\ ~unsent => sent # <<>> /\ dist.send = LastSent.version
  /\ dist.ok <=> dist.files = {}
  /\ ~dist.ok => dist.send # None /\ (~unsent => dist.files = Present(LastContent))

Inv2 == Inv1 /\ SourceFull /\ QueueInv

(***************************************************************************)
(* Without faults: files are always preceded by the clearing of the        *)
(* directories; the slave has, or will have, what was sent last, which is  *)
(* what is on the distribution master unless a build is writing or its     *)
(* request is on the way, or the last distribution was given up.           *)
(***************************************************************************)
PairInv ==
  /\ \A i \in Bulks : IF i = 1 THEN slave.disk = Everywhere(Absent) /\ slave.info = NoInfo
                      ELSE i - 1 \in Clears
  /\ \A i \in Clears : i + 1 \in Bulks

NoSync == \A i \in DOMAIN toDist : toDist[i].kind # "sync_slave"

SourceInv ==
  (worker.pc # "write" \/ worker.todo = File) /\ NoSync /\ ~unsent
    => source = LastContent

DiskInv == Bulks = {} => slave.disk = LastContent

Whole == {Everywhere(1)} \cup {sent[i].content : i \in DOMAIN sent}
WholeInv == 1 \notin Bulks => slave.disk \in Whole

(* A distribution that has not ended: the files are still on their way, or *)
(* the last report on its way tells of all of them.                        *)
AllCreated(report) ==
  \A f \in dist.files : report[f] = [version |-> dist.send, created |-> TRUE]
AckInv ==
  slave.registered /\ ~dist.ok /\ ~unsent =>
    Bulks # {} \/ (toMaster # <<>> /\ AllCreated(toMaster[Len(toMaster)]))

(* A row is open until its distribution has ended.                         *)
RowInv == row # 0 /\ ~unsynced => ~NoSync \/ ~dist.ok \/ toConfig # <<>>

FaultFree == PairInv /\ SourceInv /\ DiskInv /\ WholeInv /\ AckInv /\ RowInv
Inv3 == Inv2 /\ (faults = 0 => FaultFree)

(***************************************************************************)
(* With faults: what the slave, its reports and the distribution master    *)
(* say about a version that was sent once is true of the slave's files,    *)
(* and nobody knows of a version whose files are still on their way.       *)
(***************************************************************************)
Known(info) == \A f \in File : info[f].version = None
                 \/ \E k \in DOMAIN sent : sent[k].version = info[f].version
KnownInv == Known(slave.info) /\ \A r \in DOMAIN toMaster : Known(toMaster[r])

Once == sent # <<>> /\ \A k \in 1..(Len(sent) - 1) : sent[k].version # LastSent.version

Ignorant(info) == \A f \in File : info[f].version # LastSent.version
Unheard ==
  /\ Ignorant(slave.info)
  /\ \A r \in DOMAIN toMaster : Ignorant(toMaster[r])
  /\ dist.send # None /\ ~unsent => ~dist.ok /\ dist.created = {}

Kept(f) == f \in Present(LastContent) => slave.disk[f] = LastContent[f]
Truthful(info) ==
  \A f \in File :
    info[f] = [version |-> LastSent.version, created |-> TRUE] => Kept(f)
SoundInv ==
  Once => /\ \A i, j \in Bulks :
               (toSlave[i].version = LastSent.version
                  /\ toSlave[j].version = LastSent.version) => i = j
          /\ Bulks \cup Clears # {} => Unheard
          /\ Truthful(slave.info)
          /\ \A r \in DOMAIN toMaster : Truthful(toMaster[r])
          /\ dist.send # None /\ ~unsent => \A f \in dist.created : Kept(f)
          /\ dist.send # None /\ ~unsent /\ dist.ok => \A f \in File : Kept(f)
Inv4 == Inv2 /\ KnownInv /\ SoundInv

-----------------------------------------------------------------------------
(* How the messages on their way to the slave change.                      *)
LEMMA Taken ==
  ASSUME toSlave \in Seq(Messages), toSlave # <<>>, toSlave' = Tail(toSlave)
  PROVE  /\ Len(toSlave) \in Nat \ {0} /\ Len(toSlave') = Len(toSlave) - 1
         /\ DOMAIN toSlave' = 1..(Len(toSlave) - 1) /\ DOMAIN toSlave = 1..Len(toSlave)
         /\ \A i \in DOMAIN toSlave' : toSlave'[i] = toSlave[i + 1]
         /\ Bulks' = {i \in DOMAIN toSlave' : i + 1 \in Bulks}
         /\ Clears' = {i \in DOMAIN toSlave' : i + 1 \in Clears}
         /\ Head(toSlave) = toSlave[1]
  <1>1. /\ Len(toSlave) \in Nat \ {0} /\ Len(toSlave') = Len(toSlave) - 1
        /\ DOMAIN toSlave' = 1..(Len(toSlave) - 1) /\ DOMAIN toSlave = 1..Len(toSlave)
        /\ Head(toSlave) = toSlave[1]
    OBVIOUS
  <1>2. \A i \in DOMAIN toSlave' : toSlave'[i] = toSlave[i + 1] /\ i + 1 \in DOMAIN toSlave
    OBVIOUS
  <1> QED
    BY <1>1, <1>2 DEF Bulks, Clears

LEMMA Added ==
  ASSUME toSlave \in Seq(Messages), NEW k \in {"reload_after_sync", "register_master"},
         toSlave' = Append(toSlave, Plain(k))
  PROVE  /\ DOMAIN toSlave' = 1..(Len(toSlave) + 1) /\ Len(toSlave) \in Nat
         /\ \A i \in DOMAIN toSlave : toSlave'[i] = toSlave[i] /\ i \in DOMAIN toSlave'
         /\ Bulks' = Bulks /\ Clears' = Clears
  <1>1. /\ DOMAIN toSlave' = 1..(Len(toSlave) + 1) /\ Len(toSlave) \in Nat
        /\ DOMAIN toSlave = 1..Len(toSlave)
        /\ toSlave'[Len(toSlave) + 1] = Plain(k)
    OBVIOUS
  <1>2. \A i \in DOMAIN toSlave : toSlave'[i] = toSlave[i] /\ i \in DOMAIN toSlave'
    OBVIOUS
  <1>3. Plain(k).kind = k
    BY DEF Plain
  <1>4. \A i \in DOMAIN toSlave' : i \in DOMAIN toSlave \/ toSlave'[i].kind = k
    BY <1>1, <1>3
  <1> QED
    BY <1>1, <1>2, <1>4 DEF Bulks, Clears

LEMMA ConcatTwo ==
  ASSUME NEW S, NEW s \in Seq(S), NEW t \in Seq(S), Len(t) = 2
  PROVE  /\ Len(s) \in Nat /\ DOMAIN s = 1..Len(s) /\ DOMAIN (s \o t) = 1..(Len(s) + 2)
         /\ \A i \in 1..Len(s) : (s \o t)[i] = s[i]
         /\ (s \o t)[Len(s) + 1] = t[1] /\ (s \o t)[Len(s) + 2] = t[2]
  <1>1. Len(s) \in Nat /\ DOMAIN s = 1..Len(s)
    OBVIOUS
  <1>2. /\ s \o t \in Seq(S) /\ Len(s \o t) = Len(s) + 2
        /\ \A i \in 1..(Len(s) + 2) :
             (s \o t)[i] = IF i <= Len(s) THEN s[i] ELSE t[i - Len(s)]
    <2>1. /\ s \o t \in Seq(S) /\ Len(s \o t) = Len(s) + Len(t)
          /\ \A i \in 1..(Len(s) + Len(t)) :
               (s \o t)[i] = IF i <= Len(s) THEN s[i] ELSE t[i - Len(s)]
      BY ConcatProperties, Zenon
    <2> QED
      BY <2>1, Zenon
  <1>3. DOMAIN (s \o t) = 1..(Len(s) + 2)
    BY <1>2, LenProperties
  <1> DEFINE n == Len(s)
             r == s \o t
  <1> HIDE DEF n, r
  <1> QED
    BY <1>1, <1>2, <1>3 DEF n, r

LEMMA SentAway ==
  ASSUME toSlave \in Seq(Messages), NEW v, Present(source) # {},
         toSlave' = toSlave \o SendCommands(v, source)
  PROVE  LET n == Len(toSlave)
         IN  /\ n \in Nat /\ DOMAIN toSlave' = 1..(n + 2) /\ DOMAIN toSlave = 1..n
             /\ \A i \in DOMAIN toSlave : toSlave'[i] = toSlave[i]
             /\ Clears' = Clears \cup {n + 1} /\ Bulks' = Bulks \cup {n + 2}
             /\ toSlave'[n + 2] = Bulk(v, source)
  <1> DEFINE n == Len(toSlave)
             two == SendCommands(v, source)
             S == {Plain("clear_directories"), Bulk(v, source)} \cup Messages
  <1>1. /\ two \in Seq(S) /\ Len(two) = 2
        /\ two[1] = Plain("clear_directories") /\ two[2] = Bulk(v, source)
    <2>1. ASSUME NEW a \in S, NEW b \in S
          PROVE  LET s == <<a>> \o <<b>>
                 IN s \in Seq(S) /\ Len(s) = 2 /\ s[1] = a /\ s[2] = b
      OBVIOUS
    <2>2. two = <<Plain("clear_directories")>> \o <<Bulk(v, source)>>
      BY DEF SendCommands
    <2> HIDE DEF two
    <2> QED
      BY <2>1, <2>2
  <1> HIDE DEF two
  <1>2. /\ n \in Nat /\ DOMAIN toSlave = 1..n /\ DOMAIN (toSlave \o two) = 1..(n + 2)
        /\ \A i \in 1..n : (toSlave \o two)[i] = toSlave[i]
        /\ (toSlave \o two)[n + 1] = Plain("clear_directories")
        /\ (toSlave \o two)[n + 2] = Bulk(v, source)
    <2>1. toSlave \in Seq(S)
      OBVIOUS
    <2> HIDE DEF S
    <2> QED
      BY <1>1, <2>1, ConcatTwo
  <1>3. Plain("clear_directories").kind = "clear_directories"
        /\ Bulk(v, source).kind = "file_content_bulk"
    BY DEF Plain, Bulk
  <1>4. /\ DOMAIN toSlave' = 1..(n + 2)
        /\ \A i \in 1..n : toSlave'[i] = toSlave[i]
        /\ toSlave'[n + 1].kind = "clear_directories"
        /\ toSlave'[n + 2].kind = "file_content_bulk" /\ toSlave'[n + 2] = Bulk(v, source)
    BY <1>2, <1>3 DEF two
  <1> HIDE DEF n
  <1>5. \A i : i \in 1..(n + 2) <=> i \in 1..n \/ i = n + 1 \/ i = n + 2
    BY <1>2
  <1>6. Clears' = Clears \cup {n + 1} /\ Bulks' = Bulks \cup {n + 2}
    BY <1>2, <1>4, <1>5 DEF Bulks, Clears
  <1> QED
    BY <1>2, <1>4, <1>6 DEF n

LEMMA SourcePresent ==
  ASSUME SourceFull
  PROVE  Present(source) # {}
  <1>1. PICK f \in File : f \notin Optional
    BY MonSyncAssumption
  <1> QED
    BY <1>1 DEF SourceFull, Present

-----------------------------------------------------------------------------
(* The files of the slave on the distribution master: written one by one,  *)
(* never removed when they are mandatory.                                  *)
LEMMA SourceFullStep == Inv1 /\ SourceFull /\ [Next]_vars => SourceFull'
  <1> SUFFICES ASSUME Inv1, SourceFull, [Next]_vars PROVE SourceFull'
    OBVIOUS
  <1> USE DEF procs, syncer, queues, etc, history
  <1>0. worker \in Process /\ builds \in Nat /\ source \in Contents
    BY MonSyncAssumption DEF Inv1, TypeOK
  <1>1. CASE UNCHANGED <<source, worker>>
    BY <1>1 DEF SourceFull
  <1>2. ASSUME NEW mode \in Modes, Rebuild(mode) PROVE SourceFull'
    <2>1. source' = source /\ (worker' = worker \/ worker'.pc = "waiting")
      BY <1>2 DEF Rebuild, Gone
    <2> QED
      BY <2>1 DEF SourceFull
  <1>3. CASE RoutingOk
    <2>1. source' = source /\ (worker' = worker \/ worker'.content = builds + 1)
      BY <1>0, <1>3 DEF RoutingOk, Process
    <2> QED
      BY <1>0, <2>1 DEF SourceFull, Absent
  <1>4. ASSUME NEW f \in File, WriteContent(f) PROVE SourceFull'
    <2>1. worker'.pc = "write" /\ worker'.content = worker.content /\ worker.content # Absent
      BY <1>0, <1>4 DEF WriteContent, Process, SourceFull
    <2>2. \A g \in File \ Optional : source'[g] # Absent
      BY <1>0, <1>4, <2>1 DEF WriteContent, Contents, SourceFull
    <2> QED
      BY <2>1, <2>2 DEF SourceFull
  <1>5. CASE SyncSlave \/ Invalid
    BY <1>5 DEF SyncSlave, Invalid, SourceFull, Gone
  <1>6. CASE StartBuild \/ EndBuild \/ TakeInfo \/ DistStep \/ SlaveStep \/ SendRegister
             \/ DaemonReads \/ DistRestart \/ SlaveRestart \/ Lose \/ UNCHANGED vars
    <2>1. UNCHANGED <<source, worker>>
      BY <1>6 DEF StartBuild, EndBuild, TakeInfo, DistStep, SlaveStep, SendRegister,
              DaemonReads, DistRestart, SlaveRestart, Lose, vars, HandleSyncSlave,
              SyncSlaveAborted, HandleReload,
              HandleSatelliteInfo, ClearDirectories, FileContentBulk, ReloadAfterSync,
              RegisterMaster, Handle
    <2> QED
      BY <1>1, <2>1
  <1> QED
    BY <1>2, <1>3, <1>4, <1>5, <1>6 DEF Next, MasterStep, WorkerStep

(* A distribution begins.                                                  *)
LEMMA Begins ==
  ASSUME Inv1, SourceFull, HandleSyncSlave
  PROVE  LET v == Head(toDist).version
         IN  /\ v \in 0..MaxBuilds
             /\ toSlave' = toSlave \o SendCommands(v, source)
             /\ sent' = Append(sent, Bulk(v, source)) /\ toConfig' = toConfig
             /\ dist' = [send |-> v, ok |-> FALSE, files |-> Present(source), created |-> {}]
             /\ UNCHANGED <<source, slave, worker, toMaster, faults, row, unsynced>>
             /\ toDist' = Tail(toDist) /\ unsent' = FALSE
  <1> DEFINE v == Head(toDist).version
             d == [send |-> v, ok |-> FALSE, files |-> Present(source), created |-> {}]
  <1>1. v \in 0..MaxBuilds
    <2>1. Head(toDist) \in Messages
      BY HeadTail DEF HandleSyncSlave, Inv1, TypeOK
    <2> QED
      BY <2>1 DEF Messages
  <1>2. ~Complete(d)
    BY SourcePresent DEF Complete
  <1>3. /\ dist' = Ended(d) /\ toSlave' = toSlave \o SendCommands(v, source)
        /\ toConfig' = toConfig \o EndInfo(d) /\ sent' = Append(sent, Bulk(v, source))
        /\ UNCHANGED <<source, slave, worker, toMaster, faults, row, unsynced>>
        /\ toDist' = Tail(toDist) /\ unsent' = FALSE
    BY DEF HandleSyncSlave, procs, syncer, etc
  <1> HIDE DEF d
  <1>4. dist' = d /\ EndInfo(d) = <<>>
    BY <1>2, <1>3 DEF Ended, EndInfo
  <1>5. toConfig' = toConfig
    BY <1>3, <1>4 DEF Inv1, TypeOK
  <1> HIDE DEF v
  <1> QED
    BY <1>1, <1>3, <1>4, <1>5 DEF d, v

(* A report is stored: what the distribution master learns.                *)
LEMMA Learns ==
  ASSUME Inv1, HandleSatelliteInfo
  PROVE  LET d == StoreResult(dist, Head(toMaster))
         IN  /\ UNCHANGED <<toSlave, sent, source, slave, worker, toDist, faults, row, unsynced,
                             unsent>>
             /\ toMaster # <<>> /\ toMaster' = Tail(toMaster)
             /\ d \in DistState /\ d.send = dist.send /\ d.files = dist.files /\ d.ok = dist.ok
             /\ \/ dist.files = {} /\ UNCHANGED <<dist, toConfig>>
                \/ /\ dist.files # {} /\ d.created # d.files
                   /\ dist' = d /\ toConfig' = toConfig
                \/ /\ dist.files # {} /\ d.created = d.files
                   /\ dist' = [d EXCEPT !.ok = TRUE, !.files = {}, !.created = {}]
                   /\ toConfig' = toConfig \o <<"sync_end">>
  <1> DEFINE d == StoreResult(dist, Head(toMaster))
  <1>1. dist \in DistState /\ Head(toMaster) \in Infos /\ dist.created \subseteq dist.files
        /\ toConfig \in Seq({"sync_end"})
    BY HeadTail DEF Inv1, TypeOK, DistState, HandleSatelliteInfo
  <1>2. d \in DistState
    BY <1>1, StoreResultTypes
  <1>3. d.send = dist.send /\ d.files = dist.files /\ d.ok = dist.ok
    BY <1>1 DEF StoreResult, DistState
  <1>4. /\ UNCHANGED <<toSlave, sent, source, slave, worker, toDist, faults, row, unsynced,
                             unsent>>
        /\ toMaster # <<>> /\ toMaster' = Tail(toMaster)
        /\ \/ dist.files = {} /\ UNCHANGED <<dist, toConfig>>
           \/ dist.files # {} /\ dist' = Ended(d) /\ toConfig' = toConfig \o EndInfo(d)
    BY DEF HandleSatelliteInfo, procs, syncer, etc, history
  <1> HIDE DEF d
  <1>5. toConfig \o <<>> = toConfig
    BY <1>1
  <1>6. CASE Complete(d)
    BY <1>2, <1>3, <1>4, <1>6 DEF Ended, EndInfo, Complete, d
  <1>7. CASE ~Complete(d)
    BY <1>2, <1>3, <1>4, <1>5, <1>7 DEF Ended, EndInfo, Complete, d
  <1> QED
    BY <1>6, <1>7
(* QueueInv when the slave takes, or loses, its next message ...           *)
LEMMA QueueTaken ==
  ASSUME Inv2, toSlave # <<>>, toSlave' = Tail(toSlave), UNCHANGED <<sent, dist, unsent>>
  PROVE  QueueInv'
  <1>0. toSlave \in Seq(Messages)
    BY DEF Inv2, Inv1, TypeOK
  <1>1. /\ Len(toSlave) \in Nat \ {0} /\ DOMAIN toSlave' = 1..(Len(toSlave) - 1)
        /\ DOMAIN toSlave = 1..Len(toSlave)
        /\ \A i \in DOMAIN toSlave' : toSlave'[i] = toSlave[i + 1]
        /\ Bulks' = {i \in DOMAIN toSlave' : i + 1 \in Bulks}
        /\ Clears' = {i \in DOMAIN toSlave' : i + 1 \in Clears}
    BY <1>0, Taken
  <1>2. LastSent' = LastSent /\ LastContent' = LastContent
    BY DEF LastSent, LastContent
  <1>3. \A i \in Bulks' : \E k \in DOMAIN sent : toSlave'[i] = sent[k]
    BY <1>1 DEF Inv2, QueueInv
  <1>4. ASSUME NEW i \in Bulks' \cup Clears'
        PROVE  sent # <<>> /\ \E j \in DOMAIN toSlave' : j >= i /\ toSlave'[j] = LastSent
    <2>1. i \in DOMAIN toSlave' /\ i + 1 \in Bulks \cup Clears
      BY <1>1, <1>4
    <2>2. sent # <<>>
      BY <2>1 DEF Inv2, QueueInv
    <2>3. PICK j \in DOMAIN toSlave : j >= i + 1 /\ toSlave[j] = LastSent
      BY <2>1 DEF Inv2, QueueInv
    <2>4. j - 1 \in DOMAIN toSlave' /\ j - 1 >= i /\ toSlave'[j - 1] = LastSent
      BY <1>1, <2>1, <2>3
    <2> QED
      BY <2>2, <2>4
  <1> QED
    BY <1>2, <1>3, <1>4 DEF Inv2, QueueInv

(* ... when another message than a configuration is sent ...               *)
LEMMA QueueAdded ==
  ASSUME Inv2, NEW k \in {"reload_after_sync", "register_master"},
         toSlave' = Append(toSlave, Plain(k)), UNCHANGED <<sent, dist, unsent>>
  PROVE  QueueInv'
  <1>1. /\ Bulks' = Bulks /\ Clears' = Clears
        /\ \A i \in DOMAIN toSlave : toSlave'[i] = toSlave[i] /\ i \in DOMAIN toSlave'
    BY Added DEF Inv2, Inv1, TypeOK
  <1>2. LastSent' = LastSent /\ LastContent' = LastContent
    BY DEF LastSent, LastContent
  <1>3. Bulks \subseteq DOMAIN toSlave
    BY DEF Bulks
  <1> QED
    BY <1>1, <1>2, <1>3 DEF Inv2, QueueInv

(* ... and when a configuration is.                                        *)
LEMMA AfterSend ==
  ASSUME Inv2, HandleSyncSlave
  PROVE  LET v == Head(toDist).version
         IN  /\ sent' # <<>> /\ LastSent' = Bulk(v, source) /\ LastContent' = source
             /\ Len(sent) \in Nat /\ Len(sent') = Len(sent) + 1
             /\ DOMAIN sent = 1..Len(sent) /\ DOMAIN sent' = 1..(Len(sent) + 1)
             /\ \A i \in DOMAIN sent : sent'[i] = sent[i]
             /\ sent'[Len(sent) + 1] = Bulk(v, source)
  <1> DEFINE v == Head(toDist).version
  <1>1. sent' = Append(sent, Bulk(v, source)) /\ sent \in Seq(Messages) /\ source' = source
        /\ v \in 0..MaxBuilds /\ source \in Contents
    BY Begins DEF Inv2, Inv1, TypeOK
  <1>2. Bulk(v, source) \in Messages
    BY <1>1, MessageTypes
  <1> HIDE DEF v
  <1>3. /\ Len(sent) \in Nat /\ Len(sent') = Len(sent) + 1
        /\ DOMAIN sent = 1..Len(sent) /\ DOMAIN sent' = 1..(Len(sent) + 1)
        /\ sent'[Len(sent) + 1] = Bulk(v, source) /\ sent' # <<>>
    BY <1>1, <1>2, AppendProperties, LenProperties
  <1>4. \A i \in DOMAIN sent : sent'[i] = sent[i]
    BY <1>1, <1>2, AppendProperties, LenProperties
  <1>5. LastSent' = Bulk(v, source)
    BY <1>3 DEF LastSent
  <1>6. LastContent' = source
    BY <1>1, <1>3, <1>5 DEF LastContent, Bulk
  <1> QED
    BY <1>3, <1>4, <1>5, <1>6 DEF v

LEMMA QueueSent ==
  ASSUME Inv2, HandleSyncSlave
  PROVE  QueueInv'
  <1> DEFINE v == Head(toDist).version
             n == Len(toSlave)
             m == Len(sent)
  <1>0. toSlave' = toSlave \o SendCommands(v, source)
        /\ dist' = [send |-> v, ok |-> FALSE, files |-> Present(source), created |-> {}]
        /\ v \in 0..MaxBuilds
    BY Begins DEF Inv2
  <1>1. /\ n \in Nat /\ DOMAIN toSlave' = 1..(n + 2) /\ DOMAIN toSlave = 1..n
        /\ \A i \in DOMAIN toSlave : toSlave'[i] = toSlave[i]
        /\ Clears' = Clears \cup {n + 1} /\ Bulks' = Bulks \cup {n + 2}
        /\ toSlave'[n + 2] = Bulk(v, source)
    BY <1>0, SentAway, SourcePresent DEF Inv2, Inv1, TypeOK
  <1>2. /\ sent' # <<>> /\ LastSent' = Bulk(v, source) /\ LastContent' = source
        /\ m \in Nat /\ DOMAIN sent = 1..m /\ DOMAIN sent' = 1..(m + 1)
        /\ \A i \in DOMAIN sent : sent'[i] = sent[i]
        /\ sent'[m + 1] = Bulk(v, source)
    BY AfterSend
  <1> HIDE DEF v, n, m
  <1>3. Bulk(v, source).kind = "file_content_bulk" /\ Bulk(v, source).version = v
    BY DEF Bulk
  <1>4. \A k \in DOMAIN sent' : sent'[k].kind = "file_content_bulk"
    BY <1>2, <1>3 DEF Inv2, QueueInv
  <1>5. ASSUME NEW i \in Bulks' PROVE \E k \in DOMAIN sent' : toSlave'[i] = sent'[k]
    <2>1. CASE i = n + 2
      <3>1. m + 1 \in DOMAIN sent' /\ toSlave'[i] = sent'[m + 1]
        BY <1>1, <1>2, <2>1
      <3> QED
        BY <3>1
    <2>2. CASE i \in Bulks
      <3>1. i \in DOMAIN toSlave
        BY <2>2 DEF Bulks
      <3>2. PICK k \in DOMAIN sent : toSlave[i] = sent[k]
        BY <2>2 DEF Inv2, QueueInv
      <3>3. k \in DOMAIN sent' /\ toSlave'[i] = sent'[k]
        BY <1>1, <1>2, <3>1, <3>2
      <3> QED
        BY <3>3
    <2> QED
      BY <1>1, <1>5, <2>1, <2>2
  <1>6. ASSUME NEW i \in Bulks' \cup Clears'
        PROVE  \E j \in DOMAIN toSlave' : j >= i /\ toSlave'[j] = LastSent'
    <2>1. i \in 1..(n + 2)
      BY <1>1, <1>6 DEF Bulks, Clears
    <2>2. n + 2 \in DOMAIN toSlave' /\ n + 2 >= i /\ toSlave'[n + 2] = LastSent'
      BY <1>1, <1>2, <2>1
    <2> QED
      BY <2>2
  <1>7. /\ dist'.send # None => sent' # <<>> /\ dist'.send = LastSent'.version
        /\ dist'.ok <=> dist'.files = {}
        /\ ~dist'.ok => dist'.send # None /\ dist'.files = Present(LastContent')
    <2>1. v # None /\ Present(source) # {}
      BY <1>0, SourcePresent DEF None, Inv2
    <2> QED
      BY <1>0, <1>2, <1>3, <2>1
  <1> QED
    BY <1>2, <1>4, <1>5, <1>6, <1>7 DEF QueueInv, Present

LEMMA QueueStep == Inv2 /\ [Next]_vars => QueueInv'
  <1> SUFFICES ASSUME Inv2, [Next]_vars PROVE QueueInv'
    OBVIOUS
  <1> USE DEF procs, syncer, queues, etc, history
  <1>1. CASE UNCHANGED <<toSlave, sent, dist, unsent>>
    BY <1>1 DEF Inv2, QueueInv, Bulks, Clears, LastSent, LastContent
  <1>2. CASE HandleSyncSlave
    BY <1>2, QueueSent
  <1>3. CASE HandleReload \/ SendRegister
    BY <1>3, QueueAdded DEF HandleReload, SendRegister
  <1>4. CASE HandleSatelliteInfo
    <2> DEFINE d == StoreResult(dist, Head(toMaster))
    <2>1. /\ UNCHANGED <<toSlave, sent, unsent>>
          /\ d \in DistState /\ d.send = dist.send /\ d.files = dist.files /\ d.ok = dist.ok
          /\ \/ UNCHANGED dist
             \/ dist' = d
             \/ dist' = [d EXCEPT !.ok = TRUE, !.files = {}, !.created = {}]
      BY <1>4, Learns DEF Inv2
    <2> HIDE DEF d
    <2>2. /\ dist'.send = dist.send
          /\ \/ dist'.ok = dist.ok /\ dist'.files = dist.files
             \/ dist'.ok = TRUE /\ dist'.files = {}
      <3>1. CASE dist' = [d EXCEPT !.ok = TRUE, !.files = {}, !.created = {}]
        BY <2>1, <3>1 DEF DistState
      <3> QED
        BY <2>1, <3>1
    <2> QED
      BY <2>1, <2>2 DEF Inv2, QueueInv, Bulks, Clears, LastSent, LastContent
  <1>5. CASE DistRestart
    <2>1. /\ UNCHANGED <<toSlave, sent, unsent>> /\ dist'.send = None /\ dist'.ok
          /\ dist'.files = {}
      BY <1>5 DEF DistRestart, DistStart
    <2> QED
      BY <2>1 DEF Inv2, QueueInv, Bulks, Clears, LastSent, LastContent
  <1>6. CASE SlaveStep \/ Lose
    <2>1. UNCHANGED <<sent, dist, unsent>>
      BY <1>6 DEF SlaveStep, ClearDirectories, FileContentBulk, ReloadAfterSync,
              RegisterMaster, Handle, Lose
    <2>2. toSlave' = toSlave \/ (toSlave # <<>> /\ toSlave' = Tail(toSlave))
      BY <1>6 DEF SlaveStep, ClearDirectories, FileContentBulk, ReloadAfterSync,
              RegisterMaster, Handle, Lose
    <2> QED
      BY <1>1, <2>1, <2>2, QueueTaken
  <1>7. CASE (\E mode \in Modes : Rebuild(mode)) \/ MasterStep \/ WorkerStep \/ TakeInfo
             \/ Invalid \/ SlaveRestart \/ DaemonReads \/ UNCHANGED vars
    <2>1. UNCHANGED <<toSlave, sent, dist, unsent>>
      BY <1>7 DEF Rebuild, MasterStep, WorkerStep, TakeInfo, Invalid, SlaveRestart, vars,
              RoutingOk, StartBuild, EndBuild, SyncSlave, WriteContent, DaemonReads
    <2> QED
      BY <1>1, <2>1
  <1>8. CASE SyncSlaveAborted
    <2>1. /\ UNCHANGED <<toSlave, sent>> /\ dist'.files # {} /\ dist'.ok = FALSE
          /\ dist'.send # None /\ unsent' = TRUE
      BY <1>8, GivenUp DEF Inv2
    <2> QED
      BY <2>1 DEF Inv2, QueueInv, Bulks, Clears, LastSent, LastContent
  <1> QED
    BY <1>2, <1>3, <1>4, <1>5, <1>6, <1>7, <1>8 DEF Next, DistStep

LEMMA Inv2Init == Init => Inv2
  <1> SUFFICES ASSUME Init PROVE Inv2
    OBVIOUS
  <1>1. SourceFull
    BY DEF Init, SourceFull, Everywhere, Absent, Gone
  <1>2. Bulks = {} /\ Clears = {}
    BY DEF Init, Bulks, Clears
  <1>3. dist.send = None /\ dist.ok /\ dist.files = {} /\ sent = <<>>
    BY DEF Init, DistStart
  <1> QED
    BY <1>1, <1>2, <1>3, TypeInit DEF Inv2, QueueInv

LEMMA Inv2Step == Inv2 /\ [Next]_vars => Inv2'
  BY TypeStep, SourceFullStep, QueueStep DEF Inv2
-----------------------------------------------------------------------------
(* A step after which there was no fault is not a fault.                   *)
LEMMA NoFault ==
  ASSUME Inv1, [Next]_vars, faults' = 0
  PROVE  faults = 0 /\ ~Invalid /\ ~DistRestart /\ ~SlaveRestart /\ ~Lose
  <1> USE DEF procs, syncer, queues, etc, history
  <1>1. faults \in Nat
    BY MonSyncAssumption DEF Inv1, TypeOK
  <1>2. ~Invalid /\ ~DistRestart /\ ~SlaveRestart /\ ~Lose
    BY <1>1 DEF Invalid, DistRestart, SlaveRestart, Lose
  <1>3. FileContentBulk => faults = 0
    BY <1>1 DEF FileContentBulk
  <1>4. ASSUME ~FileContentBulk PROVE faults = 0
    <2>1. faults' = faults
      BY <1>2, <1>4 DEF Next, vars, Rebuild, MasterStep, RoutingOk, StartBuild, EndBuild,
         WorkerStep, WriteContent, SyncSlave, TakeInfo, DistStep, HandleSyncSlave,
         SyncSlaveAborted, HandleReload, HandleSatelliteInfo, SendRegister, SlaveStep,
         ClearDirectories, ReloadAfterSync, RegisterMaster, DaemonReads
    <2> QED
      BY <2>1
  <1> QED
    BY <1>2, <1>3, <1>4

(* How the requests on their way to the distribution master change.        *)
LEMMA Requests ==
  ASSUME toDist \in Seq(Messages)
  PROVE  /\ (toDist # <<>> /\ toDist' = Tail(toDist) /\ Head(toDist).kind # "sync_slave")
              => (NoSync' <=> NoSync)
         /\ toDist' = Append(toDist, Plain("reload_after_sync")) => (NoSync' <=> NoSync)
         /\ \A v : toDist' = Append(toDist, Sync(v)) => ~NoSync'
  <1>1. ASSUME toDist # <<>>, toDist' = Tail(toDist), Head(toDist).kind # "sync_slave"
        PROVE  NoSync' <=> NoSync
    <2>1. /\ Len(toDist) \in Nat \ {0} /\ DOMAIN toDist = 1..Len(toDist)
          /\ DOMAIN toDist' = 1..(Len(toDist) - 1)
          /\ \A i \in DOMAIN toDist' : toDist'[i] = toDist[i + 1]
          /\ Head(toDist) = toDist[1]
      BY <1>1
    <2>2. NoSync => NoSync'
      BY <2>1 DEF NoSync
    <2>3. ASSUME NoSync', NEW i \in DOMAIN toDist PROVE toDist[i].kind # "sync_slave"
      <3>1. CASE i = 1
        BY <1>1, <2>1, <3>1
      <3>2. CASE i # 1
        <4>1. i - 1 \in DOMAIN toDist' /\ toDist'[i - 1] = toDist[i]
          BY <2>1, <3>2
        <4> QED
          BY <2>3, <4>1 DEF NoSync
      <3> QED
        BY <3>1, <3>2
    <2> QED
      BY <2>2, <2>3 DEF NoSync
  <1>2. ASSUME NEW m, toDist' = Append(toDist, m)
        PROVE  NoSync' <=> NoSync /\ m.kind # "sync_slave"
    <2>1. /\ Len(toDist) \in Nat /\ DOMAIN toDist = 1..Len(toDist)
          /\ DOMAIN toDist' = 1..(Len(toDist) + 1)
          /\ \A i \in DOMAIN toDist : toDist'[i] = toDist[i]
          /\ toDist'[Len(toDist) + 1] = m
      BY <1>2
    <2> QED
      BY <2>1 DEF NoSync
  <1>3. Plain("reload_after_sync").kind # "sync_slave"
        /\ \A v : Sync(v).kind = "sync_slave"
    BY DEF Plain, Sync
  <1> QED
    BY <1>1, <1>2, <1>3

(* Without faults, the config server: a build in progress or a request on  *)
(* its way stand between the directory and what was sent.                  *)
LEMMA FreeConfigServer ==
  ASSUME Inv2, FaultFree,
         (\E mode \in Modes : Rebuild(mode)) \/ MasterStep \/ WorkerStep \/ TakeInfo
  PROVE  FaultFree'
  <1> USE DEF procs, syncer, queues, etc, history
  <1>0. worker \in Process /\ toDist \in Seq(Messages)
    BY DEF Inv2, Inv1, TypeOK
  <1>1. UNCHANGED <<toSlave, sent, dist, slave, toMaster, unsent>>
    BY DEF Rebuild, MasterStep, RoutingOk, StartBuild, EndBuild, WorkerStep, WriteContent,
           SyncSlave, TakeInfo
  <1>2. PairInv' /\ DiskInv' /\ WholeInv' /\ AckInv' /\ LastContent' = LastContent
    BY <1>1 DEF FaultFree, PairInv, DiskInv, WholeInv, AckInv, AllCreated, Whole, Bulks,
                Clears, LastContent, LastSent
  <1>3. ASSUME UNCHANGED <<source, toDist, toConfig, row, unsynced>>,
               worker'.pc # "write" \/ worker'.todo = File => worker.pc # "write"
                                                              \/ worker.todo = File
        PROVE  FaultFree'
    <2>1. NoSync' <=> NoSync
      BY <1>3 DEF NoSync
    <2> QED
      BY <1>1, <1>2, <1>3, <2>1 DEF FaultFree, SourceInv, RowInv
  <1>4. ASSUME NEW mode \in Modes, Rebuild(mode) PROVE FaultFree'
    <2>1. worker' = worker \/ worker.pc # "write"
      BY <1>4 DEF Rebuild
    <2> QED
      BY <1>3, <1>4, <2>1 DEF Rebuild
  <1>5. CASE RoutingOk
    <2>1. worker' = worker \/ worker.pc # "write"
      BY <1>5 DEF RoutingOk
    <2> QED
      BY <1>3, <1>5, <2>1 DEF RoutingOk
  <1>6. CASE StartBuild
    <2>1. NoSync' <=> NoSync
      BY <1>6 DEF StartBuild, NoSync
    <2> QED
      BY <1>2, <1>6, <2>1 DEF StartBuild, FaultFree, SourceInv, RowInv
  <1>7. CASE EndBuild
    <2>1. NoSync' <=> NoSync
      <3>1. CASE toDist' = toDist
        BY <3>1 DEF NoSync
      <3> QED
        BY <1>0, <1>7, <3>1, Requests DEF EndBuild
    <2> QED
      BY <1>1, <1>2, <1>7, <2>1 DEF EndBuild, FaultFree, SourceInv, RowInv
  <1>8. ASSUME NEW f \in File, WriteContent(f) PROVE FaultFree'
    <2>1. worker'.pc = "write" /\ f \notin worker'.todo
      BY <1>0, <1>8 DEF WriteContent, Process
    <2>2. SourceInv'
      BY <2>1 DEF SourceInv
    <2>3. RowInv'
      BY <1>1, <1>8 DEF WriteContent, FaultFree, RowInv, NoSync
    <2> QED
      BY <1>2, <2>2, <2>3 DEF FaultFree
  <1>9. CASE SyncSlave
    <2>1. ~NoSync'
      BY <1>0, <1>9, Requests DEF SyncSlave
    <2> QED
      BY <1>2, <2>1 DEF FaultFree, SourceInv, RowInv
  <1>10. CASE TakeInfo
    <2>1. (NoSync' <=> NoSync) /\ row' = 0
      BY <1>10 DEF TakeInfo, NoSync
    <2> QED
      BY <1>2, <1>10, <2>1 DEF TakeInfo, FaultFree, SourceInv, RowInv
  <1> QED
    BY <1>4, <1>5, <1>6, <1>7, <1>8, <1>9, <1>10 DEF MasterStep, WorkerStep
(* Without faults, the distribution master.                                *)
LEMMA FreeSend ==
  ASSUME Inv2, FaultFree, HandleSyncSlave
  PROVE  FaultFree'
  <1> DEFINE v == Head(toDist).version
             n == Len(toSlave)
             m == Len(sent)
  <1>0. /\ toSlave' = toSlave \o SendCommands(v, source) /\ dist'.ok = FALSE
        /\ UNCHANGED <<source, slave, worker, toMaster>>
    BY Begins DEF Inv2
  <1>1. /\ n \in Nat /\ DOMAIN toSlave = 1..n
        /\ Clears' = Clears \cup {n + 1} /\ Bulks' = Bulks \cup {n + 2}
    BY <1>0, SentAway, SourcePresent DEF Inv2, Inv1, TypeOK
  <1>2. LastContent' = source /\ m \in Nat /\ DOMAIN sent = 1..m /\ DOMAIN sent' = 1..(m + 1)
        /\ \A i \in DOMAIN sent : sent'[i] = sent[i]
    BY AfterSend
  <1> HIDE DEF v, n, m
  <1>3. PairInv'
    <2>1. ASSUME NEW i \in Bulks'
          PROVE  IF i = 1 THEN slave.disk = Everywhere(Absent) /\ slave.info = NoInfo
                 ELSE i - 1 \in Clears'
      <3>1. CASE i \in Bulks
        BY <1>1, <3>1 DEF FaultFree, PairInv
      <3>2. CASE i = n + 2
        BY <1>1, <3>2
      <3> QED
        BY <1>1, <2>1, <3>1, <3>2
    <2>2. ASSUME NEW i \in Clears' PROVE i + 1 \in Bulks'
      <3>1. CASE i \in Clears
        BY <1>1, <3>1 DEF FaultFree, PairInv
      <3>2. CASE i = n + 1
        BY <1>1, <3>2
      <3> QED
        BY <1>1, <2>2, <3>1, <3>2
    <2> QED
      BY <1>0, <2>1, <2>2 DEF PairInv, Everywhere, NoInfo
  <1>4. SourceInv' /\ RowInv' /\ DiskInv' /\ AckInv'
    <2>1. Bulks' # {}
      BY <1>1
    <2> QED
      BY <1>0, <1>2, <2>1 DEF SourceInv, RowInv, DiskInv, AckInv
  <1>5. WholeInv'
    <2>1. Whole \subseteq Whole'
      BY <1>2 DEF Whole, Everywhere
    <2> QED
      BY <1>0, <1>1, <2>1 DEF FaultFree, WholeInv
  <1> QED
    BY <1>3, <1>4, <1>5 DEF FaultFree

LEMMA FreeGivenUp ==
  ASSUME Inv2, FaultFree, SyncSlaveAborted
  PROVE  FaultFree'
  <1>1. /\ UNCHANGED <<toSlave, sent, slave>> /\ dist'.ok = FALSE /\ unsent' = TRUE
    BY GivenUp DEF Inv2
  <1>2. PairInv' /\ DiskInv' /\ WholeInv'
    BY <1>1 DEF FaultFree, PairInv, DiskInv, WholeInv, Whole, Bulks, Clears, LastContent,
                LastSent
  <1> QED
    BY <1>1, <1>2 DEF FaultFree, SourceInv, AckInv, RowInv

(* The daemon reads the directory, and changes nothing there.              *)
LEMMA FreeRead ==
  ASSUME Inv2, FaultFree, DaemonReads
  PROVE  FaultFree'
  <1>1. /\ UNCHANGED <<procs, syncer, etc, dist, queues, history>>
        /\ slave'.disk = slave.disk /\ slave'.info = slave.info
        /\ slave'.registered = slave.registered
    BY DEF DaemonReads, Inv2, Inv1, TypeOK
  <1>2. UNCHANGED <<source, worker, dist, toDist, toSlave, toMaster, toConfig, row, sent,
                    unsynced, unsent>>
    BY <1>1 DEF procs, syncer, etc, queues, history
  <1>3. /\ Bulks' = Bulks /\ Clears' = Clears /\ Whole' = Whole
        /\ LastContent' = LastContent /\ (NoSync' <=> NoSync)
    BY <1>2 DEF Bulks, Clears, Whole, LastContent, LastSent, NoSync
  <1>4. PairInv' /\ DiskInv' /\ WholeInv'
    BY <1>1, <1>3 DEF FaultFree, PairInv, DiskInv, WholeInv
  <1>5. SourceInv' /\ RowInv'
    BY <1>2, <1>3 DEF FaultFree, SourceInv, RowInv
  <1>6. AckInv'
    BY <1>1, <1>2, <1>3 DEF FaultFree, AckInv, AllCreated
  <1> QED
    BY <1>4, <1>5, <1>6 DEF FaultFree

LEMMA FreeAdded ==
  ASSUME Inv2, FaultFree, HandleReload \/ SendRegister
  PROVE  FaultFree'
  <1> USE DEF procs, syncer, queues, etc, history
  <1>1. UNCHANGED <<source, worker, sent, dist, slave, toMaster, toConfig, row, history>>
    BY DEF HandleReload, SendRegister
  <1>2. Bulks' = Bulks /\ Clears' = Clears
    BY Added DEF HandleReload, SendRegister, Inv2, Inv1, TypeOK
  <1>3. NoSync' <=> NoSync
    <2>1. CASE HandleReload
      BY <2>1, Requests DEF HandleReload, Inv2, Inv1, TypeOK
    <2>2. CASE SendRegister
      BY <2>2 DEF SendRegister, NoSync
    <2> QED
      BY <2>1, <2>2
  <1>4. LastContent' = LastContent /\ Whole' = Whole
    BY <1>1 DEF LastContent, LastSent, Whole
  <1> QED
    BY <1>1, <1>2, <1>3, <1>4 DEF FaultFree, PairInv, SourceInv, DiskInv, WholeInv, AckInv,
                                  AllCreated, RowInv

(* A report that tells of all files ends the distribution.                 *)
LEMMA CompleteReport ==
  ASSUME dist \in DistState, dist.created \subseteq dist.files, dist.send # None,
         NEW report, AllCreated(report)
  PROVE  StoreResult(dist, report).created = dist.files
  <1> DEFINE told == {f \in dist.files : report[f].version # None}
  <1>1. told = dist.files
    BY DEF AllCreated
  <1>2. {f \in told : report[f].created /\ report[f].version = dist.send} = dist.files
    BY <1>1 DEF AllCreated
  <1>3. StoreResult(dist, report) =
          [dist EXCEPT !.created = (@ \ told) \cup
             {f \in told : report[f].created /\ report[f].version = dist.send}]
    BY DEF StoreResult
  <1> HIDE DEF told
  <1> QED
    BY <1>1, <1>2, <1>3 DEF DistState

LEMMA FreeInfo ==
  ASSUME Inv2, FaultFree, HandleSatelliteInfo
  PROVE  FaultFree'
  <1> DEFINE d == StoreResult(dist, Head(toMaster))
  <1>0. dist \in DistState /\ dist.created \subseteq dist.files /\ toMaster \in Seq(Infos)
        /\ toConfig \in Seq({"sync_end"})
    BY DEF Inv2, Inv1, TypeOK, DistState
  <1>1. /\ UNCHANGED <<toSlave, sent, source, slave, worker, toDist, row, unsynced, unsent>>
        /\ toMaster # <<>> /\ toMaster' = Tail(toMaster)
        /\ d \in DistState /\ d.send = dist.send /\ d.files = dist.files /\ d.ok = dist.ok
        /\ \/ dist.files = {} /\ UNCHANGED <<dist, toConfig>>
           \/ /\ dist.files # {} /\ d.created # d.files
              /\ dist' = d /\ toConfig' = toConfig
           \/ /\ dist.files # {} /\ d.created = d.files
              /\ dist' = [d EXCEPT !.ok = TRUE, !.files = {}, !.created = {}]
              /\ toConfig' = toConfig \o <<"sync_end">>
    BY Learns DEF Inv2
  <1>2. AllCreated(Head(toMaster)) /\ dist.send # None => d.created = d.files
    BY <1>0, <1>1, CompleteReport
  <1> HIDE DEF d
  <1>3. PairInv' /\ SourceInv' /\ DiskInv' /\ WholeInv'
    BY <1>1 DEF FaultFree, PairInv, SourceInv, DiskInv, WholeInv, Whole, Bulks, Clears,
                LastContent, LastSent, NoSync
  <1>4. RowInv'
    <2>1. CASE UNCHANGED <<dist, toConfig>>
      BY <1>1, <2>1 DEF FaultFree, RowInv, NoSync
    <2>2. CASE dist' = d /\ toConfig' = toConfig
      BY <1>1, <2>2 DEF FaultFree, RowInv, NoSync
    <2>3. CASE toConfig' = toConfig \o <<"sync_end">>
      <3>1. toConfig' # <<>>
        BY <1>0, <2>3
      <3> QED
        BY <3>1 DEF RowInv
    <2> QED
      BY <1>1, <2>1, <2>2, <2>3
  <1>5. AckInv'
    <2> SUFFICES ASSUME slave'.registered, ~dist'.ok, ~unsent', Bulks' = {}
                 PROVE  toMaster' # <<>> /\ AllCreated(toMaster[Len(toMaster)])'
      BY DEF AckInv
    <2>1. /\ ~dist.ok /\ dist'.files = dist.files /\ dist'.send = dist.send
          /\ dist.files = {} \/ d.created # d.files
      BY <1>1 DEF DistState
    <2>2. dist.files # {} /\ dist.send # None
      BY <2>1 DEF Inv2, QueueInv
    <2>3. Bulks = {} /\ slave.registered /\ ~unsent
      BY <1>1 DEF Bulks
    <2>4. AllCreated(toMaster[Len(toMaster)])
      BY <2>1, <2>3 DEF FaultFree, AckInv
    <2>5. Head(toMaster) # toMaster[Len(toMaster)]
      BY <1>2, <2>1, <2>2, <2>4
    <2>6. toMaster' # <<>> /\ toMaster'[Len(toMaster')] = toMaster[Len(toMaster)]
      <3>1. /\ Len(toMaster) \in Nat \ {0} /\ Len(toMaster') = Len(toMaster) - 1
            /\ \A i \in 1..(Len(toMaster) - 1) : toMaster'[i] = toMaster[i + 1]
            /\ Head(toMaster) = toMaster[1]
        BY <1>0, <1>1
      <3>2. Len(toMaster) # 1
        BY <2>5, <3>1
      <3>3. Len(toMaster') # 0 /\ toMaster'[Len(toMaster')] = toMaster[Len(toMaster)]
        BY <3>1, <3>2
      <3> QED
        BY <3>3
    <2> QED
      BY <2>1, <2>4, <2>6 DEF AllCreated
  <1> QED
    BY <1>3, <1>4, <1>5 DEF FaultFree
(* What the slave stores into empty directories.                           *)
LEMMA StoredWhole ==
  ASSUME NEW s \in SlaveState, NEW m \in Messages,
         s.disk = Everywhere(Absent), s.info = NoInfo
  PROVE  LET t == Stored(s, m, {})
         IN  /\ t.disk = m.content /\ t.running = s.running /\ t.registered = s.registered
             /\ \A f \in Present(m.content) :
                  t.info[f] = [version |-> m.version, created |-> TRUE]
  <1> DEFINE new == {f \in Present(m.content) : Renew(s, f, m.version)}
             disk == [f \in File |-> IF f \notin new THEN s.disk[f]
                                     ELSE IF f \in {} THEN Absent ELSE m.content[f]]
             info == [f \in File |-> IF f \notin new THEN s.info[f]
                                     ELSE [version |-> m.version, created |-> f \notin {}]]
  <1>1. Stored(s, m, {}) = [s EXCEPT !.disk = disk, !.info = info]
    BY DEF Stored
  <1>2. m.version \in 0..MaxBuilds /\ m.content \in Contents
    BY DEF Messages
  <1>3. new = Present(m.content)
    BY <1>2 DEF Renew, NoInfo, Unknown, None, Present
  <1>4. disk = m.content
    <2>1. \A f \in File : disk[f] = m.content[f]
      BY <1>3 DEF Present, Everywhere
    <2>2. m.content = [f \in File |-> m.content[f]]
      BY <1>2 DEF Contents
    <2> QED
      BY <2>1, <2>2
  <1>5. \A f \in Present(m.content) : info[f] = [version |-> m.version, created |-> TRUE]
    BY <1>3 DEF Present
  <1> HIDE DEF disk, info
  <1>6. LET t == Stored(s, m, {})
        IN  t.disk = disk /\ t.info = info /\ t.running = s.running
            /\ t.registered = s.registered
    BY <1>1 DEF SlaveState
  <1> QED
    BY <1>4, <1>5, <1>6

(* Without faults, the slave.                                              *)
LEMMA FreeSlave ==
  ASSUME Inv2, FaultFree, SlaveStep, faults' = 0
  PROVE  FaultFree'
  <1> USE DEF procs, syncer, queues, etc, history
  <1>0. slave \in SlaveState /\ toSlave \in Seq(Messages) /\ toMaster \in Seq(Infos)
    BY DEF Inv2, Inv1, TypeOK, SlaveState
  <1>1. /\ UNCHANGED <<source, worker, sent, dist, toDist, toConfig, row, history>>
        /\ toSlave # <<>> /\ toSlave' = Tail(toSlave)
    BY DEF SlaveStep, ClearDirectories, FileContentBulk, ReloadAfterSync, RegisterMaster,
           Handle
  <1>2. /\ Len(toSlave) \in Nat \ {0} /\ DOMAIN toSlave' = 1..(Len(toSlave) - 1)
        /\ DOMAIN toSlave = 1..Len(toSlave)
        /\ Bulks' = {i \in DOMAIN toSlave' : i + 1 \in Bulks}
        /\ Clears' = {i \in DOMAIN toSlave' : i + 1 \in Clears}
        /\ Head(toSlave) = toSlave[1]
    BY <1>0, <1>1, Taken
  <1>3. SourceInv' /\ RowInv' /\ LastContent' = LastContent /\ LastSent' = LastSent
        /\ Whole' = Whole
    BY <1>1 DEF FaultFree, SourceInv, RowInv, NoSync, LastContent, LastSent, Whole
  <1>4. ASSUME 1 \notin Clears \/ (slave'.disk = Everywhere(Absent) /\ slave'.info = NoInfo)
        PROVE  PairInv'
    <2>1. ASSUME NEW i \in Bulks'
          PROVE  IF i = 1 THEN slave'.disk = Everywhere(Absent) /\ slave'.info = NoInfo
                 ELSE i - 1 \in Clears'
      <3>1. i + 1 \in Bulks /\ i \in DOMAIN toSlave' /\ i + 1 # 1
        BY <1>2, <2>1
      <3>2. i \in Clears
        BY <1>2, <3>1 DEF FaultFree, PairInv
      <3>3. CASE i = 1
        BY <1>4, <3>2, <3>3
      <3>4. CASE i # 1
        <4>1. i - 1 \in DOMAIN toSlave'
          BY <1>2, <3>1, <3>4
        <4> QED
          BY <1>2, <3>1, <3>2, <3>4, <4>1
      <3> QED
        BY <3>3, <3>4
    <2>2. ASSUME NEW i \in Clears' PROVE i + 1 \in Bulks'
      <3>1. i + 1 \in Clears /\ i \in DOMAIN toSlave'
        BY <1>2, <2>2
      <3>2. i + 1 + 1 \in Bulks
        BY <3>1 DEF FaultFree, PairInv
      <3>3. i + 1 \in DOMAIN toSlave'
        BY <1>2, <3>1, <3>2 DEF Bulks
      <3> QED
        BY <1>2, <3>2, <3>3
    <2> QED
      BY <2>1, <2>2 DEF PairInv, Everywhere, NoInfo
  <1>5. CASE ClearDirectories
    <2>1. 1 \in Clears /\ slave'.disk = Everywhere(Absent) /\ slave'.info = NoInfo
          /\ slave'.running = slave.running
      BY <1>0, <1>2, <1>5 DEF ClearDirectories, Handle, Clears, Cleared, SlaveState
    <2>2. 1 + 1 \in Bulks
      BY <2>1 DEF FaultFree, PairInv
    <2>3. 1 \in Bulks'
      BY <1>2, <2>2 DEF Bulks
    <2> QED
      BY <1>3, <1>4, <2>1, <2>3 DEF FaultFree, DiskInv, WholeInv, AckInv
  <1>6. CASE FileContentBulk
    <2> DEFINE m == toSlave[1]
    <2>1. 1 \in Bulks /\ 1 \notin Clears
      BY <1>2, <1>6 DEF FileContentBulk, Handle, Bulks, Clears
    <2>2. slave.disk = Everywhere(Absent) /\ slave.info = NoInfo
      BY <2>1 DEF FaultFree, PairInv
    <2>3. m \in Messages
      BY <1>0, <1>1
    <2>4. slave' = Stored(slave, m, {}) /\ toMaster' = Reported(slave')
      <3>1. PICK bad : (faults' = IF bad = {} THEN faults ELSE faults + 1)
                       /\ slave' = Stored(slave, m, bad)
        BY <1>1, <1>2, <1>6 DEF FileContentBulk
      <3>2. bad = {}
        BY <3>1, MonSyncAssumption DEF Inv2, Inv1, TypeOK
      <3> QED
        BY <1>6, <3>1, <3>2 DEF FileContentBulk
    <2>5. /\ slave'.disk = m.content /\ slave'.running = slave.running
          /\ slave'.registered = slave.registered
          /\ \A f \in Present(m.content) :
               slave'.info[f] = [version |-> m.version, created |-> TRUE]
      BY <1>0, <2>2, <2>3, <2>4, StoredWhole
    <2>6. \E k \in DOMAIN sent : m = sent[k]
      BY <2>1 DEF Inv2, QueueInv
    <2>7. ASSUME Bulks' = {} PROVE sent # <<>> /\ m = LastSent /\ m.content = LastContent
      <3>1. sent # <<>> /\ \E j \in DOMAIN toSlave : j >= 1 /\ toSlave[j] = LastSent
        BY <2>1 DEF Inv2, QueueInv
      <3>2. PICK j \in DOMAIN toSlave : j >= 1 /\ toSlave[j] = LastSent
        BY <3>1
      <3>3. LastSent.kind = "file_content_bulk"
        <4>1. Len(sent) \in DOMAIN sent
          BY <3>1 DEF Inv2, Inv1, TypeOK
        <4> QED
          BY <4>1 DEF Inv2, QueueInv, LastSent
      <3>4. j \in Bulks
        BY <3>2, <3>3 DEF Bulks
      <3>5. j = 1
        <4> SUFFICES ASSUME j # 1 PROVE FALSE
          OBVIOUS
        <4>1. j - 1 \in DOMAIN toSlave' /\ j - 1 + 1 = j
          BY <1>2, <3>2
        <4>2. j - 1 \in Bulks'
          BY <1>2, <3>4, <4>1
        <4> QED
          BY <2>7, <4>2
      <3> QED
        BY <3>1, <3>2, <3>5 DEF LastContent
    <2> HIDE DEF m
    <2>8. DiskInv'
      BY <1>3, <2>5, <2>7 DEF DiskInv
    <2>9. WholeInv'
      BY <1>3, <2>5, <2>6 DEF FaultFree, WholeInv, Whole
    <2>10. AckInv'
      <3> SUFFICES ASSUME slave'.registered, ~dist'.ok, ~unsent', Bulks' = {}
                   PROVE  toMaster' # <<>> /\ AllCreated(toMaster[Len(toMaster)])'
        BY DEF AckInv
      <3>1. dist' = dist /\ ~dist.ok /\ ~unsent
        BY <1>1
      <3>2. dist.files = Present(LastContent) /\ dist.send = LastSent.version
        BY <3>1 DEF Inv2, QueueInv
      <3>3. \A f \in dist.files : slave'.info[f] = [version |-> dist.send, created |-> TRUE]
        BY <2>5, <2>7, <3>2
      <3>4. toMaster' = Append(toMaster, slave'.info)
        BY <2>4 DEF Reported
      <3>5. toMaster' # <<>> /\ toMaster'[Len(toMaster')] = slave'.info
        BY <1>0, <3>4
      <3> QED
        BY <3>1, <3>3, <3>5 DEF AllCreated
    <2> QED
      BY <1>3, <1>4, <2>1, <2>8, <2>9, <2>10 DEF FaultFree
  <1>7. CASE ReloadAfterSync \/ RegisterMaster
    <2>1. /\ 1 \notin Bulks /\ 1 \notin Clears /\ toMaster' = toMaster
      BY <1>2, <1>7 DEF ReloadAfterSync, RegisterMaster, Handle, Bulks, Clears
    <2>2. /\ slave'.disk = slave.disk /\ slave'.registered = slave.registered
      BY <1>0, <1>7 DEF ReloadAfterSync, RegisterMaster, SlaveState
    <2>3. Bulks' = {} => Bulks = {}
      <3> SUFFICES ASSUME NEW i \in Bulks PROVE Bulks' # {}
        OBVIOUS
      <3>1. i \in 1..Len(toSlave) /\ i # 1
        BY <1>2, <2>1 DEF Bulks
      <3>2. i - 1 \in DOMAIN toSlave' /\ i - 1 + 1 = i
        BY <1>2, <3>1
      <3>3. i - 1 \in Bulks'
        BY <1>2, <3>2
      <3> QED
        BY <3>3
    <2>4. slave.disk \in Whole
      BY <2>1 DEF FaultFree, WholeInv
    <2>5. DiskInv' /\ WholeInv'
      BY <1>3, <2>2, <2>3, <2>4 DEF FaultFree, DiskInv, WholeInv
    <2>6. AckInv'
      BY <1>1, <2>1, <2>2, <2>3 DEF FaultFree, AckInv, AllCreated
    <2> QED
      BY <1>3, <1>4, <2>1, <2>5, <2>6 DEF FaultFree
  <1> QED
    BY <1>5, <1>6, <1>7 DEF SlaveStep

LEMMA Inv3Init == Init => Inv3
  <1> SUFFICES ASSUME Init PROVE FaultFree
    BY Inv2Init DEF Inv3
  <1>1. Bulks = {} /\ Clears = {}
    BY DEF Init, Bulks, Clears
  <1>2. /\ dist.ok /\ row = 0 /\ LastContent = Everywhere(1) /\ source = Everywhere(1)
        /\ slave.disk = Everywhere(1)
    BY DEF Init, DistStart, LastContent
  <1> QED
    BY <1>1, <1>2 DEF FaultFree, PairInv, SourceInv, DiskInv, WholeInv, Whole, AckInv, RowInv

LEMMA Inv3Step == Inv3 /\ [Next]_vars => Inv3'
  <1> SUFFICES ASSUME Inv3, [Next]_vars, faults' = 0 PROVE FaultFree'
    BY Inv2Step DEF Inv3
  <1>1. faults = 0 /\ ~Invalid /\ ~DistRestart /\ ~SlaveRestart /\ ~Lose
    BY NoFault DEF Inv3, Inv2
  <1>2. Inv2 /\ FaultFree
    BY <1>1 DEF Inv3
  <1>3. CASE UNCHANGED vars
    BY <1>2, <1>3 DEF vars, procs, syncer, queues, etc, history, FaultFree, PairInv, SourceInv,
       DiskInv, WholeInv, Whole, AckInv, AllCreated, RowInv, NoSync, Bulks, Clears,
       LastContent, LastSent
  <1> QED
    BY <1>1, <1>2, <1>3, FreeConfigServer, FreeSend, FreeGivenUp, FreeAdded, FreeInfo,
       FreeSlave, FreeRead
       DEF Next, DistStep

LEMMA FaultFreeAlways == Spec => []Inv3
  BY Inv3Init, Inv3Step, PTL DEF Spec

(* Every configuration that was built arrives: without faults, once        *)
(* nothing is on its way, the slave's files are those of the distribution  *)
(* master, however many builds overlapped, shared a version or were being  *)
(* written while they were read, unless the last distribution was given up *)
(* for the size of a file.                                                 *)
THEOREM ConfigurationsArrive == Spec => []Delivered
  <1>1. Inv3 => Delivered
    <2> SUFFICES ASSUME Inv3, Quiet, faults = 0, ~unsent PROVE slave.disk = source
      BY DEF Delivered
    <2>1. Bulks = {} /\ NoSync /\ worker.pc # "write"
      BY DEF Quiet, Bulks, NoSync
    <2> QED
      BY <2>1 DEF Inv3, FaultFree, DiskInv, SourceInv
  <1> QED
    BY <1>1, FaultFreeAlways, PTL

(* Without faults nothing comes between clear_directories and the files:   *)
(* whenever the slave handles another message, a reload above all, its     *)
(* directory holds one configuration as it was sent.                       *)
THEOREM DirectoriesAreWhole == Spec => []DirectoryWhole
  <1>1. Inv3 => DirectoryWhole
    <2> SUFFICES ASSUME Inv3, faults = 0, slave.disk \notin Whole
                 PROVE  toSlave # <<>> /\ Head(toSlave).kind = "file_content_bulk"
      BY DEF DirectoryWhole, Whole
    <2>1. 1 \in Bulks /\ toSlave \in Seq(Messages)
      BY DEF Inv3, Inv2, Inv1, TypeOK, FaultFree, WholeInv
    <2> QED
      BY <2>1 DEF Bulks
  <1> QED
    BY <1>1, FaultFreeAlways, PTL

(* Without faults the distribution to a registered slave has ended, and    *)
(* its row is closed, when nothing is on its way any more, unless the      *)
(* distribution was given up.                                              *)
THEOREM DistributionsEnd == Spec => []Acknowledged
  <1>1. Inv3 => Acknowledged
    <2> SUFFICES ASSUME Inv3, Quiet, faults = 0, ~unsent, slave.registered
                 PROVE  dist.ok /\ (row # 0 => unsynced)
      BY DEF Acknowledged
    <2>1. Bulks = {} /\ NoSync /\ toMaster = <<>> /\ toConfig = <<>>
      BY DEF Quiet, Bulks, NoSync
    <2>2. dist.ok
      BY <2>1 DEF Inv3, FaultFree, AckInv
    <2> QED
      BY <2>1, <2>2 DEF Inv3, FaultFree, RowInv
  <1> QED
    BY <1>1, FaultFreeAlways, PTL

-----------------------------------------------------------------------------
(* The reports on their way: some were there before, one may be the        *)
(* slave's new one.                                                        *)
OldOrNew(r) ==
  \/ \E q \in DOMAIN toMaster : toMaster'[r] = toMaster[q]
  \/ toMaster'[r] = slave'.info

LEMMA Reports ==
  ASSUME Inv1, Inv1',
         toMaster' = toMaster \/ toMaster' = Reported(slave')
           \/ (toMaster # <<>> /\ toMaster' = Tail(toMaster))
  PROVE  \A r \in DOMAIN toMaster' : OldOrNew(r)
  <1> SUFFICES ASSUME NEW r \in DOMAIN toMaster' PROVE OldOrNew(r)
    OBVIOUS
  <1>0. toMaster \in Seq(Infos) /\ slave'.info \in Infos
    BY DEF Inv1, TypeOK
  <1>1. CASE toMaster' = toMaster
    BY <1>1 DEF OldOrNew
  <1>2. CASE toMaster' = Append(toMaster, slave'.info)
    <2>1. r \in DOMAIN toMaster \/ r = Len(toMaster) + 1
      BY <1>0, <1>2
    <2>2. r \in DOMAIN toMaster => toMaster'[r] = toMaster[r]
      BY <1>0, <1>2
    <2>3. r = Len(toMaster) + 1 => toMaster'[r] = slave'.info
      BY <1>0, <1>2
    <2> QED
      BY <2>1, <2>2, <2>3 DEF OldOrNew
  <1>3. CASE toMaster # <<>> /\ toMaster' = Tail(toMaster)
    <2>1. r + 1 \in DOMAIN toMaster /\ toMaster'[r] = toMaster[r + 1]
      BY <1>0, <1>3
    <2> QED
      BY <2>1 DEF OldOrNew
  <1> QED
    BY <1>1, <1>2, <1>3 DEF Reported

(* Nobody knows a version that was never sent: when no file is sent.       *)
LEMMA KnownKept ==
  ASSUME KnownInv, \A r \in DOMAIN toMaster' : OldOrNew(r), UNCHANGED sent,
         Known(slave.info)'
  PROVE  KnownInv'
  BY DEF KnownInv, Known, OldOrNew

(* A version is sent once when no earlier one is the same.                 *)
LEMMA LastVersion ==
  ASSUME Inv2, sent # <<>>
  PROVE  /\ Len(sent) \in DOMAIN sent /\ LastSent.version \in 0..MaxBuilds
         /\ LastSent.version # None /\ LastContent = LastSent.content
         /\ LastSent.content \in Contents /\ LastSent \in Messages
  <1>1. Len(sent) \in DOMAIN sent /\ LastSent \in Messages
    BY DEF LastSent, Inv2, Inv1, TypeOK
  <1>2. LastSent.version \in 0..MaxBuilds /\ LastSent.content \in Contents
    BY <1>1 DEF Messages
  <1>3. LastSent.version # None
    BY <1>2, MonSyncAssumption DEF None
  <1> QED
    BY <1>1, <1>2, <1>3 DEF LastContent

(* The files sent once are on their way once.                              *)
OneOnTheWay ==
  \A i, j \in Bulks :
    (toSlave[i].version = LastSent.version /\ toSlave[j].version = LastSent.version)
      => i = j

LEMMA OneTaken ==
  ASSUME Inv2, OneOnTheWay, toSlave # <<>>, toSlave' = Tail(toSlave), UNCHANGED sent
  PROVE  OneOnTheWay'
  <1>0. toSlave \in Seq(Messages)
    BY DEF Inv2, Inv1, TypeOK
  <1>1. /\ Len(toSlave) \in Nat /\ DOMAIN toSlave' = 1..(Len(toSlave) - 1)
        /\ \A i \in DOMAIN toSlave' : toSlave'[i] = toSlave[i + 1]
        /\ Bulks' = {i \in DOMAIN toSlave' : i + 1 \in Bulks}
    BY <1>0, Taken
  <1>2. LastSent' = LastSent
    BY DEF LastSent
  <1> SUFFICES ASSUME NEW i \in Bulks', NEW j \in Bulks',
                      toSlave'[i].version = LastSent.version,
                      toSlave'[j].version = LastSent.version
               PROVE  i = j
    BY <1>2 DEF OneOnTheWay
  <1>3. i + 1 = j + 1
    BY <1>1 DEF OneOnTheWay
  <1> QED
    BY <1>1, <1>3

(* What remains of the queue ends with what was sent last.                 *)
LEMMA StillOnTheWay ==
  ASSUME Inv2, toSlave # <<>>, toSlave' = Tail(toSlave), Bulks' \cup Clears' # {}
  PROVE  /\ Bulks \cup Clears # {}
         /\ \E j \in Bulks : j >= 2 /\ toSlave[j] = LastSent
  <1>0. toSlave \in Seq(Messages)
    BY DEF Inv2, Inv1, TypeOK
  <1>1. PICK i \in DOMAIN toSlave' : i + 1 \in Bulks \cup Clears
    BY <1>0, Taken
  <1>2. i \in Nat /\ i >= 1
    BY <1>0, Taken
  <1>3. PICK j \in DOMAIN toSlave : j >= i + 1 /\ toSlave[j] = LastSent
    BY <1>1 DEF Inv2, QueueInv
  <1>4. LastSent.kind = "file_content_bulk"
    <2>1. sent # <<>>
      BY <1>1 DEF Inv2, QueueInv
    <2> QED
      BY <2>1, LastVersion DEF Inv2, QueueInv, LastSent
  <1>5. j \in Nat
    BY <1>0
  <1> QED
    BY <1>1, <1>2, <1>3, <1>4, <1>5 DEF Bulks

(* A version nobody has heard of: everything said about it is true.        *)
LEMMA SoundUnheard ==
  ASSUME Once' => OneOnTheWay' /\ Unheard'
  PROVE  SoundInv'
  BY DEF SoundInv, OneOnTheWay, Unheard, Ignorant, Truthful

-----------------------------------------------------------------------------
(* A new distribution.                                                     *)
LEMMA SoundSent ==
  ASSUME Inv4, HandleSyncSlave
  PROVE  KnownInv' /\ SoundInv'
  <1> DEFINE v == Head(toDist).version
             n == Len(toSlave)
             m == Len(sent)
  <1>0. toSlave' = toSlave \o SendCommands(v, source)
        /\ dist' = [send |-> v, ok |-> FALSE, files |-> Present(source), created |-> {}]
        /\ v \in 0..MaxBuilds /\ UNCHANGED <<slave, toMaster>> /\ unsent' = FALSE
    BY Begins DEF Inv4, Inv2
  <1>1. /\ n \in Nat /\ DOMAIN toSlave' = 1..(n + 2) /\ DOMAIN toSlave = 1..n
        /\ \A i \in DOMAIN toSlave : toSlave'[i] = toSlave[i]
        /\ Bulks' = Bulks \cup {n + 2}
        /\ toSlave'[n + 2] = Bulk(v, source)
    BY <1>0, SentAway, SourcePresent DEF Inv4, Inv2, Inv1, TypeOK
  <1>2. /\ LastSent' = Bulk(v, source)
        /\ m \in Nat /\ Len(sent') = m + 1
        /\ DOMAIN sent = 1..m /\ DOMAIN sent' = 1..(m + 1)
        /\ \A i \in DOMAIN sent : sent'[i] = sent[i]
    BY AfterSend DEF Inv4
  <1> HIDE DEF v, n, m
  <1>3. LastSent'.version = v /\ v # None
    BY <1>0, <1>2, MonSyncAssumption DEF Bulk, None
  <1>4. \A k \in DOMAIN sent : k \in DOMAIN sent' /\ sent'[k] = sent[k]
    BY <1>2
  <1>5. KnownInv'
    BY <1>0, <1>4 DEF Inv4, KnownInv, Known
  <1>6. ASSUME Once' PROVE OneOnTheWay' /\ Unheard'
    <2>1. \A k \in DOMAIN sent : sent[k].version # v
      <3>1. \A k \in 1..m : sent'[k].version # v
        BY <1>2, <1>3, <1>6 DEF Once
      <3> QED
        BY <1>2, <3>1
    <2>2. \A i \in Bulks : i \in DOMAIN toSlave /\ toSlave[i].version # v
      BY <2>1 DEF Inv4, Inv2, QueueInv, Bulks
    <2>3. \A i \in Bulks' : toSlave'[i].version = v => i = n + 2
      BY <1>1, <2>2
    <2>4. OneOnTheWay'
      BY <1>3, <2>3 DEF OneOnTheWay
    <2>5. ASSUME NEW info, Known(info) PROVE \A f \in File : info[f].version # v
      BY <1>3, <2>1, <2>5 DEF Known
    <2>6. Unheard'
      BY <1>0, <1>3, <2>5 DEF Unheard, Ignorant, Inv4, KnownInv
    <2> QED
      BY <2>4, <2>6
  <1> QED
    BY <1>5, <1>6, SoundUnheard

(* A report is stored: what it says of the version being sent is true.     *)
LEMMA SoundInfo ==
  ASSUME Inv4, Inv1', HandleSatelliteInfo
  PROVE  KnownInv' /\ SoundInv'
  <1> DEFINE report == Head(toMaster)
             d == StoreResult(dist, report)
  <1>1. /\ UNCHANGED <<toSlave, sent, slave, unsent>>
        /\ toMaster # <<>> /\ toMaster' = Tail(toMaster)
        /\ d \in DistState /\ d.send = dist.send /\ d.files = dist.files /\ d.ok = dist.ok
        /\ \/ dist.files = {} /\ dist' = dist
           \/ dist.files # {} /\ d.created # d.files /\ dist' = d
           \/ /\ dist.files # {} /\ d.created = d.files
              /\ dist' = [d EXCEPT !.ok = TRUE, !.files = {}, !.created = {}]
    BY Learns DEF Inv4, Inv2
  <1>2. \A f \in d.created : f \in dist.created
          \/ (f \in File /\ report[f].created /\ report[f].version = dist.send)
    BY DEF StoreResult, Inv4, Inv2, Inv1, TypeOK
  <1>3. \E q \in DOMAIN toMaster : report = toMaster[q]
    BY <1>1 DEF Inv4, Inv2, Inv1, TypeOK
  <1>4. report \in Infos
    BY <1>1, HeadTail DEF Inv4, Inv2, Inv1, TypeOK
  <1> HIDE DEF d, report
  <1>5. \A r \in DOMAIN toMaster' : \E q \in DOMAIN toMaster : toMaster'[r] = toMaster[q]
    <2>1. \A r \in DOMAIN toMaster' : r + 1 \in DOMAIN toMaster /\ toMaster'[r] = toMaster[r + 1]
      BY <1>1 DEF Inv4, Inv2, Inv1, TypeOK
    <2> QED
      BY <2>1
  <1>6. KnownInv'
    BY <1>1, <1>5, KnownKept DEF OldOrNew, Inv4, KnownInv, Known
  <1>7. LastSent' = LastSent /\ LastContent' = LastContent /\ Bulks' = Bulks
        /\ Clears' = Clears /\ Once' = Once
    BY <1>1 DEF LastSent, LastContent, Bulks, Clears, Once
  <1>8. /\ dist'.send = dist.send
        /\ \/ dist'.ok = dist.ok /\ dist'.created = dist.created /\ dist.files = {}
           \/ dist'.ok = dist.ok /\ dist'.created = d.created /\ dist.files # {}
           \/ /\ dist'.ok /\ dist'.created = {} /\ dist.files # {}
              /\ d.created = dist.files
    <2>1. CASE /\ dist.files # {} /\ d.created = d.files
               /\ dist' = [d EXCEPT !.ok = TRUE, !.files = {}, !.created = {}]
      <3>1. dist'.ok /\ dist'.created = {} /\ dist'.send = d.send
        BY <1>1, <2>1 DEF DistState
      <3> QED
        BY <1>1, <2>1, <3>1
    <2>2. CASE dist.files = {} /\ dist' = dist
      BY <2>2
    <2>3. CASE dist.files # {} /\ d.created # d.files /\ dist' = d
      BY <1>1, <2>3
    <2> QED
      BY <1>1, <2>1, <2>2, <2>3
  <1>9. ASSUME Once PROVE SoundInv'
    <2>1. sent # <<>> /\ (dist.send # None /\ ~unsent => dist.send = LastSent.version)
      BY <1>9 DEF Once, Inv4, Inv2, QueueInv
    <2>2. CASE Bulks \cup Clears # {}
      <3>1. Unheard /\ OneOnTheWay
        BY <1>9, <2>2 DEF Inv4, SoundInv, OneOnTheWay
      <3>2. OneOnTheWay'
        BY <1>1, <1>7, <3>1 DEF OneOnTheWay
      <3>3. \A f \in File : report[f].version # LastSent.version
        BY <1>3, <3>1 DEF Unheard, Ignorant
      <3>4. dist.send # None /\ ~unsent => d.created = {}
        BY <1>2, <2>1, <3>1, <3>3 DEF Unheard
      <3>5. dist'.send # None /\ ~unsent' => ~dist'.ok /\ dist'.created = {}
        BY <1>1, <1>8, <3>1, <3>4 DEF Unheard
      <3>6. Unheard'
        BY <1>1, <1>5, <1>7, <3>1, <3>5 DEF Unheard, Ignorant
      <3> QED
        BY <3>2, <3>6, SoundUnheard
    <2>3. CASE Bulks \cup Clears = {}
      <3>1. OneOnTheWay' /\ (Bulks' \cup Clears' # {} => Unheard')
        BY <1>7, <2>3 DEF OneOnTheWay
      <3>2. Truthful(slave.info)' /\ \A r \in DOMAIN toMaster' : Truthful(toMaster[r])'
        <4>1. Truthful(slave.info)'
          BY <1>1, <1>7, <1>9 DEF Inv4, SoundInv, Truthful, Kept
        <4>2. ASSUME NEW r \in DOMAIN toMaster' PROVE Truthful(toMaster[r])'
          <5>1. PICK q \in DOMAIN toMaster : toMaster'[r] = toMaster[q]
            BY <1>5
          <5>2. Truthful(toMaster[q])
            BY <1>9 DEF Inv4, SoundInv
          <5> QED
            BY <1>1, <1>7, <5>1, <5>2 DEF Truthful, Kept
        <4> QED
          BY <4>1, <4>2
      <3>3. ASSUME dist.send # None, ~unsent, NEW f \in d.created PROVE Kept(f)
        <4>1. CASE f \in dist.created
          BY <1>9, <3>3, <4>1 DEF Inv4, SoundInv
        <4>2. CASE f \in File /\ report[f].created /\ report[f].version = dist.send
          <5>1. report[f] = [version |-> LastSent.version, created |-> TRUE]
            BY <1>4, <2>1, <3>3, <4>2 DEF Infos
          <5>2. Truthful(report)
            BY <1>3, <1>9 DEF Inv4, SoundInv
          <5> QED
            BY <4>2, <5>1, <5>2 DEF Truthful
        <4> QED
          BY <1>2, <4>1, <4>2
      <3>4. dist'.send # None /\ ~unsent' => \A f \in dist'.created : Kept(f)'
        <4>1. dist.send # None /\ ~unsent => \A f \in dist'.created : Kept(f)
          BY <1>8, <1>9, <3>3 DEF Inv4, SoundInv
        <4> QED
          BY <1>1, <1>7, <1>8, <4>1 DEF Kept
      <3>5. dist'.send # None /\ ~unsent' /\ dist'.ok => \A f \in File : Kept(f)'
        <4>1. ASSUME dist.send # None, ~unsent, dist'.ok PROVE \A f \in File : Kept(f)
          <5>1. CASE dist.ok
            BY <1>9, <4>1, <5>1 DEF Inv4, SoundInv
          <5>2. CASE ~dist.ok
            <6>1. d.created = Present(LastContent)
              BY <1>8, <4>1, <5>2 DEF Inv4, Inv2, QueueInv
            <6> QED
              BY <3>3, <4>1, <6>1 DEF Kept
          <5> QED
            BY <5>1, <5>2
        <4> QED
          BY <1>1, <1>7, <1>8, <4>1 DEF Kept
      <3> QED
        BY <3>1, <3>2, <3>4, <3>5 DEF SoundInv, OneOnTheWay
    <2> QED
      BY <2>2, <2>3
  <1> QED
    BY <1>6, <1>7, <1>9 DEF SoundInv

(* A distribution that was given up claims nothing.                        *)
LEMMA SoundGivenUp ==
  ASSUME Inv4, SyncSlaveAborted
  PROVE  KnownInv' /\ SoundInv'
  <1>1. /\ UNCHANGED <<toSlave, sent, slave, toMaster>> /\ unsent' = TRUE
    BY GivenUp DEF Inv4, Inv2
  <1>2. LastSent' = LastSent /\ LastContent' = LastContent /\ Once' = Once
        /\ Bulks' = Bulks /\ Clears' = Clears
    BY <1>1 DEF LastSent, LastContent, Once, Bulks, Clears
  <1>3. KnownInv'
    BY <1>1 DEF Inv4, KnownInv, Known
  <1>4. \A f : Kept(f)' <=> Kept(f)
    BY <1>1, <1>2 DEF Kept
  <1>5. /\ Truthful(slave.info)' <=> Truthful(slave.info)
        /\ \A r : Truthful(toMaster[r])' <=> Truthful(toMaster[r])
    BY <1>1, <1>2, <1>4 DEF Truthful
  <1>6. Unheard => Unheard'
    BY <1>1, <1>2 DEF Unheard, Ignorant
  <1>7. SoundInv'
    BY <1>1, <1>2, <1>5, <1>6 DEF Inv4, SoundInv
  <1> QED
    BY <1>3, <1>7

(* The slave forgets what it knows, and reports that it knows nothing.     *)
LEMMA SoundForgotten ==
  ASSUME Inv4, Inv1', SlaveRestart
  PROVE  KnownInv' /\ SoundInv'
  <1>1. /\ UNCHANGED <<toSlave, sent, dist, unsent>> /\ toMaster' = Reported(slave')
        /\ slave'.info = NoInfo /\ slave'.disk = slave.disk
    BY DEF SlaveRestart, history, Inv4, Inv2, Inv1, TypeOK
  <1>2. \A r \in DOMAIN toMaster' : OldOrNew(r)
    BY <1>1, Reports DEF Inv4, Inv2
  <1>3. \A f \in File : slave'.info[f] = Unknown
    BY <1>1 DEF NoInfo
  <1>4. KnownInv'
    BY <1>1, <1>2, <1>3, KnownKept DEF Known, Unknown, Inv4
  <1>5. LastSent' = LastSent /\ LastContent' = LastContent /\ Bulks' = Bulks
        /\ Clears' = Clears /\ Once' = Once
    BY <1>1 DEF LastSent, LastContent, Bulks, Clears, Once
  <1>6. ASSUME Once PROVE SoundInv'
    <2>1. \A f \in File : slave'.info[f].version # LastSent.version
      BY <1>3, <1>6, LastVersion DEF Once, Unknown, Inv4
    <2>2. OneOnTheWay' /\ (Bulks' \cup Clears' # {} => Unheard')
      BY <1>1, <1>2, <1>5, <1>6, <2>1
         DEF Inv4, SoundInv, OneOnTheWay, OldOrNew, Unheard, Ignorant
    <2>3. Truthful(slave.info)'
      BY <1>5, <2>1 DEF Truthful
    <2>4. ASSUME NEW r \in DOMAIN toMaster' PROVE Truthful(toMaster[r])'
      <3>1. CASE toMaster'[r] = slave'.info
        BY <1>5, <2>1, <3>1 DEF Truthful
      <3>2. ASSUME NEW q \in DOMAIN toMaster, toMaster'[r] = toMaster[q]
            PROVE  Truthful(toMaster[r])'
        <4>1. Truthful(toMaster[q])
          BY <1>6 DEF Inv4, SoundInv
        <4> QED
          BY <1>1, <1>5, <3>2, <4>1 DEF Truthful, Kept
      <3> QED
        BY <1>2, <3>1, <3>2 DEF OldOrNew
    <2> QED
      BY <1>1, <1>5, <1>6, <2>2, <2>3, <2>4 DEF Inv4, SoundInv, OneOnTheWay, Kept
  <1> QED
    BY <1>4, <1>5, <1>6 DEF SoundInv

(* A message or a report is lost, or one that changes no file is handled.  *)
LEMMA SoundTaken ==
  ASSUME Inv4, Inv1', UNCHANGED <<sent, dist, unsent>>,
         slave'.info = slave.info, slave'.disk = slave.disk,
         toSlave' = toSlave \/ (toSlave # <<>> /\ toSlave' = Tail(toSlave)),
         toMaster' = toMaster \/ (toMaster # <<>> /\ toMaster' = Tail(toMaster))
  PROVE  KnownInv' /\ SoundInv'
  <1>1. \A r \in DOMAIN toMaster' : OldOrNew(r)
    BY Reports DEF Inv4, Inv2
  <1>2. KnownInv'
    BY <1>1, KnownKept DEF Known, Inv4, KnownInv
  <1>3. LastSent' = LastSent /\ LastContent' = LastContent /\ Once' = Once
    BY DEF LastSent, LastContent, Once
  <1>4. ASSUME Once PROVE SoundInv'
    <2>1. OneOnTheWay
      BY <1>4 DEF Inv4, SoundInv, OneOnTheWay
    <2>2. OneOnTheWay' /\ (Bulks' \cup Clears' # {} => Bulks \cup Clears # {})
      <3>1. CASE toSlave' = toSlave
        BY <1>3, <2>1, <3>1 DEF OneOnTheWay, Bulks, Clears
      <3>2. CASE toSlave # <<>> /\ toSlave' = Tail(toSlave)
        BY <2>1, <3>2, OneTaken, StillOnTheWay DEF Inv4
      <3> QED
        BY <3>1, <3>2
    <2>3. Bulks' \cup Clears' # {} => Unheard'
      BY <1>1, <1>3, <1>4, <2>2 DEF Inv4, SoundInv, OldOrNew, Unheard, Ignorant
    <2>4. Truthful(slave.info)' /\ \A r \in DOMAIN toMaster' : Truthful(toMaster[r])'
      BY <1>1, <1>3, <1>4 DEF Inv4, SoundInv, OldOrNew, Truthful, Kept
    <2> QED
      BY <1>3, <1>4, <2>2, <2>3, <2>4 DEF Inv4, SoundInv, OneOnTheWay, Kept
  <1> QED
    BY <1>2, <1>3, <1>4 DEF SoundInv

(* The directories are cleared, or filled.                                 *)
LEMMA StoredInfo ==
  ASSUME NEW s \in SlaveState, NEW m \in Messages, NEW bad, NEW f \in File
  PROVE  LET t == Stored(s, m, bad)
         IN  \/ /\ f \in Present(m.content) /\ s.info[f].version # m.version
                /\ t.info[f].version = m.version /\ (t.info[f].created => f \notin bad)
                /\ t.disk[f] = IF f \in bad THEN Absent ELSE m.content[f]
             \/ /\ f \notin Present(m.content) \/ s.info[f].version = m.version
                /\ t.info[f] = s.info[f] /\ t.disk[f] = s.disk[f]
  <1> DEFINE new == {g \in Present(m.content) : Renew(s, g, m.version)}
             disk == [g \in File |-> IF g \notin new THEN s.disk[g]
                                     ELSE IF g \in bad THEN Absent ELSE m.content[g]]
             info == [g \in File |-> IF g \notin new THEN s.info[g]
                                     ELSE [version |-> m.version, created |-> g \notin bad]]
  <1>1. Stored(s, m, bad) = [s EXCEPT !.disk = disk, !.info = info]
    BY DEF Stored
  <1>2. f \in new <=> f \in Present(m.content) /\ s.info[f].version # m.version
    BY DEF Renew
  <1>3. /\ disk[f] = IF f \notin new THEN s.disk[f]
                     ELSE IF f \in bad THEN Absent ELSE m.content[f]
        /\ info[f] = IF f \notin new THEN s.info[f]
                     ELSE [version |-> m.version, created |-> f \notin bad]
    OBVIOUS
  <1>4. ASSUME NEW c PROVE LET i == [version |-> m.version, created |-> c]
                           IN  i.version = m.version /\ i.created = c
    OBVIOUS
  <1>5. f \in new => info[f].version = m.version /\ (info[f].created => f \notin bad)
    <2> DEFINE c == f \notin bad
    <2>1. f \in new => info[f] = [version |-> m.version, created |-> c]
      OBVIOUS
    <2>2. c => f \notin bad
      OBVIOUS
    <2> HIDE DEF c, info, new
    <2> QED
      BY <1>4, <2>1, <2>2
  <1> HIDE DEF new, disk, info
  <1>6. Stored(s, m, bad).disk = disk /\ Stored(s, m, bad).info = info
    BY <1>1 DEF SlaveState
  <1> QED
    BY <1>2, <1>3, <1>5, <1>6

LEMMA SoundCleared ==
  ASSUME Inv4, Inv1', ClearDirectories
  PROVE  KnownInv' /\ SoundInv'
  <1>0. toSlave \in Seq(Messages)
    BY DEF Inv4, Inv2, Inv1, TypeOK
  <1>1. /\ UNCHANGED <<sent, dist, unsent>> /\ toSlave # <<>> /\ toSlave' = Tail(toSlave)
        /\ Head(toSlave).kind = "clear_directories"
        /\ toMaster' = Reported(slave') /\ slave'.info = NoInfo
    BY DEF ClearDirectories, Handle, Cleared, history, Inv4, Inv2, Inv1, TypeOK
  <1>2. \A r \in DOMAIN toMaster' : OldOrNew(r)
    BY <1>1, Reports DEF Inv4, Inv2
  <1>3. \A f \in File : slave'.info[f] = Unknown
    BY <1>1 DEF NoInfo
  <1>4. KnownInv'
    BY <1>1, <1>2, <1>3, KnownKept DEF Known, Unknown, Inv4
  <1>5. LastSent' = LastSent /\ Once' = Once
    BY <1>1 DEF LastSent, Once
  <1>6. Clears # {}
    BY <1>0, <1>1 DEF Clears
  <1>7. ASSUME Once PROVE OneOnTheWay' /\ Unheard'
    <2>1. OneOnTheWay /\ Unheard
      BY <1>6, <1>7 DEF Inv4, SoundInv, OneOnTheWay
    <2>2. \A f \in File : slave'.info[f].version # LastSent.version
      BY <1>3, <1>7, LastVersion DEF Once, Unknown, Inv4
    <2>3. Unheard'
      BY <1>1, <1>2, <1>5, <2>1, <2>2 DEF OldOrNew, Unheard, Ignorant
    <2> QED
      BY <1>1, <2>1, <2>3, OneTaken DEF Inv4
  <1> QED
    BY <1>4, <1>5, <1>7, SoundUnheard

LEMMA SoundFilled ==
  ASSUME Inv4, Inv1', FileContentBulk
  PROVE  KnownInv' /\ SoundInv'
  <1> DEFINE m == toSlave[1]
  <1>0. toSlave \in Seq(Messages) /\ slave \in SlaveState
    BY DEF Inv4, Inv2, Inv1, TypeOK, SlaveState
  <1>1. /\ UNCHANGED <<sent, dist, unsent>> /\ toSlave # <<>> /\ toSlave' = Tail(toSlave)
        /\ Head(toSlave) = m /\ m \in Messages
        /\ m.kind = "file_content_bulk" /\ toMaster' = Reported(slave')
    BY <1>0 DEF FileContentBulk, Handle, history
  <1>2. 1 \in Bulks
    BY <1>0, <1>1 DEF Bulks
  <1>3. PICK bad : slave' = Stored(slave, m, bad)
    BY <1>1 DEF FileContentBulk
  <1>4. PICK k \in DOMAIN sent : m = sent[k]
    BY <1>2 DEF Inv4, Inv2, QueueInv
  <1> HIDE DEF m
  <1>5. \A f \in File :
          \/ /\ f \in Present(m.content) /\ slave.info[f].version # m.version
             /\ slave'.info[f].version = m.version
             /\ (slave'.info[f].created => f \notin bad)
             /\ slave'.disk[f] = IF f \in bad THEN Absent ELSE m.content[f]
          \/ /\ f \notin Present(m.content) \/ slave.info[f].version = m.version
             /\ slave'.info[f] = slave.info[f] /\ slave'.disk[f] = slave.disk[f]
    BY <1>0, <1>1, <1>3, StoredInfo
  <1>6. \A r \in DOMAIN toMaster' : OldOrNew(r)
    BY <1>1, Reports DEF Inv4, Inv2
  <1>7. KnownInv'
    <2>1. Known(slave.info)'
      BY <1>1, <1>4, <1>5 DEF Known, Inv4, KnownInv
    <2> QED
      BY <1>1, <1>6, <2>1, KnownKept DEF Inv4
  <1>8. LastSent' = LastSent /\ LastContent' = LastContent /\ Once' = Once
    BY <1>1 DEF LastSent, LastContent, Once
  <1>9. ASSUME Once PROVE SoundInv'
    <2>1. OneOnTheWay /\ Unheard /\ OneOnTheWay'
      <3>1. OneOnTheWay /\ Unheard
        BY <1>2, <1>9 DEF Inv4, SoundInv, OneOnTheWay
      <3> QED
        BY <1>1, <3>1, OneTaken DEF Inv4
    <2>2. \A f \in File : slave.info[f].version # LastSent.version
      BY <2>1 DEF Unheard, Ignorant
    (* Files of another version: the last ones are still on their way.     *)
    <2>3. CASE m.version # LastSent.version
      <3>1. \A f \in File : slave'.info[f].version # LastSent.version
        BY <1>5, <2>2, <2>3
      <3>2. Unheard'
        BY <1>1, <1>6, <1>8, <2>1, <3>1 DEF OldOrNew, Unheard, Ignorant
      <3> QED
        BY <2>1, <3>2, SoundUnheard
    (* The files that were sent last: nothing else is on its way.          *)
    <2>4. CASE m.version = LastSent.version
      <3>1. m = LastSent /\ LastContent = m.content
        <4>1. Len(sent) \in Nat /\ DOMAIN sent = 1..Len(sent)
          BY DEF Inv4, Inv2, Inv1, TypeOK
        <4>2. k = Len(sent)
          BY <1>4, <1>9, <2>4, <4>1 DEF Once
        <4> QED
          BY <1>4, <1>9, <4>2, LastVersion DEF LastSent, Once, Inv4
      <3>2. Bulks' \cup Clears' = {}
        <4> SUFFICES ASSUME Bulks' \cup Clears' # {} PROVE FALSE
          OBVIOUS
        <4>1. PICK j \in Bulks : j >= 2 /\ toSlave[j] = LastSent
          BY <1>1, StillOnTheWay DEF Inv4
        <4> QED
          BY <1>2, <2>1, <2>4, <4>1 DEF OneOnTheWay, m
      <3>3. Truthful(slave.info)'
        <4> SUFFICES ASSUME NEW f \in File, f \in Present(LastContent),
                            slave'.info[f] = [version |-> LastSent.version, created |-> TRUE]
                     PROVE  slave'.disk[f] = LastContent[f]
          BY <1>8 DEF Truthful, Kept, Present
        <4>1. slave'.info[f].created /\ slave'.info[f].version = LastSent.version
          OBVIOUS
        <4>2. (slave'.info[f].created => f \notin bad)
              /\ slave'.disk[f] = IF f \in bad THEN Absent ELSE m.content[f]
          BY <1>5, <2>2, <4>1
        <4>3. f \notin bad
          BY <4>1, <4>2
        <4> QED
          BY <3>1, <4>2, <4>3
      <3>4. ASSUME NEW r \in DOMAIN toMaster' PROVE Truthful(toMaster[r])'
        <4>1. CASE toMaster'[r] = slave'.info
          BY <3>3, <4>1 DEF Truthful
        <4>2. ASSUME NEW q \in DOMAIN toMaster, toMaster'[r] = toMaster[q]
              PROVE  Truthful(toMaster[r])'
          BY <1>8, <2>1, <4>2 DEF Truthful, Unheard, Ignorant
        <4> QED
          BY <1>6, <4>1, <4>2 DEF OldOrNew
      <3> QED
        BY <1>1, <2>1, <3>2, <3>3, <3>4 DEF SoundInv, OneOnTheWay, Unheard
    <2> QED
      BY <2>3, <2>4
  <1> QED
    BY <1>7, <1>8, <1>9 DEF SoundInv

LEMMA Inv4Init == Init => Inv4
  <1> SUFFICES ASSUME Init PROVE KnownInv /\ SoundInv
    BY Inv2Init DEF Inv4
  <1>1. KnownInv
    BY DEF Init, KnownInv, Known, NoInfo, Unknown
  <1>2. ~Once
    BY DEF Init, Once
  <1> QED
    BY <1>1, <1>2 DEF SoundInv

LEMMA Inv4Step == Inv4 /\ [Next]_vars => Inv4'
  <1> SUFFICES ASSUME Inv4, [Next]_vars PROVE KnownInv' /\ SoundInv'
    BY Inv2Step DEF Inv4
  <1> USE DEF procs, syncer, queues, etc, history
  <1>0. Inv1'
    BY TypeStep DEF Inv4, Inv2
  <1>1. CASE UNCHANGED <<toSlave, toMaster, sent, dist, slave, unsent>>
    BY <1>0, <1>1, SoundTaken
  <1>2. CASE HandleReload \/ SendRegister
    <2>1. UNCHANGED <<toMaster, sent, dist, slave, unsent>>
      BY <1>2 DEF HandleReload, SendRegister
    <2>2. /\ Bulks' = Bulks /\ Clears' = Clears
          /\ \A i \in DOMAIN toSlave : toSlave'[i] = toSlave[i]
      BY <1>2, Added DEF HandleReload, SendRegister, Inv4, Inv2, Inv1, TypeOK
    <2>3. \A i \in Bulks : toSlave'[i] = toSlave[i]
      BY <2>2 DEF Bulks
    <2>4. KnownInv'
      BY <2>1 DEF Inv4, KnownInv, Known
    <2>5. LastSent' = LastSent /\ LastContent' = LastContent /\ Once' = Once
      BY <2>1 DEF LastSent, LastContent, Once
    <2>6. \A f : Kept(f)' <=> Kept(f)
      BY <2>1, <2>5 DEF Kept
    <2>7. /\ Truthful(slave.info)' <=> Truthful(slave.info)
          /\ \A r : Truthful(toMaster[r])' <=> Truthful(toMaster[r])
      BY <2>1, <2>5, <2>6 DEF Truthful
    <2>8. Unheard' <=> Unheard
      BY <2>1, <2>5 DEF Unheard, Ignorant
    <2>9. SoundInv'
      BY <2>1, <2>2, <2>3, <2>5, <2>6, <2>7, <2>8 DEF Inv4, SoundInv
    <2> QED
      BY <2>4, <2>9
  <1>3. CASE DistRestart
    <2>1. /\ UNCHANGED <<toSlave, sent, slave, unsent>> /\ dist'.send = None
          /\ toMaster' = <<>>
      BY <1>3 DEF DistRestart, DistStart
    <2>2. LastSent' = LastSent /\ LastContent' = LastContent /\ Once' = Once
          /\ Bulks' = Bulks /\ Clears' = Clears
      BY <2>1 DEF LastSent, LastContent, Once, Bulks, Clears
    <2>3. KnownInv'
      BY <2>1 DEF Inv4, KnownInv, Known
    <2>4. \A f : Kept(f)' <=> Kept(f)
      BY <2>1, <2>2 DEF Kept
    <2>5. Truthful(slave.info)' <=> Truthful(slave.info)
      BY <2>1, <2>2, <2>4 DEF Truthful
    <2>6. Unheard => Unheard'
      BY <2>1, <2>2 DEF Unheard, Ignorant
    <2>7. SoundInv'
      BY <2>1, <2>2, <2>5, <2>6 DEF Inv4, SoundInv
    <2> QED
      BY <2>3, <2>7
  <1>4. CASE ReloadAfterSync \/ RegisterMaster
    <2>1. /\ UNCHANGED <<sent, dist, toMaster, unsent>> /\ toSlave # <<>> /\ toSlave' = Tail(toSlave)
      BY <1>4 DEF ReloadAfterSync, RegisterMaster, Handle
    <2>2. slave'.info = slave.info /\ slave'.disk = slave.disk
      BY <1>4 DEF ReloadAfterSync, RegisterMaster, Inv4, Inv2, Inv1, TypeOK
    <2> QED
      BY <1>0, <2>1, <2>2, SoundTaken
  <1>5. CASE Lose
    <2>1. /\ UNCHANGED <<sent, dist, slave, unsent>>
          /\ toSlave' = toSlave \/ (toSlave # <<>> /\ toSlave' = Tail(toSlave))
          /\ toMaster' = toMaster \/ (toMaster # <<>> /\ toMaster' = Tail(toMaster))
      BY <1>5 DEF Lose
    <2> QED
      BY <1>0, <2>1, SoundTaken
  <1>6. CASE (\E mode \in Modes : Rebuild(mode)) \/ MasterStep \/ WorkerStep \/ TakeInfo
             \/ Invalid \/ UNCHANGED vars
    <2>1. UNCHANGED <<toSlave, toMaster, sent, dist, slave, unsent>>
      BY <1>6 DEF Rebuild, MasterStep, WorkerStep, TakeInfo, Invalid, vars,
              RoutingOk, StartBuild, EndBuild, SyncSlave, WriteContent
    <2> QED
      BY <1>1, <2>1
  <1>7. CASE DaemonReads
    <2>1. /\ UNCHANGED <<sent, dist, unsent, toSlave, toMaster>>
          /\ slave'.info = slave.info /\ slave'.disk = slave.disk
      BY <1>7 DEF DaemonReads, Inv4, Inv2, Inv1, TypeOK
    <2> QED
      BY <1>0, <2>1, SoundTaken
  <1> QED
    BY <1>0, <1>2, <1>3, <1>4, <1>5, <1>6, <1>7, SoundGivenUp, SoundSent, SoundInfo, SoundForgotten,
       SoundCleared, SoundFilled DEF Next, DistStep, SlaveStep

(* dist_ok can be trusted, whatever is lost, restarted or not written:     *)
(* when the distribution master calls a version distributed that was sent  *)
(* once and not given up since, the slave has every file of it as it was   *)
(* sent.                                                                   *)
THEOREM DistributedIsThere == Spec => []DistOkSound
  <1>1. Inv4 => DistOkSound
    <2> SUFFICES ASSUME Inv4, dist.ok, dist.send # None, ~unsent, SentOnce(dist.send)
                 PROVE  \A f \in Present(Last(sent).content) :
                          slave.disk[f] = Last(sent).content[f]
      BY DEF DistOkSound
    <2>1. sent # <<>> /\ dist.send = LastSent.version
      BY DEF Inv4, Inv2, QueueInv
    <2>2. Len(sent) \in DOMAIN sent /\ LastContent = LastSent.content
      BY <2>1, LastVersion DEF Inv4
    <2>3. Last(sent) = LastSent
      BY DEF Last, LastSent
    <2>4. Once
      <3> DEFINE S == {i \in DOMAIN sent : sent[i].version = dist.send}
      <3>1. DOMAIN sent = 1..Len(sent) /\ Len(sent) \in Nat
        BY DEF Inv4, Inv2, Inv1, TypeOK
      <3>2. IsFiniteSet(S)
        <4>1. IsFiniteSet(1..Len(sent))
          BY <3>1, FS_Interval
        <4>2. S \subseteq 1..Len(sent)
          BY <3>1
        <4> QED
          BY <4>1, <4>2, FS_Subset
      <3>3. Cardinality(S) = 1
        BY DEF SentOnce
      <3> HIDE DEF S
      <3>4. PICK x : S = {x}
        BY <3>2, <3>3, FS_Singleton
      <3>5. Len(sent) \in S /\ \A i \in 1..Len(sent) : sent[i].version = dist.send => i \in S
        BY <2>1, <2>2, <3>1 DEF S, LastSent
      <3>6. \A k \in 1..(Len(sent) - 1) : sent[k].version # dist.send
        BY <3>1, <3>4, <3>5
      <3> QED
        BY <2>1, <3>6 DEF Once
    <2>5. \A f \in File : Kept(f)
      BY <2>4 DEF Inv4, SoundInv
    <2> QED
      BY <2>2, <2>3, <2>5 DEF Kept, Present
  <1> QED
    BY <1>1, Inv4Init, Inv4Step, PTL DEF Spec
=============================================================================
