------------------------- MODULE PackageClient_proofs -------------------------
(***************************************************************************)
(* Proofs about PackageClient, for every set of packages and every bound   *)
(* on orders and faults.                                                   *)
(***************************************************************************)
EXTENDS PackageClient, Selection_proofs, FiniteSetTheorems, SequenceTheorems

(* At most one command runs; while _process_commands looks for the next    *)
(* one none does, and a running command belongs to a non-empty list, which *)
(* keeps handle_pending_commands from taking the next batch.               *)
RunInv ==
  /\ running = <<>> \/ running = <<running[1]>>
  /\ pc = "process" => running = <<>>
  /\ running # <<>> => DOMAIN commands # {}

(* A list with one element at most is empty without its head.              *)
LEMMA LastOne ==
  ASSUME running = <<running[1]>>
  PROVE  Tail(running) = <<>>
  <1>1. ASSUME NEW x PROVE Tail(<<x>>) = <<>>
    OBVIOUS
  <1> QED
    BY <1>1

LEMMA OneMore ==
  ASSUME NEW s, s = <<>>, NEW x
  PROVE  Append(s, x) = <<Append(s, x)[1]>>
  OBVIOUS

(* pdc_done calls _process_commands in the end.                            *)
LEMMA RunInstall == RunInv /\ InstallStep => RunInv'
  <1> SUFFICES ASSUME RunInv, InstallStep PROVE RunInv'
    OBVIOUS
  <1>1. CASE HandlePendingCommands
    <2>1. running' = running
      BY <1>1 DEF HandlePendingCommands
    <2>2. CASE pending = <<>> \/ commands # <<>>
      BY <1>1, <2>1, <2>2 DEF HandlePendingCommands, RunInv
    <2>3. CASE commands = <<>>
      <3>1. running = <<>>
        BY <2>3 DEF RunInv
      <3> QED
        BY <2>1, <3>1 DEF RunInv
    <2> QED
      BY <2>2, <2>3
  <1>2. CASE ProcessCommands
    <2>1. running = <<>>
      BY <1>2 DEF ProcessCommands, RunInv
    <2>2. CASE running' = running
      BY <2>1, <2>2 DEF RunInv
    <2>3. CASE running' # running
      <3> DEFINE i == CHOOSE j \in NotInit : \A k \in NotInit : j <= k
                 c == [commands[i] EXCEPT !.init = TRUE]
      <3>1. /\ NotInit # {} /\ commands' = ReplaceAt(commands, i, c) /\ pc' = "idle"
            /\ running' = Append(running, [id |-> c.id, stage |-> "pre"])
        BY <1>2, <2>3 DEF ProcessCommands
      <3>2. DOMAIN commands # {}
        BY <3>1 DEF NotInit
      <3> HIDE DEF i, c
      <3>3. DOMAIN commands' # {}
        BY <3>1, <3>2 DEF ReplaceAt
      <3>4. running' = <<running'[1]>>
        BY <2>1, <3>1, OneMore
      <3> QED
        BY <3>1, <3>3, <3>4 DEF RunInv
    <2> QED
      BY <2>2, <2>3
  <1>3. CASE CheckCommands
    <2> DEFINE com == Head(running)
    <2>1. running = <<running[1]>> /\ Tail(running) = <<>> /\ DOMAIN commands # {}
      BY <1>3, LastOne DEF CheckCommands, RunInv
    <2>2. CASE running' = Tail(running)
      BY <2>1, <2>2 DEF RunInv
    <2>3. CASE PreDone(com) /\ running' # Tail(running)
      <3> DEFINE i == Of(com)
                 c == Query(commands[i])
      <3>1. /\ commands' = ReplaceAt(commands, i, c) /\ pc' = pc
            /\ running' = Append(Tail(running), [id |-> c.id, stage |-> "main"])
        BY <2>3 DEF PreDone
      <3>2. pc = "idle"
        BY <1>3 DEF CheckCommands
      <3> HIDE DEF i, c
      <3>3. DOMAIN commands' # {}
        BY <2>1, <3>1 DEF ReplaceAt
      <3>4. running' = <<running'[1]>>
        BY <2>1, <3>1, OneMore
      <3> QED
        BY <3>1, <3>2, <3>3, <3>4 DEF RunInv
    <2>4. CASE MainDone(com)
      <3>1. /\ DOMAIN commands' = DOMAIN commands /\ pc' = pc
            /\ running' = Append(Tail(running), [id |-> com.id, stage |-> "post"])
        BY <2>4 DEF MainDone, ReplaceAt
      <3>2. pc = "idle"
        BY <1>3 DEF CheckCommands
      <3> HIDE DEF com
      <3>4. running' = <<running'[1]>>
        BY <2>1, <3>1, OneMore
      <3> QED
        BY <2>1, <3>1, <3>2, <3>4 DEF RunInv
    <2> QED
      BY <1>3, <2>2, <2>3, <2>4 DEF CheckCommands, RefreshDone, PostDone
  <1> QED
    BY <1>1, <1>2, <1>3 DEF InstallStep

LEMMA RunStep == RunInv /\ [Next]_vars => RunInv'
  <1> SUFFICES ASSUME RunInv, [Next]_vars PROVE RunInv'
    OBVIOUS
  <1> USE DEF install
  <1>1. CASE InstallStep
    BY <1>1, RunInstall
  <1>2. CASE CommandBatch
    BY <1>2 DEF CommandBatch, RunInv
  <1>3. CASE Expire
    <2>1. running' = <<>>
      BY <1>3, LastOne DEF Expire, RunInv
    <2> QED
      BY <2>1 DEF RunInv
  <1>4. ASSUME NEW refused, ClientStart(refused) PROVE RunInv'
    BY <1>4 DEF ClientStart, RunInv
  <1>5. CASE UNCHANGED install
    BY <1>5 DEF RunInv
  <1>6. CASE SendReport \/ CheckSendBuffer \/ NewConfig \/ CheckSendBufferCut \/ StrayEnds
             \/ LinkDown \/ LinkUp \/ Order \/ UNCHANGED vars
    <2>1. UNCHANGED install
      BY <1>6 DEF SendReport, CheckSendBuffer, NewConfig, CheckSendBufferCut, StrayEnds,
              LinkDown, LinkUp, Order, vars
    <2> QED
      BY <1>5, <2>1
  <1>7. CASE Restart \/ ConnectionOkTest
    <2>1. (\E refused : ClientStart(refused)) \/ UNCHANGED install
      BY <1>7 DEF Restart, ConnectionOkTest
    <2> QED
      BY <1>4, <1>5, <2>1
  <1> QED
    BY <1>1, <1>2, <1>3, <1>6, <1>7 DEF Next, MainStep

(* The install process runs one package command at a time: batches that    *)
(* arrive, retries, commands that expire and restarts never lead to two    *)
(* entries in simple_command.com_list.                                     *)
THEOREM OneCommand == Spec => []OneAtATime
  <1>1. Init => RunInv
    BY DEF Init, RunInv
  <1>2. RunInv => OneAtATime
    <2> SUFFICES ASSUME RunInv PROVE Len(running) <= 1
      BY DEF OneAtATime
    <2>1. Len(<<>>) = 0 /\ Len(<<running[1]>>) = 1
      OBVIOUS
    <2> QED
      BY <2>1 DEF RunInv
  <1> QED
    BY <1>1, <1>2, RunStep, PTL DEF Spec

-------------------------------------------------------------------------------
(***************************************************************************)
(* The types behind TypeOK: the elements of package_commands, the external *)
(* commands, the messages in both directions.                              *)
(***************************************************************************)
Shown == {"y", "n", "u"}
Ids == Package \cup {Refresh}
Wanted == [Package -> Targets]
Commands == [id : Ids, want : Targets \cup {"keep"}, init : BOOLEAN,
             retry : 0 .. MaxRetry + 1, warn : BOOLEAN, shown : Shown]
Stages == {"pre", "main", "post"}
External == [id : Ids, stage : Stages]
Messages == [kind : {"package_info", "get_repo_list", "get_package_list"}, id : Ids,
             shown : Shown, retry : 0 .. MaxRetry + 1]
Lists == [kind : {"package_list"}, want : Wanted]
Batches == Lists \cup
           [kind : {"repo_list", "clear_cache", "get_repo_list", "get_package_list"},
            want : {<<>>}]
News == [kind : {"new_config"}, want : {<<>>}]
Orders == Batches \cup News

InstallShape ==
  /\ pending \in Seq(Batches) /\ commands \in Seq(Commands) /\ running \in Seq(External)
  /\ pc \in {"idle", "pending", "process"}

MainShape ==
  /\ out \in Seq(Messages) /\ buffer \in Seq(Messages) /\ down \in Seq(Orders)
  /\ armed \in BOOLEAN /\ link \in BOOLEAN /\ contact \in {"none", "some", "tested"}

NodeShape ==
  /\ installed \in [Package -> BOOLEAN] /\ flavour \in Flavours /\ target \in Wanted
  /\ recorded \in [Package -> Shown]
  /\ orders \in 0 .. MaxOrders /\ faults \in 0 .. MaxFaults

Shape == InstallShape /\ MainShape /\ NodeShape

(***************************************************************************)
(* What package_commands looks like.                                       *)
(***************************************************************************)
(* A package is in the list at most once, the refresh only in front.       *)
Distinct(cs) == \A i, j \in DOMAIN cs : cs[i].id = cs[j].id => i = j
RefreshFirst(cs) == \A i \in DOMAIN cs : cs[i].id = Refresh => i = 1
NoRefresh(cs) == \A i \in DOMAIN cs : cs[i].id # Refresh
NoneInit(cs) == \A i \in DOMAIN cs : ~cs[i].init
OnlyInit(cs, i) == \A k \in DOMAIN cs : cs[k].init => k = i

(* Only zypper reports outdated repositories, so only its packages are     *)
(* tried again; without a retry a package has been queried when it runs.   *)
RetryOk(c, f) ==
  /\ (c.warn \/ c.retry > 0) => f = "zypper"
  /\ (~c.init /\ f # "zypper") => c.shown = "u"
RetriesOk(cs, f) == \A i \in DOMAIN cs : RetryOk(cs[i], f)

Has(cs, x) == \E i \in DOMAIN cs : cs[i].id = x

(* The list with which _process_commands is called.                        *)
Ready(cs, f) ==
  /\ cs \in Seq(Commands)
  /\ Distinct(cs) /\ RefreshFirst(cs) /\ NoneInit(cs) /\ RetriesOk(cs, f)

(* t is a followed by b.                                                   *)
Joint(t, a, b) ==
  /\ Len(a) \in Nat /\ Len(b) \in Nat
  /\ DOMAIN a = 1 .. Len(a) /\ DOMAIN b = 1 .. Len(b)
  /\ Len(t) = Len(a) + Len(b) /\ DOMAIN t = 1 .. Len(a) + Len(b)
  /\ \A k \in DOMAIN a : k \in DOMAIN t /\ t[k] = a[k]
  /\ \A k \in DOMAIN b : Len(a) + k \in DOMAIN t /\ t[Len(a) + k] = b[k]
  /\ \A k \in DOMAIN t :
       \/ k \in DOMAIN a
       \/ (k > Len(a) /\ k - Len(a) \in DOMAIN b /\ t[k] = b[k - Len(a)])

LEMMA Joined ==
  ASSUME NEW S, NEW a \in Seq(S), NEW b \in Seq(S)
  PROVE  a \o b \in Seq(S) /\ Joint(a \o b, a, b)
  <1>1. a \o b \in Seq(S)
    OBVIOUS
  <1>2. Len(a \o b) = Len(a) + Len(b)
    OBVIOUS
  <1>3. /\ DOMAIN (a \o b) = 1 .. Len(a \o b)
        /\ DOMAIN a = 1 .. Len(a) /\ DOMAIN b = 1 .. Len(b)
        /\ Len(a) \in Nat /\ Len(b) \in Nat
    BY <1>1
  <1>4. \A k \in 1 .. Len(a) + Len(b) :
          (a \o b)[k] = IF k <= Len(a) THEN a[k] ELSE b[k - Len(a)]
    OBVIOUS
  <1>5. ASSUME NEW k \in 1 .. Len(a) + Len(b), ~(k \in 1 .. Len(a))
        PROVE  k > Len(a) /\ k - Len(a) \in 1 .. Len(b) /\ (a \o b)[k] = b[k - Len(a)]
    BY <1>3, <1>4, <1>5
  <1>6. ASSUME NEW k \in 1 .. Len(a)
        PROVE  k \in 1 .. Len(a) + Len(b) /\ (a \o b)[k] = a[k]
    BY <1>3, <1>4
  <1>7. ASSUME NEW k \in 1 .. Len(b)
        PROVE  Len(a) + k \in 1 .. Len(a) + Len(b) /\ (a \o b)[Len(a) + k] = b[k]
    <2>1. Len(a) + k \in 1 .. Len(a) + Len(b) /\ ~(Len(a) + k <= Len(a))
      BY <1>3
    <2>2. Len(a) + k - Len(a) = k
      BY <1>3
    <2> QED
      BY <1>4, <2>1, <2>2
  <1> QED
    BY <1>1, <1>2, <1>3, <1>5, <1>6, <1>7 DEF Joint

LEMMA Removed ==
  ASSUME NEW S, NEW s \in Seq(S), NEW i \in DOMAIN s
  PROVE  LET r == RemoveAt(s, i)
         IN  /\ r \in Seq(S) /\ Len(r) = Len(s) - 1
             /\ \A k \in DOMAIN r : r[k] = s[IF k < i THEN k ELSE k + 1]
  <1>1. DOMAIN s = 1 .. Len(s) /\ Len(s) \in Nat /\ i \in 1 .. Len(s)
    OBVIOUS
  <1> DEFINE a == SubSeq(s, 1, i - 1)
             b == SubSeq(s, i + 1, Len(s))
  <1>2. a \in Seq(S) /\ Len(a) = i - 1 /\ \A k \in 1 .. i - 1 : a[k] = s[k]
    BY <1>1
  <1>3. b \in Seq(S) /\ Len(b) = Len(s) - i /\ \A k \in 1 .. Len(s) - i : b[k] = s[i + k]
    BY <1>1
  <1> DEFINE t == a \o b
  <1> HIDE DEF a, b
  <1>j. t \in Seq(S) /\ Joint(t, a, b)
    BY <1>2, <1>3, Joined
  <1> HIDE DEF t
  <1>4. /\ t \in Seq(S) /\ Len(t) = Len(s) - 1
        /\ DOMAIN t = 1 .. Len(s) - 1
    <2>1. Len(a) + Len(b) = Len(s) - 1
      BY <1>1, <1>2, <1>3
    <2> QED
      BY <1>2, <1>3, <2>1, <1>j DEF Joint
  <1>5. ASSUME NEW k \in 1 .. Len(s) - 1
        PROVE  t[k] = s[IF k < i THEN k ELSE k + 1]
    <2>1. CASE k < i
      <3>1. k \in 1 .. i - 1 /\ k \in DOMAIN a
        BY <1>1, <1>2, <2>1
      <3>2. t[k] = a[k]
        BY <1>2, <1>3, <3>1, <1>j DEF Joint
      <3> QED
        BY <1>2, <2>1, <3>1, <3>2
    <2>2. CASE ~(k < i)
      <3>1. t[k] = b[k - Len(a)]
        <4>1. k \in DOMAIN t /\ ~(k \in DOMAIN a)
          BY <1>1, <1>2, <1>4, <2>2
        <4> QED
          BY <1>2, <1>3, <4>1, <1>j DEF Joint
      <3>2. k - Len(a) = k - (i - 1) /\ k - (i - 1) \in 1 .. Len(s) - i
        BY <1>1, <1>2, <2>2
      <3>3. b[k - (i - 1)] = s[i + (k - (i - 1))]
        BY <1>3, <3>2
      <3>4. i + (k - (i - 1)) = k + 1
        BY <1>1
      <3> QED
        BY <2>2, <3>1, <3>2, <3>3, <3>4
    <2> QED
      BY <2>1, <2>2
  <1> QED
    BY <1>4, <1>5 DEF RemoveAt, a, b, t

LEMMA Replaced ==
  ASSUME NEW S, NEW s \in Seq(S), NEW i \in DOMAIN s, NEW e \in S
  PROVE  LET r == ReplaceAt(s, i, e)
         IN  /\ r \in Seq(S) /\ Len(r) = Len(s) /\ DOMAIN r = DOMAIN s
             /\ r[i] = e /\ \A k \in DOMAIN s : k # i => r[k] = s[k]
  BY DEF ReplaceAt

LEMMA Prepended ==
  ASSUME NEW S, NEW s \in Seq(S), NEW e \in S
  PROVE  LET r == <<e>> \o s
         IN  /\ r \in Seq(S) /\ Len(r) = Len(s) + 1
             /\ r[1] = e
             /\ \A k \in DOMAIN s : k + 1 \in DOMAIN r /\ r[k + 1] = s[k]
             /\ \A k \in DOMAIN r : k = 1 \/ (k - 1 \in DOMAIN s /\ r[k] = s[k - 1])
  <1> DEFINE a == <<e>>
  <1>1. a \in Seq(S) /\ Len(a) = 1 /\ a[1] = e /\ DOMAIN a = 1 .. 1
    OBVIOUS
  <1> DEFINE t == a \o s
  <1> HIDE DEF a
  <1>j. t \in Seq(S) /\ Joint(t, a, s)
    BY <1>1, Joined
  <1> HIDE DEF t
  <1>2. /\ t \in Seq(S) /\ Len(t) = Len(s) + 1
        /\ t[1] = e
    BY <1>1, <1>j DEF Joint
  <1>3. \A k \in DOMAIN t : k = 1 \/ (k - 1 \in DOMAIN s /\ t[k] = s[k - 1])
    BY <1>1, <1>j DEF Joint
  <1>4. ASSUME NEW k \in DOMAIN s
        PROVE  k + 1 \in DOMAIN t /\ t[k + 1] = s[k]
    <2>1. Len(a) + k = k + 1
      BY <1>1
    <2> QED
      BY <1>1, <2>1, <1>j DEF Joint
  <1> QED
    BY <1>2, <1>3, <1>4 DEF a, t

(* A new element of package_commands.                                      *)
LEMMA NewCommand ==
  ASSUME NEW x \in Ids, NEW t \in Targets \cup {"keep"}, NEW f
  PROVE  /\ Pdc(x, t) \in Commands /\ Pdc(x, t).id = x /\ ~Pdc(x, t).init
         /\ RetryOk(Pdc(x, t), f)
  <1> DEFINE no == FALSE
  <1>1. no \in BOOLEAN /\ ~no
    OBVIOUS
  <1>2. Pdc(x, t) = [id |-> x, want |-> t, init |-> no, retry |-> 0, warn |-> no,
                     shown |-> "u"]
    BY DEF Pdc
  <1> HIDE DEF no
  <1> DEFINE c == Pdc(x, t)
  <1>3. c \in Commands /\ c.id = x /\ c.init = no /\ c.warn = no /\ c.retry = 0 /\ c.shown = "u"
    BY <1>1, <1>2 DEF Commands, MaxRetry, Shown
  <1> HIDE DEF c
  <1>4. ~c.init /\ ~c.warn /\ ~(c.retry > 0)
    BY <1>1, <1>3
  <1>5. RetryOk(c, f)
    BY <1>3, <1>4 DEF RetryOk
  <1> QED
    BY <1>3, <1>4, <1>5 DEF c

LEMMA RefreshCommandOk ==
  ASSUME NEW f
  PROVE  /\ RefreshCommand \in Commands /\ RefreshCommand.id = Refresh
         /\ ~RefreshCommand.init /\ RetryOk(RefreshCommand, f)
  BY NewCommand DEF RefreshCommand, Ids

LEMMA EmptyReady ==
  ASSUME NEW f
  PROVE  Ready(<<>>, f)
  BY DEF Ready, Distinct, RefreshFirst, NoneInit, RetriesOk

LEMMA RefreshReady ==
  ASSUME NEW f
  PROVE  Ready(<<RefreshCommand>>, f)
  <1> DEFINE c == RefreshCommand
             r == <<c>>
  <1>1. c \in Commands /\ ~c.init /\ RetryOk(c, f)
    BY RefreshCommandOk
  <1> HIDE DEF c
  <1>2. r \in Seq(Commands) /\ DOMAIN r = {1} /\ r[1] = c
    BY <1>1
  <1> HIDE DEF r
  <1>3. Ready(r, f)
    BY <1>1, <1>2 DEF Ready, Distinct, RefreshFirst, NoneInit, RetriesOk
  <1> QED
    BY <1>3 DEF r, c

(* A command that is done leaves the list ...                              *)
LEMMA RemovedReady ==
  ASSUME NEW f, NEW cs \in Seq(Commands), Distinct(cs), RetriesOk(cs, f),
         NEW i \in DOMAIN cs, OnlyInit(cs, i),
         \A k \in DOMAIN cs : k # i => cs[k].id # Refresh
  PROVE  /\ Ready(RemoveAt(cs, i), f)
         /\ \A k \in DOMAIN cs : k # i => Has(RemoveAt(cs, i), cs[k].id)
  <1> DEFINE r == RemoveAt(cs, i)
             at(k) == IF k < i THEN k ELSE k + 1
  <1>1. /\ r \in Seq(Commands) /\ Len(r) = Len(cs) - 1
        /\ \A k \in DOMAIN r : r[k] = cs[at(k)]
    BY Removed
  <1> HIDE DEF r
  <1>2. /\ DOMAIN cs = 1 .. Len(cs) /\ Len(cs) \in Nat /\ i \in 1 .. Len(cs)
        /\ DOMAIN r = 1 .. Len(cs) - 1
    BY <1>1
  <1>3. \A k \in DOMAIN r : at(k) \in DOMAIN cs /\ at(k) # i
    BY <1>2
  <1>4. \A j, k \in DOMAIN r : at(j) = at(k) => j = k
    BY <1>2
  <1>5. ASSUME NEW k \in DOMAIN cs, k # i
        PROVE  \E j \in DOMAIN r : at(j) = k
    <2>1. CASE k < i
      <3>1. k \in DOMAIN r /\ at(k) = k
        BY <1>2, <2>1
      <3> QED
        BY <3>1
    <2>2. CASE k > i
      <3>1. k - 1 \in DOMAIN r /\ at(k - 1) = k
        BY <1>2, <2>2
      <3> QED
        BY <3>1
    <2> QED
      BY <1>2, <1>5, <2>1, <2>2
  <1> HIDE DEF at
  <1>6. Distinct(r)
    BY <1>1, <1>3, <1>4 DEF Distinct
  <1>7. RefreshFirst(r) /\ NoneInit(r) /\ RetriesOk(r, f)
    BY <1>1, <1>3 DEF RefreshFirst, NoneInit, OnlyInit, RetriesOk
  <1>8. \A k \in DOMAIN cs : k # i => Has(r, cs[k].id)
    BY <1>1, <1>5 DEF Has
  <1> QED
    BY <1>1, <1>6, <1>7, <1>8 DEF Ready, r

(* ... or keeps it for another attempt, behind a refresh.                  *)
LEMMA RetriedReady ==
  ASSUME NEW f, NEW cs \in Seq(Commands), Distinct(cs), NoRefresh(cs), RetriesOk(cs, f),
         NEW i \in DOMAIN cs, OnlyInit(cs, i),
         NEW c \in Commands, c.id = cs[i].id, ~c.init, RetryOk(c, f)
  PROVE  LET r == <<RefreshCommand>> \o ReplaceAt(cs, i, c)
         IN  Ready(r, f) /\ \A k \in DOMAIN cs : Has(r, cs[k].id)
  <1> DEFINE e == RefreshCommand
             b == ReplaceAt(cs, i, c)
             r == <<e>> \o b
  <1>1. /\ b \in Seq(Commands) /\ DOMAIN b = DOMAIN cs
        /\ b[i] = c /\ \A k \in DOMAIN cs : k # i => b[k] = cs[k]
    BY Replaced
  <1>2. e \in Commands /\ e.id = Refresh /\ ~e.init /\ RetryOk(e, f)
    BY RefreshCommandOk
  <1> HIDE DEF e, b
  <1>3. /\ r \in Seq(Commands) /\ r[1] = e
        /\ \A k \in DOMAIN b : k + 1 \in DOMAIN r /\ r[k + 1] = b[k]
        /\ \A k \in DOMAIN r : k = 1 \/ (k - 1 \in DOMAIN b /\ r[k] = b[k - 1])
    BY <1>1, <1>2, Prepended
  <1> HIDE DEF r
  <1>4. \A k \in DOMAIN b : b[k].id = cs[k].id /\ ~b[k].init /\ RetryOk(b[k], f)
    BY <1>1 DEF OnlyInit, RetriesOk
  <1>5. \A k \in DOMAIN b : b[k].id # Refresh
    BY <1>1, <1>4 DEF NoRefresh
  <1>6. Distinct(r)
    <2> SUFFICES ASSUME NEW j \in DOMAIN r, NEW k \in DOMAIN r, r[j].id = r[k].id
                 PROVE  j = k
      BY DEF Distinct
    <2>1. j \in Nat /\ k \in Nat
      BY <1>3
    <2>2. CASE j = 1 \/ k = 1
      BY <1>2, <1>3, <1>5, <2>2
    <2>3. CASE j # 1 /\ k # 1
      <3>1. j - 1 \in DOMAIN cs /\ k - 1 \in DOMAIN cs /\ cs[j - 1].id = cs[k - 1].id
        BY <1>1, <1>3, <1>4, <2>3
      <3>2. j - 1 = k - 1
        BY <3>1 DEF Distinct
      <3> QED
        BY <2>1, <3>2
    <2> QED
      BY <2>2, <2>3
  <1>7. RefreshFirst(r)
    BY <1>3, <1>5 DEF RefreshFirst
  <1>8. NoneInit(r) /\ RetriesOk(r, f)
    BY <1>2, <1>3, <1>4 DEF NoneInit, RetriesOk
  <1>9. \A k \in DOMAIN cs : Has(r, cs[k].id)
    <2> SUFFICES ASSUME NEW k \in DOMAIN cs PROVE Has(r, cs[k].id)
      OBVIOUS
    <2>1. k + 1 \in DOMAIN r /\ r[k + 1].id = cs[k].id
      BY <1>1, <1>3, <1>4
    <2> QED
      BY <2>1 DEF Has
  <1>10. Ready(r, f)
    BY <1>3, <1>6, <1>7, <1>8 DEF Ready
  <1> QED
    BY <1>9, <1>10 DEF r, e, b

(* The packages of the node in some order, each of them once.              *)
LEMMA PackagesListed ==
  LET s == SetToSeq(Package)
  IN  /\ s \in Seq(Package)
      /\ \A i, j \in DOMAIN s : s[i] = s[j] => i = j
      /\ \A x \in Package : \E i \in DOMAIN s : s[i] = x
  <1> DEFINE n == Cardinality(Package)
             s == SetToSeq(Package)
  <1>1. IsFiniteSet(Package)
    BY PackageAssumption
  <1>2. n \in Nat /\ ExistsBijection(1 .. n, Package)
    BY <1>1, FS_CardinalityType
  <1>3. PICK f \in Bijection(1 .. n, Package) : TRUE
    BY <1>2 DEF ExistsBijection
  <1>4. f \in [1 .. n -> Package] /\ IsInjective(f)
    BY <1>3 DEF Bijection, Injection, IsInjective
  <1>5. s \in [1 .. n -> Package] /\ IsInjective(s)
    BY <1>4 DEF SetToSeq
  <1> HIDE DEF s
  <1>6. s \in Injection(1 .. n, Package)
    BY <1>5 DEF Injection, IsInjective
  <1>7. IsFiniteSet(1 .. n) /\ Cardinality(1 .. n) = n
    <2>1. IsFiniteSet(1 .. n) /\ Cardinality(1 .. n) = IF 1 > n THEN 0 ELSE n - 1 + 1
      BY <1>2, FS_Interval
    <2> HIDE DEF n
    <2> QED
      BY <1>2, <2>1
  <1>8. s \in Surjection(1 .. n, Package)
    BY <1>1, <1>6, <1>7, FS_Injection
  <1>9. s \in Seq(Package) /\ DOMAIN s = 1 .. n
    BY <1>2, <1>5
  <1> QED
    BY <1>5, <1>8, <1>9 DEF IsInjective, Surjection, s

(* A package list from the server.                                         *)
LEMMA ListReady ==
  ASSUME NEW f, NEW want \in Wanted
  PROVE  Ready(PackageList(want), f) /\ \A x \in Package : Has(PackageList(want), x)
  <1> DEFINE s == SetToSeq(Package)
             r == PackageList(want)
  <1>1. /\ s \in Seq(Package)
        /\ \A i, j \in DOMAIN s : s[i] = s[j] => i = j
        /\ \A x \in Package : \E i \in DOMAIN s : s[i] = x
    BY PackagesListed
  <1>2. r = [i \in DOMAIN s |-> Pdc(s[i], want[s[i]])]
    BY DEF PackageList
  <1> HIDE DEF s, r
  <1>3. ASSUME NEW i \in DOMAIN s
        PROVE  /\ r[i] \in Commands /\ r[i].id = s[i] /\ s[i] \in Package
               /\ ~r[i].init /\ RetryOk(r[i], f)
    <2>1. s[i] \in Package
      BY <1>1
    <2>2. s[i] \in Ids /\ want[s[i]] \in Targets \cup {"keep"}
      BY <2>1 DEF Ids, Wanted
    <2> QED
      BY <1>2, <2>1, <2>2, NewCommand
  <1>4. r \in Seq(Commands) /\ DOMAIN r = DOMAIN s
    <2>1. DOMAIN s = 1 .. Len(s) /\ Len(s) \in Nat
      BY <1>1
    <2>2. r \in [1 .. Len(s) -> Commands]
      BY <1>2, <1>3, <2>1
    <2> QED
      BY <2>1, <2>2
  <1>5. Distinct(r)
    BY <1>1, <1>3, <1>4 DEF Distinct
  <1>6. RefreshFirst(r)
    BY <1>3, <1>4, PackageAssumption DEF RefreshFirst, Refresh
  <1>7. NoneInit(r) /\ RetriesOk(r, f)
    BY <1>3, <1>4 DEF NoneInit, RetriesOk
  <1>8. \A x \in Package : Has(r, x)
    BY <1>1, <1>3, <1>4 DEF Has
  <1> QED
    BY <1>4, <1>5, <1>6, <1>7, <1>8 DEF Ready, r

-------------------------------------------------------------------------------
(***************************************************************************)
(* The server.                                                             *)
(***************************************************************************)
LEMMA Greatest ==
  ASSUME NEW n \in Nat, NEW R, R \subseteq 1 .. n, R # {}
  PROVE  Max(R) \in R /\ \A k \in R : k <= Max(R)
  <1> DEFINE T == {d \in Nat : n - d \in R}
  <1>1. T \subseteq Nat /\ T # {}
    <2>1. PICK k \in R : TRUE
      OBVIOUS
    <2>2. k \in 1 .. n
      BY <2>1
    <2>3. n - k \in Nat /\ n - (n - k) = k
      BY <2>2
    <2>4. n - k \in T
      BY <2>1, <2>3
    <2> QED
      BY <2>4
  <1>2. PICK d \in T : \A e \in T : d <= e
    BY <1>1, LeastNatural
  <1>3. d \in Nat /\ n - d \in R
    BY <1>2
  <1>4. ASSUME NEW k \in R PROVE n - d >= k
    <2>1. k \in 1 .. n
      OBVIOUS
    <2>2. n - k \in Nat /\ n - (n - k) = k
      BY <2>1
    <2>3. n - k \in T
      BY <2>2
    <2>4. d <= n - k
      BY <1>2, <2>3
    <2> QED
      BY <1>3, <2>1, <2>4
  <1>5. \E x \in R : \A y \in R : x >= y
    BY <1>3, <1>4
  <1>6. Max(R) \in R /\ \A y \in R : Max(R) >= y
    BY <1>5 DEF Max
  <1>7. \A y \in R : y \in Int
    OBVIOUS
  <1> QED
    BY <1>6, <1>7

HasList(ms) == \E i \in DOMAIN ms : ms[i].kind = "package_list"
HasAsked(ms) == \E i \in DOMAIN ms : ms[i].kind = "get_package_list"

(* The latest report on x in ms shows one of the values in R.              *)
LastIn(ms, x, R) ==
  \E i \in ReportsOf(ms, x) : ms[i].shown \in R /\ \A j \in ReportsOf(ms, x) : j <= i

LEMMA BatchTyped ==
  ASSUME target \in Wanted
  PROVE  /\ \A k \in {"repo_list", "clear_cache", "get_repo_list", "get_package_list",
                      "package_list"} : Batch(k) \in Batches
         /\ Batch("new_config") \in News
         /\ \A k : Batch(k).kind = k
  BY DEF Batch, Batches, Lists, News

LEMMA RequestKind ==
  ASSUME NEW ms \in Seq(Messages), NEW i \in DOMAIN ms
  PROVE  /\ i \in Requests(ms) <=> ms[i].kind # "package_info"
         /\ i \in Requests(ms) => ms[i].kind \in {"get_repo_list", "get_package_list"}
  <1>1. ms[i] \in Messages
    OBVIOUS
  <1> QED
    BY <1>1 DEF Requests, IsReport, Messages

(* What ServerTakes does to the records.                                   *)
LEMMA ServerRecords ==
  ASSUME NEW ms \in Seq(Messages), NEW refused, NEW rest, recorded \in [Package -> Shown],
         ServerTakes(ms, refused, rest)
  PROVE  /\ recorded' \in [Package -> Shown]
         /\ \A x \in Package : ReportsOf(ms, x) = {} => recorded'[x] = recorded[x]
         /\ \A x \in Package : \A R : (ReportsOf(ms, x) \cap refused = {} /\ LastIn(ms, x, R))
                                     => recorded'[x] \in R
  <1> DEFINE stored(x) == ReportsOf(ms, x) \ refused
  <1>1. recorded' = [x \in Package |-> IF stored(x) = {} THEN recorded[x]
                                       ELSE ms[Max(stored(x))].shown]
    BY DEF ServerTakes
  <1>2. ASSUME NEW x \in Package, stored(x) # {}
        PROVE  /\ Max(stored(x)) \in stored(x)
               /\ \A k \in stored(x) : k <= Max(stored(x))
               /\ ms[Max(stored(x))].shown \in Shown
    <2> DEFINE R == stored(x)
    <2>1. R \subseteq 1 .. Len(ms) /\ Len(ms) \in Nat /\ R \subseteq DOMAIN ms
      BY DEF ReportsOf
    <2> HIDE DEF R
    <2>2. Max(R) \in R /\ \A k \in R : k <= Max(R)
      BY <1>2, <2>1, Greatest DEF R
    <2>3. ms[Max(R)] \in Messages
      BY <2>1, <2>2
    <2> QED
      BY <2>2, <2>3 DEF R, Messages
  <1>3. recorded' \in [Package -> Shown]
    BY <1>1, <1>2
  <1>4. \A x \in Package : ReportsOf(ms, x) = {} => recorded'[x] = recorded[x]
    BY <1>1
  <1>5. ASSUME NEW x \in Package, NEW R, ReportsOf(ms, x) \cap refused = {}, LastIn(ms, x, R)
        PROVE  recorded'[x] \in R
    <2> DEFINE m == Max(stored(x))
    <2>0. stored(x) = ReportsOf(ms, x)
      BY <1>5
    <2>1. PICK i \in stored(x) : ms[i].shown \in R /\ \A j \in stored(x) : j <= i
      BY <1>5, <2>0 DEF LastIn
    <2>2. m \in stored(x) /\ i <= m /\ m <= i
      BY <1>2, <2>1
    <2>3. recorded'[x] = ms[m].shown
      BY <1>1, <2>1
    <2> HIDE DEF m
    <2>4. i \in Nat /\ m \in Nat
      BY <2>1, <2>2 DEF ReportsOf
    <2>5. i = m
      BY <2>2, <2>4
    <2> QED
      BY <2>1, <2>3, <2>5
  <1> QED
    BY <1>3, <1>4, <1>5

(* What it does to the messages on their way to the client.                *)
LEMMA ServerAnswers ==
  ASSUME NEW ms \in Seq(Messages), NEW refused, NEW rest \in Seq(Orders),
         target \in Wanted, ServerTakes(ms, refused, rest)
  PROVE  /\ down' \in Seq(Orders)
         /\ HasList(rest) => HasList(down')
         /\ (HasAsked(ms) /\ "refused" \notin incident') => HasList(down')
  <1> DEFINE kind(i) == IF i \in refused THEN ms[i].kind ELSE Answer(ms[i].kind)
             replies == [i \in DOMAIN ms |-> Batch(kind(i))]
             I == Requests(ms)
             new == At(replies, I)
             T == Orders \cup {Batch(kind(i)) : i \in DOMAIN ms}
  <1>1. \A i \in DOMAIN ms :
          /\ i \in I <=> ms[i].kind # "package_info"
          /\ i \in I => ms[i].kind \in {"get_repo_list", "get_package_list"}
    BY RequestKind
  <1>2. /\ down' = rest \o new
        /\ incident' = IF refused \cap I = {} THEN incident ELSE incident \cup {"refused"}
    BY DEF ServerTakes, Reply
  <1> HIDE DEF I
  <1>3. \A i \in DOMAIN ms : i \in I =>
          kind(i) \in {"repo_list", "clear_cache", "get_repo_list", "get_package_list",
                       "package_list"}
    BY <1>1 DEF Answer
  <1>4. \A i \in DOMAIN ms :
          (i \notin refused /\ ms[i].kind = "get_package_list") => kind(i) = "package_list"
    BY DEF Answer
  <1> HIDE DEF kind
  <1>5. \A i \in DOMAIN ms :
          /\ i \in I => Batch(kind(i)) \in Orders
          /\ Batch(kind(i)).kind = kind(i)
    BY <1>3, BatchTyped DEF Orders
  <1>6. replies \in Seq(T) /\ DOMAIN replies = DOMAIN ms
    <2>1. DOMAIN ms = 1 .. Len(ms) /\ Len(ms) \in Nat
      OBVIOUS
    <2>2. replies \in [1 .. Len(ms) -> T]
      BY <2>1
    <2> QED
      BY <2>1, <2>2
  <1>7. \A i \in DOMAIN ms : replies[i] = Batch(kind(i))
    OBVIOUS
  <1> HIDE DEF replies, T
  <1>8. /\ new \in Seq(T)
        /\ \A k \in DOMAIN new : \E i \in DOMAIN replies : i \in I /\ new[k] = replies[i]
        /\ \A i \in DOMAIN replies : i \in I => \E k \in DOMAIN new : new[k] = replies[i]
    BY <1>6, AtElements
  <1> HIDE DEF new
  <1>9. new \in Seq(Orders)
    <2>1. \A k \in DOMAIN new : new[k] \in Orders
      BY <1>5, <1>6, <1>7, <1>8
    <2> QED
      BY <1>8, <2>1
  <1>10. rest \o new \in Seq(Orders) /\ Joint(rest \o new, rest, new)
    BY <1>9, Joined
  <1>11. ASSUME HasList(rest) PROVE HasList(down')
    BY <1>2, <1>10, <1>11 DEF HasList, Joint
  <1>12. ASSUME HasAsked(ms), "refused" \notin incident' PROVE HasList(down')
    <2>1. PICK i \in DOMAIN ms : ms[i].kind = "get_package_list"
      BY <1>12 DEF HasAsked
    <2>2. i \in I /\ i \notin refused
      BY <1>1, <1>2, <1>12, <2>1
    <2>3. PICK k \in DOMAIN new : new[k] = Batch(kind(i))
      BY <1>6, <1>7, <1>8, <2>1, <2>2
    <2>4. new[k].kind = "package_list"
      BY <1>4, <1>5, <2>1, <2>2, <2>3
    <2>5. Len(rest) + k \in DOMAIN down' /\ down'[Len(rest) + k] = new[k]
      BY <1>2, <1>10, <2>3 DEF Joint
    <2> QED
      BY <2>4, <2>5 DEF HasList
  <1> QED
    BY <1>2, <1>10, <1>11, <1>12

(* The history grows.                                                      *)
LEMMA ServerIncident ==
  ASSUME NEW ms, NEW refused, NEW rest, ServerTakes(ms, refused, rest)
  PROVE  /\ incident \subseteq incident'
         /\ "expired" \in incident' => "expired" \in incident
  BY DEF ServerTakes

-------------------------------------------------------------------------------
(***************************************************************************)
(* The install process.  The running command belongs to the one element of *)
(* the list that is init; _process_commands is only ever called when none  *)
(* is.  Unless a command expired, a list that is not empty is being worked *)
(* on.                                                                     *)
(***************************************************************************)
Busy ==
  /\ Has(commands, running[1].id)
  /\ \A i \in DOMAIN commands : commands[i].init <=> (commands[i].id = running[1].id)
  /\ running[1].id # Refresh => NoRefresh(commands)
  /\ running[1].stage # "pre" => running[1].id # Refresh

Work ==
  /\ running # <<>> => Busy
  /\ pc = "process" => NoneInit(commands)
  /\ Distinct(commands) /\ RefreshFirst(commands) /\ RetriesOk(commands, flavour)
  /\ ("expired" \notin incident /\ pc # "process" /\ commands # <<>>) => running # <<>>

(* The command that simple_command.check finds finished.                   *)
LEMMA AtWork ==
  ASSUME InstallShape, RunInv, Work, running # <<>>
  PROVE  LET com == Head(running)
             i == Of(com)
         IN  /\ com \in External /\ com = running[1] /\ Tail(running) = <<>>
             /\ i \in DOMAIN commands /\ commands[i] \in Commands
             /\ commands[i].id = com.id /\ commands[i].init
             /\ OnlyInit(commands, i)
             /\ com.id # Refresh => (NoRefresh(commands) /\ com.id \in Package)
             /\ com.stage # "pre" => com.id # Refresh
  <1> DEFINE com == Head(running)
             i == Of(com)
  <1>1. com \in External /\ com = running[1]
    BY DEF InstallShape
  <1>2. Tail(running) = <<>>
    BY LastOne DEF RunInv
  <1> HIDE DEF com
  <1>3. i \in DOMAIN commands /\ commands[i].id = com.id
    BY <1>1 DEF Work, Busy, Has, Of
  <1> HIDE DEF i
  <1>4. commands[i] \in Commands
    BY <1>3 DEF InstallShape
  <1>5. commands[i].init
    BY <1>1, <1>3 DEF Work, Busy
  <1>6. OnlyInit(commands, i)
    BY <1>1, <1>3 DEF Work, Busy, OnlyInit, Distinct
  <1>7. com.id # Refresh => com.id \in Package
    BY <1>1 DEF External, Ids
  <1> QED
    BY <1>1, <1>2, <1>3, <1>4, <1>5, <1>6, <1>7 DEF Work, Busy, com, i

LEMMA ReadyWork ==
  ASSUME Ready(commands', flavour'), pc' = "process", running' = <<>>
  PROVE  commands' \in Seq(Commands) /\ running' \in Seq(External) /\ Work'
  BY DEF Ready, Work

LEMMA Replacing ==
  ASSUME NEW cs \in Seq(Commands), NEW i \in DOMAIN cs, NEW c \in Commands,
         c.id = cs[i].id
  PROVE  LET r == ReplaceAt(cs, i, c)
         IN  /\ r \in Seq(Commands) /\ DOMAIN r = DOMAIN cs
             /\ r[i] = c /\ \A k \in DOMAIN cs : k # i => r[k] = cs[k]
             /\ \A k \in DOMAIN cs : r[k].id = cs[k].id
             /\ \A x : Has(cs, x) <=> Has(r, x)
             /\ Distinct(cs) => Distinct(r)
             /\ RefreshFirst(cs) => RefreshFirst(r)
             /\ NoRefresh(cs) => NoRefresh(r)
  <1> DEFINE r == ReplaceAt(cs, i, c)
  <1>1. /\ r \in Seq(Commands) /\ DOMAIN r = DOMAIN cs
        /\ r[i] = c /\ \A k \in DOMAIN cs : k # i => r[k] = cs[k]
    BY Replaced
  <1> HIDE DEF r
  <1>2. \A k \in DOMAIN cs : r[k].id = cs[k].id
    BY <1>1
  <1>3. \A x : Has(cs, x) <=> Has(r, x)
    BY <1>1, <1>2 DEF Has
  <1>4. /\ Distinct(cs) => Distinct(r)
        /\ RefreshFirst(cs) => RefreshFirst(r)
        /\ NoRefresh(cs) => NoRefresh(r)
    BY <1>1, <1>2 DEF Distinct, RefreshFirst, NoRefresh
  <1> QED
    BY <1>1, <1>2, <1>3, <1>4 DEF r

(* A command that starts keeps its place in the list and becomes the one   *)
(* that runs.                                                              *)
LEMMA StartsWork ==
  ASSUME commands \in Seq(Commands), Distinct(commands), RefreshFirst(commands),
         RetriesOk(commands, flavour), flavour' = flavour,
         NEW i \in DOMAIN commands, OnlyInit(commands, i),
         NEW c \in Commands, c.id = commands[i].id, c.init, RetryOk(c, flavour),
         c.id # Refresh => NoRefresh(commands),
         NEW stage \in Stages, stage # "pre" => c.id # Refresh,
         commands' = ReplaceAt(commands, i, c),
         NEW none, none = <<>>,
         running' = Append(none, [id |-> c.id, stage |-> stage]),
         pc' = "idle"
  PROVE  /\ commands' \in Seq(Commands) /\ running' \in Seq(External) /\ Work'
         /\ \A x : Has(commands, x) <=> Has(commands', x)
  <1> DEFINE com == [id |-> c.id, stage |-> stage]
  <1>1. com \in External /\ com.id = c.id /\ com.stage = stage
    BY DEF External, Commands
  <1> HIDE DEF com
  <1>2. running' \in Seq(External) /\ running' # <<>> /\ running'[1] = com
    <2>1. none \in Seq(External)
      OBVIOUS
    <2>2. Append(none, com) \in Seq(External) /\ Append(none, com)[1] = com /\ Append(none, com) # <<>>
      BY <1>1, <2>1
    <2> QED
      BY <2>2 DEF com
  <1>3. /\ commands' \in Seq(Commands) /\ DOMAIN commands' = DOMAIN commands
        /\ commands'[i] = c /\ \A k \in DOMAIN commands : k # i => commands'[k] = commands[k]
        /\ \A k \in DOMAIN commands : commands'[k].id = commands[k].id
        /\ \A x : Has(commands, x) <=> Has(commands', x)
        /\ Distinct(commands') /\ RefreshFirst(commands')
        /\ NoRefresh(commands) => NoRefresh(commands')
    BY Replacing
  <1>4. RetriesOk(commands', flavour')
    BY <1>3 DEF RetriesOk
  <1>5. \A k \in DOMAIN commands' : commands'[k].init <=> (commands'[k].id = c.id)
    <2> SUFFICES ASSUME NEW k \in DOMAIN commands'
                 PROVE  commands'[k].init <=> (commands'[k].id = c.id)
      OBVIOUS
    <2>1. CASE k = i
      BY <1>3, <2>1
    <2>2. CASE k # i
      <3>1. k \in DOMAIN commands /\ commands'[k] = commands[k]
        BY <1>3, <2>2
      <3>2. ~commands[k].init
        BY <2>2, <3>1 DEF OnlyInit
      <3>3. commands[k].id # c.id
        BY <2>2, <3>1 DEF Distinct
      <3> QED
        BY <3>1, <3>2, <3>3
    <2> QED
      BY <2>1, <2>2
  <1>6. Has(commands', c.id)
    BY <1>3 DEF Has
  <1>7. Busy'
    BY <1>1, <1>2, <1>3, <1>5, <1>6 DEF Busy
  <1> QED
    BY <1>2, <1>3, <1>4, <1>7 DEF Work

-------------------------------------------------------------------------------
(***************************************************************************)
(* The server's record.  For a package without doubt, either a report on   *)
(* it is still to be made (it is in the list, or a package list is on its  *)
(* way or will be asked for), or the latest report on it is right: the one *)
(* the client has not sent, or else the one it has buffered, or else the   *)
(* one the server has stored.                                              *)
(***************************************************************************)
Coming(x) == Has(commands, x) \/ HasList(pending) \/ HasList(down) \/ HasAsked(buffer)

LatestIn(o, b, stored, x, R) ==
  \/ LastIn(o, x, R)
  \/ (ReportsOf(o, x) = {} /\ LastIn(b, x, R))
  \/ (ReportsOf(o, x) = {} /\ ReportsOf(b, x) = {} /\ stored \in R)

Right(x) == {"u", Maybe(installed[x])}
RecordOf(x) == Coming(x) \/ LatestIn(out, buffer, recorded[x], x, Right(x))

RecordInv ==
  "refused" \notin incident => \A x \in Package : Doubts(x) = {} => RecordOf(x)

(* A main command that runs on unsupervised puts its package in doubt.     *)
StrayInv == \A s \in stray : <<s.id, "stray">> \in doubt

(* Doubts are never taken back, so that only the package without a doubt   *)
(* after a step matters.                                                   *)
LEMMA RecordKept ==
  ASSUME RecordInv, incident \subseteq incident', doubt \subseteq doubt',
         "refused" \notin incident' =>
           \A x \in Package : (Doubts(x)' = {} /\ RecordOf(x)) => RecordOf(x)'
  PROVE  RecordInv'
  <1>1. \A x \in Package : Doubts(x)' = {} => Doubts(x) = {}
    BY DEF Doubts
  <1> QED
    BY <1>1 DEF RecordInv

LEMMA NoDoubt ==
  ASSUME NEW x, NEW why, Doubts(x)' = {}
  PROVE  <<x, why>> \notin doubt'
  <1> DEFINE d == <<x, why>>
  <1>1. d[1] = x
    OBVIOUS
  <1> HIDE DEF d
  <1>2. d \notin doubt'
    BY <1>1 DEF Doubts
  <1> QED
    BY <1>2 DEF d

(* A package without doubt has had no report refused.                      *)
LEMMA NoneRefused ==
  ASSUME NEW ms, NEW refused, NEW x, RefusedReports(ms, refused) \subseteq doubt',
         Doubts(x)' = {}
  PROVE  ReportsOf(ms, x) \cap refused = {}
  <1> SUFFICES ASSUME NEW i \in ReportsOf(ms, x), i \in refused PROVE FALSE
    OBVIOUS
  <1>1. i \in refused \ Requests(ms) /\ ms[i].id = x
    BY DEF ReportsOf, Requests
  <1>2. <<x, "refused">> \in doubt'
    BY <1>1 DEF RefusedReports
  <1> QED
    BY <1>2, NoDoubt

(* A report at the end of the messages.                                    *)
LEMMA ReportAdded ==
  ASSUME NEW ms \in Seq(Messages), NEW m \in Messages
  PROVE  LET r == Append(ms, m)
         IN  /\ r \in Seq(Messages)
             /\ HasAsked(ms) => HasAsked(r)
             /\ \A x : ~(IsReport(m) /\ m.id = x) =>
                  (/\ ReportsOf(r, x) = ReportsOf(ms, x)
                   /\ \A R : LastIn(ms, x, R) => LastIn(r, x, R))
             /\ \A x, R : (IsReport(m) /\ m.id = x /\ m.shown \in R) => LastIn(r, x, R)
  <1> DEFINE r == Append(ms, m)
             n == Len(ms)
  <1>1. /\ r \in Seq(Messages) /\ n \in Nat /\ DOMAIN ms = 1 .. n /\ DOMAIN r = 1 .. n + 1
        /\ r[n + 1] = m /\ \A k \in 1 .. n : r[k] = ms[k]
    OBVIOUS
  <1> HIDE DEF r, n
  <1>2. \A k \in DOMAIN ms : k \in DOMAIN r /\ r[k] = ms[k]
    BY <1>1
  <1>3. \A k \in DOMAIN r : k = n + 1 \/ (k \in DOMAIN ms /\ r[k] = ms[k])
    BY <1>1
  <1>4. n + 1 \in DOMAIN r /\ \A k \in DOMAIN r : k <= n + 1
    BY <1>1
  <1>5. HasAsked(ms) => HasAsked(r)
    BY <1>2 DEF HasAsked
  <1>6. ASSUME NEW x, ~(IsReport(m) /\ m.id = x)
        PROVE  /\ ReportsOf(r, x) = ReportsOf(ms, x)
               /\ \A R : LastIn(ms, x, R) => LastIn(r, x, R)
    <2>1. ReportsOf(r, x) \subseteq ReportsOf(ms, x)
      BY <1>1, <1>3, <1>6 DEF ReportsOf, IsReport
    <2>2. ReportsOf(ms, x) \subseteq ReportsOf(r, x)
      BY <1>2 DEF ReportsOf, IsReport
    <2>3. \A k \in ReportsOf(ms, x) : k \in DOMAIN ms
      BY DEF ReportsOf
    <2>4. ReportsOf(r, x) = ReportsOf(ms, x)
      BY <2>1, <2>2
    <2>5. \A R : LastIn(ms, x, R) => LastIn(r, x, R)
      BY <1>2, <2>3, <2>4 DEF LastIn
    <2> QED
      BY <2>4, <2>5
  <1>7. ASSUME NEW x, NEW R, IsReport(m), m.id = x, m.shown \in R
        PROVE  LastIn(r, x, R)
    <2>1. n + 1 \in ReportsOf(r, x)
      BY <1>1, <1>4, <1>7 DEF ReportsOf
    <2>2. \A j \in ReportsOf(r, x) : j <= n + 1
      BY <1>4 DEF ReportsOf
    <2>3. r[n + 1].shown \in R
      BY <1>1, <1>7
    <2> QED
      BY <2>1, <2>2, <2>3 DEF LastIn
  <1> QED
    BY <1>1, <1>5, <1>6, <1>7 DEF r

LEMMA ReportTyped ==
  ASSUME NEW c \in Commands
  PROVE  Info(c) \in Messages /\ IsReport(Info(c)) /\ Info(c).id = c.id /\ Info(c).shown = c.shown
  BY DEF Info, Commands, Messages, IsReport

(* pdc_done: the list for the next call of _process_commands, and the      *)
(* report on the package.                                                  *)
LEMMA DoneReady ==
  ASSUME InstallShape, Work, out \in Seq(Messages),
         NEW i \in DOMAIN commands, OnlyInit(commands, i), NoRefresh(commands),
         NEW c \in Commands, c.id = commands[i].id, RetryOk(c, flavour),
         PdcDone(i, c)
  PROVE  /\ Ready(commands', flavour) /\ out' \in Seq(Messages)
         /\ \A x : (Has(commands, x) /\ x # c.id) => Has(commands', x)
  <1> DEFINE keep == c.warn /\ c.retry <= MaxRetry
             no == FALSE
             back == [c EXCEPT !.init = no, !.retry = @ + 1]
  <1>1. /\ out' = Append(out, Info(c))
        /\ commands' = IF keep THEN <<RefreshCommand>> \o ReplaceAt(commands, i, back)
                       ELSE RemoveAt(commands, i)
    BY DEF PdcDone
  <1>2. out' \in Seq(Messages)
    BY <1>1, ReportTyped, ReportAdded
  <1>3. commands \in Seq(Commands) /\ Distinct(commands) /\ RetriesOk(commands, flavour)
    BY DEF InstallShape, Work
  <1>4. CASE ~keep
    <2>1. commands' = RemoveAt(commands, i)
      BY <1>1, <1>4
    <2>2. /\ Ready(commands', flavour)
          /\ \A k \in DOMAIN commands : k # i => Has(commands', commands[k].id)
      BY <1>3, <2>1, RemovedReady DEF NoRefresh
    <2> QED
      BY <1>2, <2>2 DEF Has
  <1>5. CASE keep
    <2>1. commands' = <<RefreshCommand>> \o ReplaceAt(commands, i, back)
      BY <1>1, <1>5
    <2>2. no \in BOOLEAN /\ ~no /\ c.retry \in 0 .. MaxRetry /\ flavour = "zypper"
      BY <1>5 DEF Commands, MaxRetry, RetryOk
    <2> HIDE DEF no
    <2>3. c.retry + 1 \in 0 .. MaxRetry + 1
      BY <2>2 DEF MaxRetry
    <2>4. back \in Commands /\ back.id = c.id /\ back.init = no
      BY <2>2, <2>3 DEF Commands
    <2> HIDE DEF back
    <2>5. RetryOk(back, flavour)
      BY <2>2 DEF RetryOk
    <2>6. ~back.init
      BY <2>2, <2>4
    <2>7. back.id = commands[i].id
      BY <2>4
    <2>8. /\ Ready(commands', flavour)
          /\ \A k \in DOMAIN commands : Has(commands', commands[k].id)
      BY <1>3, <2>1, <2>4, <2>5, <2>6, <2>7, RetriedReady
    <2> QED
      BY <1>2, <2>8 DEF Has
  <1> QED
    BY <1>4, <1>5

LEMMA DoneRecorded ==
  ASSUME InstallShape, Work, out \in Seq(Messages),
         NEW i \in DOMAIN commands, OnlyInit(commands, i), NoRefresh(commands),
         NEW c \in Commands, c.id = commands[i].id, RetryOk(c, flavour),
         PdcDone(i, c), UNCHANGED <<pending, down, buffer, recorded, installed>>,
         NEW x \in Package, RecordOf(x), x = c.id => c.shown \in Right(x)
  PROVE  RecordOf(x)'
  <1>1. out' = Append(out, Info(c))
    BY DEF PdcDone
  <1>2. Info(c) \in Messages /\ IsReport(Info(c)) /\ Info(c).id = c.id /\ Info(c).shown = c.shown
    BY ReportTyped
  <1>3. Right(x)' = Right(x)
    BY DEF Right
  <1>4. CASE x = c.id
    <2>1. LastIn(out', x, Right(x))
      BY <1>1, <1>2, <1>4, ReportAdded
    <2> QED
      BY <1>3, <2>1 DEF RecordOf, LatestIn
  <1>5. CASE x # c.id
    <2>1. Coming(x) => Coming(x)'
      BY <1>5, DoneReady DEF Coming
    <2>2. /\ ReportsOf(out', x) = ReportsOf(out, x)
          /\ \A R : LastIn(out, x, R) => LastIn(out', x, R)
      BY <1>1, <1>2, <1>5, ReportAdded
    <2> QED
      BY <1>3, <2>1, <2>2 DEF RecordOf, LatestIn
  <1> QED
    BY <1>4, <1>5

-------------------------------------------------------------------------------
(***************************************************************************)
(* The inductive invariant and the steps of the install process.           *)
(***************************************************************************)
Inv == Shape /\ RunInv /\ Work /\ StrayInv /\ RecordInv

LEMMA HeadTail ==
  ASSUME NEW S, NEW s \in Seq(S), s # <<>>
  PROVE  /\ Head(s) \in S /\ Head(s) = s[1] /\ Tail(s) \in Seq(S)
         /\ 1 \in DOMAIN s
         /\ \A k \in DOMAIN Tail(s) : k + 1 \in DOMAIN s /\ Tail(s)[k] = s[k + 1]
         /\ \A k \in DOMAIN s : k = 1 \/ (k - 1 \in DOMAIN Tail(s) /\ Tail(s)[k - 1] = s[k])
  <1>1. Len(s) \in Nat /\ Len(s) >= 1 /\ DOMAIN s = 1 .. Len(s)
    OBVIOUS
  <1>2. /\ Head(s) \in S /\ Head(s) = s[1] /\ Tail(s) \in Seq(S)
        /\ Len(Tail(s)) = Len(s) - 1
    OBVIOUS
  <1>3. DOMAIN Tail(s) = 1 .. Len(s) - 1
    BY <1>1, <1>2
  <1>4. \A k \in 1 .. Len(s) - 1 : Tail(s)[k] = s[k + 1]
    BY <1>1
  <1>5. ASSUME NEW k \in DOMAIN s, k # 1
        PROVE  k - 1 \in DOMAIN Tail(s) /\ Tail(s)[k - 1] = s[k]
    <2>1. k - 1 \in 1 .. Len(s) - 1 /\ k - 1 + 1 = k
      BY <1>1, <1>5
    <2> QED
      BY <1>3, <1>4, <2>1
  <1>6. \A k \in DOMAIN Tail(s) : k + 1 \in DOMAIN s /\ Tail(s)[k] = s[k + 1]
    BY <1>1, <1>3, <1>4
  <1>7. 1 \in DOMAIN s
    BY <1>1
  <1> QED
    BY <1>2, <1>5, <1>6, <1>7

(* Messages that are taken from the front of a queue.                      *)
LEMMA ListLeft ==
  ASSUME NEW S, NEW s \in Seq(S), s # <<>>, HasList(s), Head(s).kind # "package_list"
  PROVE  HasList(Tail(s))
  <1>1. /\ Head(s) = s[1]
        /\ \A k \in DOMAIN s : k = 1 \/ (k - 1 \in DOMAIN Tail(s) /\ Tail(s)[k - 1] = s[k])
    BY HeadTail
  <1>2. PICK k \in DOMAIN s : s[k].kind = "package_list"
    BY DEF HasList
  <1>3. k - 1 \in DOMAIN Tail(s) /\ Tail(s)[k - 1].kind = "package_list"
    BY <1>1, <1>2
  <1> QED
    BY <1>3 DEF HasList

LEMMA HandlePendingKept ==
  ASSUME Inv, HandlePendingCommands
  PROVE  Shape' /\ Work' /\ StrayInv' /\ RecordInv'
  <1>0. UNCHANGED <<running, out, buffer, armed, contact, down, link, flavour, target, recorded,
                    orders, faults, incident, installed, stray, doubt>>
    BY DEF HandlePendingCommands, Untouched, main, config, bounds
  <1>1. /\ pending \in Seq(Batches) /\ commands \in Seq(Commands) /\ running \in Seq(External)
        /\ pc = "pending"
    BY DEF Inv, Shape, InstallShape, HandlePendingCommands
  <1>2. MainShape' /\ NodeShape' /\ StrayInv'
    BY <1>0 DEF Inv, Shape, MainShape, NodeShape, StrayInv
  <1>3. \A x : Right(x)' = Right(x)
    BY <1>0 DEF Right
  <1>4. CASE pending = <<>> \/ commands # <<>>
    <2>1. pc' = "idle" /\ UNCHANGED <<pending, commands>>
      BY <1>4 DEF HandlePendingCommands
    <2>2. InstallShape'
      BY <1>0, <1>1, <2>1 DEF InstallShape
    <2>3. Busy' = Busy
      BY <1>0, <2>1 DEF Busy
    <2>4. Work'
      BY <1>0, <1>1, <2>1, <2>3 DEF Inv, Work
    <2>5. \A x : RecordOf(x) => RecordOf(x)'
      BY <1>0, <1>3, <2>1 DEF RecordOf, Coming
    <2>6. RecordInv'
      BY <1>0, <2>5, RecordKept DEF Inv
    <2> QED
      BY <1>2, <2>2, <2>4, <2>6 DEF Shape
  <1>5. CASE pending # <<>> /\ commands = <<>>
    <2> DEFINE m == Head(pending)
    <2>1. m \in Batches /\ Tail(pending) \in Seq(Batches)
      BY <1>1, <1>5, HeadTail
    <2>2. running = <<>> /\ running' = <<>>
      BY <1>0, <1>5 DEF Inv, RunInv
    <2>3. pending' = Tail(pending)
      BY <1>5 DEF HandlePendingCommands
    <2>4. m.kind = "package_list" => m.want \in Wanted
      BY <2>1 DEF Batches, Lists
    <2>5. /\ pc' \in {"pending", "process"} /\ Ready(commands', flavour')
          /\ pc' = "pending" => commands' = <<>>
          /\ m.kind = "package_list" => \A x \in Package : Has(commands', x)
      <3>1. \/ (m.kind = "repo_list" /\ commands' \in {<<>>, <<RefreshCommand>>} /\ pc' = "process")
            \/ (m.kind = "clear_cache" /\ commands' = <<RefreshCommand>> /\ pc' = "process")
            \/ (m.kind = "package_list" /\ commands' = PackageList(m.want) /\ pc' = "process")
            \/ ((m.kind \in {"get_package_list", "get_repo_list"} \/ Package = {})
                /\ UNCHANGED <<commands, pc>>)
        BY <1>5 DEF HandlePendingCommands
      <3> HIDE DEF m
      <3>2. CASE m.kind = "repo_list" /\ commands' \in {<<>>, <<RefreshCommand>>} /\ pc' = "process"
        BY <3>2, EmptyReady, RefreshReady
      <3>3. CASE m.kind = "clear_cache" /\ commands' = <<RefreshCommand>> /\ pc' = "process"
        BY <3>3, RefreshReady
      <3>4. CASE m.kind = "package_list" /\ commands' = PackageList(m.want) /\ pc' = "process"
        BY <2>4, <3>4, ListReady
      <3>5. CASE (m.kind \in {"get_package_list", "get_repo_list"} \/ Package = {})
                 /\ UNCHANGED <<commands, pc>>
        BY <1>1, <1>5, <3>5, EmptyReady
      <3> QED
        BY <3>1, <3>2, <3>3, <3>4, <3>5
    <2>6. InstallShape'
      BY <1>0, <1>1, <2>1, <2>3, <2>5 DEF InstallShape, Ready
    <2>7. Work'
      BY <2>2, <2>5 DEF Work, Ready
    <2>8. ASSUME NEW x \in Package, RecordOf(x) PROVE RecordOf(x)'
      <3>1. ~Has(commands, x)
        BY <1>5 DEF Has
      <3>2. CASE HasList(pending)
        <4>1. m.kind = "package_list" \/ HasList(pending')
          BY <1>1, <1>5, <2>3, <3>2, ListLeft
        <4> QED
          BY <2>5, <4>1 DEF RecordOf, Coming
      <3>3. CASE ~HasList(pending)
        BY <1>0, <1>3, <2>8, <3>1, <3>3 DEF RecordOf, Coming
      <3> QED
        BY <3>2, <3>3
    <2>9. RecordInv'
      BY <1>0, <2>8, RecordKept DEF Inv
    <2> QED
      BY <1>2, <2>6, <2>7, <2>9 DEF Shape
  <1> QED
    BY <1>4, <1>5

(* _process_commands takes the first element of the list: none is init.    *)
LEMMA ProcessKept ==
  ASSUME Inv, ProcessCommands
  PROVE  Shape' /\ Work' /\ StrayInv' /\ RecordInv'
  <1>0. UNCHANGED <<pending, buffer, armed, contact, down, link, flavour, target, recorded,
                    orders, faults, incident, installed, stray, doubt>>
    BY DEF ProcessCommands, Untouched, main, config, bounds
  <1>1. /\ pending \in Seq(Batches) /\ commands \in Seq(Commands) /\ out \in Seq(Messages)
        /\ pc = "process" /\ running = <<>> /\ InstallShape /\ Work
    BY DEF Inv, Shape, InstallShape, MainShape, ProcessCommands, RunInv
  <1>2. /\ NoneInit(commands) /\ Distinct(commands) /\ RefreshFirst(commands)
        /\ RetriesOk(commands, flavour)
    BY <1>1 DEF Work
  <1>3. NodeShape' /\ StrayInv' /\ (out' \in Seq(Messages) => MainShape')
    BY <1>0 DEF Inv, Shape, MainShape, NodeShape, StrayInv
  <1>4. NotInit = DOMAIN commands
    BY <1>2 DEF NotInit, NoneInit
  <1>5. CASE commands = <<>>
    <2>1. NotInit = {}
      BY <1>4, <1>5
    <2>2. pc' = "pending" /\ UNCHANGED <<commands, running, out>>
      BY <2>1 DEF ProcessCommands
    <2>3. InstallShape' /\ Work'
      BY <1>0, <1>1, <1>2, <1>5, <2>2 DEF InstallShape, Work
    <2>4. \A x : RecordOf(x) => RecordOf(x)'
      BY <1>0, <2>2 DEF RecordOf, Coming, Right
    <2>5. RecordInv'
      BY <1>0, <2>4, RecordKept DEF Inv
    <2> QED
      BY <1>1, <1>3, <2>2, <2>3, <2>5 DEF Shape
  <1>6. CASE commands # <<>>
    <2> DEFINE i == CHOOSE j \in NotInit : \A k \in NotInit : j <= k
               yes == TRUE
               c == [commands[i] EXCEPT !.init = yes]
    <2>1. NotInit # {} /\ i = 1 /\ i \in DOMAIN commands
      <3>1. DOMAIN commands = 1 .. Len(commands) /\ Len(commands) \in Nat /\ Len(commands) # 0
        BY <1>1, <1>6
      <3>2. 1 \in NotInit /\ \A k \in NotInit : 1 <= k /\ k \in Nat
        BY <1>4, <3>1
      <3>3. i \in NotInit /\ \A k \in NotInit : i <= k
        BY <3>2
      <3>4. i = 1
        <4> HIDE DEF i
        <4> QED
          BY <3>2, <3>3
      <3> QED
        BY <1>4, <3>2, <3>4
    <2>2. /\ HasPreCommand(c) =>
               /\ commands' = ReplaceAt(commands, i, c)
               /\ running' = Append(running, [id |-> c.id, stage |-> "pre"])
               /\ pc' = "idle" /\ UNCHANGED out
          /\ ~HasPreCommand(c) => (PdcDone(i, c) /\ UNCHANGED running)
      BY <2>1 DEF ProcessCommands
    <2>3. yes \in BOOLEAN /\ yes
      OBVIOUS
    <2> HIDE DEF i, yes
    <2>4. commands[i] \in Commands /\ ~commands[i].init /\ RetryOk(commands[i], flavour)
      BY <1>1, <1>2, <2>1 DEF NoneInit, RetriesOk
    <2>5. /\ c \in Commands /\ c.id = commands[i].id /\ c.init = yes
          /\ c.warn = commands[i].warn /\ c.retry = commands[i].retry
          /\ c.shown = commands[i].shown
      BY <2>3, <2>4 DEF Commands
    <2> HIDE DEF c
    <2>6. c.init /\ RetryOk(c, flavour)
      BY <2>3, <2>4, <2>5 DEF RetryOk
    <2>7. OnlyInit(commands, i)
      BY <1>2 DEF NoneInit, OnlyInit
    <2>8. c.id # Refresh => NoRefresh(commands)
      BY <1>2, <2>1, <2>5 DEF RefreshFirst, NoRefresh
    <2>9. CASE HasPreCommand(c)
      <3>1. /\ commands' \in Seq(Commands) /\ running' \in Seq(External) /\ Work'
            /\ \A x : Has(commands, x) <=> Has(commands', x)
        BY <1>0, <1>1, <1>2, <2>1, <2>2, <2>5, <2>6, <2>7, <2>8, <2>9, StartsWork DEF Stages
      <3>2. InstallShape'
        BY <1>0, <1>1, <2>2, <2>9, <3>1 DEF InstallShape
      <3>3. \A x : RecordOf(x) => RecordOf(x)'
        BY <1>0, <2>2, <2>9, <3>1 DEF RecordOf, Coming, Right
      <3>4. RecordInv'
        BY <1>0, <3>3, RecordKept DEF Inv
      <3> QED
        BY <1>1, <1>3, <2>2, <2>9, <3>1, <3>2, <3>4 DEF Shape
    <2>10. CASE ~HasPreCommand(c)
      <3>1. c.id # Refresh /\ flavour = "yum"
        BY <2>10 DEF HasPreCommand
      <3>2. c.shown = "u" /\ NoRefresh(commands)
        BY <2>4, <2>5, <2>8, <3>1 DEF RetryOk
      <3>3. PdcDone(i, c) /\ running' = <<>> /\ pc' = "process"
        BY <1>1, <2>2, <2>10 DEF PdcDone
      <3>4. Ready(commands', flavour) /\ out' \in Seq(Messages)
        BY <1>1, <2>1, <2>5, <2>6, <2>7, <3>2, <3>3, DoneReady
      <3>5. commands' \in Seq(Commands) /\ running' \in Seq(External) /\ Work'
        BY <1>0, <3>3, <3>4, ReadyWork
      <3>6. InstallShape'
        BY <1>0, <1>1, <3>3, <3>5 DEF InstallShape
      <3>7. \A x \in Package : RecordOf(x) => RecordOf(x)'
        <4> SUFFICES ASSUME NEW x \in Package, RecordOf(x) PROVE RecordOf(x)'
          OBVIOUS
        <4>1. c.shown \in Right(x)
          BY <3>2 DEF Right
        <4> QED
          BY <1>0, <1>1, <2>1, <2>5, <2>6, <2>7, <3>2, <3>3, <4>1, DoneRecorded
      <3>8. RecordInv'
        BY <1>0, <3>7, RecordKept DEF Inv
      <3> QED
        BY <1>3, <3>4, <3>5, <3>6, <3>8 DEF Shape
    <2> QED
      BY <2>9, <2>10
  <1> QED
    BY <1>5, <1>6

LEMMA Queried ==
  ASSUME NEW c \in Commands, c.id \in Package, installed \in [Package -> BOOLEAN], c.init, NEW f,
         RetryOk(c, f)
  PROVE  /\ Query(c) \in Commands /\ Query(c).id = c.id /\ Query(c).init
         /\ Query(c).retry = c.retry /\ RetryOk(Query(c), f)
         /\ c.retry = 0 => Query(c).shown = Maybe(installed[c.id])
  <1> DEFINE v == IF c.retry = 0 THEN Maybe(installed[c.id]) ELSE c.shown
  <1>1. v \in Shown
    BY DEF Maybe, Shown, Commands
  <1>2. Query(c) = [c EXCEPT !.shown = v]
    BY DEF Query, Commands
  <1>3. c.retry = 0 => v = Maybe(installed[c.id])
    OBVIOUS
  <1> HIDE DEF v
  <1>4. /\ Query(c) \in Commands /\ Query(c).id = c.id /\ Query(c).init = c.init
        /\ Query(c).retry = c.retry /\ Query(c).warn = c.warn /\ Query(c).shown = v
    BY <1>1, <1>2 DEF Commands
  <1>5. Query(c).init /\ RetryOk(Query(c), f)
    BY <1>4 DEF RetryOk
  <1> QED
    BY <1>3, <1>4, <1>5

(* The end of a package: after the pre command when nothing is to be done, *)
(* or after the post command.                                              *)
LEMMA EndKept ==
  ASSUME Inv, running # <<>>, NEW i, i = Of(Head(running)), Head(running).id # Refresh,
         NEW c, c = Query(commands[i]), PdcDone(i, c), running' = Tail(running),
         doubt' = IF c.retry > 0 THEN doubt \cup {<<c.id, "retried">>} ELSE doubt,
         UNCHANGED <<pending, Untouched, installed, stray>>
  PROVE  Shape' /\ Work' /\ StrayInv' /\ RecordInv'
  <1>0. UNCHANGED <<pending, buffer, armed, contact, down, link, flavour, target, recorded,
                    orders, faults, incident, installed, stray>>
    BY DEF Untouched, main, config, bounds
  <1>1. InstallShape /\ Work /\ out \in Seq(Messages) /\ installed \in [Package -> BOOLEAN]
    BY DEF Inv, Shape, MainShape, NodeShape
  <1>2. /\ Tail(running) = <<>>
        /\ i \in DOMAIN commands /\ commands[i] \in Commands
        /\ commands[i].id \in Package /\ commands[i].init
        /\ OnlyInit(commands, i) /\ NoRefresh(commands)
    BY <1>1, AtWork DEF Inv
  <1>3. RetryOk(commands[i], flavour)
    BY <1>1, <1>2 DEF Work, RetriesOk
  <1>4. /\ c \in Commands /\ c.id = commands[i].id /\ RetryOk(c, flavour)
        /\ c.retry = commands[i].retry
        /\ commands[i].retry = 0 => c.shown = Maybe(installed[c.id])
    BY <1>1, <1>2, <1>3, Queried
  <1>5. Ready(commands', flavour) /\ out' \in Seq(Messages)
    BY <1>1, <1>2, <1>4, DoneReady
  <1>6. pc' = "process" /\ running' = <<>>
    BY <1>2 DEF PdcDone
  <1>7. commands' \in Seq(Commands) /\ running' \in Seq(External) /\ Work'
    BY <1>0, <1>5, <1>6, ReadyWork
  <1>8. Shape'
    BY <1>0, <1>5, <1>6, <1>7 DEF Inv, Shape, InstallShape, MainShape, NodeShape
  <1>9. StrayInv' /\ doubt \subseteq doubt'
    BY <1>0 DEF Inv, StrayInv
  <1>10. ASSUME NEW x \in Package, Doubts(x)' = {}, RecordOf(x) PROVE RecordOf(x)'
    <2>1. ASSUME x = c.id PROVE c.shown \in Right(x)
      <3>1. ~(c.retry > 0)
        BY <1>10, <2>1, NoDoubt
      <3>2. c.retry = 0
        BY <1>4, <3>1 DEF Commands
      <3> QED
        BY <1>4, <2>1, <3>2 DEF Right
    <2> QED
      BY <1>0, <1>1, <1>2, <1>4, <1>10, <2>1, DoneRecorded
  <1>11. RecordInv'
    BY <1>0, <1>9, <1>10, RecordKept DEF Inv
  <1> QED
    BY <1>7, <1>8, <1>9, <1>11

LEMMA RefreshDoneKept ==
  ASSUME Inv, running # <<>>, RefreshDone(Head(running))
  PROVE  Shape' /\ Work' /\ StrayInv' /\ RecordInv'
  <1> DEFINE i == Of(Head(running))
  <1>0. UNCHANGED <<pending, out, buffer, armed, contact, down, link, flavour, target, recorded,
                    orders, faults, incident, installed, stray, doubt>>
    BY DEF RefreshDone, Untouched, main, config, bounds
  <1>1. InstallShape /\ Work /\ commands \in Seq(Commands)
    BY DEF Inv, Shape, InstallShape
  <1>2. /\ Tail(running) = <<>> /\ Head(running).id = Refresh
        /\ i \in DOMAIN commands /\ commands[i].id = Refresh /\ OnlyInit(commands, i)
    BY <1>1, AtWork DEF Inv, RefreshDone
  <1>3. Distinct(commands) /\ RetriesOk(commands, flavour)
    BY <1>1 DEF Work
  <1>4. \A k \in DOMAIN commands : k # i => commands[k].id # Refresh
    BY <1>2, <1>3 DEF Distinct
  <1>5. commands' = RemoveAt(commands, i) /\ pc' = "process" /\ running' = <<>>
    BY <1>2 DEF RefreshDone
  <1>6. /\ Ready(commands', flavour)
        /\ \A k \in DOMAIN commands : k # i => Has(commands', commands[k].id)
    BY <1>1, <1>2, <1>3, <1>4, <1>5, RemovedReady
  <1>7. commands' \in Seq(Commands) /\ running' \in Seq(External) /\ Work'
    BY <1>0, <1>5, <1>6, ReadyWork
  <1>8. Shape' /\ StrayInv'
    BY <1>0, <1>5, <1>7 DEF Inv, Shape, InstallShape, MainShape, NodeShape, StrayInv
  <1>9. \A x \in Package : Has(commands, x) => Has(commands', x)
    BY <1>2, <1>6, PackageAssumption DEF Has, Refresh
  <1>10. \A x \in Package : RecordOf(x) => RecordOf(x)'
    BY <1>0, <1>9 DEF RecordOf, Coming, Right
  <1>11. RecordInv'
    BY <1>0, <1>10, RecordKept DEF Inv
  <1> QED
    BY <1>7, <1>8, <1>11

LEMMA PreDoneKept ==
  ASSUME Inv, running # <<>>, pc = "idle", PreDone(Head(running))
  PROVE  Shape' /\ Work' /\ StrayInv' /\ RecordInv'
  <1> DEFINE com == Head(running)
             i == Of(com)
             c == Query(commands[i])
  <1>1. com.id # Refresh /\ UNCHANGED <<pending, Untouched, installed, stray>>
    BY DEF PreDone
  <1>2. CASE ~HasPostCommand(c) \/ Satisfied(c)
    <2>1. /\ PdcDone(i, c) /\ running' = Tail(running)
          /\ doubt' = IF c.retry > 0 THEN doubt \cup {<<c.id, "retried">>} ELSE doubt
      BY <1>2 DEF PreDone
    <2> QED
      BY <1>1, <2>1, EndKept
  <1>3. CASE ~(~HasPostCommand(c) \/ Satisfied(c))
    <2>1. /\ commands' = ReplaceAt(commands, i, c)
          /\ running' = Append(Tail(running), [id |-> c.id, stage |-> "main"])
          /\ UNCHANGED <<pc, out, doubt>>
      BY <1>3 DEF PreDone
    <2>0. UNCHANGED <<pending, out, buffer, armed, contact, down, link, flavour, target, recorded,
                      orders, faults, incident, installed, stray, doubt>>
      BY <1>1, <2>1 DEF Untouched, main, config, bounds
    <2>2. /\ InstallShape /\ Work /\ installed \in [Package -> BOOLEAN]
          /\ commands \in Seq(Commands)
      BY DEF Inv, Shape, InstallShape, NodeShape
    <2>3. /\ Tail(running) = <<>>
          /\ i \in DOMAIN commands /\ commands[i] \in Commands
          /\ commands[i].id = com.id /\ commands[i].id \in Package /\ commands[i].init
          /\ OnlyInit(commands, i) /\ NoRefresh(commands)
      BY <1>1, <2>2, AtWork DEF Inv
    <2>4. /\ RetryOk(commands[i], flavour) /\ Distinct(commands) /\ RefreshFirst(commands)
          /\ RetriesOk(commands, flavour)
      BY <2>2, <2>3 DEF Work, RetriesOk
    <2>5. /\ c \in Commands /\ c.id = commands[i].id /\ c.init /\ RetryOk(c, flavour)
      BY <2>2, <2>3, <2>4, Queried
    <2> HIDE DEF com, i, c
    <2>6. c.id # Refresh
      BY <1>1, <2>3, <2>5
    <2>7. /\ commands' \in Seq(Commands) /\ running' \in Seq(External) /\ Work'
          /\ \A x : Has(commands, x) <=> Has(commands', x)
      BY <2>0, <2>1, <2>2, <2>3, <2>4, <2>5, <2>6, StartsWork DEF Stages
    <2>8. Shape' /\ StrayInv'
      BY <2>0, <2>1, <2>7 DEF Inv, Shape, InstallShape, MainShape, NodeShape, StrayInv
    <2>9. \A x \in Package : RecordOf(x) => RecordOf(x)'
      BY <2>0, <2>7 DEF RecordOf, Coming, Right
    <2>10. RecordInv'
      BY <2>0, <2>9, RecordKept DEF Inv
    <2> QED
      BY <2>7, <2>8, <2>10
  <1> QED
    BY <1>2, <1>3

LEMMA PostDoneKept ==
  ASSUME Inv, running # <<>>, PostDone(Head(running))
  PROVE  Shape' /\ Work' /\ StrayInv' /\ RecordInv'
  <1> DEFINE com == Head(running)
             i == Of(com)
             c == Query(commands[i])
  <1>1. com.stage = "post" /\ UNCHANGED <<pending, Untouched, installed, stray>>
    BY DEF PostDone
  <1>2. PdcDone(i, c) /\ running' = Tail(running)
    BY DEF PostDone
  <1>3. doubt' = IF c.retry > 0 THEN doubt \cup {<<c.id, "retried">>} ELSE doubt
    BY DEF PostDone
  <1>4. com.stage # "pre" => com.id # Refresh
    BY AtWork DEF Inv, Shape
  <1>5. com.id # Refresh
    BY <1>1, <1>4
  <1> QED
    BY <1>1, <1>2, <1>3, <1>5, EndKept

LEMMA FaultTyped ==
  ASSUME faults \in 0 .. MaxFaults
  PROVE  /\ Fault => faults' \in 0 .. MaxFaults
         /\ \A b : MayFault(b) => faults' \in 0 .. MaxFaults
  <1>1. Fault => faults' \in 0 .. MaxFaults
    BY PackageAssumption DEF Fault
  <1> QED
    BY <1>1 DEF MayFault

(* The main command may change what is installed; its package stays in the *)
(* list until it is reported.                                              *)
LEMMA MainDoneKept ==
  ASSUME Inv, running # <<>>, pc = "idle", MainDone(Head(running))
  PROVE  Shape' /\ Work' /\ StrayInv' /\ RecordInv'
  <1> DEFINE com == Head(running)
             i == Of(com)
             c == commands[i]
  <1>0. UNCHANGED <<pending, pc, out, buffer, armed, contact, down, link, flavour, target, recorded,
                    orders, incident, stray, doubt>>
    BY DEF MainDone, main, config, history
  <1>1. com.stage = "main" /\ running' = Append(Tail(running), [id |-> com.id, stage |-> "post"])
    BY DEF MainDone
  <1>2. PICK result \in {"done", "failed", "outdated"} :
          /\ result = "outdated" => flavour = "zypper"
          /\ MayFault(result = "outdated")
          /\ installed' = IF result = "done" THEN Effect(c.id, c.want) ELSE installed
          /\ commands' = ReplaceAt(commands, i,
               [c EXCEPT !.warn = IF c.retry = 0 THEN result = "outdated" ELSE @])
    BY DEF MainDone
  <1>3. /\ InstallShape /\ Work /\ installed \in [Package -> BOOLEAN]
        /\ commands \in Seq(Commands) /\ faults \in 0 .. MaxFaults
    BY DEF Inv, Shape, InstallShape, NodeShape
  <1>4. /\ Tail(running) = <<>>
        /\ i \in DOMAIN commands /\ commands[i] \in Commands
        /\ commands[i].id = com.id /\ commands[i].init /\ OnlyInit(commands, i)
        /\ com.id # Refresh => (NoRefresh(commands) /\ com.id \in Package)
        /\ com.stage # "pre" => com.id # Refresh
    BY <1>3, AtWork DEF Inv
  <1>5. com.id # Refresh /\ NoRefresh(commands) /\ com.id \in Package
    BY <1>1, <1>4
  <1>6. /\ RetryOk(commands[i], flavour) /\ Distinct(commands) /\ RefreshFirst(commands)
        /\ RetriesOk(commands, flavour)
    BY <1>3, <1>4 DEF Work, RetriesOk
  <1>7. faults' \in 0 .. MaxFaults
    BY <1>2, <1>3, FaultTyped
  <1>8. /\ installed' \in [Package -> BOOLEAN]
        /\ \A x \in Package : x # c.id => installed'[x] = installed[x]
    <2> DEFINE v == (c.want # "erase")
    <2>1. v \in BOOLEAN
      OBVIOUS
    <2>2. Effect(c.id, c.want) = [installed EXCEPT ![c.id] = v]
      BY DEF Effect
    <2> HIDE DEF v
    <2> QED
      BY <1>2, <1>3, <2>1, <2>2
  <1> HIDE DEF com, i
  <1> DEFINE w == IF c.retry = 0 THEN result = "outdated" ELSE c.warn
             d == [c EXCEPT !.warn = w]
  <1>9. w \in BOOLEAN /\ (w => flavour = "zypper")
    <2>1. CASE c.retry = 0
      BY <1>2, <2>1
    <2>2. CASE c.retry # 0
      BY <1>4, <1>6, <2>2 DEF RetryOk, Commands
    <2> QED
      BY <2>1, <2>2
  <1>10. commands' = ReplaceAt(commands, i, d)
    BY <1>2, <1>4 DEF Commands
  <1> HIDE DEF w
  <1>11. /\ d \in Commands /\ d.id = com.id /\ d.init = c.init
         /\ d.retry = c.retry /\ d.warn = w
    BY <1>4, <1>9 DEF Commands
  <1> HIDE DEF d
  <1>12. d.init /\ RetryOk(d, flavour)
    BY <1>4, <1>6, <1>9, <1>11 DEF RetryOk
  <1>13. /\ commands' \in Seq(Commands) /\ running' \in Seq(External) /\ Work'
         /\ \A x : Has(commands, x) <=> Has(commands', x)
    <2>1. running' = Append(Tail(running), [id |-> d.id, stage |-> "post"])
      BY <1>1, <1>11
    <2>2. d.id = commands[i].id /\ d.id # Refresh
      BY <1>4, <1>5, <1>11
    <2> QED
      BY <1>0, <1>3, <1>4, <1>5, <1>6, <1>10, <1>11, <1>12, <2>1, <2>2, StartsWork DEF Stages
  <1>14. Shape' /\ StrayInv'
    BY <1>0, <1>7, <1>8, <1>13 DEF Inv, Shape, InstallShape, MainShape, NodeShape, StrayInv
  <1>15. ASSUME NEW x \in Package, RecordOf(x) PROVE RecordOf(x)'
    <2>1. CASE x = c.id
      <3>1. Has(commands, x)
        BY <1>4, <2>1 DEF Has
      <3> QED
        BY <1>13, <3>1 DEF RecordOf, Coming
    <2>2. CASE x # c.id
      <3>1. Right(x)' = Right(x)
        BY <1>8, <2>2 DEF Right
      <3> QED
        BY <1>0, <1>13, <1>15, <3>1 DEF RecordOf, Coming
    <2> QED
      BY <2>1, <2>2
  <1>16. RecordInv'
    BY <1>0, <1>15, RecordKept DEF Inv
  <1> QED
    BY <1>13, <1>14, <1>16

LEMMA InstallKept ==
  ASSUME Inv, InstallStep
  PROVE  Shape' /\ Work' /\ StrayInv' /\ RecordInv'
  <1>1. CASE CheckCommands
    BY <1>1, RefreshDoneKept, PreDoneKept, MainDoneKept, PostDoneKept DEF CheckCommands
  <1> QED
    BY <1>1, HandlePendingKept, ProcessKept DEF InstallStep

-------------------------------------------------------------------------------
(***************************************************************************)
(* The main process, the node and the faults.                              *)
(***************************************************************************)
LEMMA WorkSame ==
  ASSUME Work, UNCHANGED <<commands, running, pc, flavour>>, incident \subseteq incident'
  PROVE  Work'
  <1>1. Busy' = Busy
    BY DEF Busy
  <1> QED
    BY <1>1 DEF Work

(* A command that exceeds its run time.                                    *)
LEMMA ExpireKept ==
  ASSUME Inv, Expire
  PROVE  Shape' /\ Work' /\ StrayInv' /\ RecordInv'
  <1>0. UNCHANGED <<pending, commands, pc, out, buffer, armed, contact, down, link, installed,
                    flavour, target, recorded, orders>>
    BY DEF Expire, main, config
  <1>1. /\ pc = "idle" /\ running' = <<>> /\ faults' \in 0 .. MaxFaults
        /\ incident \subseteq incident' /\ "expired" \in incident'
        /\ stray' = stray \cup Strays /\ doubt' = doubt \cup {<<s.id, "stray">> : s \in Strays}
    <2>1. Tail(running) = <<>>
      BY LastOne DEF Expire, Inv, RunInv
    <2> QED
      BY <2>1, FaultTyped DEF Expire, Inv, Shape, NodeShape
  <1>2. Shape'
    BY <1>0, <1>1 DEF Inv, Shape, InstallShape, MainShape, NodeShape
  <1>3. Work'
    BY <1>0, <1>1 DEF Inv, Work
  <1>4. StrayInv'
    BY <1>1 DEF Inv, StrayInv
  <1>5. \A x : RecordOf(x) => RecordOf(x)'
    BY <1>0 DEF RecordOf, Coming, Right
  <1>6. RecordInv'
    BY <1>1, <1>5, RecordKept DEF Inv
  <1> QED
    BY <1>2, <1>3, <1>4, <1>6

LEMMA StrayKept ==
  ASSUME Inv, StrayEnds
  PROVE  Shape' /\ Work' /\ StrayInv' /\ RecordInv'
  <1>1. PICK s \in stray :
          /\ installed' = Effect(s.id, s.want)
          /\ stray' = stray \ {s}
          /\ UNCHANGED <<install, out, Untouched, doubt>>
    BY DEF StrayEnds
  <1>2. UNCHANGED <<pending, commands, running, pc, out, buffer, armed, contact, down, link, flavour,
                    target, recorded, orders, faults, incident, doubt>>
    BY <1>1 DEF install, Untouched, main, config, bounds
  <1>3. /\ installed' \in [Package -> BOOLEAN]
        /\ \A x \in Package : x # s.id => installed'[x] = installed[x]
    <2> DEFINE v == (s.want # "erase")
    <2>1. v \in BOOLEAN
      OBVIOUS
    <2>2. Effect(s.id, s.want) = [installed EXCEPT ![s.id] = v]
      BY DEF Effect
    <2> HIDE DEF v
    <2> QED
      BY <1>1, <2>1, <2>2 DEF Inv, Shape, NodeShape
  <1>4. Shape'
    BY <1>2, <1>3 DEF Inv, Shape, InstallShape, MainShape, NodeShape
  <1>5. Work' /\ StrayInv'
    BY <1>1, <1>2, WorkSame DEF Inv, StrayInv
  <1>6. ASSUME NEW x \in Package, Doubts(x)' = {}, RecordOf(x) PROVE RecordOf(x)'
    <2>1. x # s.id
      BY <1>1, <1>2, <1>6, NoDoubt DEF Inv, StrayInv
    <2>2. Right(x)' = Right(x)
      BY <1>3, <2>1 DEF Right
    <2> QED
      BY <1>2, <1>6, <2>2 DEF RecordOf, Coming
  <1>7. RecordInv'
    BY <1>2, <1>6, RecordKept DEF Inv
  <1> QED
    BY <1>4, <1>5, <1>7

LEMMA ServerHistory ==
  ASSUME NEW ms, NEW refused, NEW rest, SendToServer(ms, refused, rest)
  PROVE  incident \subseteq incident'
  BY ServerIncident DEF SendToServer

LEMMA RequestTyped ==
  ASSUME NEW k \in {"get_repo_list", "get_package_list"}
  PROVE  /\ Request(k) \in Messages /\ Request(k).kind = k /\ ~IsReport(Request(k))
         /\ <<Request(k)>> \in Seq(Messages)
  <1>1. Request(k) \in Messages /\ Request(k).kind = k /\ ~IsReport(Request(k))
    BY DEF Request, Messages, Ids, Shown, IsReport, MaxRetry
  <1> QED
    BY <1>1

LEMMA GreetingTyped == Greeting \in Seq(Messages) /\ HasAsked(Greeting)
  <1> DEFINE a == Request("get_repo_list")
             b == Request("get_package_list")
             g == <<a, b>>
  <1>1. a \in Messages /\ b \in Messages /\ b.kind = "get_package_list"
    BY RequestTyped
  <1> HIDE DEF a, b
  <1>2. g \in Seq(Messages) /\ 2 \in DOMAIN g /\ g[2] = b
    BY <1>1
  <1> HIDE DEF g
  <1>3. HasAsked(g)
    BY <1>1, <1>2 DEF HasAsked
  <1> QED
    BY <1>2, <1>3 DEF g, a, b, Greeting

(* A client that starts asks for the package list, so that a report on     *)
(* every package is to come.                                               *)
LEMMA StartKept ==
  ASSUME Inv, NEW refused, ClientStart(refused), faults' \in 0 .. MaxFaults
  PROVE  Shape' /\ Work' /\ StrayInv' /\ RecordInv'
  <1> DEFINE no == FALSE
  <1>0. UNCHANGED <<link, installed, flavour, target, orders>>
    BY DEF ClientStart, config
  <1>1. /\ pending' = <<>> /\ commands' = <<>> /\ running' = <<>> /\ pc' = "idle" /\ out' = <<>>
        /\ contact' = "none"
        /\ stray' = stray \cup Strays /\ doubt' = doubt \cup {<<s.id, "stray">> : s \in Strays}
    BY DEF ClientStart
  <1>2. \/ (ServerTakes(Greeting, refused, <<>>) /\ buffer' = <<>> /\ armed' = no)
        \/ (/\ buffer' = Greeting /\ armed' = TRUE /\ down' = <<>>
            /\ UNCHANGED <<recorded, incident>>)
    BY DEF ClientStart
  <1>3. no \in BOOLEAN /\ target \in Wanted /\ recorded \in [Package -> Shown] /\ <<>> \in Seq(Orders)
    BY DEF Inv, Shape, NodeShape
  <1> HIDE DEF no
  <1>4. /\ buffer' \in Seq(Messages) /\ armed' \in BOOLEAN /\ down' \in Seq(Orders)
        /\ recorded' \in [Package -> Shown] /\ incident \subseteq incident'
        /\ "refused" \notin incident' => (HasList(down') \/ HasAsked(buffer'))
    <2>1. CASE ServerTakes(Greeting, refused, <<>>) /\ buffer' = <<>> /\ armed' = no
      <3>1. recorded' \in [Package -> Shown] /\ incident \subseteq incident'
        BY <1>3, <2>1, GreetingTyped, ServerRecords, ServerIncident
      <3>2. /\ down' \in Seq(Orders)
            /\ (HasAsked(Greeting) /\ "refused" \notin incident') => HasList(down')
        BY <1>3, <2>1, GreetingTyped, ServerAnswers
      <3> QED
        BY <1>3, <2>1, <3>1, <3>2, GreetingTyped
    <2>2. CASE /\ buffer' = Greeting /\ armed' = TRUE /\ down' = <<>>
               /\ UNCHANGED <<recorded, incident>>
      BY <1>3, <2>2, GreetingTyped
    <2> QED
      BY <1>2, <2>1, <2>2
  <1>5. Shape'
    BY <1>0, <1>1, <1>4 DEF Inv, Shape, InstallShape, MainShape, NodeShape
  <1>6. Work'
    BY <1>1 DEF Work, Distinct, RefreshFirst, RetriesOk
  <1>7. StrayInv' /\ doubt \subseteq doubt'
    BY <1>1 DEF Inv, StrayInv
  <1>8. RecordInv'
    BY <1>4 DEF RecordInv, RecordOf, Coming
  <1> QED
    BY <1>5, <1>6, <1>7, <1>8

(* Messages in two parts.                                                  *)
LEMMA TwoParts ==
  ASSUME NEW s \in Seq(Messages), NEW n \in 0 .. Len(s)
  PROVE  LET a == SubSeq(s, 1, n)
             b == SubSeq(s, n + 1, Len(s))
         IN  /\ a \in Seq(Messages) /\ b \in Seq(Messages)
             /\ HasAsked(s) => (HasAsked(a) \/ HasAsked(b))
             /\ \A x : ReportsOf(s, x) = {} => (ReportsOf(a, x) = {} /\ ReportsOf(b, x) = {})
             /\ \A x, R : LastIn(s, x, R) =>
                  \/ LastIn(b, x, R)
                  \/ (ReportsOf(b, x) = {} /\ LastIn(a, x, R))
  <1> DEFINE a == SubSeq(s, 1, n)
             b == SubSeq(s, n + 1, Len(s))
             m == Len(s)
  <1>1. m \in Nat /\ n \in Nat /\ n <= m /\ DOMAIN s = 1 .. m
    OBVIOUS
  <1>2. a \in Seq(Messages) /\ Len(a) = n /\ \A k \in 1 .. n : a[k] = s[k]
    BY <1>1
  <1>3. b \in Seq(Messages) /\ Len(b) = m - n /\ \A k \in 1 .. m - n : b[k] = s[n + k]
    <2>1. b \in Seq(Messages)
      BY <1>1
    <2>2. Len(b) = m - n
      <3>1. n + 1 \in 1 .. Len(s) + 1 /\ Len(s) \in n + 1 - 1 .. Len(s)
        BY <1>1
      <3>2. Len(b) = Len(s) - (n + 1) + 1
        BY <3>1, SubSeqProperties
      <3> HIDE DEF b
      <3> QED
        BY <1>1, <3>2
    <2>3. \A k \in 1 .. m - n : b[k] = s[n + k]
      BY <1>1
    <2> QED
      BY <2>1, <2>2, <2>3
  <1>4. DOMAIN a = 1 .. n /\ DOMAIN b = 1 .. m - n
    BY <1>2, <1>3
  <1> HIDE DEF a, b, m
  <1>5. \A k \in DOMAIN a : k \in DOMAIN s /\ a[k] = s[k]
    BY <1>1, <1>2, <1>4
  <1>6. \A k \in DOMAIN b : n + k \in DOMAIN s /\ b[k] = s[n + k]
    BY <1>1, <1>3, <1>4
  <1>7. ASSUME NEW k \in DOMAIN s
        PROVE  (k \in DOMAIN a /\ a[k] = s[k]) \/ (k > n /\ k - n \in DOMAIN b /\ b[k - n] = s[k])
    <2>1. CASE k <= n
      BY <1>1, <1>2, <1>4, <2>1
    <2>2. CASE k > n
      <3>1. k - n \in 1 .. m - n /\ n + (k - n) = k
        BY <1>1, <2>2
      <3> QED
        BY <1>3, <1>4, <2>2, <3>1
    <2> QED
      BY <1>1, <2>1, <2>2
  <1>8. HasAsked(s) => (HasAsked(a) \/ HasAsked(b))
    BY <1>7 DEF HasAsked
  <1>9. ASSUME NEW x, ReportsOf(s, x) = {}
        PROVE  ReportsOf(a, x) = {} /\ ReportsOf(b, x) = {}
    BY <1>5, <1>6, <1>9 DEF ReportsOf, IsReport
  <1>10. ASSUME NEW x, NEW R, LastIn(s, x, R)
         PROVE  LastIn(b, x, R) \/ (ReportsOf(b, x) = {} /\ LastIn(a, x, R))
    <2>1. PICK i \in ReportsOf(s, x) : s[i].shown \in R /\ \A j \in ReportsOf(s, x) : j <= i
      BY <1>10 DEF LastIn
    <2>2. i \in DOMAIN s /\ i \in Nat
      BY <1>1, <2>1 DEF ReportsOf
    <2>3. CASE i \in DOMAIN a /\ a[i] = s[i]
      <3>1. i \in ReportsOf(a, x)
        BY <2>1, <2>3 DEF ReportsOf, IsReport
      <3>2. \A j \in ReportsOf(a, x) : j \in ReportsOf(s, x)
        BY <1>5 DEF ReportsOf, IsReport
      <3>3. LastIn(a, x, R)
        BY <2>1, <2>3, <3>1, <3>2 DEF LastIn
      <3>4. ASSUME NEW k \in ReportsOf(b, x) PROVE FALSE
        <4>1. k \in DOMAIN b /\ n + k \in ReportsOf(s, x)
          BY <1>6 DEF ReportsOf, IsReport
        <4>2. n + k <= i /\ i <= n
          BY <1>4, <2>1, <2>3, <4>1
        <4> QED
          BY <1>1, <1>4, <2>2, <4>1, <4>2
      <3> QED
        BY <3>3, <3>4
    <2>4. CASE i > n /\ i - n \in DOMAIN b /\ b[i - n] = s[i]
      <3>1. i - n \in ReportsOf(b, x)
        BY <2>1, <2>4 DEF ReportsOf, IsReport
      <3>2. ASSUME NEW j \in ReportsOf(b, x) PROVE j <= i - n
        <4>1. j \in DOMAIN b /\ n + j \in ReportsOf(s, x)
          BY <1>6 DEF ReportsOf, IsReport
        <4>2. n + j <= i
          BY <2>1, <4>1
        <4> QED
          BY <1>1, <1>4, <2>2, <4>1, <4>2
      <3>3. LastIn(b, x, R)
        BY <2>1, <2>4, <3>1, <3>2 DEF LastIn
      <3> QED
        BY <3>3
    <2> QED
      BY <1>7, <2>2, <2>3, <2>4
  <1> QED
    BY <1>2, <1>3, <1>8, <1>9, <1>10 DEF a, b, m

(* The timer sends the first n messages of the buffer.                     *)
LEMMA BufferKept ==
  ASSUME Inv, NEW n \in 0 .. Len(buffer), NEW refused \in SUBSET (1 .. n),
         ServerTakes(SubSeq(buffer, 1, n), refused, down),
         buffer' = SubSeq(buffer, n + 1, Len(buffer)),
         faults' \in 0 .. MaxFaults, armed' \in BOOLEAN, link' \in BOOLEAN,
         doubt' = doubt \cup RefusedReports(buffer, refused),
         UNCHANGED <<install, out, contact, installed, config, stray, orders>>
  PROVE  Shape' /\ Work' /\ StrayInv' /\ RecordInv'
  <1>0. UNCHANGED <<pending, commands, running, pc, flavour, target>>
    BY DEF install, config
  <1>1. /\ buffer \in Seq(Messages) /\ target \in Wanted /\ recorded \in [Package -> Shown]
        /\ down \in Seq(Orders)
    BY DEF Inv, Shape, MainShape, NodeShape
  <1> DEFINE a == SubSeq(buffer, 1, n)
             b == SubSeq(buffer, n + 1, Len(buffer))
  <1>2. /\ a \in Seq(Messages) /\ b \in Seq(Messages)
        /\ HasAsked(buffer) => (HasAsked(a) \/ HasAsked(b))
        /\ \A x : ReportsOf(buffer, x) = {} => (ReportsOf(a, x) = {} /\ ReportsOf(b, x) = {})
        /\ \A x, R : LastIn(buffer, x, R) =>
             \/ LastIn(b, x, R)
             \/ (ReportsOf(b, x) = {} /\ LastIn(a, x, R))
    BY <1>1, TwoParts
  <1>3. ServerTakes(a, refused, down) /\ buffer' = b
    OBVIOUS
  <1>p. \A i \in DOMAIN a : i \in DOMAIN buffer /\ a[i] = buffer[i]
    BY <1>1
  <1> HIDE DEF a, b
  <1>4. /\ recorded' \in [Package -> Shown]
        /\ \A x \in Package : ReportsOf(a, x) = {} => recorded'[x] = recorded[x]
        /\ \A x \in Package : \A R : (ReportsOf(a, x) \cap refused = {} /\ LastIn(a, x, R))
                                    => recorded'[x] \in R
    BY <1>1, <1>2, <1>3, ServerRecords
  <1>5. /\ down' \in Seq(Orders)
        /\ HasList(down) => HasList(down')
        /\ (HasAsked(a) /\ "refused" \notin incident') => HasList(down')
    BY <1>1, <1>2, <1>3, ServerAnswers
  <1>6. incident \subseteq incident'
    BY <1>3, ServerIncident
  <1>7. Shape'
    BY <1>0, <1>2, <1>3, <1>4, <1>5 DEF Inv, Shape, InstallShape, MainShape, NodeShape
  <1>8. Work' /\ StrayInv'
    BY <1>0, <1>6, WorkSame DEF Inv, StrayInv
  <1>9. ASSUME "refused" \notin incident', NEW x \in Package, Doubts(x)' = {}, RecordOf(x)
        PROVE  RecordOf(x)'
    <2>1. Right(x)' = Right(x)
      BY DEF Right
    <2>2. CASE Coming(x)
      BY <1>0, <1>2, <1>3, <1>5, <1>9, <2>2 DEF RecordOf, Coming
    <2>3. CASE LatestIn(out, buffer, recorded[x], x, Right(x))
      <3>1. ReportsOf(a, x) \cap refused = {}
        <4>1. ReportsOf(buffer, x) \cap refused = {}
          BY <1>9, NoneRefused
        <4> QED
          BY <1>p, <4>1 DEF ReportsOf
      <3>2. LatestIn(out, b, recorded'[x], x, Right(x))
        BY <1>2, <1>4, <2>3, <3>1 DEF LatestIn
      <3> QED
        BY <1>3, <2>1, <3>2 DEF RecordOf
    <2> QED
      BY <1>9, <2>2, <2>3 DEF RecordOf
  <1>10. RecordInv'
    BY <1>6, <1>9, RecordKept DEF Inv
  <1> QED
    BY <1>7, <1>8, <1>10

(* The first report on its way to the main process.                        *)
LEMMA FirstReport ==
  ASSUME NEW s \in Seq(Messages), s # <<>>
  PROVE  LET m == Head(s)
         IN  /\ m \in Messages /\ <<m>> \in Seq(Messages) /\ Tail(s) \in Seq(Messages)
             /\ \A x : ReportsOf(s, x) = {} =>
                         (ReportsOf(<<m>>, x) = {} /\ ReportsOf(Tail(s), x) = {})
             /\ \A x, R : LastIn(s, x, R) =>
                  \/ LastIn(Tail(s), x, R)
                  \/ (ReportsOf(Tail(s), x) = {} /\ LastIn(<<m>>, x, R))
  <1>1. Len(s) \in Nat /\ 1 \in 0 .. Len(s) /\ 1 + 1 = 2
    OBVIOUS
  <1>2. Tail(s) = SubSeq(s, 2, Len(s)) /\ Head(s) = s[1] /\ Head(s) \in Messages
    OBVIOUS
  <1>3. SubSeq(s, 1, 1) = <<Head(s)>>
    <2> DEFINE a == SubSeq(s, 1, 1)
               b == <<Head(s)>>
    <2>1. a \in Seq(Messages) /\ Len(a) = 1 /\ a[1] = s[1]
      BY <1>1
    <2>2. b \in Seq(Messages) /\ Len(b) = 1 /\ b[1] = s[1]
      BY <1>2
    <2> HIDE DEF a, b
    <2>3. \A i \in 1 .. Len(a) : a[i] = b[i]
      BY <2>1, <2>2
    <2>4. a = b
      BY <2>1, <2>2, <2>3, SeqEqual
    <2> QED
      BY <2>4 DEF a, b
  <1> QED
    BY <1>1, <1>2, <1>3, TwoParts

LEMMA OneReport ==
  ASSUME NEW m \in Messages, NEW x
  PROVE  /\ (ReportsOf(<<m>>, x) # {}) <=> (IsReport(m) /\ m.id = x)
         /\ \A R : LastIn(<<m>>, x, R) => (IsReport(m) /\ m.id = x /\ m.shown \in R)
  <1> DEFINE s == <<m>>
  <1>1. DOMAIN s = {1} /\ s[1] = m
    OBVIOUS
  <1> HIDE DEF s
  <1>2. /\ (ReportsOf(s, x) # {}) <=> (IsReport(m) /\ m.id = x)
        /\ \A R : LastIn(s, x, R) => (IsReport(m) /\ m.id = x /\ m.shown \in R)
    BY <1>1 DEF ReportsOf, LastIn
  <1> QED
    BY <1>2 DEF s

LEMMA AddedOne ==
  ASSUME NEW S, NEW s \in Seq(S), NEW m \in S
  PROVE  s \o <<m>> = Append(s, m)
  <1> DEFINE a == s \o <<m>>
             b == Append(s, m)
  <1>1. a \in Seq(S) /\ b \in Seq(S) /\ Len(a) = Len(s) + 1 /\ Len(b) = Len(s) + 1
    OBVIOUS
  <1>2. \A i \in 1 .. Len(s) + 1 : a[i] = b[i]
    OBVIOUS
  <1> HIDE DEF a, b
  <1>3. a = b
    BY <1>1, <1>2, SeqEqual
  <1> QED
    BY <1>3 DEF a, b

LEMMA SendReportKept ==
  ASSUME Inv, SendReport
  PROVE  Shape' /\ Work' /\ StrayInv' /\ RecordInv'
  <1> DEFINE m == Head(out)
  <1>0. UNCHANGED <<pending, commands, running, pc, contact, link, installed, flavour, target, stray,
                    orders>>
    BY DEF SendReport, install, config
  <1>p. PICK refused \in SUBSET DOMAIN <<m>> :
          /\ MayFault(refused # {}) /\ SendToServer(<<m>>, refused, down)
          /\ doubt' = doubt \cup Overtaken(m) \cup RefusedReports(<<m>>, refused)
    BY DEF SendReport
  <1>1. /\ out # <<>> /\ SendToServer(<<m>>, refused, down) /\ out' = Tail(out)
    BY <1>p DEF SendReport
  <1>2. /\ (link /\ ReportsOf(buffer, m.id) # {}) => <<m.id, "overtaken">> \in doubt'
        /\ RefusedReports(<<m>>, refused) \subseteq doubt' /\ doubt \subseteq doubt'
    BY <1>p DEF Overtaken
  <1>3. /\ out \in Seq(Messages) /\ buffer \in Seq(Messages) /\ down \in Seq(Orders)
        /\ target \in Wanted /\ recorded \in [Package -> Shown] /\ armed \in BOOLEAN
        /\ faults' \in 0 .. MaxFaults
    BY <1>p, FaultTyped DEF Inv, Shape, MainShape, NodeShape
  <1>4. /\ m \in Messages /\ <<m>> \in Seq(Messages) /\ Tail(out) \in Seq(Messages)
        /\ \A x : ReportsOf(out, x) = {} =>
                    (ReportsOf(<<m>>, x) = {} /\ ReportsOf(Tail(out), x) = {})
        /\ \A x, R : LastIn(out, x, R) =>
             \/ LastIn(Tail(out), x, R)
             \/ (ReportsOf(Tail(out), x) = {} /\ LastIn(<<m>>, x, R))
    BY <1>1, <1>3, FirstReport
  <1>5. \A x : /\ (ReportsOf(<<m>>, x) # {}) <=> (IsReport(m) /\ m.id = x)
               /\ \A R : LastIn(<<m>>, x, R) => (IsReport(m) /\ m.id = x /\ m.shown \in R)
    BY <1>4, OneReport
  <1>6. incident \subseteq incident' /\ doubt \subseteq doubt'
    BY <1>1, <1>2, ServerHistory
  <1>7. Work' /\ StrayInv'
    BY <1>0, <1>6, WorkSame DEF Inv, StrayInv
  <1> HIDE DEF m
  <1>8. /\ buffer' \in Seq(Messages) /\ armed' \in BOOLEAN /\ down' \in Seq(Orders)
        /\ recorded' \in [Package -> Shown]
        /\ (HasList(down) => HasList(down')) /\ (HasAsked(buffer) => HasAsked(buffer'))
        /\ \A x \in Package : Doubts(x)' = {} =>
             (LatestIn(out, buffer, recorded[x], x, Right(x)) =>
                LatestIn(out', buffer', recorded'[x], x, Right(x)))
    <2>1. CASE link /\ ServerTakes(<<m>>, refused, down) /\ UNCHANGED <<buffer, armed>>
      <3>1. /\ recorded' \in [Package -> Shown]
            /\ \A x \in Package : ReportsOf(<<m>>, x) = {} => recorded'[x] = recorded[x]
            /\ \A x \in Package : \A R :
                 (ReportsOf(<<m>>, x) \cap refused = {} /\ LastIn(<<m>>, x, R)) => recorded'[x] \in R
        BY <1>3, <1>4, <2>1, ServerRecords
      <3>2. down' \in Seq(Orders) /\ (HasList(down) => HasList(down'))
        BY <1>3, <1>4, <2>1, ServerAnswers
      <3>3. ASSUME NEW x \in Package, Doubts(x)' = {},
                   LatestIn(out, buffer, recorded[x], x, Right(x))
            PROVE  LatestIn(out', buffer, recorded'[x], x, Right(x))
        <4>1. CASE LastIn(out, x, Right(x))
          <5>1. CASE LastIn(Tail(out), x, Right(x))
            BY <1>1, <5>1 DEF LatestIn
          <5>2. CASE ReportsOf(Tail(out), x) = {} /\ LastIn(<<m>>, x, Right(x))
            <6>0. ReportsOf(<<m>>, x) \cap refused = {}
              BY <1>2, <3>3, NoneRefused
            <6>1. m.id = x /\ recorded'[x] \in Right(x)
              BY <1>5, <3>1, <5>2, <6>0
            <6>2. ReportsOf(buffer, x) = {}
              BY <1>2, <2>1, <3>3, <6>1, NoDoubt
            <6> QED
              BY <1>1, <5>2, <6>1, <6>2 DEF LatestIn
          <5> QED
            BY <1>4, <4>1, <5>1, <5>2
        <4>2. CASE ReportsOf(out, x) = {}
          <5>1. recorded'[x] = recorded[x] /\ ReportsOf(out', x) = {}
            BY <1>1, <1>4, <3>1, <4>2
          <5> QED
            BY <3>3, <4>2, <5>1 DEF LatestIn, LastIn
        <4> QED
          BY <3>3, <4>1, <4>2 DEF LatestIn
      <3> QED
        BY <1>3, <2>1, <3>1, <3>2, <3>3
    <2>2. CASE /\ buffer' = buffer \o <<m>> /\ armed' = TRUE /\ down' = down
               /\ UNCHANGED <<recorded, incident>>
      <3>1. buffer' = Append(buffer, m)
        BY <1>3, <1>4, <2>2, AddedOne
      <3>2. /\ buffer' \in Seq(Messages)
            /\ HasAsked(buffer) => HasAsked(buffer')
            /\ \A x : ~(IsReport(m) /\ m.id = x) =>
                 (/\ ReportsOf(buffer', x) = ReportsOf(buffer, x)
                  /\ \A R : LastIn(buffer, x, R) => LastIn(buffer', x, R))
            /\ \A x, R : (IsReport(m) /\ m.id = x /\ m.shown \in R) => LastIn(buffer', x, R)
        BY <1>3, <1>4, <3>1, ReportAdded
      <3>3. ASSUME NEW x \in Package, LatestIn(out, buffer, recorded[x], x, Right(x))
            PROVE  LatestIn(out', buffer', recorded[x], x, Right(x))
        <4>1. CASE LastIn(out, x, Right(x))
          BY <1>1, <1>4, <1>5, <3>2, <4>1 DEF LatestIn
        <4>2. CASE ReportsOf(out, x) = {}
          <5>1. ~(IsReport(m) /\ m.id = x) /\ ReportsOf(out', x) = {}
            BY <1>1, <1>4, <1>5, <4>2
          <5> QED
            BY <3>2, <3>3, <4>2, <5>1 DEF LatestIn, LastIn
        <4> QED
          BY <3>3, <4>1, <4>2 DEF LatestIn
      <3>4. recorded' = recorded
        BY <2>2
      <3> QED
        BY <1>3, <2>2, <3>2, <3>3, <3>4
    <2> QED
      BY <1>1, <2>1, <2>2 DEF SendToServer
  <1>9. Shape'
    BY <1>0, <1>1, <1>3, <1>4, <1>8 DEF Inv, Shape, InstallShape, MainShape, NodeShape
  <1>10. ASSUME NEW x \in Package, Doubts(x)' = {}, RecordOf(x) PROVE RecordOf(x)'
    <2>1. Right(x)' = Right(x)
      BY <1>0 DEF Right
    <2>2. CASE Coming(x)
      BY <1>0, <1>8, <2>2 DEF RecordOf, Coming
    <2>3. CASE LatestIn(out, buffer, recorded[x], x, Right(x))
      BY <1>8, <1>10, <2>1, <2>3 DEF RecordOf
    <2> QED
      BY <1>10, <2>2, <2>3 DEF RecordOf
  <1>11. RecordInv'
    BY <1>6, <1>10, RecordKept DEF Inv
  <1> QED
    BY <1>7, <1>9, <1>11

(* new_config: the package list is asked for, so that a report is to come. *)
LEMMA NewConfigKept ==
  ASSUME Inv, NewConfig
  PROVE  Shape' /\ Work' /\ StrayInv' /\ RecordInv'
  <1> DEFINE m == Request("get_package_list")
             ms == <<m>>
             rest == Tail(down)
  <1>0. UNCHANGED <<pending, commands, running, pc, out, link, installed, flavour, target, stray,
                    orders, doubt>>
    BY DEF NewConfig, install, config
  <1>1. PICK refused \in SUBSET DOMAIN ms :
          MayFault(refused # {}) /\ SendToServer(ms, refused, rest)
    BY DEF NewConfig
  <1>2. /\ buffer \in Seq(Messages) /\ down \in Seq(Orders) /\ down # <<>>
        /\ target \in Wanted /\ recorded \in [Package -> Shown] /\ armed \in BOOLEAN
        /\ faults \in 0 .. MaxFaults
    BY DEF Inv, Shape, MainShape, NodeShape, NewConfig
  <1>3. m \in Messages /\ m.kind = "get_package_list" /\ ms \in Seq(Messages)
    BY RequestTyped
  <1>4. rest \in Seq(Orders)
    BY <1>2, HeadTail
  <1>5. faults' \in 0 .. MaxFaults
    BY <1>1, <1>2, FaultTyped
  <1>6. contact' \in {"none", "some", "tested"}
    BY DEF NewConfig, Heard, Inv, Shape, MainShape
  <1>7. incident \subseteq incident'
    BY <1>1, ServerHistory
  <1>8. HasAsked(ms)
    <2> HIDE DEF m
    <2>1. 1 \in DOMAIN ms /\ ms[1] = m
      OBVIOUS
    <2> HIDE DEF ms
    <2> QED
      BY <1>3, <2>1 DEF HasAsked
  <1> HIDE DEF m, ms, rest
  <1>9. /\ buffer' \in Seq(Messages) /\ armed' \in BOOLEAN /\ down' \in Seq(Orders)
        /\ recorded' \in [Package -> Shown]
        /\ "refused" \notin incident' => (HasList(down') \/ HasAsked(buffer'))
    <2>1. CASE ServerTakes(ms, refused, rest) /\ UNCHANGED <<buffer, armed>>
      <3>1. recorded' \in [Package -> Shown]
        BY <1>2, <1>3, <2>1, ServerRecords
      <3>2. /\ down' \in Seq(Orders)
            /\ (HasAsked(ms) /\ "refused" \notin incident') => HasList(down')
        BY <1>2, <1>3, <1>4, <2>1, ServerAnswers
      <3> QED
        BY <1>2, <1>8, <2>1, <3>1, <3>2
    <2>2. CASE /\ buffer' = buffer \o ms /\ armed' = TRUE /\ down' = rest
               /\ UNCHANGED <<recorded, incident>>
      <3>1. buffer' \in Seq(Messages) /\ Joint(buffer', buffer, ms)
        BY <1>2, <1>3, <2>2, Joined
      <3>2. HasAsked(buffer')
        BY <1>8, <3>1 DEF HasAsked, Joint
      <3> QED
        BY <1>2, <1>4, <2>2, <3>1, <3>2
    <2> QED
      BY <1>1, <2>1, <2>2 DEF SendToServer
  <1>10. Shape'
    BY <1>0, <1>5, <1>6, <1>9 DEF Inv, Shape, InstallShape, MainShape, NodeShape
  <1>11. Work' /\ StrayInv'
    BY <1>0, <1>7, WorkSame DEF Inv, StrayInv
  <1>12. RecordInv'
    BY <1>9 DEF RecordInv, RecordOf, Coming
  <1> QED
    BY <1>10, <1>11, <1>12

LEMMA CommandBatchKept ==
  ASSUME Inv, CommandBatch
  PROVE  Shape' /\ Work' /\ StrayInv' /\ RecordInv'
  <1> DEFINE m == Head(down)
  <1>0. UNCHANGED <<commands, running, out, buffer, armed, link, installed, flavour, target,
                    recorded, stray, orders, faults, incident, doubt>>
    BY DEF CommandBatch, config, bounds, history
  <1>1. /\ down # <<>> /\ m.kind # "new_config" /\ pc = "idle" /\ pc' = "pending"
        /\ pending' = Append(pending, m) /\ down' = Tail(down)
        /\ down \in Seq(Orders) /\ pending \in Seq(Batches)
    BY DEF CommandBatch, Inv, Shape, MainShape, InstallShape
  <1>2. contact' \in {"none", "some", "tested"}
    BY DEF CommandBatch, Heard, Inv, Shape, MainShape
  <1>3. m \in Orders /\ Tail(down) \in Seq(Orders)
    BY <1>1, HeadTail
  <1>4. m \in Batches
    BY <1>1, <1>3 DEF Orders, News
  <1>5. (HasList(down) /\ m.kind # "package_list") => HasList(Tail(down))
    BY <1>1, ListLeft
  <1> HIDE DEF m
  <1>6. /\ pending' \in Seq(Batches) /\ (HasList(pending) => HasList(pending'))
        /\ m.kind = "package_list" => HasList(pending')
    <2>1. /\ pending' \in Seq(Batches) /\ Len(pending) + 1 \in DOMAIN pending'
          /\ pending'[Len(pending) + 1] = m
          /\ \A k \in DOMAIN pending : k \in DOMAIN pending' /\ pending'[k] = pending[k]
      BY <1>1, <1>4
    <2> QED
      BY <2>1 DEF HasList
  <1>7. Shape'
    BY <1>0, <1>1, <1>2, <1>3, <1>6 DEF Inv, Shape, InstallShape, MainShape, NodeShape
  <1>8. Work' /\ StrayInv'
    <2>1. Busy' = Busy
      BY <1>0 DEF Busy
    <2> QED
      BY <1>0, <1>1, <2>1 DEF Inv, Work, StrayInv
  <1>9. \A x : RecordOf(x) => RecordOf(x)'
    BY <1>0, <1>1, <1>5, <1>6 DEF RecordOf, Coming, Right
  <1>10. RecordInv'
    BY <1>0, <1>9, RecordKept DEF Inv
  <1> QED
    BY <1>7, <1>8, <1>10

(* The administrator.                                                      *)
LEMMA OrderKept ==
  ASSUME Inv, Order
  PROVE  Shape' /\ Work' /\ StrayInv' /\ RecordInv'
  <1>0. UNCHANGED <<pending, commands, running, pc, out, buffer, armed, contact, link, flavour,
                    installed, recorded, stray, faults, incident, doubt>>
    BY DEF Order, install, main, history
  <1>1. /\ orders' \in 0 .. MaxOrders /\ down \in Seq(Orders) /\ target \in Wanted
    BY PackageAssumption DEF Order, Inv, Shape, MainShape, NodeShape
  <1>2. target' \in Wanted
    <2>1. CASE \E p \in Package, t \in Targets : target' = [target EXCEPT ![p] = t]
      BY <1>1, <2>1 DEF Wanted
    <2> QED
      BY <1>1, <2>1 DEF Order
  <1>3. PICK m \in Orders : down' = Append(down, m)
    <2>1. Batch("new_config") \in Orders /\ Batch("clear_cache") \in Orders
      BY <1>1, BatchTyped DEF Orders
    <2> QED
      BY <2>1 DEF Order
  <1>4. down' \in Seq(Orders) /\ (HasList(down) => HasList(down'))
    <2>1. /\ down' \in Seq(Orders)
          /\ \A k \in DOMAIN down : k \in DOMAIN down' /\ down'[k] = down[k]
      BY <1>1, <1>3
    <2> QED
      BY <2>1 DEF HasList
  <1>5. Shape'
    BY <1>0, <1>1, <1>2, <1>4 DEF Inv, Shape, InstallShape, MainShape, NodeShape
  <1>6. Work' /\ StrayInv'
    BY <1>0, WorkSame DEF Inv, StrayInv
  <1>7. \A x : RecordOf(x) => RecordOf(x)'
    BY <1>0, <1>4 DEF RecordOf, Coming, Right
  <1>8. RecordInv'
    BY <1>0, <1>7, RecordKept DEF Inv
  <1> QED
    BY <1>5, <1>6, <1>8

(* The link, and the test ten seconds after the start.                     *)
LEMMA QuietKept ==
  ASSUME Inv, UNCHANGED <<pending, commands, running, pc, out, buffer, armed, down, installed,
                          flavour, target, recorded, stray, orders, incident, doubt>>,
         link' \in BOOLEAN, contact' \in {"none", "some", "tested"}, faults' \in 0 .. MaxFaults
  PROVE  Shape' /\ Work' /\ StrayInv' /\ RecordInv'
  <1>1. Shape'
    BY DEF Inv, Shape, InstallShape, MainShape, NodeShape
  <1>2. Work' /\ StrayInv'
    BY WorkSame DEF Inv, StrayInv
  <1>3. \A x : RecordOf(x) => RecordOf(x)'
    BY DEF RecordOf, Coming, Right
  <1>4. RecordInv'
    BY <1>3, RecordKept DEF Inv
  <1> QED
    BY <1>1, <1>2, <1>4

LEMMA InvStep == Inv /\ [Next]_vars => Inv'
  <1> SUFFICES ASSUME Inv, [Next]_vars PROVE Inv'
    OBVIOUS
  <1>1. RunInv'
    BY RunStep DEF Inv
  <1>2. /\ faults \in 0 .. MaxFaults /\ link \in BOOLEAN /\ contact \in {"none", "some", "tested"}
        /\ buffer \in Seq(Messages) /\ armed \in BOOLEAN
    BY DEF Inv, Shape, MainShape, NodeShape
  <1> SUFFICES Shape' /\ Work' /\ StrayInv' /\ RecordInv'
    BY <1>1 DEF Inv
  <1>3. CASE CheckSendBuffer
    <2> DEFINE n == IF link THEN Len(buffer) ELSE 0
    <2>0. n \in 0 .. Len(buffer)
      BY <1>2
    <2>1. PICK refused \in SUBSET (1 .. n) :
            /\ MayFault(refused # {})
            /\ ServerTakes(SubSeq(buffer, 1, n), refused, down)
            /\ doubt' = doubt \cup RefusedReports(buffer, refused)
            /\ buffer' = SubSeq(buffer, n + 1, Len(buffer))
            /\ armed' = (n < Len(buffer))
      BY <1>3 DEF CheckSendBuffer
    <2>2. faults' \in 0 .. MaxFaults
      BY <1>2, <2>1, FaultTyped
    <2>3. armed' \in BOOLEAN
      BY <2>1
    <2>4. UNCHANGED <<install, out, contact, link, installed, config, stray, orders>>
      BY <1>3 DEF CheckSendBuffer
    <2> HIDE DEF n
    <2> QED
      BY <1>2, <2>0, <2>1, <2>2, <2>3, <2>4, BufferKept
  <1>4. CASE CheckSendBufferCut
    <2>1. PICK n \in 0 .. Len(buffer) - 1 : \E refused \in SUBSET (1 .. n) :
            /\ ServerTakes(SubSeq(buffer, 1, n), refused, down)
            /\ doubt' = doubt \cup RefusedReports(buffer, refused)
            /\ buffer' = SubSeq(buffer, n + 1, Len(buffer))
      BY <1>4 DEF CheckSendBufferCut
    <2>2. faults' \in 0 .. MaxFaults
      BY <1>2, <1>4, FaultTyped DEF CheckSendBufferCut
    <2>3. link' \in BOOLEAN
      BY <1>4 DEF CheckSendBufferCut
    <2>4. UNCHANGED <<install, out, armed, contact, installed, config, stray, orders>>
      BY <1>4 DEF CheckSendBufferCut
    <2>5. n \in 0 .. Len(buffer)
      BY <1>2, <2>1
    <2> QED
      BY <1>2, <2>1, <2>2, <2>3, <2>4, <2>5, BufferKept
  <1>5. CASE ConnectionOkTest
    <2>1. CASE \E refused : MayFault(refused # {}) /\ ClientStart(refused)
      BY <1>2, <2>1, FaultTyped, StartKept
    <2>2. CASE /\ contact' = "tested"
               /\ UNCHANGED <<install, out, buffer, armed, down, link, installed, config,
                              recorded, stray, bounds, history>>
      BY <1>2, <2>2, QuietKept DEF install, config, bounds, history
    <2> QED
      BY <1>5, <2>1, <2>2 DEF ConnectionOkTest
  <1>6. CASE Restart
    BY <1>2, <1>6, FaultTyped, StartKept DEF Restart
  <1>7. CASE LinkDown
    <2>1. faults' \in 0 .. MaxFaults /\ link' \in BOOLEAN
      BY <1>2, <1>7, FaultTyped DEF LinkDown
    <2>2. UNCHANGED <<install, out, main, down, installed, config, recorded, stray, orders, history>>
      BY <1>7 DEF LinkDown
    <2> QED
      BY <1>2, <2>1, <2>2, QuietKept DEF install, main, config, history
  <1>8. CASE LinkUp
    <2>1. link' \in BOOLEAN
      BY <1>8 DEF LinkUp
    <2>2. UNCHANGED <<install, out, main, down, installed, config, recorded, stray, bounds, history>>
      BY <1>8 DEF LinkUp
    <2> QED
      BY <1>2, <2>1, <2>2, QuietKept DEF install, main, config, bounds, history
  <1>9. CASE UNCHANGED vars
    BY <1>2, <1>9, QuietKept DEF vars, install, main, config, bounds, history
  <1> QED
    BY <1>3, <1>4, <1>5, <1>6, <1>7, <1>8, <1>9, InstallKept, SendReportKept, NewConfigKept,
       CommandBatchKept, ExpireKept, StrayKept, OrderKept DEF Next, MainStep

LEMMA InvInit == Init => Inv
  <1> SUFFICES ASSUME Init PROVE Inv
    OBVIOUS
  <1>1. /\ target \in Wanted /\ link \in BOOLEAN /\ installed \in [Package -> BOOLEAN]
        /\ flavour \in Flavours /\ contact = "none"
        /\ orders = 0 /\ faults = 0
        /\ pending = <<>> /\ commands = <<>> /\ running = <<>> /\ pc = "idle" /\ out = <<>>
        /\ stray = {}
    BY DEF Init, Wanted
  <1>2. recorded \in [Package -> Shown]
    BY DEF Init, Shown
  <1>3. armed \in BOOLEAN
    <2>1. armed = ~link
      BY DEF Init
    <2> QED
      BY <1>1, <2>1
  <1>4. buffer \in Seq(Messages) /\ (~link => HasAsked(buffer))
    BY GreetingTyped DEF Init
  <1>5. down \in Seq(Orders) /\ (link => HasList(down))
    <2> DEFINE a == Batch("repo_list")
               b == Batch("package_list")
               d == <<a, b>>
    <2>1. a \in Orders /\ b \in Orders /\ b.kind = "package_list"
      BY <1>1, BatchTyped DEF Orders
    <2> HIDE DEF a, b
    <2>2. d \in Seq(Orders) /\ 2 \in DOMAIN d /\ d[2] = b
      BY <2>1
    <2>3. down = IF link THEN d ELSE <<>>
      BY DEF Init, a, b
    <2> HIDE DEF d
    <2>4. HasList(d)
      BY <2>1, <2>2 DEF HasList
    <2> QED
      BY <2>2, <2>3, <2>4
  <1>6. orders \in 0 .. MaxOrders /\ faults \in 0 .. MaxFaults
    BY <1>1, PackageAssumption
  <1>7. Shape
    BY <1>1, <1>2, <1>3, <1>4, <1>5, <1>6 DEF Shape, InstallShape, MainShape, NodeShape
  <1>8. RunInv
    BY <1>1 DEF RunInv
  <1>9. Work
    BY <1>1 DEF Work, Distinct, RefreshFirst, RetriesOk
  <1>10. StrayInv
    BY <1>1 DEF StrayInv
  <1>11. RecordInv
    BY <1>4, <1>5 DEF RecordInv, RecordOf, Coming
  <1> QED
    BY <1>7, <1>8, <1>9, <1>10, <1>11 DEF Inv

LEMMA InvHolds == Spec => []Inv
  BY InvInit, InvStep, PTL DEF Spec

(* What both processes keep in memory and what the server stores has its   *)
(* type in every reachable state, and a package is tried at most three     *)
(* times more.                                                             *)
THEOREM TypeCorrect == Spec => []TypeOK
  <1>1. Inv => TypeOK
    <2> SUFFICES ASSUME Inv PROVE TypeOK
      OBVIOUS
    <2>1. ASSUME NEW i \in DOMAIN pending
          PROVE  pending[i].kind \in {"repo_list", "package_list", "clear_cache", "get_repo_list",
                                      "get_package_list"}
      <3>1. pending[i] \in Batches
        BY DEF Inv, Shape, InstallShape
      <3> QED
        BY <3>1 DEF Batches, Lists
    <2>2. ASSUME NEW i \in DOMAIN commands
          PROVE  /\ commands[i].id \in Package \cup {Refresh}
                 /\ commands[i].retry \in 0 .. MaxRetry + 1
                 /\ commands[i].shown \in {"y", "n", "u"}
      <3>1. commands[i] \in Commands
        BY DEF Inv, Shape, InstallShape
      <3> QED
        BY <3>1 DEF Commands, Ids, Shown
    <2>3. ASSUME NEW i \in DOMAIN running PROVE running[i].stage \in {"pre", "main", "post"}
      <3>1. running[i] \in External
        BY DEF Inv, Shape, InstallShape
      <3> QED
        BY <3>1 DEF External, Stages
    <2> QED
      BY <2>1, <2>2, <2>3 DEF Inv, Shape, InstallShape, MainShape, NodeShape, TypeOK, Wanted, Shown
  <1> QED
    BY <1>1, InvHolds, PTL

(* Unless a command expired, an install process that is back in its loop   *)
(* with commands left has one of them running: no order of batches,        *)
(* retries, refreshes and restarts leaves the list lying.                  *)
THEOREM CommandsGoOn == Spec => []NoStall
  <1>1. Inv => NoStall
    BY DEF Inv, Work, NoStall
  <1> QED
    BY <1>1, InvHolds, PTL

(* When client and server are quiet the server's record of every package   *)
(* is what is installed on the node, through lost links, buffered reports  *)
(* and restarts; a package whose report was overtaken or refused, that was *)
(* tried again or whose main command outlived its supervision is excepted, *)
(* and so is a client whose request was refused.                           *)
THEOREM RecordsAreRight == Spec => []RecordedState
  <1>1. Inv => RecordedState
    <2> SUFFICES ASSUME Inv, Quiet, "refused" \notin incident, NEW x \in Package, Doubts(x) = {}
                 PROVE  recorded[x] \in Right(x)
      BY DEF RecordedState, RightlyRecorded, Right
    <2>1. RecordOf(x)
      BY DEF Inv, RecordInv
    <2>2. ~Coming(x)
      BY DEF Quiet, Coming, Has, HasList, HasAsked
    <2>3. ReportsOf(out, x) = {} /\ ReportsOf(buffer, x) = {}
      BY DEF Quiet, ReportsOf
    <2> QED
      BY <2>1, <2>2, <2>3 DEF RecordOf, LatestIn, LastIn
  <1> QED
    BY <1>1, InvHolds, PTL
===============================================================================
