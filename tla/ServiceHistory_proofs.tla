------------------------ MODULE ServiceHistory_proofs ------------------------
(***************************************************************************)
(* Proofs about ServiceHistory, for every value of its times: a service is *)
(* started a bounded number of times, has one transition at a time, and a  *)
(* flapping service is restarted slowly.                                   *)
(***************************************************************************)
EXTENDS ServiceHistory, Selection_proofs

Row == [state : {"ok", "incomplete", "dead"}, age : 0..StableInterval]
Wait == [action : {"start", "stop"}, age : 0..WaitTime]
Age == 0..(Window - 1)
Proc == {"ok", "incomplete", "stopping", "dead"}

(* TypeOK, with the three lists as sequences.                              *)
Shape ==
  /\ proc \in Proc /\ target \in TargetState
  /\ depsOk \in BOOLEAN /\ problem \in BOOLEAN /\ due \in BOOLEAN /\ okSince \in BOOLEAN
  /\ seen \in {"none", "ok", "incomplete", "dead"}
  /\ records \in Seq(Row) /\ starts \in Seq(Age) /\ waits \in Seq(Wait)
  /\ lock \in 0..LockTimeout
  /\ sinceCheck \in 0..CheckEvery /\ sinceStep \in 0..StepEvery
  /\ events \in 0..MaxEvents

LEMMA Times ==
  /\ StartGrace \in Nat /\ ReducedTime \in Nat /\ MinStateTime \in Nat
  /\ StableInterval \in Nat /\ LockTimeout \in Nat /\ DisableAge \in Nat /\ Window \in Nat
  /\ Rows \in Nat /\ CheckEvery \in Nat /\ StepEvery \in Nat /\ WaitTime \in Nat
  /\ MaxEvents \in Nat
  /\ 0 < StartGrace /\ StartGrace <= DisableAge /\ DisableAge < Window
  /\ 0 < StableInterval /\ StableInterval < Window /\ StepEvery < LockTimeout
  /\ Fate \subseteq {"ok", "dead"}
  <1>1. /\ StartGrace \in Nat /\ ReducedTime \in Nat /\ MinStateTime \in Nat
        /\ StableInterval \in Nat /\ LockTimeout \in Nat /\ DisableAge \in Nat /\ Window \in Nat
        /\ Rows \in Nat /\ CheckEvery \in Nat /\ StepEvery \in Nat /\ WaitTime \in Nat
        /\ MaxEvents \in Nat
    BY TimeAssumption
  <1> QED
    BY <1>1, TimeAssumption

-----------------------------------------------------------------------------
(* A new row comes first.                                                  *)
LEMMA Prepended ==
  ASSUME NEW T, NEW s \in Seq(T), NEW e \in T
  PROVE  LET t == <<e>> \o s
         IN  /\ t \in Seq(T) /\ t # <<>> /\ t # s /\ t[1] = e
             /\ Len(t) = Len(s) + 1 /\ Len(s) \in Nat
             /\ DOMAIN t = 1..(Len(s) + 1) /\ DOMAIN s = 1..Len(s)
             /\ \A i \in DOMAIN s : i + 1 \in DOMAIN t /\ t[i + 1] = s[i]
             /\ \A i \in DOMAIN t : i # 1 => i - 1 \in DOMAIN s /\ t[i] = s[i - 1]
  <1> DEFINE t == <<e>> \o s
  <1>1. /\ t \in Seq(T) /\ t[1] = e /\ Len(t) = Len(s) + 1 /\ Len(s) \in Nat
        /\ DOMAIN t = 1..(Len(s) + 1) /\ DOMAIN s = 1..Len(s)
        /\ \A i \in 1..(Len(s) + 1) : i # 1 => t[i] = s[i - 1]
    OBVIOUS
  <1> HIDE DEF t
  <1>2. t # <<>> /\ t # s
    BY <1>1
  <1>3. \A i \in DOMAIN s : i + 1 \in DOMAIN t /\ t[i + 1] = s[i]
    BY <1>1
  <1>4. \A i \in DOMAIN t : i # 1 => i - 1 \in DOMAIN s /\ t[i] = s[i - 1]
    BY <1>1
  <1> QED
    BY <1>1, <1>2, <1>3, <1>4 DEF t

(* A tick later.                                                           *)
LEMMA OlderRows ==
  ASSUME NEW s \in Seq(Row)
  PROVE  LET t == Older(s, StableInterval)
         IN  /\ t \in Seq(Row) /\ DOMAIN t = DOMAIN s
             /\ \A i \in DOMAIN s : /\ t[i].state = s[i].state
                                    /\ t[i].age = Lower(StableInterval, s[i].age + 1)
  <1> DEFINE t == Older(s, StableInterval)
  <1>1. ASSUME NEW i \in DOMAIN s
        PROVE  /\ t[i] \in Row /\ t[i].state = s[i].state
               /\ t[i].age = Lower(StableInterval, s[i].age + 1)
    <2>1. s[i] \in Row
      OBVIOUS
    <2>2. t[i] = [s[i] EXCEPT !.age = Lower(StableInterval, s[i].age + 1)]
      BY <2>1 DEF Older, Row
    <2>3. Lower(StableInterval, s[i].age + 1) \in 0..StableInterval
      BY <2>1, Times DEF Row, Lower
    <2> QED
      BY <2>1, <2>2, <2>3 DEF Row
  <1>2. DOMAIN t = 1..Len(s) /\ DOMAIN s = 1..Len(s) /\ Len(s) \in Nat
        /\ t = [i \in 1..Len(s) |-> t[i]]
    BY DEF Older
  <1> HIDE DEF t
  <1>3. t \in Seq(Row)
    BY <1>1, <1>2
  <1> QED
    BY <1>1, <1>2, <1>3 DEF t

LEMMA OlderWaits ==
  ASSUME NEW s \in Seq(Wait)
  PROVE  LET t == Older(s, WaitTime)
         IN  /\ t \in Seq(Wait) /\ DOMAIN t = DOMAIN s /\ Len(t) = Len(s)
             /\ \A i \in DOMAIN s : t[i].age = Lower(WaitTime, s[i].age + 1)
  <1> DEFINE t == Older(s, WaitTime)
  <1>1. ASSUME NEW i \in DOMAIN s
        PROVE  t[i] \in Wait /\ t[i].age = Lower(WaitTime, s[i].age + 1)
    <2>1. s[i] \in Wait
      OBVIOUS
    <2>2. t[i] = [s[i] EXCEPT !.age = Lower(WaitTime, s[i].age + 1)]
      BY <2>1 DEF Older, Wait
    <2>3. Lower(WaitTime, s[i].age + 1) \in 0..WaitTime
      BY <2>1, Times DEF Wait, Lower
    <2> QED
      BY <2>1, <2>2, <2>3 DEF Wait
  <1>2. DOMAIN t = 1..Len(s) /\ DOMAIN s = 1..Len(s) /\ Len(s) \in Nat
        /\ t = [i \in 1..Len(s) |-> t[i]]
    BY DEF Older
  <1> HIDE DEF t
  <1>3. t \in Seq(Wait)
    BY <1>1, <1>2
  <1>4. Len(t) = Len(s)
    BY <1>2, <1>3
  <1> QED
    BY <1>1, <1>2, <1>3, <1>4 DEF t

(* The ages a tick leaves: all one more, the ones out of the window gone,  *)
(* none moved back.                                                        *)
OlderStarts == [i \in DOMAIN starts |-> starts[i] + 1]

LEMMA TickedStarts ==
  ASSUME starts \in Seq(Age)
  PROVE  LET t == RecentStarts(OlderStarts)
         IN  /\ t \in Seq(Age) /\ Len(t) <= Len(starts)
             /\ \E h : /\ \A k \in DOMAIN t : /\ h[k] \in DOMAIN starts /\ k <= h[k]
                                              /\ t[k] = starts[h[k]] + 1
                       /\ \A j, k \in DOMAIN t : j < k => h[j] < h[k]
                       /\ \A i \in DOMAIN starts : starts[i] + 1 < Window =>
                            \E k \in DOMAIN t : h[k] = i
  <1> DEFINE o == OlderStarts
             I == {i \in DOMAIN o : InWindow(o[i])}
             t == At(o, I)
  <1>1. o \in Seq(Nat) /\ DOMAIN o = DOMAIN starts /\ Len(o) = Len(starts)
        /\ \A i \in DOMAIN starts : o[i] = starts[i] + 1 /\ starts[i] \in Age
    <2>1. \A i \in DOMAIN starts : starts[i] \in Age /\ starts[i] + 1 \in Nat
      BY Times DEF Age
    <2>2. Len(starts) \in Nat /\ DOMAIN starts = 1..Len(starts)
      OBVIOUS
    <2> QED
      BY <2>1, <2>2 DEF OlderStarts
  <1>2. t = RecentStarts(o)
    BY DEF RecentStarts
  <1> HIDE DEF o
  <1>3. \A i : i \in I <=> i \in DOMAIN starts /\ starts[i] + 1 < Window
    BY <1>1 DEF InWindow
  <1> HIDE DEF I
  <1>4. Len(t) <= Len(starts)
    BY <1>1, AtElements
  <1>5. PICK h : t \in Seq(Nat) /\ Indexing(t, o, I, h)
    BY <1>1, AtIndexed
  <1> HIDE DEF t
  <1>6. \A k \in DOMAIN t : /\ h[k] \in DOMAIN starts /\ k <= h[k] /\ h[k] \in I
                            /\ t[k] = starts[h[k]] + 1
    BY <1>1, <1>5 DEF Indexing
  <1>7. \A j, k \in DOMAIN t : j < k => h[j] < h[k]
    BY <1>5 DEF Indexing
  <1>8. \A i \in DOMAIN starts : starts[i] + 1 < Window => \E k \in DOMAIN t : h[k] = i
    BY <1>1, <1>3, <1>5 DEF Indexing
  <1>9. t \in Seq(Age)
    <2>1. \A k \in DOMAIN t : t[k] \in Age
      <3> TAKE k \in DOMAIN t
      <3>1. starts[h[k]] + 1 < Window /\ starts[h[k]] \in Age
        BY <1>1, <1>3, <1>6
      <3> QED
        BY <1>6, <3>1, Times DEF Age
    <2> QED
      BY <1>5, <2>1
  <1> QED
    BY <1>2, <1>4, <1>6, <1>7, <1>8, <1>9 DEF o

LEMMA TickedRecords ==
  ASSUME records \in Seq(Row)
  PROVE  LET t == RecentRecords(Older(records, StableInterval))
         IN  /\ t \in Seq(Row)
             /\ records # <<>> => t # <<>> /\ t[1].state = records[1].state
             /\ \A i \in DOMAIN records : records[i].age + 1 < StableInterval =>
                  \E k \in DOMAIN t : /\ k <= i /\ t[k].state = records[i].state
                                      /\ t[k].age = records[i].age + 1
  <1> DEFINE o == Older(records, StableInterval)
             I == {i \in DOMAIN o : i = 1 \/ o[i].age < StableInterval}
             t == At(o, I)
  <1>1. /\ o \in Seq(Row) /\ DOMAIN o = DOMAIN records
        /\ \A i \in DOMAIN records : /\ o[i].state = records[i].state
                                     /\ o[i].age = Lower(StableInterval, records[i].age + 1)
    BY OlderRows
  <1>2. t = RecentRecords(o)
    BY DEF RecentRecords
  <1> HIDE DEF o
  <1>3. \A i : i \in I <=> i \in DOMAIN o /\ (i = 1 \/ o[i].age < StableInterval)
    OBVIOUS
  <1> HIDE DEF I
  <1>4. (o # <<>> /\ 1 \in I) => (t # <<>> /\ t[1] = o[1])
    BY <1>1, AtElements
  <1>5. PICK h : t \in Seq(Row) /\ Indexing(t, o, I, h)
    BY <1>1, AtIndexed
  <1> HIDE DEF t
  <1>6. records # <<>> => t # <<>> /\ t[1].state = records[1].state
    <2> SUFFICES ASSUME records # <<>> PROVE t # <<>> /\ t[1].state = records[1].state
      OBVIOUS
    <2>1. 1 \in DOMAIN records
      OBVIOUS
    <2>2. o # <<>> /\ 1 \in I
      BY <1>1, <1>3, <2>1
    <2> QED
      BY <1>1, <1>4, <2>1, <2>2
  <1>7. ASSUME NEW i \in DOMAIN records, records[i].age + 1 < StableInterval
        PROVE  \E k \in DOMAIN t : /\ k <= i /\ t[k].state = records[i].state
                                   /\ t[k].age = records[i].age + 1
    <2>1. o[i].age = records[i].age + 1 /\ o[i].state = records[i].state
      <3>1. records[i].age \in Nat
        <4>1. records[i] \in Row
          OBVIOUS
        <4> QED
          BY <4>1, Times DEF Row
      <3> QED
        BY <1>1, <1>7, <3>1, Times DEF Lower
    <2>2. i \in I
      BY <1>1, <1>3, <1>7, <2>1
    <2>3. PICK k \in DOMAIN t : h[k] = i
      BY <1>1, <1>5, <2>2 DEF Indexing
    <2>4. k <= i /\ t[k] = o[i]
      BY <1>5, <2>3 DEF Indexing
    <2> QED
      BY <2>1, <2>4
  <1> QED
    BY <1>2, <1>5, <1>6, <1>7 DEF o

-----------------------------------------------------------------------------
(* A check either only looks or starts a transition.                       *)
Looks ==
  /\ UNCHANGED <<proc, target, starts, lock, waits>>
  /\ okSince' = (okSince \/ Observed = "ok")

Acts(force) ==
  /\ CurAction \in {"start", "stop"} /\ (force \/ Stable) /\ ~Locked
  /\ Generate(CurAction)
  /\ okSince' = (CurAction = "stop" /\ (okSince \/ Observed = "ok"))

LEMMA Observes ==
  ASSUME proc \in Proc
  PROVE  /\ Observed \in {"ok", "incomplete", "dead"}
         /\ CurAction \in {"keep", "start", "stop"}
         /\ CurAction = "start" <=> (target = "running" /\ Observed # "ok")
  <1>1. Observed \in {"ok", "incomplete", "dead"}
    BY DEF Observed, Proc
  <1> QED
    BY <1>1 DEF CurAction, get_action, LicOk

LEMMA CheckCases ==
  ASSUME proc \in Proc, NEW force, Check(force)
  PROVE  /\ seen' = Observed /\ records' = NewRecords /\ sinceCheck' = 0 /\ due' = FALSE
         /\ problem' = ~depsOk \/ problem' = problem
         /\ UNCHANGED <<depsOk, sinceStep, events>>
         /\ Looks \/ Acts(force)
  <1> DEFINE wanted == CurAction # "keep" /\ (force \/ Stable)
  <1>1. /\ seen' = Observed /\ records' = NewRecords /\ sinceCheck' = 0 /\ due' = FALSE
        /\ problem' = IF wanted THEN ~depsOk ELSE problem
        /\ UNCHANGED <<depsOk, sinceStep, events>>
    BY DEF Check
  <1>2. CASE wanted /\ depsOk /\ ~Locked
    <2>1. /\ Generate(CurAction)
          /\ okSince' = (CurAction = "stop" /\ (okSince \/ Observed = "ok"))
      BY <1>2 DEF Check
    <2>2. CurAction \in {"start", "stop"}
      BY <1>2, Observes
    <2> QED
      BY <1>1, <1>2, <2>1, <2>2 DEF Acts
  <1>3. CASE ~(wanted /\ depsOk /\ ~Locked)
    <2>1. Looks
      BY <1>3 DEF Check, Looks
    <2> QED
      BY <1>1, <2>1
  <1> QED
    BY <1>2, <1>3

(* The first step of a transition.                                         *)
LEMMA FirstStep ==
  ASSUME NEW action, StepOne(action)
  PROVE  \/ lock' = LockTimeout /\ proc' = proc /\ waits' = waits
         \/ proc' = "stopping" /\ lock' = 0 /\ waits' = Append(waits, [action |-> action, age |-> 0])
         \/ lock' = LockTimeout /\ proc' \in {"ok", "dead"} /\ waits' = waits
  <1> DEFINE plan == decide(action, run_state(Observed, HasPids(proc), FALSE))
  <1>1. CASE plan = <<>>
    BY <1>1 DEF StepOne
  <1>2. CASE plan # <<>> /\ plan[1] = "stop"
    BY <1>2 DEF StepOne
  <1>3. CASE plan # <<>> /\ plan[1] # "stop"
    <2>1. Finish(action) /\ waits' = waits
      BY <1>3 DEF StepOne
    <2> QED
      BY <2>1, Times DEF Finish
  <1> QED
    BY <1>1, <1>2, <1>3

LEMMA FinishCases ==
  ASSUME NEW action, Finish(action)
  PROVE  proc' \in {"ok", "dead"} /\ lock' = LockTimeout
  BY Times DEF Finish

(* A start adds its row unless the service is disabled; a stop, or         *)
(* disabling, leaves no newest starts.                                     *)
LEMMA StartRows ==
  ASSUME NEW action, Generate(action), proc \in Proc, action = CurAction,
         action \in {"start", "stop"}
  PROVE  \/ starts' = <<>>
         \/ action = "start" /\ ~post_disable /\ starts' = <<0>> \o starts
  <1>1. starts' = IF action = "stop" \/ (post_disable /\ target = "running") THEN <<>>
                  ELSE <<0>> \o starts
    BY DEF Generate
  <1>2. action = "start" => target = "running"
    BY Observes
  <1> QED
    BY <1>1, <1>2

-----------------------------------------------------------------------------
LEMMA InitShape == Init => Shape
  <1> SUFFICES ASSUME Init PROVE Shape
    OBVIOUS
  <1>1. <<>> \in Seq(Row) /\ <<>> \in Seq(Age) /\ <<>> \in Seq(Wait)
    OBVIOUS
  <1>2. proc \in Proc
    BY DEF Init, Proc
  <1>3. lock \in 0..LockTimeout /\ sinceCheck \in 0..CheckEvery /\ sinceStep \in 0..StepEvery
        /\ events \in 0..MaxEvents
    BY Times DEF Init
  <1> QED
    BY <1>1, <1>2, <1>3 DEF Init, Shape

LEMMA NewRecordsTyped ==
  ASSUME Shape
  PROVE  NewRecords \in Seq(Row)
  <1> DEFINE r == [state |-> Observed, age |-> 0]
  <1>1. r \in Row
    BY Observes, Times DEF Shape, Row
  <1> HIDE DEF r
  <1>2. records \in Seq(Row)
    BY DEF Shape
  <1>3. <<r>> \o records \in Seq(Row)
    BY <1>1, <1>2, Prepended
  <1> QED
    BY <1>2, <1>3 DEF NewRecords, r

LEMMA CheckShape ==
  ASSUME Shape, NEW force, Check(force)
  PROVE  Shape'
  <1>0. proc \in Proc
    BY DEF Shape
  <1>1. /\ seen' = Observed /\ records' = NewRecords /\ sinceCheck' = 0 /\ due' = FALSE
        /\ problem' = ~depsOk \/ problem' = problem
        /\ UNCHANGED <<depsOk, sinceStep, events>>
        /\ Looks \/ Acts(force)
    BY <1>0, CheckCases
  <1>2. /\ seen' \in {"none", "ok", "incomplete", "dead"} /\ sinceCheck' \in 0..CheckEvery
        /\ due' \in BOOLEAN /\ depsOk' \in BOOLEAN /\ problem' \in BOOLEAN
        /\ sinceStep' \in 0..StepEvery /\ events' \in 0..MaxEvents
    <2>1. seen' \in {"none", "ok", "incomplete", "dead"}
      BY <1>0, <1>1, Observes
    <2>2. problem' \in BOOLEAN /\ depsOk' \in BOOLEAN /\ due' \in BOOLEAN
      BY <1>1 DEF Shape
    <2>3. sinceCheck' \in 0..CheckEvery /\ sinceStep' \in 0..StepEvery /\ events' \in 0..MaxEvents
      BY <1>1, Times DEF Shape
    <2> QED
      BY <2>1, <2>2, <2>3
  <1>3. records' \in Seq(Row)
    BY <1>1, NewRecordsTyped
  <1>4. CASE Looks
    <2>1. okSince' \in BOOLEAN
      BY <1>4 DEF Looks
    <2>2. UNCHANGED <<proc, target, starts, lock, waits>>
      BY <1>4 DEF Looks
    <2> QED
      BY <1>2, <1>3, <2>1, <2>2 DEF Shape
  <1>5. CASE Acts(force)
    <2> DEFINE action == CurAction
    <2>1. okSince' \in BOOLEAN
      BY <1>5 DEF Acts
    <2>2. action \in {"start", "stop"} /\ Generate(action) /\ action = CurAction
      BY <1>5 DEF Acts
    <2> HIDE DEF action
    <2>3. starts' \in Seq(Age)
      <3>1. 0 \in Age /\ starts \in Seq(Age) /\ <<>> \in Seq(Age)
        BY Times DEF Age, Shape
      <3>2. <<0>> \o starts \in Seq(Age)
        BY <3>1, Prepended
      <3> QED
        BY <1>0, <2>2, <3>1, <3>2, StartRows
    <2>4. target' \in TargetState
      BY <2>2 DEF Generate, Shape, TargetState
    <2>5. StepOne(action)
      BY <2>2 DEF Generate
    <2>6. proc' \in Proc /\ lock' \in 0..LockTimeout
      <3>1. /\ proc' = proc \/ proc' = "stopping" \/ proc' \in {"ok", "dead"}
            /\ lock' = LockTimeout \/ lock' = 0
        BY <2>5, FirstStep
      <3>2. proc' \in Proc
        BY <1>0, <3>1 DEF Proc
      <3>3. lock' \in 0..LockTimeout
        BY <3>1, Times
      <3> QED
        BY <3>2, <3>3
    <2>7. waits' \in Seq(Wait)
      <3> DEFINE w == [action |-> action, age |-> 0]
      <3>1. w \in Wait
        BY <2>2, Times DEF Wait
      <3>2. waits' = waits \/ waits' = Append(waits, w)
        BY <2>5, FirstStep
      <3> HIDE DEF w
      <3>3. waits \in Seq(Wait)
        BY DEF Shape
      <3>4. Append(waits, w) \in Seq(Wait)
        BY <3>1, <3>3
      <3> QED
        BY <3>2, <3>3, <3>4
    <2> QED
      BY <1>2, <1>3, <2>1, <2>3, <2>4, <2>6, <2>7 DEF Shape
  <1> QED
    BY <1>1, <1>4, <1>5

LEMMA TransitionCases ==
  ASSUME HandleTransition
  PROVE  /\ ~due /\ waits # <<>> /\ sinceStep' = 0
         /\ UNCHANGED <<target, depsOk, seen, records, starts, problem, sinceCheck, okSince>>
         /\ (Event /\ due' = TRUE) \/ UNCHANGED <<due, events>>
         /\ \/ proc' \in {"ok", "dead"} /\ lock' = LockTimeout /\ waits' = <<>>
            \/ /\ UNCHANGED <<proc, lock, waits>>
               /\ \A i \in DOMAIN waits : ~(waits[i].age >= WaitTime)
  <1>1. CASE WaitOver
    <2>1. Finish(waits[Len(waits)].action) /\ waits' = <<>>
      BY <1>1 DEF HandleTransition
    <2> QED
      BY <2>1, FinishCases DEF HandleTransition
  <1>2. CASE ~WaitOver
    BY <1>2 DEF HandleTransition, WaitOver
  <1> QED
    BY <1>1, <1>2

LEMMA NextShape == Shape /\ [Next]_vars => Shape'
  <1> SUFFICES ASSUME Shape, [Next]_vars PROVE Shape'
    OBVIOUS
  <1>1. CASE TimedCheck
    BY <1>1, CheckShape DEF TimedCheck
  <1>2. CASE ForcedCheck
    BY <1>2, CheckShape DEF ForcedCheck
  <1>3. CASE HandleTransition
    <2>1. /\ UNCHANGED <<target, depsOk, seen, records, starts, problem, sinceCheck, okSince>>
          /\ sinceStep' = 0
      BY <1>3, TransitionCases
    <2>3. due' \in BOOLEAN /\ events' \in 0..MaxEvents
      <3>1. (Event /\ due' = TRUE) \/ UNCHANGED <<due, events>>
        BY <1>3, TransitionCases
      <3>2. events' \in 0..MaxEvents
        BY <3>1, Times DEF Event, Shape
      <3> QED
        BY <3>1, <3>2 DEF Shape
    <2>2. proc' \in Proc /\ lock' \in 0..LockTimeout /\ waits' \in Seq(Wait)
      <3>1. <<>> \in Seq(Wait) /\ {"ok", "dead"} \subseteq Proc /\ LockTimeout \in 0..LockTimeout
        BY Times DEF Proc
      <3>2. \/ proc' \in {"ok", "dead"} /\ lock' = LockTimeout /\ waits' = <<>>
            \/ UNCHANGED <<proc, lock, waits>>
        BY <1>3, TransitionCases
      <3> QED
        BY <3>1, <3>2 DEF Shape
    <2> QED
      BY <2>1, <2>2, <2>3, Times DEF Shape
  <1>9. CASE DependencyCheck
    <2>1. events' \in 0..MaxEvents
      BY <1>9, Times DEF DependencyCheck, Event, Shape
    <2> QED
      BY <1>9, <2>1 DEF DependencyCheck, Shape
  <1>4. CASE Command
    <2>1. <<>> \in Seq(Age) /\ events' \in 0..MaxEvents /\ target' \in TargetState
      BY <1>4, Times DEF Command, Event, Shape, TargetState
    <2> QED
      BY <1>4, <2>1 DEF Command, Shape
  <1>5. CASE Boot
    <2>1. <<>> \in Seq(Wait) /\ events' \in 0..MaxEvents
      BY <1>5, Times DEF Boot, Event, Shape
    <2>2. lock' \in 0..LockTimeout /\ sinceCheck' \in 0..CheckEvery /\ sinceStep' \in 0..StepEvery
      BY <1>5, Times DEF Boot
    <2> QED
      BY <1>5, <2>1, <2>2 DEF Boot, Shape
  <1>6. CASE Outside
    <2>1. proc' \in Proc
      BY <1>6 DEF Outside, Shape, Proc
    <2>2. depsOk' \in BOOLEAN
      BY <1>6 DEF Outside, Shape
    <2>3. events' \in 0..MaxEvents
      BY <1>6, Times DEF Outside, Event, Shape
    <2> QED
      BY <1>6, <2>1, <2>2, <2>3 DEF Outside, Shape
  <1>7. CASE Tick
    <2>1. records' \in Seq(Row)
      BY <1>7, TickedRecords DEF Tick, Shape
    <2>2. starts' \in Seq(Age)
      <3>1. starts' = RecentStarts(OlderStarts) /\ starts \in Seq(Age)
        BY <1>7 DEF Tick, Shape, OlderStarts
      <3> QED
        BY <3>1, TickedStarts
    <2>3. waits' \in Seq(Wait)
      BY <1>7, OlderWaits DEF Tick, Shape
    <2>4. lock' \in 0..LockTimeout
      BY <1>7, Times DEF Tick, Shape, Lower
    <2>5. sinceCheck' \in 0..CheckEvery
      BY <1>7, Times DEF Tick, Shape
    <2>6. sinceStep' \in 0..StepEvery
      BY <1>7, Times DEF Tick, Shape
    <2> QED
      BY <1>7, <2>1, <2>2, <2>3, <2>4, <2>5, <2>6 DEF Tick, Shape
  <1>8. CASE UNCHANGED vars
    BY <1>8 DEF vars, Shape
  <1> QED
    BY <1>1, <1>2, <1>3, <1>4, <1>5, <1>6, <1>7, <1>8, <1>9 DEF Next

LEMMA AlwaysShape == Spec => []Shape
  BY InitShape, NextShape, PTL DEF Spec

(* Every variable of the service's history stays in its range: the ages    *)
(* that checks, ticks and restarts of the server leave in the tables, the  *)
(* lock and the transitions stay within the limits the queries use.        *)
THEOREM TypeCorrect == Spec => []TypeOK
  <1>1. Shape => TypeOK
    <2> SUFFICES ASSUME Shape PROVE TypeOK
      OBVIOUS
    <2>1. ASSUME NEW i \in DOMAIN records
          PROVE  records[i].state \in {"ok", "incomplete", "dead"}
                 /\ records[i].age \in 0..StableInterval
      <3>1. records[i] \in Row
        BY DEF Shape
      <3> QED
        BY <3>1 DEF Row
    <2>2. ASSUME NEW i \in DOMAIN waits
          PROVE  waits[i].action \in {"start", "stop"} /\ waits[i].age \in 0..WaitTime
      <3>1. waits[i] \in Wait
        BY DEF Shape
      <3> QED
        BY <3>1 DEF Wait
    <2>3. \A i \in DOMAIN starts : starts[i] \in 0..(Window - 1)
      <3>1. \A i \in DOMAIN starts : starts[i] \in Age
        BY DEF Shape
      <3> QED
        BY <3>1 DEF Age
    <2> QED
      BY <2>1, <2>2, <2>3 DEF Shape, TypeOK, Proc
  <1> QED
    BY <1>1, AlwaysShape, PTL

-----------------------------------------------------------------------------
(* The lock outlives the wait: while the wait runs the lock is as old as   *)
(* it is, and once it has run out the next _handle_transition comes before *)
(* the lock ends.                                                          *)
Held ==
  /\ waits[1].age < WaitTime => lock = waits[1].age
  /\ waits[1].age = WaitTime => /\ lock <= WaitTime + sinceStep
                                /\ WaitTime > 0 => lock < WaitTime + sinceStep

LockInv ==
  WaitTime + StepEvery <= LockTimeout =>
    /\ Len(waits) <= 1
    /\ waits = <<>> => sinceStep = 0
    /\ waits # <<>> => Held

LEMMA HeldLocks ==
  ASSUME Shape, Held, waits # <<>>, WaitTime + StepEvery <= LockTimeout
  PROVE  Locked
  <1>1. waits[1].age \in 0..WaitTime
    <2>1. waits[1] \in Wait
      BY DEF Shape
    <2> QED
      BY <2>1 DEF Wait
  <1>2. lock \in Nat /\ sinceStep \in Nat /\ sinceStep <= StepEvery
    BY Times DEF Shape
  <1>3. CASE waits[1].age < WaitTime
    BY <1>1, <1>2, <1>3, Times DEF Held, Locked
  <1>4. CASE waits[1].age = WaitTime
    BY <1>1, <1>2, <1>4, Times DEF Held, Locked
  <1> QED
    BY <1>1, <1>3, <1>4, Times

LEMMA NextLock == Shape /\ LockInv /\ [Next]_vars => LockInv'
  <1> SUFFICES ASSUME Shape, LockInv, [Next]_vars, WaitTime + StepEvery <= LockTimeout
               PROVE  /\ Len(waits') <= 1
                      /\ waits' = <<>> => sinceStep' = 0
                      /\ waits' # <<>> => Held'
    BY DEF LockInv
  <1>0. Len(waits) <= 1 /\ (waits = <<>> => sinceStep = 0) /\ (waits # <<>> => Held)
    BY DEF LockInv
  <1>1. ASSUME NEW force, Check(force)
        PROVE  Len(waits') <= 1 /\ (waits' = <<>> => sinceStep' = 0) /\ (waits' # <<>> => Held')
    <2>1. (Looks \/ Acts(force)) /\ sinceStep' = sinceStep
      BY <1>1, CheckCases DEF Shape
    <2>2. CASE Looks
      BY <1>0, <2>1, <2>2 DEF Looks, Held
    <2>3. CASE Acts(force)
      <3>1. waits = <<>> /\ sinceStep = 0
        BY <1>0, <2>3, HeldLocks DEF Acts
      <3>2. PICK action : StepOne(action)
        BY <2>3 DEF Acts, Generate
      <3>3. CASE waits' = waits
        BY <1>0, <2>1, <3>1, <3>3
      <3>4. CASE waits' = Append(waits, [action |-> action, age |-> 0]) /\ lock' = 0
        <4>1. waits' = <<[action |-> action, age |-> 0]>>
          BY <3>1, <3>4
        <4>2. Len(waits') = 1 /\ waits' # <<>> /\ waits'[1].age = 0
          BY <4>1
        <4>3. Held'
          BY <2>1, <3>1, <3>4, <4>2, Times DEF Held
        <4> QED
          BY <4>2, <4>3
      <3> QED
        BY <3>2, <3>3, <3>4, FirstStep
    <2> QED
      BY <2>1, <2>2, <2>3
  <1>2. CASE TimedCheck \/ ForcedCheck
    BY <1>1, <1>2 DEF TimedCheck, ForcedCheck
  <1>3. CASE HandleTransition
    <2>1. CASE waits' = <<>>
      BY <1>3, <2>1, TransitionCases
    <2>2. CASE waits' # <<>>
      <3>1. UNCHANGED <<lock, waits>> /\ \A i \in DOMAIN waits : ~(waits[i].age >= WaitTime)
        BY <1>3, <2>2, TransitionCases
      <3>2. 1 \in DOMAIN waits
        BY <2>2, <3>1 DEF Shape
      <3>3. waits[1].age \in 0..WaitTime
        <4>1. waits[1] \in Wait
          BY <3>2 DEF Shape
        <4> QED
          BY <4>1 DEF Wait
      <3>4. waits[1].age < WaitTime
        BY <3>1, <3>2, <3>3, Times
      <3>5. Held'
        BY <1>0, <2>2, <3>1, <3>4, Times DEF Held
      <3> QED
        BY <1>0, <2>2, <3>1, <3>5
    <2> QED
      BY <2>1, <2>2
  <1>4. CASE Tick
    <2>1. /\ waits' = Older(waits, WaitTime) /\ lock' = Lower(LockTimeout, lock + 1)
          /\ sinceStep' = IF waits = <<>> THEN 0 ELSE sinceStep + 1
      BY <1>4 DEF Tick
    <2>2. /\ waits' \in Seq(Wait) /\ DOMAIN waits' = DOMAIN waits /\ Len(waits') = Len(waits)
          /\ \A i \in DOMAIN waits : waits'[i].age = Lower(WaitTime, waits[i].age + 1)
      BY <2>1, OlderWaits DEF Shape
    <2>3. waits' = <<>> <=> waits = <<>>
      BY <2>2 DEF Shape
    <2>4. ASSUME waits # <<>> PROVE Held'
      <3>1. waits[1].age \in 0..WaitTime /\ 1 \in DOMAIN waits
        <4>1. waits[1] \in Wait /\ 1 \in DOMAIN waits
          BY <2>4 DEF Shape
        <4> QED
          BY <4>1 DEF Wait
      <3>2. lock \in Nat /\ sinceStep \in Nat /\ sinceStep' = sinceStep + 1
        BY <2>1, <2>4, Times DEF Shape
      <3>3. Held /\ waits'[1].age = Lower(WaitTime, waits[1].age + 1)
        BY <1>0, <2>2, <2>4, <3>1
      <3>4. CASE waits[1].age < WaitTime
        <4>1. lock = waits[1].age
          BY <3>3, <3>4 DEF Held
        <4>2. waits'[1].age = waits[1].age + 1 /\ lock' = waits[1].age + 1
          BY <2>1, <3>1, <3>3, <3>4, <4>1, Times DEF Lower
        <4> QED
          BY <3>1, <3>2, <3>4, <4>2, Times DEF Held
      <3>5. CASE waits[1].age = WaitTime
        <4>1. lock <= WaitTime + sinceStep /\ (WaitTime > 0 => lock < WaitTime + sinceStep)
          BY <3>3, <3>5 DEF Held
        <4>2. waits'[1].age = WaitTime /\ lock' <= lock + 1 /\ lock' \in Nat
          BY <2>1, <3>1, <3>2, <3>3, <3>5, Times DEF Lower
        <4> QED
          BY <3>2, <4>1, <4>2, Times DEF Held
      <3> QED
        BY <3>1, <3>4, <3>5, Times
    <2> QED
      BY <1>0, <2>1, <2>2, <2>3, <2>4
  <1>5. CASE Boot
    BY <1>5 DEF Boot
  <1>6. CASE DependencyCheck \/ Command \/ Outside \/ UNCHANGED vars
    <2>1. UNCHANGED <<lock, waits, sinceStep>>
      BY <1>6 DEF DependencyCheck, Command, Outside, vars
    <2> QED
      BY <1>0, <2>1 DEF Held
  <1> QED
    BY <1>2, <1>3, <1>4, <1>5, <1>6 DEF Next

(* A service whose wait_time and one period of _handle_transition fit into *)
(* LOCK_TIMEOUT never has two transitions at a time, however the periodic  *)
(* and forced checks, the timer and the ticks interleave.                  *)
THEOREM TransitionsAlone == Spec => []OneTransition
  <1>1. Init => LockInv
    BY DEF Init, LockInv
  <1>2. LockInv => OneTransition
    BY DEF LockInv, OneTransition
  <1> QED
    BY <1>1, <1>2, NextLock, AlwaysShape, PTL DEF Spec

-----------------------------------------------------------------------------
(* The grace times between k + 1 starts.                                   *)
Gap(k) == StartGrace * k

LEMMA Gaps ==
  /\ \A k \in Int : Gap(k) \in Int /\ Gap(k + 1) = Gap(k) + StartGrace
  /\ \A k, m \in Int : k <= m => Gap(k) <= Gap(m)
  /\ Gap(0) = 0
  <1>1. \A k \in Int : Gap(k) \in Int /\ Gap(k + 1) = Gap(k) + StartGrace
    BY Times DEF Gap
  <1>2. Gap(0) = 0
    BY Times DEF Gap
  <1>3. ASSUME NEW k \in Int, NEW m \in Int, k <= m PROVE Gap(k) <= Gap(m)
    <2>1. Gap(m) - Gap(k) = StartGrace * (m - k)
      BY Times DEF Gap
    <2>2. StartGrace * (m - k) >= 0
      <3>1. m - k \in Nat
        BY <1>3
      <3> DEFINE d == m - k
      <3> HIDE DEF d
      <3>2. d \in Nat
        BY <3>1 DEF d
      <3>3. StartGrace * d >= 0
        BY <3>2, Times
      <3> QED
        BY <3>3 DEF d
    <2>3. Gap(k) \in Int /\ Gap(m) \in Int
      BY <1>1
    <2> QED
      BY <2>1, <2>2, <2>3
  <1> QED
    BY <1>1, <1>2, <1>3

LEMMA Quotient ==
  LET q == DisableAge \div StartGrace
  IN  /\ q \in Nat /\ q >= 1
      /\ \A k \in Int : Gap(k) <= DisableAge => k <= q
  <1> DEFINE q == DisableAge \div StartGrace
  <1>1. q \in Int /\ StartGrace * q <= DisableAge /\ DisableAge < StartGrace * q + StartGrace
    BY Times
  <1> HIDE DEF q
  <1>2. Gap(q) \in Int /\ Gap(q) <= DisableAge /\ DisableAge < Gap(q + 1)
    BY <1>1, Gaps, Times DEF Gap
  <1>3. ASSUME NEW k \in Int, Gap(k) <= DisableAge PROVE k <= q
    <2> SUFFICES ASSUME q + 1 <= k PROVE FALSE
      BY <1>1
    <2>1. Gap(q + 1) <= Gap(k)
      BY <1>1, Gaps
    <2>2. Gap(k) \in Int /\ Gap(q + 1) \in Int
      BY <1>1, Gaps
    <2> QED
      BY <1>2, <1>3, <2>1, <2>2, Times
  <1>4. q >= 1
    <2>1. Gap(1) = StartGrace
      BY Gaps, Times DEF Gap
    <2> QED
      BY <1>3, <2>1, Times
  <1> QED
    BY <1>1, <1>3, <1>4 DEF q

(* The starts that a forced check may have put closer than StartGrace: one *)
(* for every outside event whose check is done.  The first check of all    *)
(* finds no starts.                                                        *)
Forced == IF due THEN events - 1 ELSE events

Ordered(a) == \A i, j \in DOMAIN a : i <= j => a[i] <= a[j]
Spaced(a, n) == \A i \in DOMAIN a : a[i] >= a[1] + Gap((i - 1) - n)

StartsInv ==
  /\ Ordered(starts) /\ Spaced(starts, Forced)
  /\ due /\ events = 0 => starts = <<>>
  /\ StartsBounded

LEMMA SpacedMore ==
  ASSUME NEW a \in Seq(Age), NEW n \in Int, NEW m \in Int, n <= m, Spaced(a, n)
  PROVE  Spaced(a, m)
  <1> SUFFICES ASSUME NEW i \in DOMAIN a PROVE a[i] >= a[1] + Gap((i - 1) - m)
    BY DEF Spaced
  <1>1. i \in Int /\ a[i] \in Int /\ a[1] \in Int
    <2>1. a[i] \in Age /\ a[1] \in Age /\ i \in Int
      OBVIOUS
    <2> QED
      BY <2>1, Times DEF Age
  <1>2. a[i] >= a[1] + Gap((i - 1) - n)
    BY DEF Spaced
  <1> DEFINE x == (i - 1) - m
             y == (i - 1) - n
  <1>3. x \in Int /\ y \in Int /\ x <= y
    BY <1>1
  <1> HIDE DEF x, y
  <1>4. Gap(x) <= Gap(y) /\ Gap(x) \in Int /\ Gap(y) \in Int
    BY <1>3, Gaps
  <1>5. a[i] >= a[1] + Gap(y)
    BY <1>2 DEF y
  <1>6. a[i] >= a[1] + Gap(x)
    BY <1>1, <1>4, <1>5
  <1> QED
    BY <1>6 DEF x

LEMMA StartsKept ==
  ASSUME Shape, StartsInv, Shape', starts' = starts, events' = events \/ events' = events + 1,
         Forced <= Forced', due' /\ events' = 0 => (due /\ events = 0)
  PROVE  StartsInv'
  <1>1. Forced \in Int /\ Forced' \in Int /\ events \in Nat /\ events' \in Nat
    BY Times DEF Forced, Shape
  <1>2. Spaced(starts, Forced')
    BY <1>1, SpacedMore DEF Shape, StartsInv
  <1>3. StartsBounded'
    <2> DEFINE q == DisableAge \div StartGrace
    <2>1. q \in Nat /\ Len(starts) \in Nat
      BY Quotient DEF Shape
    <2>2. q + 2 + events <= Rows => Len(starts) <= q + 2 + events
      BY DEF StartsInv, StartsBounded
    <2> HIDE DEF q
    <2>3. q + 2 + events' <= Rows => Len(starts) <= q + 2 + events'
      <3> DEFINE n == Len(starts)
      <3>1. n \in Nat /\ q \in Nat /\ events \in Nat /\ Rows \in Nat
            /\ (q + 2 + events <= Rows => n <= q + 2 + events)
        BY <1>1, <2>1, <2>2, Times
      <3> HIDE DEF n
      <3>2. CASE events' = events
        BY <3>1, <3>2 DEF n
      <3>3. CASE events' = events + 1
        <4>1. q + 2 + (events + 1) <= Rows => n <= q + 2 + (events + 1)
          BY <3>1
        <4> QED
          BY <3>3, <4>1 DEF n
      <3> QED
        BY <3>2, <3>3
    <2> QED
      BY <2>3 DEF StartsBounded, q
  <1> QED
    BY <1>2, <1>3 DEF StartsInv

LEMMA NoStarts ==
  ASSUME Shape', starts' = <<>>
  PROVE  StartsInv'
  <1>1. StartsBounded'
    <2> DEFINE q == DisableAge \div StartGrace
    <2>1. q \in Nat /\ events' \in Nat /\ Len(<<>>) = 0
      BY Quotient, Times DEF Shape
    <2> HIDE DEF q
    <2>2. Len(<<>>) <= q + 2 + events'
      <3>1. \A e \in Nat : 0 <= q + 2 + e
        BY <2>1
      <3> QED
        BY <2>1, <3>1
    <2> QED
      BY <2>2 DEF StartsBounded, q
  <1>2. Ordered(<<>>) /\ \A n : Spaced(<<>>, n)
    BY DEF Ordered, Spaced
  <1> QED
    BY <1>1, <1>2 DEF StartsInv

(* A new start: unless the check was forced it comes StartGrace after the  *)
(* last one, and with too many of them the service would be disabled.      *)
OneMore == <<0>> \o starts

LEMMA OneMoreStart ==
  ASSUME Shape, StartsInv, ~due => ~YoungStart, ~post_disable,
         starts' = OneMore, due' = FALSE, events' = events
  PROVE  StartsInv'
  <1> DEFINE a == starts
             b == OneMore
             n == Len(starts)
             F == Forced
             q == DisableAge \div StartGrace
  <1>0. a \in Seq(Age) /\ 0 \in Age /\ events \in Nat /\ F \in Int /\ Forced' = events
        /\ due \in BOOLEAN /\ F = IF due THEN events - 1 ELSE events
    BY Times DEF Age, Shape, Forced
  <1>1. /\ b \in Seq(Age) /\ b[1] = 0 /\ Len(b) = n + 1 /\ n \in Nat
        /\ DOMAIN b = 1..(n + 1) /\ DOMAIN a = 1..n
        /\ \A i \in DOMAIN b : i # 1 => i - 1 \in DOMAIN a /\ b[i] = a[i - 1]
    BY <1>0, Prepended DEF OneMore
  <1>2. Ordered(a) /\ Spaced(a, F) /\ (due /\ events = 0 => a = <<>>)
    BY DEF StartsInv
  <1>3. \A i \in DOMAIN a : a[i] \in Int /\ a[i] >= 0
    <2>1. \A i \in DOMAIN a : a[i] \in Age
      BY <1>0
    <2> QED
      BY <2>1, Times DEF Age
  <1>4. n >= 1 => /\ 1 \in DOMAIN a /\ n \in DOMAIN a /\ a # <<>>
                  /\ a[1] + (IF due THEN 0 ELSE StartGrace) <= a[1] + a[1]
                  /\ due => events >= 1
    <2> SUFFICES ASSUME n >= 1
                 PROVE  /\ 1 \in DOMAIN a /\ n \in DOMAIN a /\ a # <<>>
                        /\ a[1] + (IF due THEN 0 ELSE StartGrace) <= a[1] + a[1]
                        /\ due => events >= 1
      OBVIOUS
    <2>1. 1 \in DOMAIN a /\ n \in DOMAIN a /\ a # <<>>
      BY <1>1
    <2>2. ~due => ~(a[1] < StartGrace)
      BY <2>1 DEF YoungStart
    <2>3. due => events >= 1
      BY <1>0, <1>2, <2>1
    <2> QED
      BY <1>0, <1>3, <2>1, <2>2, <2>3, Times
  <1> HIDE DEF a, b, F
  <1>5. Ordered(b)
    <2> SUFFICES ASSUME NEW i \in DOMAIN b, NEW j \in DOMAIN b, i <= j PROVE b[i] <= b[j]
      BY DEF Ordered
    <2>1. CASE i = 1
      <3>1. b[j] \in Age
        BY <1>1
      <3> QED
        BY <1>1, <2>1, <3>1, Times DEF Age
    <2>2. CASE i # 1
      <3>1. j # 1 /\ i - 1 <= j - 1
        BY <1>1, <2>2
      <3>2. i - 1 \in DOMAIN a /\ j - 1 \in DOMAIN a /\ b[i] = a[i - 1] /\ b[j] = a[j - 1]
        BY <1>1, <2>2, <3>1
      <3> QED
        BY <1>2, <3>1, <3>2 DEF Ordered
    <2> QED
      BY <2>1, <2>2
  <1>6. Spaced(b, events)
    <2> SUFFICES ASSUME NEW i \in DOMAIN b PROVE b[i] >= Gap((i - 1) - events)
      <3>1. \A i \in DOMAIN b : Gap((i - 1) - events) \in Int
        BY <1>0, <1>1, Gaps
      <3> QED
        BY <1>1, <3>1 DEF Spaced
    <2>1. CASE i = 1
      <3>1. (i - 1) - events <= 0 /\ (i - 1) - events \in Int
        BY <1>0, <2>1
      <3>2. Gap((i - 1) - events) <= 0
        BY <3>1, Gaps
      <3> QED
        BY <1>1, <2>1, <3>2
    <2>2. CASE i # 1
      <3> DEFINE j == i - 1
                 x == (j - 1) - F
                 y == (i - 1) - events
      <3>1. j \in DOMAIN a /\ b[i] = a[j] /\ n >= 1 /\ i \in Int
        BY <1>1, <2>2
      <3>2. a[j] >= a[1] + Gap(x)
        BY <1>2, <3>1 DEF Spaced
      <3>3. x \in Int /\ y \in Int /\ y = IF due THEN x ELSE x + 1
        BY <1>0, <3>1
      <3> HIDE DEF j, x, y
      <3>4. Gap(x) \in Int /\ Gap(x + 1) = Gap(x) + StartGrace /\ a[1] \in Int /\ a[j] \in Int
        BY <1>3, <1>4, <3>1, <3>3, Gaps
      <3>5. a[j] >= Gap(y)
        <4>1. CASE due
          BY <1>3, <1>4, <3>1, <3>2, <3>3, <3>4, <4>1
        <4>2. CASE ~due
          <5>1. StartGrace <= a[1]
            BY <1>4, <3>1, <3>4, <4>2, Times
          <5> QED
            BY <3>2, <3>3, <3>4, <4>2, <5>1, Times
        <4> QED
          BY <4>1, <4>2
      <3> QED
        BY <3>1, <3>5 DEF y
    <2> QED
      BY <2>1, <2>2
  <1>7. q + 2 + events <= Rows => n + 1 <= q + 2 + events
    <2> SUFFICES ASSUME q + 2 + events <= Rows PROVE n + 1 <= q + 2 + events
      OBVIOUS
    <2>1. q \in Nat /\ q >= 1 /\ \A k \in Int : Gap(k) <= DisableAge => k <= q
      BY Quotient
    <2>2. n <= q + 2 + events
      BY DEF StartsInv, StartsBounded
    <2> HIDE DEF q, n
    <2>3. Repeat = n
      BY <1>1, <2>1, <2>2, <1>0, Times DEF Repeat, Lower, n
    <2>4. CASE n <= 2
      BY <1>0, <1>1, <2>1, <2>4
    <2>5. CASE n > 2
      <3>1. ~(a[n] > DisableAge)
        BY <2>3, <2>5 DEF post_disable, a
      <3> DEFINE x == (n - 1) - F
      <3>2. n >= 1 /\ n \in DOMAIN a /\ x \in Int
        BY <1>0, <1>1, <2>5
      <3>3. a[n] >= a[1] + Gap(x)
        BY <1>2, <3>2 DEF Spaced
      <3>4. 1 \in DOMAIN a
        BY <1>4, <3>2
      <3> HIDE DEF x
      <3>5. Gap(x) <= DisableAge
        <4>1. Gap(x) \in Int /\ a[1] \in Int /\ a[1] >= 0 /\ a[n] \in Int /\ DisableAge \in Int
          BY <1>3, <3>2, <3>4, Gaps, Times
        <4> QED
          BY <3>1, <3>3, <4>1
      <3>6. x <= q
        BY <2>1, <3>2, <3>5
      <3> QED
        BY <1>0, <1>1, <2>1, <3>6 DEF x
    <2> QED
      BY <1>1, <2>4, <2>5
  <1>8. StartsBounded'
    <2>1. starts' = b /\ Len(b) = n + 1 /\ events' = events
      BY <1>1 DEF b
    <2> HIDE DEF n, q
    <2>2. q + 2 + events' <= Rows => Len(starts') <= q + 2 + events'
      BY <1>7, <2>1
    <2> QED
      BY <2>2 DEF StartsBounded, q
  <1>9. starts' = b
    BY DEF b
  <1> QED
    BY <1>0, <1>5, <1>6, <1>8, <1>9 DEF StartsInv

LEMMA TickStarts ==
  ASSUME Shape, Shape', StartsInv, Tick
  PROVE  /\ StartsInv'
         /\ starts' # <<>> => starts # <<>> /\ starts'[1] = starts[1] + 1
  <1> DEFINE a == starts
             b == RecentStarts(OlderStarts)
             F == Forced
  <1>0. /\ a \in Seq(Age) /\ starts' = b /\ Forced' = F /\ F \in Int /\ ~due' /\ events' = events
        /\ Len(a) \in Nat /\ DOMAIN a = 1..Len(a) /\ events \in Nat
    BY Times DEF Shape, Tick, OlderStarts, Forced
  <1>1. /\ b \in Seq(Age) /\ Len(b) <= Len(a)
        /\ \E h : /\ \A k \in DOMAIN b : h[k] \in DOMAIN a /\ k <= h[k] /\ b[k] = a[h[k]] + 1
                  /\ \A j, k \in DOMAIN b : j < k => h[j] < h[k]
                  /\ \A i \in DOMAIN a : a[i] + 1 < Window => \E k \in DOMAIN b : h[k] = i
    BY <1>0, TickedStarts
  <1>2. Ordered(a) /\ Spaced(a, F)
    BY DEF StartsInv
  <1>3. \A i \in DOMAIN a : a[i] \in Int
    <2>1. \A i \in DOMAIN a : a[i] \in Age
      BY <1>0
    <2> QED
      BY <2>1, Times DEF Age
  <1> HIDE DEF a, b, F
  <1>4. PICK h : /\ \A k \in DOMAIN b : h[k] \in DOMAIN a /\ k <= h[k] /\ b[k] = a[h[k]] + 1
                 /\ \A j, k \in DOMAIN b : j < k => h[j] < h[k]
                 /\ \A i \in DOMAIN a : a[i] + 1 < Window => \E k \in DOMAIN b : h[k] = i
    BY <1>1
  <1>5. Len(b) \in Nat /\ DOMAIN b = 1..Len(b)
    BY <1>1
  <1>6. ASSUME b # <<>> PROVE 1 \in DOMAIN a /\ 1 \in DOMAIN b /\ b[1] = a[1] + 1
    <2>1. 1 \in DOMAIN b
      BY <1>1, <1>6
    <2>2. h[1] \in DOMAIN a /\ b[1] = a[h[1]] + 1
      BY <1>4, <2>1
    <2>3. 1 \in DOMAIN a /\ a[1] <= a[h[1]]
      <3>1. 1 \in DOMAIN a /\ 1 <= h[1]
        BY <1>0, <2>2
      <3> QED
        BY <1>2, <2>2, <3>1 DEF Ordered
    <2>4. a[1] + 1 < Window
      <3>1. b[1] \in Age
        BY <1>1, <2>1
      <3> QED
        BY <1>3, <2>2, <2>3, <3>1, Times DEF Age
    <2>5. PICK k \in DOMAIN b : h[k] = 1
      BY <1>4, <2>3, <2>4
    <2>6. k = 1
      BY <1>4, <1>5, <2>5
    <2> QED
      BY <2>1, <2>2, <2>3, <2>5, <2>6
  <1>7. Ordered(b)
    <2> SUFFICES ASSUME NEW i \in DOMAIN b, NEW j \in DOMAIN b, i <= j PROVE b[i] <= b[j]
      BY DEF Ordered
    <2>1. h[i] \in DOMAIN a /\ h[j] \in DOMAIN a /\ b[i] = a[h[i]] + 1 /\ b[j] = a[h[j]] + 1
      BY <1>4
    <2>2. h[i] <= h[j]
      <3>1. CASE i = j
        BY <1>0, <2>1, <3>1
      <3>2. CASE i < j
        BY <1>0, <1>4, <2>1, <3>2
      <3> QED
        BY <1>5, <3>1, <3>2
    <2>3. a[h[i]] <= a[h[j]]
      BY <1>2, <2>1, <2>2 DEF Ordered
    <2> QED
      BY <1>3, <2>1, <2>3
  <1>8. Spaced(b, F)
    <2> SUFFICES ASSUME NEW k \in DOMAIN b PROVE b[k] >= b[1] + Gap((k - 1) - F)
      BY DEF Spaced
    <2> DEFINE i == h[k]
               x == (k - 1) - F
               y == (i - 1) - F
    <2>1. b # <<>>
      BY <1>5
    <2>2. i \in DOMAIN a /\ k <= i /\ b[k] = a[i] + 1 /\ b[1] = a[1] + 1 /\ 1 \in DOMAIN a
      BY <1>4, <1>6, <2>1
    <2>3. a[i] >= a[1] + Gap(y)
      BY <1>2, <2>2 DEF Spaced
    <2>4. x \in Int /\ y \in Int /\ x <= y
      BY <1>0, <1>5, <2>2
    <2>5. a[i] \in Int /\ a[1] \in Int
      BY <1>3, <2>2
    <2> HIDE DEF i, x, y
    <2>6. Gap(x) \in Int /\ Gap(y) \in Int /\ Gap(x) <= Gap(y)
      BY <2>4, Gaps
    <2>7. b[k] >= b[1] + Gap(x)
      BY <2>2, <2>3, <2>5, <2>6
    <2> QED
      BY <2>7 DEF x
  <1>9. StartsBounded'
    <2> DEFINE q == DisableAge \div StartGrace
    <2>1. q \in Nat
      BY Quotient
    <2>2. q + 2 + events <= Rows => Len(a) <= q + 2 + events
      BY DEF StartsInv, StartsBounded, a
    <2> HIDE DEF q
    <2>3. q + 2 + events <= Rows => Len(b) <= q + 2 + events
      BY <1>0, <1>1, <1>5, <2>1, <2>2, Times
    <2> QED
      BY <1>0, <2>3 DEF StartsBounded, q
  <1>10. StartsInv'
    BY <1>0, <1>7, <1>8, <1>9 DEF StartsInv
  <1>11. starts' # <<>> => starts # <<>> /\ starts'[1] = starts[1] + 1
    BY <1>0, <1>6 DEF a
  <1> QED
    BY <1>10, <1>11

LEMMA NextStarts == Shape /\ Shape' /\ StartsInv /\ [Next]_vars => StartsInv'
  <1> SUFFICES ASSUME Shape, Shape', StartsInv, [Next]_vars PROVE StartsInv'
    OBVIOUS
  <1>0. events \in Nat /\ due \in BOOLEAN /\ Forced <= events
    BY Times DEF Shape, Forced
  <1>1. ASSUME NEW force, Check(force), force => due PROVE StartsInv'
    <2>1. (Looks \/ Acts(force)) /\ due' = FALSE /\ events' = events
      BY <1>1, CheckCases DEF Shape
    <2>2. CASE Looks
      <3>1. starts' = starts /\ Forced' = events
        BY <2>1, <2>2 DEF Looks, Forced
      <3> QED
        BY <1>0, <2>1, <3>1, StartsKept
    <2>3. CASE Acts(force)
      <3>1. PICK action : Generate(action) /\ action = CurAction /\ action \in {"start", "stop"}
        BY <2>3 DEF Acts
      <3>2. ~due => ~YoungStart
        BY <1>1, <2>3 DEF Acts, Stable
      <3>3. starts' = <<>> \/ (~post_disable /\ starts' = OneMore)
        BY <3>1, StartRows DEF Shape, OneMore
      <3> QED
        BY <2>1, <3>2, <3>3, NoStarts, OneMoreStart
    <2> QED
      BY <2>1, <2>2, <2>3
  <1>2. CASE TimedCheck
    BY <1>1, <1>2 DEF TimedCheck
  <1>3. CASE ForcedCheck
    BY <1>1, <1>3 DEF ForcedCheck
  <1>4. CASE HandleTransition
    <2>1. /\ starts' = starts /\ ~due
          /\ (events' = events + 1 /\ due' = TRUE) \/ (events' = events /\ due' = due)
      BY <1>4, TransitionCases DEF Event
    <2>2. Forced <= Forced' /\ (due' => events' # 0)
      BY <1>0, <2>1 DEF Forced
    <2> QED
      BY <2>1, <2>2, StartsKept
  <1>5. CASE Command
    BY <1>5, NoStarts DEF Command
  <1>6. CASE Boot \/ DependencyCheck
    <2>1. starts' = starts /\ events' = events + 1 /\ due' = TRUE /\ ~due
      BY <1>6 DEF Boot, DependencyCheck, Event
    <2>2. Forced <= Forced' /\ events' # 0
      BY <1>0, <2>1 DEF Forced
    <2> QED
      BY <2>1, <2>2, StartsKept
  <1>7. CASE Outside
    <2>1. starts' = starts /\ (events' = events \/ events' = events + 1) /\ due' = due
      BY <1>7 DEF Outside, Event
    <2>2. Forced <= Forced' /\ (events' = 0 => events = 0)
      BY <1>0, <2>1 DEF Forced
    <2> QED
      BY <2>1, <2>2, StartsKept
  <1>8. CASE Tick
    BY <1>8, TickStarts
  <1>9. CASE UNCHANGED vars
    <2>1. starts' = starts /\ events' = events /\ due' = due
      BY <1>9 DEF vars
    <2>2. Forced' = Forced /\ Forced <= Forced'
      BY <1>0, <2>1 DEF Forced
    <2> QED
      BY <2>1, <2>2, StartsKept
  <1> QED
    BY <1>2, <1>3, <1>4, <1>5, <1>6, <1>7, <1>8, <1>9 DEF Next

LEMMA AlwaysStarts == Spec => []StartsInv
  <1>1. Init => StartsInv
    <2> SUFFICES ASSUME Init PROVE StartsInv
      OBVIOUS
    <2>1. starts = <<>> /\ Ordered(<<>>) /\ \A n : Spaced(<<>>, n)
      BY DEF Init, Ordered, Spaced
    <2>2. StartsBounded
      <3> DEFINE q == DisableAge \div StartGrace
      <3>1. q \in Nat /\ events = 0 /\ Len(starts) = 0
        BY Quotient DEF Init
      <3> HIDE DEF q
      <3>2. Len(starts) <= q + 2 + events
        BY <3>1
      <3> QED
        BY <3>2 DEF StartsBounded, q
    <2> QED
      BY <2>1, <2>2 DEF StartsInv
  <1> QED
    BY <1>1, NextStarts, AlwaysShape, PTL DEF Spec

(* A service that dies again and again is started a bounded number of      *)
(* times before post_disable switches it off: StartGrace apart, the starts *)
(* make the oldest row DisableAge old after DisableAge \div StartGrace of  *)
(* them, and only forced checks can put one in between, one start each.    *)
THEOREM StartsAreBounded == Spec => []StartsBounded
  <1>1. StartsInv => StartsBounded
    BY DEF StartsInv
  <1> QED
    BY <1>1, AlwaysStarts, PTL

-----------------------------------------------------------------------------
(* The rows the states the process may still come to can add before it is  *)
(* seen running again; a wait may end in a start, and then it may go down  *)
(* once more.                                                              *)
Down(p, s) == IF p = "ok" THEN 2
              ELSE IF p = "incomplete" THEN (IF s = "incomplete" THEN 1 ELSE 2)
              ELSE IF p = "stopping" THEN 1
              ELSE (IF s = "dead" THEN 0 ELSE 1)

Coming(p, s, w) == Down(p, s) + (IF w = <<>> THEN 0 ELSE 2)

(* The row of the running state seen after the last start.                 *)
OkRow(i) ==
  /\ i \in DOMAIN records /\ records[i].state = "ok" /\ records[i].age <= starts[1]
  /\ (i - 1) + Coming(proc, seen, waits) <= 4 + events

FlapInv ==
  /\ seen # "none" => records # <<>> /\ records[1].state = seen
  /\ starts # <<>> /\ ~okSince => seen # "ok"
  /\ okSince /\ starts # <<>> /\ starts[1] < StableInterval => \E i : OkRow(i)

LEMMA ComingTyped ==
  ASSUME NEW p, NEW s, NEW w
  PROVE  Down(p, s) \in 0..2 /\ Coming(p, s, w) \in 0..4
  <1>1. Down(p, s) \in 0..2
    BY DEF Down
  <1> QED
    BY <1>1 DEF Coming

(* The row stays where it is, and there is nothing more to come.           *)
LEMMA RowKept ==
  ASSUME Shape, Shape', FlapInv, UNCHANGED <<records, starts, okSince>>,
         Coming(proc', seen', waits') + events <= Coming(proc, seen, waits) + events',
         seen' = seen \/ seen' = "none"
  PROVE  FlapInv'
  <1>1. seen' # "none" => records' # <<>> /\ records'[1].state = seen'
    BY DEF FlapInv
  <1>2. starts' # <<>> /\ ~okSince' => seen' # "ok"
    BY DEF FlapInv
  <1>3. ASSUME okSince', starts' # <<>>, starts'[1] < StableInterval PROVE \E i : OkRow(i)'
    <2>1. PICK i : OkRow(i)
      BY <1>3 DEF FlapInv
    <2>2. /\ i \in Int /\ events \in Int /\ events' \in Int
          /\ Coming(proc, seen, waits) \in Int /\ Coming(proc', seen', waits') \in Int
      <3>1. Coming(proc, seen, waits) \in Int
        BY ComingTyped
      <3>2. Coming(proc', seen', waits') \in Int
        BY ComingTyped
      <3>3. i \in Int
        BY <2>1 DEF OkRow, Shape
      <3>4. events \in Int /\ events' \in Int
        BY Times DEF Shape
      <3> QED
        BY <3>1, <3>2, <3>3, <3>4
    <2>3. (i - 1) + Coming(proc, seen, waits) <= 4 + events
      BY <2>1 DEF OkRow
    <2>4. (i - 1) + Coming(proc', seen', waits') <= 4 + events'
      BY <2>2, <2>3
    <2>5. i \in DOMAIN records' /\ records'[i].state = "ok" /\ records'[i].age <= starts'[1]
      BY <2>1 DEF OkRow
    <2> QED
      BY <2>4, <2>5 DEF OkRow
  <1> QED
    BY <1>1, <1>2, <1>3 DEF FlapInv

(* A check that only looks.                                                *)
LEMMA LookFlap ==
  ASSUME Shape, Shape', FlapInv, Looks, seen' = Observed, records' = NewRecords,
         events' = events
  PROVE  FlapInv'
  <1>0. proc \in Proc /\ records \in Seq(Row) /\ starts \in Seq(Age) /\ events \in Nat
    BY Times DEF Shape
  <1>1. Observed \in {"ok", "incomplete", "dead"}
    BY <1>0, Observes
  <1>2. UNCHANGED <<proc, starts, waits>> /\ okSince' = (okSince \/ Observed = "ok")
    BY DEF Looks
  <1>3. CASE Observed = seen
    <2>1. records' = records /\ seen' = seen
      BY <1>3 DEF NewRecords
    <2>2. Coming(proc', seen', waits') = Coming(proc, seen, waits)
      BY <1>2, <2>1 DEF Coming, Down
    <2>3. CASE starts # <<>> /\ ~okSince
      <3>1. seen # "ok" /\ (okSince' <=> okSince)
        BY <1>2, <1>3, <2>3 DEF FlapInv
      <3> QED
        BY <1>2, <2>1, <2>3, <3>1 DEF FlapInv
    <2>4. CASE starts = <<>>
      BY <1>2, <2>1, <2>4 DEF FlapInv
    <2>5. CASE okSince
      <3>1. okSince'
        BY <1>2, <2>5
      <3>2. \A i : OkRow(i) => OkRow(i)'
        BY <1>2, <2>1, <2>2 DEF OkRow
      <3> QED
        BY <1>2, <2>1, <2>5, <3>1, <3>2 DEF FlapInv
    <2> QED
      BY <2>3, <2>4, <2>5
  <1>4. CASE Observed # seen
    <2> DEFINE r == [state |-> Observed, age |-> 0]
    <2>1. r \in Row /\ r.state = Observed /\ r.age = 0
      BY <1>1, Times DEF Row
    <2>2. records' = <<r>> \o records
      BY <1>4 DEF NewRecords
    <2> HIDE DEF r
    <2>3. /\ records' # <<>> /\ records'[1] = r /\ DOMAIN records' = 1..(Len(records) + 1)
          /\ Len(records) \in Nat /\ DOMAIN records = 1..Len(records)
          /\ \A i \in DOMAIN records : i + 1 \in DOMAIN records' /\ records'[i + 1] = records[i]
      BY <1>0, <2>1, <2>2, Prepended
    <2>4. seen' # "none" => records' # <<>> /\ records'[1].state = seen'
      BY <2>1, <2>3
    <2>5. starts' # <<>> /\ ~okSince' => seen' # "ok"
      BY <1>2
    <2>6. ASSUME okSince', starts' # <<>>, starts'[1] < StableInterval PROVE \E i : OkRow(i)'
      <3>1. CASE Observed = "ok"
        <4>1. Coming(proc', seen', waits') \in 0..4
          BY ComingTyped
        <4>2. starts'[1] >= 0
          <5>1. starts'[1] \in Age
            BY <1>0, <1>2, <2>6
          <5> QED
            BY <5>1, Times DEF Age
        <4>3. 1 \in DOMAIN records' /\ records'[1].state = "ok" /\ records'[1].age <= starts'[1]
          BY <2>1, <2>3, <3>1, <4>2
        <4>4. (1 - 1) + Coming(proc', seen', waits') <= 4 + events'
          BY <1>0, <4>1
        <4> QED
          BY <4>3, <4>4 DEF OkRow
      <3>2. CASE Observed # "ok"
        <4>1. okSince /\ starts # <<>> /\ starts[1] < StableInterval
          BY <1>2, <2>6, <3>2
        <4>2. PICK i : OkRow(i)
          BY <4>1 DEF FlapInv
        <4>3. Down(proc', seen') + 1 = Down(proc, seen) /\ Down(proc, seen) \in Int
          BY <1>0, <1>2, <1>4, <3>2 DEF Down, Observed, Proc
        <4>4. /\ Coming(proc', seen', waits') + 1 = Coming(proc, seen, waits)
              /\ Coming(proc, seen, waits) \in Int /\ i \in Int
          <5>1. /\ Coming(proc', seen', waits') + 1 = Coming(proc, seen, waits)
                /\ Coming(proc, seen, waits) \in Int
            <6>1. Down(proc', seen') \in Int
              BY ComingTyped
            <6>2. CASE waits = <<>>
              BY <1>2, <4>3, <6>1, <6>2 DEF Coming
            <6>3. CASE waits # <<>>
              BY <1>2, <4>3, <6>1, <6>3 DEF Coming
            <6> QED
              BY <6>2, <6>3
          <5>2. i \in DOMAIN records
            BY <4>2 DEF OkRow
          <5> QED
            BY <2>3, <5>1, <5>2
        <4>5. (i - 1) + Coming(proc, seen, waits) <= 4 + events
          BY <4>2 DEF OkRow
        <4>6. Coming(proc', seen', waits') \in Int
          BY ComingTyped
        <4>7. ((i + 1) - 1) + Coming(proc', seen', waits') <= 4 + events'
          BY <1>0, <4>4, <4>5, <4>6
        <4>8. i + 1 \in DOMAIN records' /\ records'[i + 1] = records[i]
          BY <2>3, <4>2 DEF OkRow
        <4>9. OkRow(i + 1)'
          BY <1>2, <4>2, <4>7, <4>8 DEF OkRow
        <4> QED
          BY <4>9
      <3> QED
        BY <3>1, <3>2
    <2> QED
      BY <2>4, <2>5, <2>6 DEF FlapInv
  <1> QED
    BY <1>3, <1>4

(* A check that acts: there is no last start, or it is this one.           *)
LEMMA ActFlap ==
  ASSUME Shape, FlapInv, NEW force, Acts(force), seen' = Observed, records' = NewRecords
  PROVE  FlapInv'
  <1>1. proc \in Proc /\ records \in Seq(Row)
    BY DEF Shape
  <1>2. seen' # "none" => records' # <<>> /\ records'[1].state = seen'
    <2>1. CASE Observed = seen
      BY <2>1 DEF NewRecords, FlapInv
    <2>2. CASE Observed # seen
      <3> DEFINE r == [state |-> Observed, age |-> 0]
      <3>1. r \in Row /\ r.state = Observed
        BY <1>1, Observes, Times DEF Row
      <3>2. records' = <<r>> \o records
        BY <2>2 DEF NewRecords
      <3> HIDE DEF r
      <3>3. records' # <<>> /\ records'[1] = r
        BY <1>1, <3>1, <3>2, Prepended
      <3> QED
        BY <3>1, <3>3
    <2> QED
      BY <2>1, <2>2
  <1>3. PICK action : Generate(action) /\ action = CurAction /\ action \in {"start", "stop"}
    BY DEF Acts
  <1>4. starts' = <<>> \/ action = "start"
    BY <1>1, <1>3, StartRows
  <1>5. CASE starts' = <<>>
    BY <1>2, <1>5 DEF FlapInv
  <1>6. CASE action = "start"
    <2>1. ~okSince' /\ Observed # "ok"
      BY <1>1, <1>3, <1>6, Observes DEF Acts
    <2> QED
      BY <1>2, <2>1 DEF FlapInv
  <1> QED
    BY <1>4, <1>5, <1>6

LEMMA TickFlap ==
  ASSUME Shape, Shape', StartsInv, FlapInv, Tick
  PROVE  FlapInv'
  <1>1. /\ records \in Seq(Row) /\ records' = RecentRecords(Older(records, StableInterval))
        /\ UNCHANGED <<proc, seen, events, okSince>> /\ waits' = Older(waits, WaitTime)
    BY DEF Tick, Shape
  <1>2. /\ records # <<>> => records' # <<>> /\ records'[1].state = records[1].state
        /\ \A i \in DOMAIN records : records[i].age + 1 < StableInterval =>
             \E k \in DOMAIN records' : /\ k <= i /\ records'[k].state = records[i].state
                                        /\ records'[k].age = records[i].age + 1
    BY <1>1, TickedRecords
  <1>3. starts' # <<>> => starts # <<>> /\ starts'[1] = starts[1] + 1
    BY TickStarts
  <1>4. seen' # "none" => records' # <<>> /\ records'[1].state = seen'
    BY <1>1, <1>2 DEF FlapInv
  <1>5. starts' # <<>> /\ ~okSince' => seen' # "ok"
    BY <1>1, <1>3 DEF FlapInv
  <1>6. ASSUME okSince', starts' # <<>>, starts'[1] < StableInterval PROVE \E i : OkRow(i)'
    <2>1. starts[1] \in Int /\ starts[1] + 1 < StableInterval /\ starts'[1] = starts[1] + 1
      <3>1. 1 \in DOMAIN starts /\ starts[1] + 1 = starts'[1]
        BY <1>3, <1>6 DEF Shape
      <3>2. starts[1] \in Age
        BY <3>1 DEF Shape
      <3> QED
        BY <1>6, <3>1, <3>2, Times DEF Age
    <2>2. PICK i : OkRow(i)
      <3>1. okSince /\ starts # <<>> /\ starts[1] < StableInterval
        BY <1>1, <1>3, <1>6, <2>1, Times
      <3> QED
        BY <3>1 DEF FlapInv
    <2>3. i \in DOMAIN records /\ records[i].state = "ok" /\ records[i].age <= starts[1]
          /\ (i - 1) + Coming(proc, seen, waits) <= 4 + events
      BY <2>2 DEF OkRow
    <2>4. records[i].age \in Int /\ i \in Int
      <3>1. records[i] \in Row /\ i \in Int
        BY <1>1, <2>3
      <3> QED
        BY <3>1, Times DEF Row
    <2>5. PICK k \in DOMAIN records' : /\ k <= i /\ records'[k].state = records[i].state
                                       /\ records'[k].age = records[i].age + 1
      <3>1. records[i].age + 1 < StableInterval
        BY <2>1, <2>3, <2>4, Times
      <3> QED
        BY <1>2, <2>3, <3>1
    <2>6. records'[k].state = "ok" /\ records'[k].age <= starts'[1]
      BY <2>1, <2>3, <2>4, <2>5
    <2>7. Coming(proc', seen', waits') = Coming(proc, seen, waits)
      <3>1. waits' = <<>> <=> waits = <<>>
        <4>1. waits \in Seq(Wait)
          BY DEF Shape
        <4>2. waits' \in Seq(Wait) /\ DOMAIN waits' = DOMAIN waits
          BY <1>1, <4>1, OlderWaits
        <4> QED
          BY <4>1, <4>2
      <3> QED
        BY <1>1, <3>1 DEF Coming
    <2>8. (k - 1) + Coming(proc', seen', waits') <= 4 + events'
      <3>1. Coming(proc, seen, waits) \in Int /\ events \in Int /\ k \in Int
        <4>1. k \in Int
          BY <2>5 DEF Shape
        <4>2. events \in Int
          BY Times DEF Shape
        <4> QED
          BY <4>1, <4>2, ComingTyped
      <3> QED
        BY <1>1, <2>3, <2>4, <2>5, <2>7, <3>1
    <2> QED
      BY <2>5, <2>6, <2>8 DEF OkRow
  <1> QED
    BY <1>4, <1>5, <1>6 DEF FlapInv

LEMMA NextFlap == Shape /\ Shape' /\ StartsInv /\ FlapInv /\ [Next]_vars => FlapInv'
  <1> SUFFICES ASSUME Shape, Shape', StartsInv, FlapInv, [Next]_vars PROVE FlapInv'
    OBVIOUS
  <1>0. events \in Int /\ events' \in Int
    BY Times DEF Shape
  <1>1. ASSUME NEW force, Check(force) PROVE FlapInv'
    <2>1. /\ seen' = Observed /\ records' = NewRecords /\ events' = events
          /\ Looks \/ Acts(force)
      BY <1>1, CheckCases DEF Shape
    <2> QED
      BY <2>1, LookFlap, ActFlap
  <1>2. CASE TimedCheck \/ ForcedCheck
    BY <1>1, <1>2 DEF TimedCheck, ForcedCheck
  <1>3. CASE HandleTransition
    <2>1. /\ UNCHANGED <<records, starts, okSince, seen>> /\ waits # <<>>
          /\ events' = events \/ events' = events + 1
      BY <1>3, TransitionCases DEF Event
    <2>2. \/ proc' \in {"ok", "dead"} /\ waits' = <<>>
          \/ UNCHANGED <<proc, waits>>
      BY <1>3, TransitionCases
    <2>3. Coming(proc', seen', waits') <= Coming(proc, seen, waits)
      <3>1. Down(proc, seen) \in 0..2 /\ Down(proc', seen') \in 0..2
        BY ComingTyped
      <3>2. CASE waits' = <<>>
        BY <2>1, <3>1, <3>2 DEF Coming
      <3>3. CASE UNCHANGED <<proc, waits>>
        <4>1. Coming(proc', seen', waits') = Coming(proc, seen, waits)
              /\ Coming(proc, seen, waits) \in 0..4
          BY <2>1, <3>3, ComingTyped
        <4> QED
          BY <4>1
      <3> QED
        BY <2>2, <3>2, <3>3
    <2>4. Coming(proc', seen', waits') + events <= Coming(proc, seen, waits) + events'
      <3>1. Coming(proc, seen, waits) \in Int /\ Coming(proc', seen', waits') \in Int
        BY ComingTyped
      <3> QED
        BY <1>0, <2>1, <2>3, <3>1
    <2> QED
      BY <2>1, <2>4, RowKept
  <1>9. CASE DependencyCheck
    <2>1. UNCHANGED <<proc, seen, waits, records, starts, okSince>> /\ events' = events + 1
      BY <1>9 DEF DependencyCheck, Event
    <2>2. Coming(proc', seen', waits') = Coming(proc, seen, waits)
          /\ Coming(proc, seen, waits) \in Int
      BY <2>1, ComingTyped
    <2>3. Coming(proc', seen', waits') + events <= Coming(proc, seen, waits) + events'
      BY <1>0, <2>1, <2>2
    <2> QED
      BY <2>1, <2>3, RowKept
  <1>4. CASE Command
    <2>1. starts' = <<>> /\ UNCHANGED <<seen, records>>
      BY <1>4 DEF Command
    <2> QED
      BY <2>1 DEF FlapInv
  <1>5. CASE Boot
    <2>1. /\ UNCHANGED <<proc, records, starts, okSince>> /\ seen' = "none" /\ waits' = <<>>
          /\ events' = events + 1
      BY <1>5 DEF Boot, Event
    <2>2. Down(proc', seen') <= Down(proc, seen) + 1
      BY <2>1 DEF Down
    <2>3. Coming(proc', seen', waits') <= Coming(proc, seen, waits) + 1
      <3>1. Down(proc, seen) \in 0..2 /\ Down(proc', seen') \in 0..2
        BY ComingTyped
      <3>2. CASE waits = <<>>
        BY <2>1, <2>2, <3>1, <3>2 DEF Coming
      <3>3. CASE waits # <<>>
        BY <2>1, <2>2, <3>1, <3>3 DEF Coming
      <3> QED
        BY <3>2, <3>3
    <2>4. Coming(proc', seen', waits') + events <= Coming(proc, seen, waits) + events'
      <3>1. Coming(proc, seen, waits) \in Int /\ Coming(proc', seen', waits') \in Int
        BY ComingTyped
      <3> QED
        BY <1>0, <2>1, <2>3, <3>1
    <2> QED
      BY <2>1, <2>4, RowKept
  <1>6. CASE Outside
    <2>1. /\ UNCHANGED <<records, starts, okSince, seen, waits>>
          /\ events' = events \/ events' = events + 1
          /\ \/ proc = "ok" /\ proc' \in {"dead", "incomplete"}
             \/ proc \in {"incomplete", "stopping"} /\ proc' = "dead"
             \/ proc' = proc
      BY <1>6 DEF Outside, Event
    <2>2. Down(proc', seen') <= Down(proc, seen)
      BY <2>1 DEF Down
    <2>3. Coming(proc', seen', waits') <= Coming(proc, seen, waits)
      <3>1. Down(proc, seen) \in 0..2 /\ Down(proc', seen') \in 0..2
        BY ComingTyped
      <3>2. CASE waits = <<>>
        BY <2>1, <2>2, <3>1, <3>2 DEF Coming
      <3>3. CASE waits # <<>>
        BY <2>1, <2>2, <3>1, <3>3 DEF Coming
      <3> QED
        BY <3>2, <3>3
    <2>4. Coming(proc', seen', waits') + events <= Coming(proc, seen, waits) + events'
      <3>1. Coming(proc, seen, waits) \in Int /\ Coming(proc', seen', waits') \in Int
        BY ComingTyped
      <3> QED
        BY <1>0, <2>1, <2>3, <3>1
    <2> QED
      BY <2>1, <2>4, RowKept
  <1>7. CASE Tick
    BY <1>7, TickFlap
  <1>8. CASE UNCHANGED vars
    <2>1. UNCHANGED <<proc, seen, waits, events, records, starts, okSince>>
      BY <1>8 DEF vars
    <2> QED
      BY <2>1 DEF FlapInv, OkRow
  <1> QED
    BY <1>2, <1>3, <1>4, <1>5, <1>6, <1>7, <1>8, <1>9 DEF Next

(* A service that was seen running after its last start is restarted by a  *)
(* periodic check only StableInterval after that start: the row of the     *)
(* running state is among those _check_for_stable_state reads, through     *)
(* restarts of the server and whatever else was seen of it meanwhile.      *)
THEOREM FlappingServicesWait == Spec => FlappingIsSlow
  <1>1. Init => FlapInv
    BY DEF Init, FlapInv
  <1>2. Spec => [](Shape /\ FlapInv)
    BY <1>1, NextFlap, AlwaysShape, AlwaysStarts, PTL DEF Spec
  <1>3. ASSUME Shape, FlapInv, TimedCheck, okSince, events + 5 <= Rows, starts # <<>>,
               starts' # starts, CurAction = "start"
        PROVE  starts[1] >= StableInterval
    <2> SUFFICES ASSUME starts[1] < StableInterval PROVE FALSE
      <3>1. starts[1] \in Age
        BY <1>3 DEF Shape
      <3> QED
        BY <3>1, Times DEF Age
    <2>0. proc \in Proc /\ records \in Seq(Row) /\ events \in Nat
      BY <1>3, Times DEF Shape
    <2>1. NoFlap
      <3>1. Looks \/ Acts(FALSE)
        BY <1>3, <2>0, CheckCases DEF TimedCheck
      <3> QED
        BY <1>3, <3>1 DEF Looks, Acts, Stable
    <2>2. PICK i : OkRow(i)
      BY <1>3 DEF FlapInv
    <2>3. i \in DOMAIN records /\ records[i].state = "ok" /\ records[i].age < StableInterval
      <3>1. i \in DOMAIN records /\ records[i].state = "ok" /\ records[i].age <= starts[1]
        BY <2>2 DEF OkRow
      <3>2. starts[1] \in Int
        <4>1. starts[1] \in Age
          BY <1>3 DEF Shape
        <4> QED
          BY <4>1, Times DEF Age
      <3>3. records[i].age \in Int
        <4>1. records[i] \in Row
          BY <2>0, <3>1
        <4> QED
          BY <4>1, Times DEF Row
      <3> QED
        BY <3>1, <3>2, <3>3, Times
    <2>4. (i - 1) + Coming(proc, seen, waits) <= 4 + events
      BY <2>2 DEF OkRow
    <2>5. Observed # "ok" /\ Observed \in {"incomplete", "dead"}
      BY <1>3, <2>0, Observes
    <2>6. CASE Observed = seen
      <3>1. NewRecords = records /\ records[1].state = Observed
        BY <1>3, <2>5, <2>6 DEF NewRecords, FlapInv
      <3>2. i \in 1..Lower(Rows, Len(records))
        <4>1. Coming(proc, seen, waits) \in 0..4 /\ i \in 1..Len(records) /\ Len(records) \in Nat
          BY <2>0, <2>3, ComingTyped
        <4> QED
          BY <1>3, <2>0, <2>4, <4>1, Times DEF Lower
      <3> QED
        BY <2>1, <2>3, <2>5, <3>1, <3>2 DEF NoFlap
    <2>7. CASE Observed # seen
      <3> DEFINE r == [state |-> Observed, age |-> 0]
                 t == <<r>> \o records
      <3>1. r \in Row /\ r.state = Observed
        BY <2>5, Times DEF Row
      <3>2. NewRecords = t
        BY <2>7 DEF NewRecords
      <3> HIDE DEF r
      <3>3. t[1] = r /\ Len(t) = Len(records) + 1 /\ Len(records) \in Nat
            /\ i + 1 \in DOMAIN t /\ t[i + 1] = records[i] /\ i \in 1..Len(records)
        BY <2>0, <2>3, <3>1, Prepended
      <3> HIDE DEF t
      <3>4. Down(proc, seen) >= 1 /\ Down(proc, seen) \in 0..2
        <4>1. Down(proc, seen) >= 1
          BY <2>0, <2>5, <2>7 DEF Down, Observed, Proc
        <4> QED
          BY <4>1, ComingTyped
      <3>5. Coming(proc, seen, waits) >= 1 /\ Coming(proc, seen, waits) \in 0..4
        <4>1. Coming(proc, seen, waits) >= 1
          BY <3>4 DEF Coming
        <4> QED
          BY <4>1, ComingTyped
      <3>6. i + 1 \in 1..Lower(Rows, Len(t))
        BY <1>3, <2>0, <2>4, <3>3, <3>5, Times DEF Lower
      <3> QED
        BY <2>1, <2>3, <2>5, <3>1, <3>2, <3>3, <3>6 DEF NoFlap
    <2> QED
      BY <2>6, <2>7
  <1>4. Shape /\ FlapInv =>
          [/\ TimedCheck /\ okSince /\ events + 5 <= Rows
           /\ starts # <<>> /\ starts' # starts /\ CurAction = "start"
           => starts[1] >= StableInterval]_vars
    BY <1>3
  <1> QED
    BY <1>2, <1>4, PTL DEF FlappingIsSlow
=============================================================================
