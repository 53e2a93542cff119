------------------------- MODULE ServiceCycle_proofs -------------------------
(***************************************************************************)
(* Proofs about ServiceCycle: the action table and decide fit together,    *)
(* whatever the steps of a plan are.                                       *)
(***************************************************************************)
EXTENDS ServiceCycle, Selection_proofs

-------------------------------------------------------------------------------
(* The states RunPlan passes through satisfy their recursive definition.   *)
Trace(plan, k, p) ==
  CHOOSE after : after = [i \in 0..Len(plan) |->
                   IF i = 0 THEN p ELSE StepEffect(plan[i], k, after[i - 1])]

IsTrace(f, plan, k, p, n) ==
  f = [i \in 0..n |-> IF i = 0 THEN p ELSE StepEffect(plan[i], k, f[i - 1])]

LEMMA TraceExists ==
  ASSUME NEW plan, NEW k, NEW p, Len(plan) \in Nat
  PROVE  IsTrace(Trace(plan, k, p), plan, k, p, Len(plan))
  <1> DEFINE S == {n \in Nat : \E f : IsTrace(f, plan, k, p, n)}
  <1>1. 0 \in S
    <2> DEFINE f == [i \in 0..0 |-> p]
    <2>1. IsTrace(f, plan, k, p, 0)
      BY DEF IsTrace
    <2> QED
      BY <2>1
  <1>2. ASSUME NEW n \in Nat, n \in S PROVE n + 1 \in S
    <2>1. PICK f : IsTrace(f, plan, k, p, n)
      BY <1>2
    <2> DEFINE g == [i \in 0..(n + 1) |->
                       IF i = n + 1 THEN StepEffect(plan[i], k, f[n]) ELSE f[i]]
    <2>2. IsTrace(g, plan, k, p, n + 1)
      <3>1. \A i \in 0..n : f[i] = IF i = 0 THEN p ELSE StepEffect(plan[i], k, f[i - 1])
        BY <2>1 DEF IsTrace
      <3>2. \A i \in 0..n : g[i] = f[i]
        OBVIOUS
      <3>3. g[n + 1] = StepEffect(plan[n + 1], k, g[n])
        BY <3>2
      <3>4. g = [i \in 0..(n + 1) |-> g[i]]
        OBVIOUS
      <3> HIDE DEF g
      <3>5. \A i \in 0..(n + 1) :
              g[i] = IF i = 0 THEN p ELSE StepEffect(plan[i], k, g[i - 1])
        <4> TAKE i \in 0..(n + 1)
        <4>1. CASE i = n + 1
          BY <4>1, <3>3
        <4>2. CASE i \in 0..n
          BY <4>2, <3>1, <3>2
        <4> QED
          BY <4>1, <4>2
      <3> QED
        BY <3>4, <3>5 DEF IsTrace
    <2> HIDE DEF g
    <2> QED
      BY <2>2
  <1> HIDE DEF S
  <1>3. Len(plan) \in S
    BY <1>1, <1>2, SetInduction
  <1>4. \E f : IsTrace(f, plan, k, p, Len(plan))
    BY <1>3 DEF S
  <1> QED
    BY <1>4 DEF Trace, IsTrace

(* What RunPlan computes, step by step.                                    *)
LEMMA RunPlanTrace ==
  ASSUME NEW plan, NEW k, NEW p, Len(plan) \in Nat
  PROVE  /\ Trace(plan, k, p)[0] = p
         /\ \A i \in 1..Len(plan) :
              Trace(plan, k, p)[i] = StepEffect(plan[i], k, Trace(plan, k, p)[i - 1])
         /\ RunPlan(plan, k, p) = Trace(plan, k, p)[Len(plan)]
  <1>1. IsTrace(Trace(plan, k, p), plan, k, p, Len(plan))
    BY TraceExists
  <1>2. RunPlan(plan, k, p) = Trace(plan, k, p)[Len(plan)]
    BY DEF RunPlan, Trace
  <1> HIDE DEF Trace
  <1> QED
    BY <1>1, <1>2 DEF IsTrace

(* The plans of decide have one to four steps.                             *)
LEMMA RunPlan1 ==
  ASSUME NEW k, NEW p, NEW a
  PROVE  RunPlan(<<a>>, k, p) =
           StepEffect(a, k, p)
  <1> DEFINE plan == <<a>>
             f == Trace(plan, k, p)
  <1>1. Len(plan) = 1 /\ plan[1] = a
    OBVIOUS
  <1> HIDE DEF plan
  <1>2. /\ f[0] = p /\ RunPlan(plan, k, p) = f[1]
        /\ \A i \in 1..1 : f[i] = StepEffect(plan[i], k, f[i - 1])
    BY <1>1, RunPlanTrace
  <1> HIDE DEF f
  <1>3. f[1] = StepEffect(a, k, f[0])
    BY <1>1, <1>2
  <1>5. RunPlan(plan, k, p) =
          StepEffect(a, k, p)
    BY <1>2, <1>3
  <1> QED
    BY <1>5 DEF plan

LEMMA RunPlan2 ==
  ASSUME NEW k, NEW p, NEW a, NEW b
  PROVE  RunPlan(<<a, b>>, k, p) =
           StepEffect(b, k, StepEffect(a, k, p))
  <1> DEFINE plan == <<a, b>>
             f == Trace(plan, k, p)
  <1>1. Len(plan) = 2 /\ plan[1] = a /\ plan[2] = b
    OBVIOUS
  <1> HIDE DEF plan
  <1>2. /\ f[0] = p /\ RunPlan(plan, k, p) = f[2]
        /\ \A i \in 1..2 : f[i] = StepEffect(plan[i], k, f[i - 1])
    BY <1>1, RunPlanTrace
  <1> HIDE DEF f
  <1>3. f[1] = StepEffect(a, k, f[0]) /\ f[2] = StepEffect(b, k, f[1])
    BY <1>1, <1>2
  <1>5. RunPlan(plan, k, p) =
          StepEffect(b, k, StepEffect(a, k, p))
    BY <1>2, <1>3
  <1> QED
    BY <1>5 DEF plan

LEMMA RunPlan3 ==
  ASSUME NEW k, NEW p, NEW a, NEW b, NEW c
  PROVE  RunPlan(<<a, b, c>>, k, p) =
           StepEffect(c, k, StepEffect(b, k, StepEffect(a, k, p)))
  <1> DEFINE plan == <<a, b, c>>
             f == Trace(plan, k, p)
  <1>1. Len(plan) = 3 /\ plan[1] = a /\ plan[2] = b /\ plan[3] = c
    OBVIOUS
  <1> HIDE DEF plan
  <1>2. /\ f[0] = p /\ RunPlan(plan, k, p) = f[3]
        /\ \A i \in 1..3 : f[i] = StepEffect(plan[i], k, f[i - 1])
    BY <1>1, RunPlanTrace
  <1> HIDE DEF f
  <1>3. f[1] = StepEffect(a, k, f[0]) /\ f[2] = StepEffect(b, k, f[1])
    BY <1>1, <1>2
  <1>4. f[3] = StepEffect(c, k, f[2])
    BY <1>1, <1>2
  <1>5. RunPlan(plan, k, p) =
          StepEffect(c, k, StepEffect(b, k, StepEffect(a, k, p)))
    BY <1>2, <1>3, <1>4
  <1> QED
    BY <1>5 DEF plan

LEMMA RunPlan4 ==
  ASSUME NEW k, NEW p, NEW a, NEW b, NEW c, NEW d
  PROVE  RunPlan(<<a, b, c, d>>, k, p) =
           StepEffect(d, k, StepEffect(c, k, StepEffect(b, k, StepEffect(a, k, p))))
  <1> DEFINE plan == <<a, b, c, d>>
             f == Trace(plan, k, p)
  <1>1. Len(plan) = 4 /\ plan[1] = a /\ plan[2] = b /\ plan[3] = c /\ plan[4] = d
    OBVIOUS
  <1> HIDE DEF plan
  <1>2. /\ f[0] = p /\ RunPlan(plan, k, p) = f[4]
        /\ \A i \in 1..4 : f[i] = StepEffect(plan[i], k, f[i - 1])
    BY <1>1, RunPlanTrace
  <1> HIDE DEF f
  <1>3. f[1] = StepEffect(a, k, f[0]) /\ f[2] = StepEffect(b, k, f[1])
    BY <1>1, <1>2
  <1>4. f[3] = StepEffect(c, k, f[2]) /\ f[4] = StepEffect(d, k, f[3])
    BY <1>1, <1>2
  <1>5. RunPlan(plan, k, p) =
          StepEffect(d, k, StepEffect(c, k, StepEffect(b, k, StepEffect(a, k, p))))
    BY <1>2, <1>3, <1>4
  <1> QED
    BY <1>5 DEF plan

-------------------------------------------------------------------------------
(* What one action of the meta-server makes of the processes.              *)
LEMMA ActEffect ==
  ASSUME TypeOK, Act
  PROVE  procs' = IF procs = "absent" THEN "absent"
                  ELSE IF CurAction = "start" THEN "up" ELSE "dead"
  <1>1. CurAction \in {"start", "stop"}
    BY DEF Act, CurAction, get_action
  <1>2. procs' = RunPlan(CurPlan, kind, procs)
    BY DEF Act
  <1>3. CASE CurAction = "start"
    <2>1. CurPlan \in {<<"cleanup", "start">>, <<"stop", "wait", "cleanup", "start">>}
      BY <1>3 DEF CurPlan, CurAction, decide, run_state, HasPids, ObservedState,
                  get_action, TypeOK, Procs
    <2>2. procs \in {"absent", "dead", "up", "partial", "crashed"}
      BY DEF TypeOK, Procs
    <2>3. procs' \in
            {StepEffect("start", kind, StepEffect("cleanup", kind, procs)),
             StepEffect("start", kind, StepEffect("cleanup", kind,
               StepEffect("wait", kind, StepEffect("stop", kind, procs))))}
      <3>1. CASE CurPlan = <<"cleanup", "start">>
        BY <1>2, <3>1, RunPlan2
      <3>2. CASE CurPlan = <<"stop", "wait", "cleanup", "start">>
        BY <1>2, <3>2, RunPlan4
      <3> QED
        BY <2>1, <3>1, <3>2
    <2> QED
      BY <1>3, <2>2, <2>3 DEF StepEffect
  <1>4. CASE CurAction = "stop"
    <2>1. CurPlan \in {<<"cleanup">>, <<"stop", "wait", "cleanup">>}
      BY <1>4 DEF CurPlan, CurAction, decide, run_state, HasPids, ObservedState,
                  get_action, TypeOK, Procs
    <2>2. procs \in {"absent", "dead", "up", "partial", "crashed"}
      BY DEF TypeOK, Procs
    <2>3. procs' \in
            {StepEffect("cleanup", kind, procs),
             StepEffect("cleanup", kind,
               StepEffect("wait", kind, StepEffect("stop", kind, procs)))}
      <3>1. CASE CurPlan = <<"cleanup">>
        BY <1>2, <3>1, RunPlan1
      <3>2. CASE CurPlan = <<"stop", "wait", "cleanup">>
        BY <1>2, <3>2, RunPlan3
      <3> QED
        BY <2>1, <3>1, <3>2
    <2> QED
      BY <1>4, <2>2, <2>3 DEF StepEffect
  <1> QED
    BY <1>1, <1>3, <1>4

(* The state a service is in stays one its kind of service can be in.      *)
THEOREM TypeCorrect == Spec => []TypeOK
  <1>1. Init => TypeOK
    BY DEF Init, TypeOK
  <1>2. TypeOK /\ [Next]_vars => TypeOK'
    <2> SUFFICES ASSUME TypeOK, [Next]_vars PROVE TypeOK'
      OBVIOUS
    <2>1. CASE Act
      <3>1. procs' \in Procs(kind)
        BY <2>1, ActEffect DEF TypeOK, Procs
      <3>2. last' \in {"start", "stop"}
        BY <2>1 DEF Act, CurAction, get_action
      <3> QED
        BY <2>1, <3>1, <3>2 DEF Act, TypeOK
    <2>2. CASE Change
      BY <2>2 DEF Change, TypeOK
    <2>3. CASE UNCHANGED vars
      BY <2>3 DEF vars, TypeOK
    <2> QED
      BY <2>1, <2>2, <2>3 DEF Next
  <1> QED
    BY <1>1, <1>2, PTL DEF Spec

(* The two tables fit together: whatever the target, the configuration and *)
(* the licence are, the plan decide makes for an action leaves an          *)
(* installed service in a state get_action keeps.                          *)
THEOREM TablesFit == Spec => []OneActionSettles
  <1>1. Init => OneActionSettles
    BY DEF Init, OneActionSettles
  <1>2. TypeOK /\ OneActionSettles /\ [Next]_vars => OneActionSettles'
    <2> SUFFICES ASSUME TypeOK, OneActionSettles, [Next]_vars PROVE OneActionSettles'
      OBVIOUS
    <2>1. CASE Act
      <3> SUFFICES ASSUME procs' # "absent" PROVE CurAction' = "keep"
        BY DEF OneActionSettles
      <3>1. procs' = IF CurAction = "start" THEN "up" ELSE "dead"
        BY <2>1, ActEffect
      <3>2. CurAction \in {"start", "stop"} /\ UNCHANGED <<target, conf, lic>>
        BY <2>1 DEF Act, CurAction, get_action
      <3> QED
        BY <3>1, <3>2 DEF CurAction, get_action, ObservedState
    <2>2. CASE Change
      BY <2>2 DEF Change, OneActionSettles
    <2>3. CASE UNCHANGED vars
      BY <2>3 DEF vars, OneActionSettles, CurAction
    <2> QED
      BY <2>1, <2>2, <2>3 DEF Next
  <1> QED
    BY <1>1, <1>2, TypeCorrect, PTL DEF Spec

-------------------------------------------------------------------------------
(* The two readings of the action table agree on every tuple: the rows of  *)
(* init_sas overlap only where they name the same action.                  *)
LEMMA Agree ==
  ASSUME NEW t \in TargetState, NEW process \in ProcessState,
         NEW c \in ConfState, NEW l \in LicState
  PROVE  get_action(t, process, c, l) = d_dict(t, process, c, l)
  <1> DEFINE rows == {i \in 1..Len(init_sas) : Matches(init_sas[i], t, process, c, l)}
  <1>1. Len(init_sas) = 6
    BY DEF init_sas
  <1>2. \A i \in rows : init_sas[i].action = get_action(t, process, c, l)
    <2> SUFFICES ASSUME NEW i \in 1..6, Matches(init_sas[i], t, process, c, l)
                 PROVE  init_sas[i].action = get_action(t, process, c, l)
      BY <1>1
    <2>1. i \in {1, 2, 3, 4, 5, 6}
      OBVIOUS
    <2>2. CASE i \in {1, 2}
      BY <2>2 DEF init_sas, Matches, get_action, LicOk
    <2>3. CASE i \in {3, 4}
      BY <2>3 DEF init_sas, Matches, get_action, LicOk
    <2>4. CASE i \in {5, 6}
      BY <2>4 DEF init_sas, Matches, get_action, LicOk, ConfState, LicState
    <2> QED
      BY <2>1, <2>2, <2>3, <2>4
  <1>3. rows = {} => get_action(t, process, c, l) = "keep"
    <2> SUFFICES ASSUME get_action(t, process, c, l) # "keep" PROVE rows # {}
      OBVIOUS
    <2>1. CASE get_action(t, process, c, l) = "start"
      <3>1. Matches(init_sas[3], t, process, c, l)
        BY <2>1 DEF Matches, init_sas, get_action, LicOk
      <3> QED
        BY <3>1, <1>1
    <2>2. CASE get_action(t, process, c, l) = "stop" /\ t = "running"
      <3>1. Matches(init_sas[4], t, process, c, l)
        BY <2>2 DEF Matches, init_sas, get_action
      <3> QED
        BY <3>1, <1>1
    <2>3. CASE get_action(t, process, c, l) = "stop" /\ t = "stopped"
      <3>1. Matches(init_sas[6], t, process, c, l)
        BY <2>3 DEF Matches, init_sas, get_action
      <3> QED
        BY <3>1, <1>1
    <2> QED
      BY <2>1, <2>2, <2>3 DEF get_action
  <1>4. ASSUME rows # {}
        PROVE  (CHOOSE i \in rows : \A j \in rows : j <= i) \in rows
    <2> DEFINE back == {6 - i : i \in rows}
    <2>1. back \subseteq Nat /\ back # {}
      BY <1>1, <1>4
    <2> HIDE DEF rows
    <2>2. PICK m \in back : \A n \in back : m <= n
      BY <2>1, LeastNatural
    <2>3. \A j \in rows : j \in Nat
      BY DEF rows
    <2>4. PICK i \in rows : m = 6 - i
      BY <2>2
    <2>5. \A j \in rows : j <= i
      <3> TAKE j \in rows
      <3>1. m <= 6 - j
        BY <2>2
      <3> QED
        BY <2>3, <2>4, <3>1
    <2> QED
      BY <2>5
  <1> HIDE DEF rows
  <1>5. d_dict(t, process, c, l) =
          IF rows = {} THEN "keep"
          ELSE init_sas[CHOOSE i \in rows : \A j \in rows : j <= i].action
    BY DEF d_dict, rows
  <1> QED
    BY <1>2, <1>3, <1>4, <1>5
==============================================================================
