-------------------------- MODULE TimerBase_proofs --------------------------
(***************************************************************************)
(* Proofs about TimerBase: a pass over the timers loses none a daemon      *)
(* counts on, however many timers there are and whatever the callbacks do. *)
(***************************************************************************)
EXTENDS TimerBase, Selection_proofs, FiniteSetTheorems

TimerEntry == [id : Nat, cb : Callback, oneshot : BOOLEAN]

(* What a daemon registers.                                                *)
Mine == CASE profile = "meta" -> {"check", "trans"}
          [] profile = "hostmon" -> {"cpu", "delayed", "long"}
          [] OTHER -> {"check", "call"}

Elements(s) == {s[i] : i \in DOMAIN s}
Distinct(s) == \A i, j \in DOMAIN s : s[i].id = s[j].id => i = j
OneEach(s) == \A i, j \in DOMAIN s : s[i].cb = s[j].cb => i = j
Kinds(s) == \A i \in DOMAIN s : s[i].cb \in Mine /\ (s[i].oneshot <=> s[i].cb = "call")

(* The entries the walk has still to come to.                              *)
Rest == {walked[j] : j \in {k \in DOMAIN walked : k >= pos}}

Shape ==
  /\ profile \in Profiles /\ shared \in BOOLEAN /\ pos \in Nat /\ want \subseteq Mine
  /\ list \in Seq(TimerEntry) /\ walked \in Seq(TimerEntry) /\ fresh \in Seq(TimerEntry)
  /\ Kinds(list) /\ Kinds(walked) /\ Kinds(fresh)

PassInv ==
  /\ Distinct(list) /\ Distinct(walked) /\ Distinct(fresh)
  /\ \A x \in Elements(fresh), y \in Rest : x.id # y.id
  /\ pos <= Len(walked) + 1
  /\ pos = 0 => walked = <<>> /\ fresh = <<>> /\ ~shared
  /\ shared => list = walked
  /\ pos = 1 => shared /\ fresh = <<>>

(* Where a flag guards the registration, the list and the flag agree at    *)
(* any time, and the list is what the pass has kept and what it has still  *)
(* to come to: a pass changes nothing.                                     *)
FlagInv ==
  /\ Permanent(profile) \subseteq want
  /\ \A cb \in Callback : cb \in want <=> Has(list, cb)
  /\ OneEach(list) /\ OneEach(walked) /\ OneEach(fresh)
  /\ \A x \in Elements(fresh), y \in Rest : x.cb # y.cb
  /\ pos > 0 => Elements(list) = Elements(fresh) \cup Rest

(* In the meta-server check comes first: it registers trans while the list *)
(* is still the one that is walked.                                        *)
First(s, cb) == s # <<>> /\ s[1].cb = cb
MetaInv ==
  /\ First(list, "check")
  /\ pos > 0 => First(walked, "check")
  /\ pos > 1 => First(fresh, "check")

(* In mother check is wanted only as long as no callback has unregistered  *)
(* it in this pass.                                                        *)
MotherInv ==
  /\ pos = 0 => \A cb \in want : Has(list, cb)
  /\ pos > 0 => /\ \A cb \in want : Has(fresh, cb) \/ \E y \in Rest : y.cb = cb
                /\ "check" \in want => shared
                /\ Elements(list) \subseteq Elements(walked)

Inv ==
  /\ Shape /\ PassInv
  /\ profile # "mother" => FlagInv
  /\ profile = "meta" => MetaInv
  /\ profile = "mother" => MotherInv

-----------------------------------------------------------------------------
(* The id of a new entry is a new one.                                     *)
LEMMA FiniteIds ==
  ASSUME NEW s \in Seq(TimerEntry)
  PROVE  IsFiniteSet(Ids(s))
  <1> DEFINE f == [i \in 1..Len(s) |-> s[i].id]
  <1>1. Len(s) \in Nat /\ DOMAIN s = 1..Len(s)
    OBVIOUS
  <1>2. f \in Surjection(1..Len(s), Ids(s))
    BY <1>1 DEF Surjection, Ids
  <1>3. IsFiniteSet(1..Len(s))
    BY <1>1, FS_Interval
  <1> HIDE DEF f
  <1> QED
    BY <1>2, <1>3, FS_Surjection

LEMMA NewIdIsNew ==
  ASSUME NEW v, v.list \in Seq(TimerEntry), v.walked \in Seq(TimerEntry),
         fresh \in Seq(TimerEntry)
  PROVE  /\ NewId(v) \in Nat /\ NewId(v) \notin Ids(v.list)
         /\ NewId(v) \notin Ids(v.walked) /\ NewId(v) \notin Ids(fresh)
  <1> DEFINE used == Ids(v.list) \cup Ids(v.walked) \cup Ids(fresh)
             c == Cardinality(used)
  <1>1. IsFiniteSet(used)
    BY FiniteIds, FS_Union
  <1> HIDE DEF used
  <1>2. c \in Nat
    BY <1>1, FS_CardinalityType
  <1>3. \E n \in 1..(c + 1) : n \notin used
    <2> SUFFICES ASSUME 1..(c + 1) \subseteq used PROVE FALSE
      OBVIOUS
    <2>1. Cardinality(1..(c + 1)) <= c
      BY <1>1, FS_Subset
    <2>2. Cardinality(1..(c + 1)) = c + 1
      <3>1. 1 \in Int /\ c + 1 \in Int /\ ~(1 > c + 1) /\ (c + 1) - 1 + 1 = c + 1
        BY <1>2
      <3> HIDE DEF c
      <3>2. Cardinality(1..(c + 1)) = IF 1 > c + 1 THEN 0 ELSE (c + 1) - 1 + 1
        BY <3>1, FS_Interval
      <3> QED
        BY <3>1, <3>2
    <2> HIDE DEF c
    <2> QED
      BY <1>2, <2>1, <2>2
  <1>4. NewId(v) \in 1..(c + 1) /\ NewId(v) \notin used
    <2>1. NewId(v) = CHOOSE n \in 1..(c + 1) : n \notin used
      BY DEF NewId, used
    <2> HIDE DEF c
    <2> QED
      BY <1>3, <2>1
  <1> HIDE DEF c
  <1> QED
    BY <1>2, <1>4 DEF used

(* A list with one entry more, ...                                         *)
LEMMA Appended ==
  ASSUME NEW s \in Seq(TimerEntry), NEW e \in TimerEntry
  PROVE  LET t == Append(s, e)
         IN  /\ t \in Seq(TimerEntry) /\ t # <<>> /\ Elements(t) = Elements(s) \cup {e}
             /\ DOMAIN t = 1..(Len(s) + 1) /\ Len(t) = Len(s) + 1 /\ Len(s) \in Nat
             /\ DOMAIN s = 1..Len(s)
             /\ t[Len(s) + 1] = e /\ \A i \in DOMAIN s : i \in DOMAIN t /\ t[i] = s[i]
             /\ \A cb : Has(t, cb) <=> Has(s, cb) \/ cb = e.cb
             /\ Kinds(s) /\ e.cb \in Mine /\ (e.oneshot <=> e.cb = "call") => Kinds(t)
             /\ Distinct(s) /\ e.id \notin Ids(s) => Distinct(t)
             /\ OneEach(s) /\ ~Has(s, e.cb) => OneEach(t)
             /\ \A cb : First(s, cb) => First(t, cb)
  <1> DEFINE t == Append(s, e)
             n == Len(s)
  <1>1. /\ t \in Seq(TimerEntry) /\ t # <<>> /\ n \in Nat /\ DOMAIN s = 1..n
        /\ DOMAIN t = 1..(n + 1) /\ Len(t) = n + 1 /\ t[n + 1] = e
        /\ \A i \in DOMAIN s : i \in DOMAIN t /\ t[i] = s[i]
    OBVIOUS
  <1>2. \A i \in DOMAIN t : i \in DOMAIN s \/ i = n + 1
    BY <1>1
  <1> HIDE DEF t, n
  <1>3. n + 1 \in DOMAIN t
    BY <1>1
  <1>4. Elements(t) = Elements(s) \cup {e}
    BY <1>1, <1>2, <1>3 DEF Elements
  <1>5. \A cb : Has(t, cb) <=> Has(s, cb) \/ cb = e.cb
    BY <1>1, <1>2, <1>3 DEF Has
  <1>6. Kinds(s) /\ e.cb \in Mine /\ (e.oneshot <=> e.cb = "call") => Kinds(t)
    BY <1>1, <1>2 DEF Kinds
  <1>7. Distinct(s) /\ e.id \notin Ids(s) => Distinct(t)
    BY <1>1, <1>2 DEF Distinct, Ids
  <1>8. OneEach(s) /\ ~Has(s, e.cb) => OneEach(t)
    BY <1>1, <1>2 DEF OneEach, Has
  <1>9. \A cb : First(s, cb) => First(t, cb)
    <2>1. s # <<>> => 1 \in DOMAIN s
      OBVIOUS
    <2> QED
      BY <1>1, <2>1 DEF First
  <1> QED
    BY <1>1, <1>4, <1>5, <1>6, <1>7, <1>8, <1>9 DEF t, n

(* ... and without the entries of a callback.                              *)
LEMMA Filtered ==
  ASSUME NEW s \in Seq(TimerEntry), NEW cb
  PROVE  LET t == Without(s, cb)
         IN  /\ t \in Seq(TimerEntry)
             /\ Elements(t) = {e \in Elements(s) : e.cb # cb}
             /\ \A c : Has(t, c) <=> Has(s, c) /\ c # cb
             /\ Kinds(s) => Kinds(t)
             /\ Distinct(s) => Distinct(t)
             /\ OneEach(s) => OneEach(t)
             /\ \A c : First(s, c) /\ c # cb => First(t, c)
  <1> DEFINE I == {i \in DOMAIN s : s[i].cb # cb}
             t == At(s, I)
  <1>1. /\ t \in Seq(TimerEntry)
        /\ \A k \in DOMAIN t : \E i \in DOMAIN s : i \in I /\ t[k] = s[i]
        /\ \A i \in DOMAIN s : i \in I => \E k \in DOMAIN t : t[k] = s[i]
        /\ (s # <<>> /\ 1 \in I) => (t # <<>> /\ t[1] = s[1])
        /\ \A j, k \in DOMAIN t : j # k =>
             \E a, b \in DOMAIN s : a # b /\ t[j] = s[a] /\ t[k] = s[b]
    <2> HIDE DEF I
    <2> QED
      BY AtElements
  <1> HIDE DEF t
  <1>2. \A i : i \in I <=> i \in DOMAIN s /\ s[i].cb # cb
    OBVIOUS
  <1> HIDE DEF I
  <1>3. Elements(t) = {e \in Elements(s) : e.cb # cb}
    <2>1. ASSUME NEW e \in Elements(t) PROVE e \in Elements(s) /\ e.cb # cb
      BY <1>1, <1>2 DEF Elements
    <2>2. ASSUME NEW e \in Elements(s), e.cb # cb PROVE e \in Elements(t)
      <3>1. PICK i \in DOMAIN s : e = s[i]
        BY DEF Elements
      <3>2. PICK k \in DOMAIN t : t[k] = s[i]
        BY <1>1, <1>2, <2>2, <3>1
      <3> QED
        BY <3>1, <3>2 DEF Elements
    <2> QED
      BY <2>1, <2>2
  <1>4. \A c : Has(t, c) <=> Has(s, c) /\ c # cb
    BY <1>1, <1>2 DEF Has
  <1>5. Kinds(s) => Kinds(t)
    BY <1>1 DEF Kinds
  <1>6. ASSUME Distinct(s), NEW j \in DOMAIN t, NEW k \in DOMAIN t, j # k
        PROVE  t[j].id # t[k].id
    <2>1. PICK a, b \in DOMAIN s : a # b /\ t[j] = s[a] /\ t[k] = s[b]
      BY <1>1, <1>6
    <2> QED
      BY <1>6, <2>1 DEF Distinct
  <1>7. ASSUME OneEach(s), NEW j \in DOMAIN t, NEW k \in DOMAIN t, j # k
        PROVE  t[j].cb # t[k].cb
    <2>1. PICK a, b \in DOMAIN s : a # b /\ t[j] = s[a] /\ t[k] = s[b]
      BY <1>1, <1>7
    <2> QED
      BY <1>7, <2>1 DEF OneEach
  <1>9. (Distinct(s) => Distinct(t)) /\ (OneEach(s) => OneEach(t))
    BY <1>6, <1>7 DEF Distinct, OneEach
  <1>8. \A c : First(s, c) /\ c # cb => First(t, c)
    <2>1. s # <<>> => 1 \in DOMAIN s
      OBVIOUS
    <2> QED
      BY <1>1, <1>2, <2>1 DEF First
  <1> QED
    BY <1>1, <1>3, <1>4, <1>5, <1>8, <1>9 DEF t, I, Without

(* The entries that were not there before.                                 *)
LEMMA NoNewEntries ==
  ASSUME NEW l \in Seq(TimerEntry), Elements(l) \subseteq Elements(list)
  PROVE  NewEntries(l) = <<>>
  <1> DEFINE I == {i \in DOMAIN l : l[i].id \notin Ids(list)}
  <1>1. I = {}
    BY DEF Elements, Ids
  <1> HIDE DEF I
  <1> DEFINE t == At(l, I)
  <1>2. t \in Seq(TimerEntry) /\ \A k \in DOMAIN t : \E i \in DOMAIN l : i \in I /\ t[k] = l[i]
    BY AtElements
  <1>3. NewEntries(l) = t
    BY DEF NewEntries, I
  <1> HIDE DEF t
  <1>4. t = <<>>
    <2>1. 1 \notin DOMAIN t
      BY <1>1, <1>2
    <2> QED
      BY <1>2, <2>1
  <1> QED
    BY <1>3, <1>4

LEMMA OneNewEntry ==
  ASSUME NEW l \in Seq(TimerEntry), Distinct(l), NEW n \in Elements(l), n.id \notin Ids(list),
         \A e \in Elements(l) : e = n \/ e.id \in Ids(list)
  PROVE  NewEntries(l) = <<n>>
  <1> DEFINE I == {i \in DOMAIN l : l[i].id \notin Ids(list)}
             t == NewEntries(l)
  <1>1. /\ t \in Seq(TimerEntry)
        /\ \A k \in DOMAIN t : \E i \in DOMAIN l : i \in I /\ t[k] = l[i]
        /\ \A i \in DOMAIN l : i \in I => \E k \in DOMAIN t : t[k] = l[i]
        /\ \A j, k \in DOMAIN t : j # k =>
             \E a, b \in DOMAIN l : a # b /\ t[j] = l[a] /\ t[k] = l[b]
    <2> HIDE DEF I
    <2>1. NewEntries(l) = At(l, I)
      BY DEF NewEntries, I
    <2> QED
      BY <2>1, AtElements
  <1> HIDE DEF t
  <1>2. ASSUME NEW k \in DOMAIN t PROVE t[k] = n
    <2>1. PICK i \in DOMAIN l : i \in I /\ t[k] = l[i]
      BY <1>1
    <2>2. l[i] \in Elements(l) /\ l[i].id \notin Ids(list)
      BY <2>1 DEF Elements
    <2> QED
      BY <2>1, <2>2
  <1>3. \E k \in DOMAIN t : t[k] = n
    <2>1. PICK i \in DOMAIN l : l[i] = n
      BY DEF Elements
    <2> QED
      BY <1>1, <2>1
  <1>4. ASSUME NEW j \in DOMAIN t, NEW k \in DOMAIN t, j # k PROVE FALSE
    <2>1. PICK a, b \in DOMAIN l : a # b /\ t[j] = l[a] /\ t[k] = l[b]
      BY <1>1, <1>4
    <2> QED
      BY <1>2, <2>1 DEF Distinct
  <1>5. Len(t) = 1
    <2>1. Len(t) \in Nat /\ DOMAIN t = 1..Len(t)
      BY <1>1
    <2>2. Len(t) >= 1
      BY <1>3, <2>1
    <2>3. ASSUME Len(t) >= 2 PROVE FALSE
      <3>1. 1 \in DOMAIN t /\ 2 \in DOMAIN t
        BY <2>1, <2>3
      <3> QED
        BY <1>4, <3>1
    <2> QED
      BY <2>1, <2>2, <2>3
  <1>6. t = <<n>>
    <2>1. t[1] = n
      BY <1>1, <1>2, <1>5
    <2> QED
      BY <1>1, <1>5, <2>1
  <1> QED
    BY <1>6 DEF t

-----------------------------------------------------------------------------
(* The walk goes on by one entry.                                          *)
LEMMA Advance ==
  ASSUME walked \in Seq(TimerEntry), Distinct(walked), pos \in DOMAIN walked,
         walked' = walked, pos' = pos + 1
  PROVE  LET e == walked[pos]
         IN  /\ e \in TimerEntry /\ pos \in Nat \ {0} /\ pos' <= Len(walked') + 1
             /\ e \in Rest /\ Rest = Rest' \cup {e}
             /\ \A y \in Rest' : y.id # e.id
             /\ OneEach(walked) => \A y \in Rest' : y.cb # e.cb
  <1> DEFINE e == walked[pos]
  <1>1. DOMAIN walked = 1..Len(walked) /\ Len(walked) \in Nat /\ e \in TimerEntry
    OBVIOUS
  <1>2. pos \in Nat \ {0} /\ pos' <= Len(walked') + 1
    BY <1>1
  <1>3. Rest' = {walked[j] : j \in {k \in DOMAIN walked : k >= pos + 1}}
    BY DEF Rest
  <1>4. \A k \in DOMAIN walked : k >= pos <=> k = pos \/ k >= pos + 1
    BY <1>1, <1>2
  <1>5. Rest = Rest' \cup {e}
    BY <1>1, <1>2, <1>3, <1>4 DEF Rest
  <1>6. ASSUME NEW y \in Rest' PROVE y.id # e.id /\ (OneEach(walked) => y.cb # e.cb)
    <2>1. PICK j \in DOMAIN walked : j >= pos + 1 /\ y = walked[j]
      BY <1>3
    <2>2. j # pos
      BY <1>1, <1>2, <2>1
    <2> QED
      BY <2>1, <2>2 DEF Distinct, OneEach
  <1> QED
    BY <1>1, <1>2, <1>5, <1>6

LEMMA FirstOne ==
  ASSUME NEW s \in Seq(TimerEntry), NEW cb, First(s, cb)
  PROVE  1 \in DOMAIN s /\ s[1].cb = cb
  BY DEF First

(* Entries and ids.                                                        *)
LEMMA SameId ==
  ASSUME NEW s \in Seq(TimerEntry), Distinct(s), NEW x \in Elements(s)
  PROVE  /\ \A y \in Elements(s) : x.id = y.id => x = y
         /\ x.id \in Ids(s) /\ x \in TimerEntry
         /\ Has(s, x.cb)
  BY DEF Elements, Distinct, Ids, Has

(* An entry that is not due, or whose callback leaves the timers alone.    *)
LEMMA KeepStep ==
  ASSUME Inv, pos \in DOMAIN walked, UNCHANGED <<profile, list, walked, shared, want>>,
         pos' = pos + 1, fresh' = Append(fresh, walked[pos])
  PROVE  Inv'
  <1> DEFINE e == walked[pos]
  <1>0. Shape /\ PassInv
    BY DEF Inv
  <1>1. /\ e \in TimerEntry /\ pos \in Nat \ {0} /\ pos' <= Len(walked') + 1
        /\ e \in Rest /\ Rest = Rest' \cup {e}
        /\ \A y \in Rest' : y.id # e.id
        /\ OneEach(walked) => \A y \in Rest' : y.cb # e.cb
    BY <1>0, Advance DEF Shape, PassInv
  <1>2. e.cb \in Mine /\ (e.oneshot <=> e.cb = "call") /\ fresh \in Seq(TimerEntry)
    BY <1>0 DEF Shape, Kinds
  <1> HIDE DEF e
  <1>3. fresh' = Append(fresh, e)
    BY DEF e
  <1>4. /\ fresh' \in Seq(TimerEntry) /\ Elements(fresh') = Elements(fresh) \cup {e}
        /\ \A cb : Has(fresh', cb) <=> Has(fresh, cb) \/ cb = e.cb
        /\ Kinds(fresh) => Kinds(fresh')
        /\ Distinct(fresh) /\ e.id \notin Ids(fresh) => Distinct(fresh')
        /\ OneEach(fresh) /\ ~Has(fresh, e.cb) => OneEach(fresh')
        /\ \A cb : First(fresh, cb) => First(fresh', cb)
        /\ fresh' # <<>>
    BY <1>1, <1>2, <1>3, Appended
  <1>5. Mine' = Mine
    BY DEF Mine
  <1>6. Shape'
    BY <1>0, <1>1, <1>4, <1>5 DEF Shape, Kinds
  <1>7. PassInv'
    <2>1. e.id \notin Ids(fresh)
      BY <1>0, <1>1 DEF PassInv, Ids, Elements
    <2>2. Distinct(fresh')
      BY <1>0, <1>4, <2>1 DEF PassInv
    <2>3. \A x \in Elements(fresh'), y \in Rest' : x.id # y.id
      BY <1>0, <1>1, <1>4 DEF PassInv
    <2>4. pos' # 0 /\ pos' # 1
      BY <1>1
    <2> QED
      BY <1>0, <1>1, <2>2, <2>3, <2>4 DEF PassInv, Distinct, Elements
  <1>8. ASSUME profile # "mother" PROVE FlagInv'
    <2>0. FlagInv
      BY <1>8 DEF Inv
    <2>1. ~Has(fresh, e.cb)
      BY <1>1, <2>0 DEF FlagInv, Has, Elements
    <2>2. OneEach(fresh')
      BY <1>4, <2>0, <2>1 DEF FlagInv
    <2>3. \A x \in Elements(fresh'), y \in Rest' : x.cb # y.cb
      BY <1>1, <1>4, <2>0 DEF FlagInv
    <2>4. Elements(list) = Elements(fresh') \cup Rest'
      BY <1>1, <1>4, <2>0 DEF FlagInv
    <2> QED
      BY <2>0, <2>2, <2>3, <2>4 DEF FlagInv, OneEach, Elements, Has
  <1>9. ASSUME profile = "meta" PROVE MetaInv'
    <2>0. MetaInv
      BY <1>9 DEF Inv
    <2>1. First(fresh', "check")
      <3>1. CASE pos > 1
        BY <1>4, <2>0, <3>1 DEF MetaInv
      <3>2. CASE pos = 1
        <4>1. e.cb = "check"
          BY <2>0, <3>2 DEF MetaInv, First, e
        <4>2. fresh'[1].cb = "check"
          <5>1. fresh = <<>>
            BY <1>0, <3>2 DEF PassInv
          <5> QED
            BY <1>1, <1>2, <1>3, <4>1, <5>1
        <4> QED
          BY <1>4, <4>2 DEF First
      <3> QED
        BY <1>1, <3>1, <3>2
    <2> QED
      BY <2>0, <2>1, <1>1 DEF MetaInv, First
  <1>10. ASSUME profile = "mother" PROVE MotherInv'
    <2>0. MotherInv
      BY <1>10 DEF Inv
    <2>1. \A cb \in want : Has(fresh', cb) \/ \E y \in Rest' : y.cb = cb
      BY <1>1, <1>4, <2>0 DEF MotherInv
    <2>2. pos' # 0 /\ pos > 0
      BY <1>1
    <2>3. "check" \in want => shared
      BY <2>0, <2>2 DEF MotherInv
    <2>4. Elements(list) \subseteq Elements(walked)
      BY <2>0, <2>2 DEF MotherInv
    <2> QED
      BY <2>1, <2>2, <2>3, <2>4 DEF MotherInv
  <1> QED
    BY <1>6, <1>7, <1>8, <1>9, <1>10 DEF Inv

(* In mother: the callback of an entry that is gone, or not wanted again.  *)
LEMMA DropStep ==
  ASSUME Inv, profile = "mother", pos \in DOMAIN walked,
         UNCHANGED <<profile, list, walked, shared, fresh>>,
         pos' = pos + 1, want' \subseteq want, walked[pos].cb \notin want'
  PROVE  Inv'
  <1> DEFINE e == walked[pos]
  <1>0. Shape /\ PassInv /\ MotherInv
    BY DEF Inv
  <1>1. /\ e \in TimerEntry /\ pos \in Nat \ {0} /\ pos' <= Len(walked') + 1
        /\ e \in Rest /\ Rest = Rest' \cup {e}
    BY <1>0, Advance DEF Shape, PassInv
  <1> HIDE DEF e
  <1>2. e.cb \notin want'
    BY DEF e
  <1>3. Mine' = Mine
    BY DEF Mine
  <1>4. Shape'
    BY <1>0, <1>1, <1>3 DEF Shape, Kinds
  <1>5. PassInv'
    BY <1>0, <1>1 DEF PassInv, Distinct, Elements
  <1>6. MotherInv'
    BY <1>0, <1>1, <1>2 DEF MotherInv, Has, Elements
  <1> QED
    BY <1>4, <1>5, <1>6 DEF Inv

(* An entry whose callback removes itself.                                 *)
LEMMA DisableStep ==
  ASSUME Inv, pos \in DOMAIN walked, NEW cb, walked[pos].cb = cb,
         profile # "mother" => cb \notin Permanent(profile),
         profile = "mother" => cb = "check",
         UNCHANGED <<profile, walked, fresh>>, shared' = FALSE, pos' = pos + 1,
         list' = Without(list, cb), want' = want \ {cb}
  PROVE  Inv'
  <1> DEFINE e == walked[pos]
  <1>0. Shape /\ PassInv
    BY DEF Inv
  <1>1. /\ e \in TimerEntry /\ pos \in Nat \ {0} /\ pos' <= Len(walked') + 1
        /\ e \in Rest /\ Rest = Rest' \cup {e}
        /\ OneEach(walked) => \A y \in Rest' : y.cb # e.cb
    BY <1>0, Advance DEF Shape, PassInv
  <1> HIDE DEF e
  <1>2. e.cb = cb
    BY DEF e
  <1>3. /\ list' \in Seq(TimerEntry)
        /\ Elements(list') = {x \in Elements(list) : x.cb # cb}
        /\ \A c : Has(list', c) <=> Has(list, c) /\ c # cb
        /\ Kinds(list) => Kinds(list')
        /\ Distinct(list) => Distinct(list')
        /\ OneEach(list) => OneEach(list')
        /\ \A c : First(list, c) /\ c # cb => First(list', c)
    BY <1>0, Filtered DEF Shape
  <1>4. Mine' = Mine /\ pos' # 0 /\ pos' # 1 /\ pos > 0 /\ pos' > 0
    BY <1>1 DEF Mine
  <1>5. Shape'
    <2>1. Kinds(list)' /\ Kinds(walked)' /\ Kinds(fresh)'
      BY <1>0, <1>3, <1>4 DEF Shape, Kinds
    <2>2. want' \subseteq Mine' /\ pos' \in Nat
      BY <1>0, <1>1, <1>4 DEF Shape
    <2> QED
      BY <1>0, <1>3, <2>1, <2>2 DEF Shape
  <1>6. PassInv'
    <2>1. Distinct(list')
      BY <1>0, <1>3 DEF PassInv
    <2> QED
      BY <1>0, <1>1, <1>4, <2>1 DEF PassInv
  <1>7. ASSUME profile # "mother" PROVE FlagInv'
    <2>0. FlagInv
      BY <1>7 DEF Inv
    <2>1. Permanent(profile) \subseteq want'
      BY <1>7, <2>0 DEF FlagInv
    <2>2. \A c \in Callback : c \in want' <=> Has(list', c)
      BY <1>3, <2>0 DEF FlagInv
    <2>3. OneEach(list') /\ OneEach(walked) /\ OneEach(fresh)
      BY <1>3, <2>0 DEF FlagInv
    <2>4. \A x \in Elements(fresh), y \in Rest' : x.cb # y.cb
      BY <1>1, <2>0 DEF FlagInv
    <2>5. \A x \in Elements(fresh) : x.cb # cb
      BY <1>1, <1>2, <2>0 DEF FlagInv
    <2>6. \A y \in Rest' : y.cb # cb
      BY <1>1, <1>2, <2>3
    <2>7. Elements(list') = Elements(fresh) \cup Rest'
      BY <1>1, <1>2, <1>3, <1>4, <2>0, <2>5, <2>6 DEF FlagInv
    <2> QED
      BY <2>1, <2>2, <2>3, <2>4, <2>7 DEF FlagInv
  <1>8. ASSUME profile = "meta" PROVE MetaInv'
    <2>0. MetaInv /\ cb # "check"
      BY <1>8 DEF Inv, Permanent
    <2>1. First(list', "check")
      BY <1>3, <2>0 DEF MetaInv
    <2>2. pos > 1
      <3>1. pos # 1
        BY <1>2, <1>4, <2>0 DEF MetaInv, First, e
      <3> QED
        BY <1>1, <3>1
    <2> QED
      BY <1>4, <2>0, <2>1, <2>2 DEF MetaInv
  <1>9. ASSUME profile = "mother" PROVE MotherInv'
    <2>0. MotherInv
      BY <1>9 DEF Inv
    <2>1. \A c \in want' : Has(fresh, c) \/ \E y \in Rest' : y.cb = c
      BY <1>1, <1>2, <1>4, <2>0 DEF MotherInv
    <2>2. "check" \notin want'
      BY <1>9
    <2>3. Elements(list') \subseteq Elements(walked)
      BY <1>3, <1>4, <2>0 DEF MotherInv
    <2> QED
      BY <1>4, <2>1, <2>2, <2>3 DEF MotherInv
  <1> QED
    BY <1>5, <1>6, <1>7, <1>8, <1>9 DEF Inv

(* A new entry of the callback cb.                                         *)
New(n, cb) ==
  /\ n \in TimerEntry /\ n.cb = cb /\ (n.oneshot <=> cb = "call")
  /\ n.id \notin Ids(list) /\ n.id \notin Ids(walked) /\ n.id \notin Ids(fresh)

(* check of the meta-server registers trans: the walk will come to it.     *)
LEMMA EnableStep ==
  ASSUME Inv, profile = "meta", pos \in DOMAIN walked, walked[pos].cb = "check",
         "trans" \notin want, NEW n, New(n, "trans"),
         UNCHANGED <<profile, shared>>, pos' = pos + 1, want' = want \cup {"trans"},
         list' = Append(list, n),
         walked' = IF shared THEN Append(walked, n) ELSE walked,
         fresh' = Append(fresh, walked[pos])
  PROVE  Inv'
  <1> DEFINE e == walked[pos]
  <1>0. Shape /\ PassInv /\ FlagInv /\ MetaInv
    BY DEF Inv
  <1>1. pos = 1
    <2>1. 1 \in DOMAIN walked /\ walked[1].cb = "check"
      <3>1. walked \in Seq(TimerEntry) /\ pos > 0
        BY <1>0 DEF Shape
      <3> QED
        BY <1>0, <3>1, FirstOne DEF MetaInv
    <2> QED
      BY <1>0, <2>1 DEF FlagInv, OneEach
  <1>2. shared /\ fresh = <<>> /\ list = walked /\ list \in Seq(TimerEntry)
    BY <1>0, <1>1 DEF PassInv, Shape
  <1>3. walked' = list' /\ pos' = 2 /\ e = list[1] /\ 1 \in DOMAIN list
    BY <1>1, <1>2
  <1>4. e \in TimerEntry /\ e.cb = "check" /\ e.cb \in Mine /\ (e.oneshot <=> e.cb = "call")
    BY <1>0 DEF Shape, Kinds
  <1>5. n \in TimerEntry /\ n.cb = "trans" /\ n.cb \in Mine /\ (n.oneshot <=> n.cb = "call")
        /\ n.id \notin Ids(list)
    BY DEF New, Mine
  <1>6. ~Has(list, "trans")
    BY <1>0 DEF FlagInv, Callback
  <1>7. /\ list' \in Seq(TimerEntry) /\ list' # <<>> /\ Elements(list') = Elements(list) \cup {n}
        /\ \A i \in DOMAIN list : i \in DOMAIN list' /\ list'[i] = list[i]
        /\ \A cb : Has(list', cb) <=> Has(list, cb) \/ cb = "trans"
        /\ Kinds(list') /\ Distinct(list') /\ OneEach(list') /\ First(list', "check")
    BY <1>0, <1>2, <1>5, <1>6, Appended DEF Shape, PassInv, FlagInv, MetaInv
  <1>8. fresh' = Append(<<>>, e)
    BY <1>2
  <1>9. <<>> \in Seq(TimerEntry) /\ Elements(<<>>) = {} /\ Kinds(<<>>) /\ Distinct(<<>>)
        /\ OneEach(<<>>) /\ Ids(<<>>) = {} /\ ~Has(<<>>, "check")
    BY DEF Elements, Kinds, Distinct, OneEach, Ids, Has
  <1> HIDE DEF e
  <1>10. /\ fresh' \in Seq(TimerEntry) /\ Elements(fresh') = {e} /\ Kinds(fresh')
         /\ Distinct(fresh') /\ OneEach(fresh')
    <2> DEFINE s == <<>>
    <2>1. fresh' = Append(s, e) /\ s \in Seq(TimerEntry) /\ Elements(s) = {} /\ Kinds(s)
          /\ Distinct(s) /\ OneEach(s) /\ Ids(s) = {} /\ ~Has(s, e.cb)
      BY <1>4, <1>8, <1>9
    <2> HIDE DEF s
    <2> QED
      BY <1>4, <2>1, Appended
  <1>11. First(fresh', "check")
    <2>1. fresh' # <<>> /\ fresh'[1] = e
      BY <1>4, <1>8
    <2> QED
      BY <1>4, <2>1 DEF First
  <1>12. Elements(list') = {e} \cup Rest' /\ \A y \in Rest' : y.id # e.id /\ y.cb # e.cb
    <2>1. Rest' = {list'[j] : j \in {k \in DOMAIN list' : k >= 2}}
      BY <1>3 DEF Rest
    <2>2. list'[1] = e /\ 1 \in DOMAIN list' /\ \A k \in DOMAIN list' : k = 1 \/ k >= 2
      BY <1>3, <1>7
    <2>3. Elements(list') = {e} \cup Rest'
      BY <2>1, <2>2 DEF Elements
    <2>4. ASSUME NEW y \in Rest' PROVE y.id # e.id /\ y.cb # e.cb
      <3>1. PICK j \in DOMAIN list' : j >= 2 /\ y = list'[j]
        BY <2>1
      <3>2. j # 1
        BY <3>1
      <3> QED
        BY <1>7, <2>2, <3>1, <3>2 DEF Distinct, OneEach
    <2> QED
      BY <2>3, <2>4
  <1>13. Mine' = Mine /\ "trans" \in Mine
    BY DEF Mine
  <1>14. Shape'
    <2>1. want' \subseteq Mine'
      BY <1>0, <1>13 DEF Shape
    <2> QED
      BY <1>0, <1>3, <1>7, <1>10, <1>13, <2>1 DEF Shape, Kinds
  <1>15. PassInv'
    <2>1. \A x \in Elements(fresh'), y \in Rest' : x.id # y.id
      BY <1>10, <1>12
    <2>2. pos' <= Len(walked') + 1
      <3>1. Len(list') \in Nat /\ Len(list') >= 1
        BY <1>7
      <3> QED
        BY <1>3, <3>1
    <2>3. pos' # 0 /\ pos' # 1
      BY <1>3
    <2> QED
      BY <1>3, <1>7, <1>10, <2>1, <2>2, <2>3 DEF PassInv
  <1>16. FlagInv'
    <2>1. \A cb \in Callback : cb \in want' <=> Has(list', cb)
      BY <1>0, <1>7 DEF FlagInv
    <2>2. \A x \in Elements(fresh'), y \in Rest' : x.cb # y.cb
      BY <1>10, <1>12
    <2>3. Elements(list') = Elements(fresh') \cup Rest'
      BY <1>10, <1>12
    <2>4. Permanent(profile)' \subseteq want'
      BY <1>0 DEF FlagInv
    <2> QED
      BY <1>3, <1>7, <1>10, <2>1, <2>2, <2>3, <2>4 DEF FlagInv
  <1>17. MetaInv'
    BY <1>3, <1>7, <1>11 DEF MetaInv
  <1> QED
    BY <1>14, <1>15, <1>16, <1>17 DEF Inv

(* trans of the meta-server switches itself off and, with new transitions, *)
(* on again: its new entry is carried over.                                *)
LEMMA RenewStep ==
  ASSUME Inv, profile = "meta", pos \in DOMAIN walked, walked[pos].cb = "trans",
         "trans" \in want, NEW n, New(n, "trans"),
         UNCHANGED <<profile, walked, want>>, shared' = FALSE, pos' = pos + 1,
         NEW l, l = Without(list, "trans"), list' = Append(l, n),
         fresh' = Append(fresh, n)
  PROVE  Inv'
  <1> DEFINE e == walked[pos]
  <1>0. Shape /\ PassInv /\ FlagInv /\ MetaInv
    BY DEF Inv
  <1>1. /\ e \in TimerEntry /\ pos \in Nat \ {0} /\ pos' <= Len(walked') + 1
        /\ e \in Rest /\ Rest = Rest' \cup {e}
        /\ \A y \in Rest' : y.cb # e.cb
    BY <1>0, Advance DEF Shape, PassInv, FlagInv
  <1>2. e.cb = "trans"
    OBVIOUS
  <1> HIDE DEF e
  <1>3. Rest' = {}
    <2> SUFFICES ASSUME NEW y \in Rest' PROVE FALSE
      OBVIOUS
    <2>1. PICK j \in DOMAIN walked : j >= pos + 1 /\ y = walked[j]
      BY DEF Rest
    <2>2. j # 1
      BY <1>1, <2>1
    <2>3. 1 \in DOMAIN walked /\ walked[1].cb = "check"
      <3>1. walked \in Seq(TimerEntry) /\ pos > 0
        BY <1>0, <1>1 DEF Shape
      <3> QED
        BY <1>0, <3>1, FirstOne DEF MetaInv
    <2>4. y.cb # "check"
      BY <1>0, <2>1, <2>2, <2>3 DEF FlagInv, OneEach
    <2>5. y.cb \in {"check", "trans"}
      BY <1>0, <2>1 DEF Shape, Kinds, Mine
    <2> QED
      BY <1>1, <1>2, <2>4, <2>5
  <1>4. /\ l \in Seq(TimerEntry)
        /\ Elements(l) = {x \in Elements(list) : x.cb # "trans"}
        /\ \A c : Has(l, c) <=> Has(list, c) /\ c # "trans"
        /\ Kinds(l) /\ Distinct(l) /\ OneEach(l) /\ First(l, "check")
    <2>1. /\ list \in Seq(TimerEntry) /\ Kinds(list) /\ Distinct(list) /\ OneEach(list)
          /\ First(list, "check")
      BY <1>0 DEF Shape, PassInv, FlagInv, MetaInv
    <2>2. "check" # "trans"
      OBVIOUS
    <2> QED
      BY <2>1, <2>2, Filtered
  <1>6. n \in TimerEntry /\ n.cb = "trans" /\ n.cb \in Mine /\ (n.oneshot <=> n.cb = "call")
        /\ n.id \notin Ids(list) /\ n.id \notin Ids(fresh)
    BY DEF New, Mine
  <1>7. n.id \notin Ids(l)
    <2> SUFFICES ASSUME NEW i \in DOMAIN l, l[i].id = n.id PROVE FALSE
      BY DEF Ids
    <2>1. l[i] \in Elements(list)
      BY <1>4 DEF Elements
    <2>2. PICK j \in DOMAIN list : l[i] = list[j]
      BY <2>1 DEF Elements
    <2>3. list[j].id \in Ids(list)
      BY DEF Ids
    <2> QED
      BY <1>6, <2>2, <2>3
  <1>8. ~Has(l, "trans") /\ ~Has(fresh, "trans")
    <2>1. ~Has(fresh, "trans")
      BY <1>0, <1>1, <1>2 DEF FlagInv, Has, Elements
    <2> QED
      BY <1>4, <2>1
  <1>9. /\ list' \in Seq(TimerEntry) /\ Elements(list') = Elements(l) \cup {n}
        /\ \A cb : Has(list', cb) <=> Has(l, cb) \/ cb = "trans"
        /\ Kinds(list') /\ Distinct(list') /\ OneEach(list') /\ First(list', "check")
    <2>0. l \in Seq(TimerEntry) /\ n \in TimerEntry
      BY <1>4, <1>6
    <2>1. /\ list' \in Seq(TimerEntry) /\ Elements(list') = Elements(l) \cup {n}
          /\ \A cb : Has(list', cb) <=> Has(l, cb) \/ cb = n.cb
          /\ \A cb : First(l, cb) => First(list', cb)
      BY <2>0, Appended
    <2>2. Kinds(list') /\ Distinct(list')
      BY <1>4, <1>6, <1>7, <2>0, Appended
    <2>3. OneEach(list')
      BY <1>4, <1>6, <1>8, <2>0, Appended
    <2> QED
      BY <1>4, <1>6, <2>1, <2>2, <2>3
  <1>10. /\ fresh' \in Seq(TimerEntry) /\ Elements(fresh') = Elements(fresh) \cup {n}
         /\ Kinds(fresh') /\ Distinct(fresh') /\ OneEach(fresh')
         /\ \A cb : First(fresh, cb) => First(fresh', cb)
    BY <1>0, <1>6, <1>8, Appended DEF Shape, PassInv, FlagInv
  <1>11. Mine' = Mine /\ pos' # 0 /\ pos' # 1 /\ pos > 0
    BY <1>1 DEF Mine
  <1>12. Shape'
    <2>1. Kinds(list)' /\ Kinds(walked)' /\ Kinds(fresh)'
      BY <1>0, <1>9, <1>10, <1>11 DEF Shape, Kinds
    <2>2. want' \subseteq Mine' /\ pos' \in Nat
      BY <1>0, <1>1, <1>11 DEF Shape
    <2> QED
      BY <1>0, <1>9, <1>10, <2>1, <2>2 DEF Shape
  <1>13. PassInv'
    BY <1>0, <1>1, <1>3, <1>9, <1>10, <1>11 DEF PassInv
  <1>14. FlagInv'
    <2>1. \A cb \in Callback : cb \in want <=> Has(list', cb)
      BY <1>0, <1>4, <1>9 DEF FlagInv
    <2>2. \A x \in Elements(fresh) : x.cb # "trans"
      BY <1>0, <1>1, <1>2 DEF FlagInv
    <2>3. Elements(list) = Elements(fresh) \cup {e}
      BY <1>0, <1>1, <1>3, <1>11 DEF FlagInv
    <2>4. Elements(list') = Elements(fresh') \cup Rest'
      BY <1>2, <1>3, <1>4, <1>9, <1>10, <2>2, <2>3
    <2> QED
      BY <1>0, <1>3, <1>9, <1>10, <2>1, <2>4 DEF FlagInv
  <1>15. MetaInv'
    <2>1. pos > 1
      <3>1. pos # 1
        BY <1>0, <1>2, <1>11 DEF MetaInv, First, e
      <3> QED
        BY <1>1, <3>1
    <2> QED
      BY <1>0, <1>9, <1>10, <1>11, <2>1 DEF MetaInv
  <1> QED
    BY <1>12, <1>13, <1>14, <1>15 DEF Inv

-----------------------------------------------------------------------------
(* What registering and unregistering do to a view.                        *)
NewTo(n, cb, o, l, w) ==
  /\ n.cb = cb /\ n.oneshot = o
  /\ n.id \notin Ids(l) /\ n.id \notin Ids(w) /\ n.id \notin Ids(fresh)

Entered(r, n, l, w, s, W) ==
  r = [list |-> Append(l, n), walked |-> IF s THEN Append(w, n) ELSE w, shared |-> s, want |-> W]

LEMMA Fields ==
  ASSUME NEW r, NEW n, NEW l, NEW w, NEW s, NEW W, Entered(r, n, l, w, s, W)
  PROVE  /\ r.list = Append(l, n) /\ r.walked = IF s THEN Append(w, n) ELSE w
         /\ r.shared = s /\ r.want = W
  BY DEF Entered

LEMMA Registers ==
  ASSUME NEW l \in Seq(TimerEntry), NEW w \in Seq(TimerEntry), fresh \in Seq(TimerEntry),
         NEW s, NEW W, NEW cb \in Callback, NEW o \in BOOLEAN,
         NEW v, v = [list |-> l, walked |-> w, shared |-> s, want |-> W]
  PROVE  \E n \in TimerEntry : /\ NewTo(n, cb, o, l, w)
                               /\ Entered(register_timer(v, cb, o), n, l, w, s, W)
  <1> DEFINE n == [id |-> NewId(v), cb |-> cb, oneshot |-> o]
  <1>1. v.list = l /\ v.walked = w /\ v.shared = s /\ v.want = W
    OBVIOUS
  <1>2. /\ NewId(v) \in Nat /\ NewId(v) \notin Ids(l)
        /\ NewId(v) \notin Ids(w) /\ NewId(v) \notin Ids(fresh)
    BY <1>1, NewIdIsNew
  <1>3. n \in TimerEntry /\ n.cb = cb /\ n.oneshot = o /\ n.id = NewId(v)
    BY <1>2 DEF TimerEntry
  <1> HIDE DEF n
  <1>4. register_timer(v, cb, o) =
          [v EXCEPT !.list = Append(@, n), !.walked = IF v.shared THEN Append(@, n) ELSE @]
    BY DEF register_timer, n
  <1>5. Entered(register_timer(v, cb, o), n, l, w, s, W)
    BY <1>4 DEF Entered
  <1>6. NewTo(n, cb, o, l, w)
    BY <1>2, <1>3 DEF NewTo
  <1> QED
    BY <1>3, <1>5, <1>6

LEMMA Enables ==
  ASSUME Shape, NEW cb \in Callback, cb # "call", cb \notin want
  PROVE  \E n : /\ New(n, cb)
                /\ Enable(View, cb).list = Append(list, n)
                /\ Enable(View, cb).walked = IF shared THEN Append(walked, n) ELSE walked
                /\ Enable(View, cb).shared = shared
                /\ Enable(View, cb).want = want \cup {cb}
  <1> DEFINE W == want \cup {cb}
             v == [list |-> list, walked |-> walked, shared |-> shared, want |-> W]
  <1>1. Enable(View, cb) = register_timer(v, cb, FALSE)
    <2>1. [View EXCEPT !.want = @ \cup {cb}] = v /\ View.want = want
      BY DEF View
    <2> HIDE DEF v
    <2> QED
      BY <2>1 DEF Enable
  <1>2. v = [list |-> list, walked |-> walked, shared |-> shared, want |-> W]
    OBVIOUS
  <1>3. list \in Seq(TimerEntry) /\ walked \in Seq(TimerEntry) /\ fresh \in Seq(TimerEntry)
        /\ FALSE \in BOOLEAN
    BY DEF Shape
  <1> HIDE DEF v, W
  <1>4. PICK n \in TimerEntry : /\ NewTo(n, cb, FALSE, list, walked)
                               /\ Entered(register_timer(v, cb, FALSE), n, list, walked, shared, W)
    BY <1>2, <1>3, Registers
  <1>5. New(n, cb)
    BY <1>4 DEF New, NewTo
  <1>6. /\ Enable(View, cb).list = Append(list, n)
        /\ Enable(View, cb).walked = IF shared THEN Append(walked, n) ELSE walked
        /\ Enable(View, cb).shared = shared
        /\ Enable(View, cb).want = W
    <2> DEFINE r == Enable(View, cb)
    <2>1. Entered(r, n, list, walked, shared, W)
      BY <1>1, <1>4
    <2> HIDE DEF r
    <2>2. r = [list |-> Append(list, n), walked |-> IF shared THEN Append(walked, n) ELSE walked,
               shared |-> shared, want |-> W]
      BY <2>1 DEF Entered
    <2>3. r.list = Append(list, n) /\ r.want = W
      BY <2>2
    <2>4. r.shared = shared
      BY <2>2
    <2>5. r.walked = IF shared THEN Append(walked, n) ELSE walked
      BY <2>2
    <2> QED
      BY <2>3, <2>4, <2>5 DEF r
  <1> QED
    BY <1>5, <1>6 DEF W

LEMMA Disables ==
  ASSUME NEW cb, cb \in want
  PROVE  Disable(View, cb) = [list |-> Without(list, cb), walked |-> walked, shared |-> FALSE,
                              want |-> want \ {cb}]
  BY DEF Disable, unregister_timer, View

(* trans switches itself off and on.                                       *)
LEMMA Renews ==
  ASSUME Inv, profile = "meta", pos \in DOMAIN walked, "trans" \in want
  PROVE  LET v == Enable(Disable(View, "trans"), "trans")
         IN  \E n : /\ New(n, "trans")
                    /\ v.list = Append(Without(list, "trans"), n)
                    /\ v.walked = walked /\ v.shared = FALSE /\ v.want = want
  <1> DEFINE l == Without(list, "trans")
             W == (want \ {"trans"}) \cup {"trans"}
             d == Disable(View, "trans")
             v == [list |-> l, walked |-> walked, shared |-> FALSE, want |-> W]
  <1>0. Shape /\ PassInv /\ FlagInv
    BY DEF Inv
  <1>1. Enable(d, "trans") = register_timer(v, "trans", FALSE)
    <2>1. d = [list |-> l, walked |-> walked, shared |-> FALSE, want |-> want \ {"trans"}]
      BY Disables
    <2>2. "trans" \notin d.want
      BY <2>1
    <2>3. [d EXCEPT !.want = @ \cup {"trans"}] = v
      <3> HIDE DEF l
      <3> DEFINE W0 == want \ {"trans"}
                 no == FALSE
      <3>1. d = [list |-> l, walked |-> walked, shared |-> no, want |-> W0]
        BY <2>1
      <3> HIDE DEF d, W0, no
      <3>2. [d EXCEPT !.want = @ \cup {"trans"}] =
              [list |-> l, walked |-> walked, shared |-> no, want |-> W0 \cup {"trans"}]
        BY <3>1
      <3> QED
        BY <3>2 DEF W0, no
    <2> HIDE DEF v, d
    <2> QED
      BY <2>2, <2>3 DEF Enable
  <1>2. v = [list |-> l, walked |-> walked, shared |-> FALSE, want |-> W]
    OBVIOUS
  <1>3. list \in Seq(TimerEntry) /\ walked \in Seq(TimerEntry) /\ fresh \in Seq(TimerEntry)
        /\ FALSE \in BOOLEAN /\ "trans" \in Callback
    BY <1>0 DEF Shape, Callback
  <1>4. l \in Seq(TimerEntry)
    BY <1>3, Filtered
  <1>5. W = want
    OBVIOUS
  <1> HIDE DEF v, W, l, d
  <1>6. PICK n \in TimerEntry : /\ NewTo(n, "trans", FALSE, l, walked)
                               /\ Entered(register_timer(v, "trans", FALSE), n, l, walked, FALSE, W)
    BY <1>2, <1>3, <1>4, Registers
  <1>7. n.id \notin Ids(list)
    <2> SUFFICES ASSUME NEW i \in DOMAIN list, list[i].id = n.id PROVE FALSE
      BY DEF Ids
    <2>1. pos > 0
      BY <1>3
    <2>2. list[i] \in Elements(fresh) \cup Rest
      BY <1>0, <2>1 DEF FlagInv, Elements
    <2>3. \A x \in Elements(fresh) : x.id \in Ids(fresh)
      BY DEF Elements, Ids
    <2>4. \A x \in Rest : x.id \in Ids(walked)
      BY DEF Rest, Ids
    <2> QED
      BY <1>6, <2>2, <2>3, <2>4 DEF NewTo
  <1>8. New(n, "trans")
    BY <1>6, <1>7 DEF New, NewTo
  <1> QED
    BY <1>1, <1>5, <1>6, <1>8, Fields DEF l, d

-----------------------------------------------------------------------------
(* Outside a pass the invariant is one of the list and the flags.          *)
Good(l, W) ==
  /\ l \in Seq(TimerEntry) /\ Kinds(l) /\ Distinct(l) /\ W \subseteq Mine
  /\ profile # "mother" => /\ Permanent(profile) \subseteq W /\ OneEach(l)
                           /\ \A cb \in Callback : cb \in W <=> Has(l, cb)
  /\ profile = "meta" => First(l, "check")
  /\ profile = "mother" => \A cb \in W : Has(l, cb)

LEMMA IdleGood ==
  ASSUME Inv, pos = 0
  PROVE  Good(list, want)
  BY DEF Inv, Good, Shape, PassInv, FlagInv, MetaInv, MotherInv

LEMMA GoodIdle ==
  ASSUME profile \in Profiles, profile' = profile, Good(list', want'),
         pos' = 0, walked' = <<>>, fresh' = <<>>, shared' = FALSE
  PROVE  Inv'
  <1>1. <<>> \in Seq(TimerEntry) /\ Elements(<<>>) = {} /\ Kinds(<<>>)' /\ Distinct(<<>>)
        /\ OneEach(<<>>)
    BY DEF Elements, Kinds, Distinct, OneEach
  <1>2. Mine' = Mine
    BY DEF Mine
  <1>3. Kinds(list)'
    BY <1>2 DEF Good, Kinds
  <1>4. Shape'
    BY <1>1, <1>2, <1>3 DEF Shape, Good
  <1>5. PassInv'
    BY <1>1 DEF PassInv, Good
  <1>6. profile # "mother" => FlagInv'
    BY <1>1 DEF FlagInv, Good
  <1>7. profile = "meta" => MetaInv'
    BY DEF MetaInv, Good
  <1>8. profile = "mother" => MotherInv'
    BY DEF MotherInv, Good
  <1> QED
    BY <1>4, <1>5, <1>6, <1>7, <1>8 DEF Inv

LEMMA GrowGood ==
  ASSUME NEW l, NEW W, Good(l, W), NEW n \in TimerEntry, n.id \notin Ids(l),
         n.cb \in Mine, n.oneshot <=> n.cb = "call", NEW W2,
         W \subseteq W2, W2 \subseteq W \cup {n.cb},
         profile # "mother" => (~Has(l, n.cb) /\ n.cb \in W2)
  PROVE  Good(Append(l, n), W2)
  <1> DEFINE t == Append(l, n)
  <1>1. /\ l \in Seq(TimerEntry) /\ Kinds(l) /\ Distinct(l) /\ W \subseteq Mine
    BY DEF Good
  <1>2. /\ t \in Seq(TimerEntry) /\ Kinds(t) /\ Distinct(t)
        /\ \A cb : Has(t, cb) <=> Has(l, cb) \/ cb = n.cb
        /\ OneEach(l) /\ ~Has(l, n.cb) => OneEach(t)
        /\ \A cb : First(l, cb) => First(t, cb)
    BY <1>1, Appended
  <1> HIDE DEF t
  <1>3. ASSUME profile # "mother"
        PROVE  /\ Permanent(profile) \subseteq W2 /\ OneEach(t)
               /\ \A cb \in Callback : cb \in W2 <=> Has(t, cb)
    BY <1>2, <1>3 DEF Good
  <1>4. W2 \subseteq Mine
    BY <1>1
  <1>5. profile = "meta" => First(t, "check")
    BY <1>2 DEF Good
  <1>6. profile = "mother" => \A cb \in W2 : Has(t, cb)
    BY <1>2 DEF Good
  <1> QED
    BY <1>2, <1>3, <1>4, <1>5, <1>6 DEF Good, t

(* The handlers' registrations.                                            *)
LEMMA FlagHandler ==
  ASSUME Inv, pos = 0, profile # "mother", NEW cb \in Mine, cb # "call",
         NEW v, v = Enable(View, cb)
  PROVE  Good(v.list, v.want) /\ v.walked = walked /\ v.shared = shared
  <1>1. Good(list, want) /\ Shape /\ ~shared
    BY IdleGood DEF Inv, PassInv
  <1>2. cb \in Callback
    BY DEF Mine, Callback
  <1>3. CASE cb \in want
    <2>1. v = View
      BY <1>3 DEF Enable, View
    <2> QED
      BY <1>1, <2>1 DEF View
  <1>4. CASE cb \notin want
    <2>1. PICK n : /\ New(n, cb)
                   /\ v.list = Append(list, n)
                   /\ v.walked = IF shared THEN Append(walked, n) ELSE walked
                   /\ v.shared = shared
                   /\ v.want = want \cup {cb}
      BY <1>1, <1>2, <1>4, Enables
    <2>2. ~Has(list, cb)
      BY <1>1, <1>2, <1>4 DEF Good
    <2>3. n \in TimerEntry /\ n.cb = cb /\ n.id \notin Ids(list) /\ (n.oneshot <=> n.cb = "call")
      BY <2>1 DEF New
    <2> DEFINE W2 == want \cup {cb}
    <2>4. want \subseteq W2 /\ W2 \subseteq want \cup {n.cb} /\ n.cb \in W2
      BY <2>3
    <2> HIDE DEF W2
    <2>5. Good(Append(list, n), W2)
      BY <1>1, <2>2, <2>3, <2>4, GrowGood
    <2> QED
      BY <1>1, <2>1, <2>5 DEF W2
  <1> QED
    BY <1>3, <1>4

LEMMA MotherHandler ==
  ASSUME Inv, pos = 0, profile = "mother", NEW v \in HandlerOutcomes(View)
  PROVE  Good(v.list, v.want) /\ v.walked = walked /\ v.shared = shared
  <1> DEFINE idle == "check" \notin View.want
             timed == IF idle THEN register_timer(View, "check", FALSE) ELSE View
             busy == [timed EXCEPT !.want = @ \cup {"check"}]
             called == [busy EXCEPT !.want = @ \cup {"call"}]
             B == want \cup {"check"}
             C == B \cup {"call"}
  <1>1. Good(list, want) /\ Shape /\ ~shared
    BY IdleGood DEF Inv, PassInv
  <1>2. View = [list |-> list, walked |-> walked, shared |-> shared, want |-> want]
    BY DEF View
  <1>3. /\ list \in Seq(TimerEntry) /\ walked \in Seq(TimerEntry) /\ fresh \in Seq(TimerEntry)
        /\ FALSE \in BOOLEAN /\ TRUE \in BOOLEAN /\ "check" \in Callback /\ "call" \in Callback
        /\ "check" \in Mine /\ "call" \in Mine
    BY <1>1 DEF Shape, Callback, Mine
  <1>4. \E l : /\ timed = [list |-> l, walked |-> walked, shared |-> shared, want |-> want]
               /\ Good(l, want) /\ Good(l, B)
    <2>1. CASE "check" \in want
      <3>1. timed = View /\ B = want
        BY <1>2, <2>1
      <3> QED
        BY <1>1, <1>2, <3>1
    <2>2. CASE "check" \notin want
      <3>1. timed = register_timer(View, "check", FALSE)
        BY <1>2, <2>2
      <3>2. PICK n \in TimerEntry :
               /\ NewTo(n, "check", FALSE, list, walked)
               /\ Entered(register_timer(View, "check", FALSE), n, list, walked, shared, want)
        BY <1>2, <1>3, Registers
      <3>3. n.cb = "check" /\ (n.oneshot <=> n.cb = "call") /\ n.id \notin Ids(list)
        BY <3>2 DEF NewTo
      <3>4. Good(Append(list, n), want)
        BY <1>1, <1>3, <3>3, GrowGood
      <3>5. Good(Append(list, n), B)
        <4>1. want \subseteq B /\ B \subseteq want \cup {n.cb}
          BY <3>3
        <4> HIDE DEF B
        <4> QED
          BY <1>1, <1>3, <3>3, <4>1, GrowGood
      <3> HIDE DEF timed
      <3>6. timed = [list |-> Append(list, n), walked |-> walked, shared |-> shared, want |-> want]
        BY <1>1, <3>1, <3>2 DEF Entered
      <3> QED
        BY <3>4, <3>5, <3>6
    <2> QED
      BY <2>1, <2>2
  <1>5. HandlerOutcomes(View) = {timed, busy} \cup (IF "call" \in View.want THEN {}
                                  ELSE {register_timer(called, "call", TRUE)})
    BY DEF HandlerOutcomes
  <1> HIDE DEF timed
  <1>6. PICK l : /\ timed = [list |-> l, walked |-> walked, shared |-> shared, want |-> want]
                 /\ Good(l, want) /\ Good(l, B)
    BY <1>4
  <1>7. busy = [list |-> l, walked |-> walked, shared |-> shared, want |-> B]
    <2>1. timed.want = want /\ timed = [list |-> l, walked |-> walked, shared |-> shared, want |-> want]
      BY <1>6
    <2>2. busy = [timed EXCEPT !.want = B]
      BY <2>1
    <2> HIDE DEF B, busy
    <2> QED
      BY <2>1, <2>2
  <1>8. called = [list |-> l, walked |-> walked, shared |-> shared, want |-> C]
    <2> HIDE DEF busy, B
    <2> QED
      BY <1>7
  <1> HIDE DEF busy, called, B, C
  <1>9. CASE v = timed
    BY <1>6, <1>9
  <1>10. CASE v = busy
    BY <1>6, <1>7, <1>10
  <1>11. CASE v = register_timer(called, "call", TRUE)
    <2>0. l \in Seq(TimerEntry)
      BY <1>6 DEF Good
    <2>1. PICK n \in TimerEntry : /\ NewTo(n, "call", TRUE, l, walked)
                                  /\ Entered(v, n, l, walked, shared, C)
      BY <1>3, <1>8, <1>11, <2>0, Registers
    <2>2. n.cb = "call" /\ (n.oneshot <=> n.cb = "call") /\ n.id \notin Ids(l)
      BY <2>1 DEF NewTo
    <2>3. B \subseteq C /\ C \subseteq B \cup {n.cb}
      BY <2>2 DEF C
    <2>4. Good(Append(l, n), C)
      BY <1>3, <1>6, <2>2, <2>3, GrowGood
    <2>5. v = [list |-> Append(l, n), walked |-> walked, shared |-> shared, want |-> C]
      BY <1>1, <2>1 DEF Entered
    <2> QED
      BY <2>4, <2>5
  <1> QED
    BY <1>5, <1>9, <1>10, <1>11

LEMMA HandlerStep ==
  ASSUME Inv, Handler
  PROVE  Inv'
  <1>1. PICK v \in HandlerOutcomes(View) : Apply(v)
    BY DEF Handler
  <1>2. /\ pos = 0 /\ pos' = 0 /\ profile' = profile /\ profile \in Profiles
        /\ walked = <<>> /\ fresh' = <<>> /\ shared = FALSE
    BY DEF Handler, Inv, PassInv, Shape
  <1>3. Good(v.list, v.want) /\ v.walked = walked /\ v.shared = shared
    <2>1. CASE profile = "mother"
      BY <1>2, <2>1, MotherHandler
    <2>2. CASE profile = "meta"
      <3>1. v = Enable(View, "trans") /\ "trans" \in Mine
        BY <2>2 DEF HandlerOutcomes, Mine
      <3> QED
        BY <1>2, <2>2, <3>1, FlagHandler
    <2>3. CASE profile = "hostmon"
      <3>1. \E cb \in {"delayed", "long"} : v = Enable(View, cb)
        BY <2>3 DEF HandlerOutcomes
      <3>2. \A cb \in {"delayed", "long"} : cb \in Mine /\ cb # "call"
        BY <2>3 DEF Mine
      <3> QED
        BY <1>2, <2>3, <3>1, <3>2, FlagHandler
    <2> QED
      BY <1>2, <2>1, <2>2, <2>3, TimerAssumption
  <1> QED
    BY <1>1, <1>2, <1>3, GoodIdle DEF Apply

LEMMA PassStartStep ==
  ASSUME Inv, PassStart
  PROVE  Inv'
  <1>0. Shape /\ PassInv /\ pos = 0 /\ Good(list, want)
    BY IdleGood DEF Inv, PassStart
  <1>1. /\ walked' = list /\ shared' = TRUE /\ pos' = 1 /\ fresh' = <<>>
        /\ profile' = profile /\ list' = list /\ want' = want
    BY DEF PassStart
  <1>2. <<>> \in Seq(TimerEntry) /\ Elements(<<>>) = {} /\ Kinds(<<>>) /\ Distinct(<<>>)
        /\ OneEach(<<>>)
    BY DEF Elements, Kinds, Distinct, OneEach
  <1>3. list \in Seq(TimerEntry) /\ Len(list) \in Nat /\ DOMAIN list = 1..Len(list)
    BY <1>0 DEF Shape
  <1>4. Mine' = Mine
    BY <1>1 DEF Mine
  <1>5. Rest' = Elements(list)
    <2>1. Rest' = {list[j] : j \in {k \in DOMAIN list : k >= 1}}
      BY <1>1 DEF Rest
    <2>2. \A k \in DOMAIN list : k >= 1
      BY <1>3
    <2> QED
      BY <2>1, <2>2 DEF Elements
  <1>6. Shape'
    BY <1>0, <1>1, <1>2, <1>4 DEF Shape, Kinds
  <1>7. PassInv'
    BY <1>0, <1>1, <1>2, <1>3 DEF PassInv
  <1>8. profile # "mother" => FlagInv'
    BY <1>0, <1>1, <1>2, <1>5 DEF FlagInv, Good
  <1>9. profile = "meta" => MetaInv'
    BY <1>0, <1>1 DEF MetaInv, Good
  <1>10. profile = "mother" => MotherInv'
    <2>1. \A cb : Has(list, cb) => \E y \in Elements(list) : y.cb = cb
      BY DEF Has, Elements
    <2> QED
      BY <1>0, <1>1, <1>5, <2>1 DEF MotherInv, Good
  <1> QED
    BY <1>1, <1>6, <1>7, <1>8, <1>9, <1>10 DEF Inv

LEMMA PassEndStep ==
  ASSUME Inv, PassEnd
  PROVE  Inv'
  <1>0. Shape /\ PassInv /\ pos = Len(walked) + 1
    BY DEF Inv, PassEnd
  <1>1. /\ list' = fresh /\ walked' = <<>> /\ fresh' = <<>> /\ pos' = 0 /\ shared' = FALSE
        /\ profile' = profile /\ want' = want
    BY DEF PassEnd
  <1>2. walked \in Seq(TimerEntry) /\ Len(walked) \in Nat /\ DOMAIN walked = 1..Len(walked)
    BY <1>0 DEF Shape
  <1>3. Rest = {} /\ pos > 0
    BY <1>0, <1>2 DEF Rest
  <1>4. profile # "mother" => /\ Permanent(profile) \subseteq want /\ OneEach(fresh)
                              /\ \A cb \in Callback : cb \in want <=> Has(fresh, cb)
    <2> SUFFICES ASSUME profile # "mother"
                 PROVE  /\ Permanent(profile) \subseteq want /\ OneEach(fresh)
                        /\ \A cb \in Callback : cb \in want <=> Has(fresh, cb)
      OBVIOUS
    <2>1. FlagInv
      BY DEF Inv
    <2>2. Elements(list) = Elements(fresh)
      BY <1>3, <2>1 DEF FlagInv
    <2>3. \A s, cb : Has(s, cb) <=> \E e \in Elements(s) : e.cb = cb
      BY DEF Has, Elements
    <2>4. \A cb : Has(list, cb) <=> Has(fresh, cb)
      BY <2>2, <2>3
    <2> QED
      BY <2>1, <2>4 DEF FlagInv
  <1>5. profile = "meta" => First(fresh, "check")
    <2> SUFFICES ASSUME profile = "meta" PROVE First(fresh, "check")
      OBVIOUS
    <2>1. MetaInv
      BY DEF Inv
    <2>2. 1 \in DOMAIN walked
      BY <1>2, <1>3, <2>1, FirstOne DEF MetaInv
    <2> QED
      BY <1>0, <1>2, <2>1, <2>2 DEF MetaInv
  <1>6. profile = "mother" => \A cb \in want : Has(fresh, cb)
    BY <1>3 DEF Inv, MotherInv
  <1>7. Good(fresh, want)
    BY <1>0, <1>4, <1>5, <1>6 DEF Good, Shape, PassInv
  <1> QED
    BY <1>0, <1>1, <1>7, GoodIdle DEF Shape

LEMMA AbortStep ==
  ASSUME Inv, Abort
  PROVE  Inv'
  <1>1. Good(list, want)
    BY DEF Good, Inv, Shape, PassInv, FlagInv, MetaInv, Abort
  <1> QED
    BY <1>1, GoodIdle DEF Abort, Inv, Shape

-----------------------------------------------------------------------------
(* A callback, case by case of what it leaves behind.                      *)
LEMMA Concatenated ==
  ASSUME NEW s \in Seq(TimerEntry), NEW e \in TimerEntry
  PROVE  s \o <<e>> = Append(s, e) /\ s \o <<>> = s
  OBVIOUS

(* In the daemons with flags an entry of the walk is one of the list.      *)
LEMMA StillListed ==
  ASSUME Inv, pos \in DOMAIN walked, profile # "mother"
  PROVE  LET e == walked[pos]
         IN  /\ e \in Elements(list) /\ e \in TimerEntry /\ e.id \in Ids(list)
             /\ e.cb \in want /\ e.cb \in Mine /\ e.cb # "call" /\ ~e.oneshot
  <1> DEFINE e == walked[pos]
  <1>0. Shape /\ PassInv /\ FlagInv
    BY DEF Inv
  <1>1. e \in TimerEntry /\ e.cb \in Mine /\ (e.oneshot <=> e.cb = "call")
    BY <1>0 DEF Shape, Kinds
  <1>2. e.cb # "call" /\ e.cb \in Callback
    BY <1>0, <1>1, TimerAssumption DEF Shape, Mine, Callback
  <1>3. pos \in Nat \ {0} /\ e \in Rest
    <2>1. pos \in Nat \ {0}
      BY <1>0 DEF Shape
    <2> QED
      BY <2>1 DEF Rest
  <1>4. e \in Elements(list)
    BY <1>0, <1>3 DEF FlagInv
  <1>5. e.id \in Ids(list) /\ Has(list, e.cb)
    BY <1>0, <1>4, SameId DEF Shape, PassInv
  <1>6. e.cb \in want
    BY <1>0, <1>2, <1>5 DEF FlagInv
  <1> QED
    BY <1>1, <1>2, <1>4, <1>5, <1>6

(* The outcome that changes nothing.                                       *)
LEMMA QuietCall ==
  ASSUME Inv, pos \in DOMAIN walked, profile # "mother", Apply(View),
         fresh' = fresh \o Survivors(walked[pos], View), pos' = pos + 1, profile' = profile
  PROVE  Inv'
  <1> DEFINE e == walked[pos]
  <1>1. e \in TimerEntry /\ e.id \in Ids(list) /\ ~e.oneshot
    BY StillListed
  <1>2. UNCHANGED <<list, walked, shared, want>>
    BY DEF Apply, View
  <1> HIDE DEF e
  <1>3. Survivors(e, View) = <<e>>
    BY <1>1 DEF Survivors, View
  <1>4. fresh \in Seq(TimerEntry)
    BY DEF Inv, Shape
  <1>5. fresh' = Append(fresh, e)
    BY <1>1, <1>3, <1>4, Concatenated DEF e
  <1> QED
    BY <1>2, <1>5, KeepStep DEF e

(* The callback switches itself off.                                       *)
LEMMA SelfOff ==
  ASSUME Inv, pos \in DOMAIN walked, NEW cb, walked[pos].cb = cb, cb # "call",
         profile # "mother" => cb \notin Permanent(profile),
         profile = "mother" => cb = "check",
         NEW v, v.list = Without(list, cb), v.walked = walked, v.shared = FALSE,
         v.want = want \ {cb}, Apply(v),
         fresh' = fresh \o Survivors(walked[pos], v), pos' = pos + 1, profile' = profile
  PROVE  Inv'
  <1> DEFINE e == walked[pos]
             l == Without(list, cb)
  <1>0. Shape /\ PassInv
    BY DEF Inv
  <1>1. e \in TimerEntry /\ e.cb = cb /\ ~e.oneshot /\ e \in Elements(walked)
    BY <1>0 DEF Shape, Kinds, Elements
  <1>2. \A x \in Elements(list) : x.id = e.id => x = e
    <2>1. CASE profile = "mother"
      <3>1. Elements(list) \subseteq Elements(walked)
        BY <1>0, <2>1 DEF Inv, MotherInv, Shape
      <3> QED
        BY <1>0, <1>1, <3>1, SameId DEF Shape, PassInv
    <2>2. CASE profile # "mother"
      <3>1. e \in Elements(list)
        BY <2>2, StillListed
      <3> QED
        BY <1>0, <3>1, SameId DEF Shape, PassInv
    <2> QED
      BY <2>1, <2>2
  <1> HIDE DEF e
  <1>3. l \in Seq(TimerEntry) /\ Elements(l) = {x \in Elements(list) : x.cb # cb}
    BY <1>0, Filtered DEF Shape
  <1> HIDE DEF l
  <1>4. e.id \notin Ids(l)
    <2> SUFFICES ASSUME NEW i \in DOMAIN l, l[i].id = e.id PROVE FALSE
      BY DEF Ids
    <2>1. l[i] \in Elements(l)
      BY DEF Elements
    <2> QED
      BY <1>1, <1>2, <1>3, <2>1
  <1>5. NewEntries(l) = <<>>
    BY <1>3, NoNewEntries
  <1>6. Survivors(e, v) = <<>>
    BY <1>1, <1>4, <1>5 DEF Survivors, l
  <1>7. fresh' = fresh
    <2>1. fresh \in Seq(TimerEntry) /\ fresh' = fresh \o Survivors(e, v)
      BY <1>0 DEF Shape, e
    <2> QED
      BY <1>1, <1>6, <2>1, Concatenated
  <1>8. list' = Without(list, cb) /\ walked' = walked /\ shared' = FALSE /\ want' = want \ {cb}
    BY DEF Apply
  <1> QED
    BY <1>7, <1>8, DisableStep

LEMMA MetaCall ==
  ASSUME Inv, profile = "meta", Call
  PROVE  Inv'
  <1> DEFINE e == walked[pos]
  <1>1. /\ pos \in DOMAIN walked /\ pos' = pos + 1 /\ profile' = profile
    BY DEF Call
  <1>2. PICK v \in Outcomes(e.cb, View) : Apply(v) /\ fresh' = fresh \o Survivors(e, v)
    BY DEF Call
  <1>3. e \in TimerEntry /\ e.id \in Ids(list) /\ e.cb \in want /\ e.cb \in {"check", "trans"}
        /\ ~e.oneshot /\ e \in Elements(list) /\ profile # "mother"
    BY <1>1, StillListed DEF Mine
  <1>4. Shape /\ PassInv /\ FlagInv /\ fresh \in Seq(TimerEntry)
    BY DEF Inv, Shape
  <1>5. CASE v = View
    BY <1>1, <1>2, <1>3, <1>5, QuietCall
  <1>6. CASE e.cb = "check" /\ v = Enable(View, "trans") /\ "trans" \notin want
    <2>1. PICK n : /\ New(n, "trans")
                   /\ v.list = Append(list, n)
                   /\ v.walked = IF shared THEN Append(walked, n) ELSE walked
                   /\ v.shared = shared
                   /\ v.want = want \cup {"trans"}
      BY <1>4, <1>6, Enables DEF Callback
    <2>2. e.id \in Ids(v.list)
      <3>1. PICK i \in DOMAIN list : e.id = list[i].id
        BY <1>3 DEF Ids
      <3>2. list \in Seq(TimerEntry) /\ n \in TimerEntry
        BY <1>4, <2>1 DEF Shape, New
      <3>3. i \in DOMAIN v.list /\ v.list[i] = list[i]
        BY <2>1, <3>2, Appended
      <3> QED
        BY <3>1, <3>3 DEF Ids
    <2>3. Survivors(e, v) = <<e>>
      BY <1>3, <2>2 DEF Survivors
    <2> HIDE DEF e
    <2>4. fresh' = Append(fresh, e)
      BY <1>2, <1>3, <1>4, <2>3, Concatenated
    <2>5. /\ list' = Append(list, n) /\ shared' = shared /\ want' = want \cup {"trans"}
          /\ walked' = IF shared THEN Append(walked, n) ELSE walked
      BY <1>2, <2>1 DEF Apply
    <2> QED
      BY <1>1, <1>6, <2>1, <2>4, <2>5, EnableStep DEF e
  <1>7. CASE e.cb = "trans" /\ v = Disable(View, "trans")
    <2>1. v.list = Without(list, "trans") /\ v.walked = walked /\ v.shared = FALSE
          /\ v.want = want \ {"trans"}
      BY <1>3, <1>7, Disables
    <2>2. "trans" \notin Permanent(profile)
      BY DEF Permanent
    <2> QED
      BY <1>1, <1>2, <1>3, <1>7, <2>1, <2>2, SelfOff
  <1>8. CASE e.cb = "trans" /\ v = Enable(Disable(View, "trans"), "trans")
    <2> DEFINE l == Without(list, "trans")
    <2>1. PICK n : /\ New(n, "trans") /\ v.list = Append(l, n)
                   /\ v.walked = walked /\ v.shared = FALSE /\ v.want = want
      BY <1>1, <1>3, <1>8, Renews
    <2>2. l \in Seq(TimerEntry) /\ Elements(l) = {x \in Elements(list) : x.cb # "trans"}
          /\ Distinct(l)
      BY <1>4, Filtered DEF Shape, PassInv
    <2>3. l = Without(list, "trans")
      OBVIOUS
    <2> HIDE DEF l, e
    <2>4. n \in TimerEntry /\ n.id \notin Ids(list) /\ n.id \notin Ids(l)
      <3>1. \A x \in Elements(l) : x.id \in Ids(list)
        BY <2>2 DEF Elements, Ids
      <3>2. n \in TimerEntry /\ n.id \notin Ids(list)
        BY <2>1 DEF New
      <3>3. \A i \in DOMAIN l : l[i] \in Elements(l)
        BY DEF Elements
      <3> QED
        BY <3>1, <3>2, <3>3 DEF Ids
    <2>5. v.list \in Seq(TimerEntry) /\ Distinct(v.list) /\ Elements(v.list) = Elements(l) \cup {n}
      BY <2>1, <2>2, <2>4, Appended
    <2>6. e.id \notin Ids(v.list)
      <3> SUFFICES ASSUME NEW i \in DOMAIN v.list, v.list[i].id = e.id PROVE FALSE
        BY DEF Ids
      <3>1. v.list[i] \in Elements(l) \cup {n}
        BY <2>5 DEF Elements
      <3>2. \A x \in Elements(list) : x.id = e.id => x = e
        BY <1>3, <1>4, SameId DEF Shape, PassInv
      <3> QED
        BY <1>3, <1>8, <2>2, <2>4, <3>1, <3>2
    <2>7. NewEntries(v.list) = <<n>>
      <3>1. \A x \in Elements(v.list) : x = n \/ x.id \in Ids(list)
        BY <2>2, <2>5 DEF Elements, Ids
      <3>2. n \in Elements(v.list)
        BY <2>5
      <3> QED
        BY <2>4, <2>5, <3>1, <3>2, OneNewEntry
    <2>8. fresh' = Append(fresh, n)
      BY <1>2, <1>3, <1>4, <2>4, <2>6, <2>7, Concatenated DEF Survivors
    <2>9. list' = Append(l, n) /\ walked' = walked /\ shared' = FALSE /\ want' = want
      BY <1>2, <2>1 DEF Apply
    <2>10. walked[pos].cb = "trans" /\ "trans" \in want
      BY <1>3, <1>8 DEF e
    <2> QED
      BY <1>1, <2>1, <2>3, <2>8, <2>9, <2>10, RenewStep
  <1>9. v = View \/ (e.cb = "check" /\ v = Enable(View, "trans") /\ "trans" \notin want)
        \/ (e.cb = "trans" /\ v = Disable(View, "trans"))
        \/ (e.cb = "trans" /\ v = Enable(Disable(View, "trans"), "trans"))
    <2>1. "trans" \in want => Enable(View, "trans") = View
      BY DEF Enable, View
    <2> HIDE DEF e
    <2>2. CASE e.cb = "check"
      BY <1>2, <2>1, <2>2 DEF Outcomes
    <2>3. CASE e.cb = "trans"
      BY <1>2, <2>3 DEF Outcomes
    <2> QED
      BY <1>3, <2>2, <2>3
  <1> QED
    BY <1>5, <1>6, <1>7, <1>8, <1>9

LEMMA HostmonCall ==
  ASSUME Inv, profile = "hostmon", Call
  PROVE  Inv'
  <1> DEFINE e == walked[pos]
  <1>1. /\ pos \in DOMAIN walked /\ pos' = pos + 1 /\ profile' = profile
    BY DEF Call
  <1>2. PICK v \in Outcomes(e.cb, View) : Apply(v) /\ fresh' = fresh \o Survivors(e, v)
    BY DEF Call
  <1>3. e.cb \in want /\ e.cb \in {"cpu", "delayed", "long"} /\ profile # "mother"
    BY <1>1, StillListed DEF Mine
  <1>4. CASE v = View
    BY <1>1, <1>2, <1>3, <1>4, QuietCall
  <1>5. CASE e.cb \in {"delayed", "long"} /\ v = Disable(View, e.cb)
    <2> DEFINE cb == e.cb
    <2>1. v.list = Without(list, cb) /\ v.walked = walked /\ v.shared = FALSE
          /\ v.want = want \ {cb}
      BY <1>3, <1>5, Disables
    <2>2. cb \notin Permanent(profile) /\ cb # "call" /\ walked[pos].cb = cb
      BY <1>5 DEF Permanent
    <2> HIDE DEF cb
    <2> QED
      BY <1>1, <1>2, <1>3, <2>1, <2>2, SelfOff
  <1>6. v = View \/ (e.cb \in {"delayed", "long"} /\ v = Disable(View, e.cb))
    <2> HIDE DEF e
    <2>1. CASE e.cb = "cpu"
      BY <1>2, <2>1 DEF Outcomes
    <2>2. CASE e.cb \in {"delayed", "long"}
      BY <1>2, <2>2 DEF Outcomes
    <2> QED
      BY <1>3, <2>1, <2>2
  <1> QED
    BY <1>4, <1>5, <1>6

LEMMA MotherCall ==
  ASSUME Inv, profile = "mother", Call
  PROVE  Inv'
  <1> DEFINE e == walked[pos]
             off == unregister_timer([View EXCEPT !.want = @ \ {"check"}], "check")
             done == [View EXCEPT !.want = @ \ {"call"}]
  <1>0. Shape /\ PassInv /\ MotherInv
    BY DEF Inv
  <1>1. /\ pos \in DOMAIN walked /\ pos' = pos + 1 /\ profile' = profile
    BY DEF Call
  <1>2. PICK v \in Outcomes(e.cb, View) : Apply(v) /\ fresh' = fresh \o Survivors(e, v)
    BY DEF Call
  <1>3. e \in TimerEntry /\ e.cb \in {"check", "call"} /\ (e.oneshot <=> e.cb = "call")
        /\ pos > 0 /\ e.id \in Ids(walked) /\ fresh \in Seq(TimerEntry)
    <2>1. e \in TimerEntry /\ e.cb \in Mine /\ (e.oneshot <=> e.cb = "call")
      BY <1>0, <1>1 DEF Shape, Kinds
    <2>2. pos > 0 /\ e.id \in Ids(walked)
      BY <1>0, <1>1 DEF Shape, Ids
    <2> QED
      BY <1>0, <2>1, <2>2 DEF Mine, Shape
  <1>4. CASE e.cb = "check" /\ v = View
    <2>1. UNCHANGED <<list, walked, shared, want>>
      BY <1>2, <1>4 DEF Apply, View
    <2>2. CASE e.id \in Ids(list)
      <3>1. Survivors(e, v) = <<e>>
        BY <1>3, <1>4, <2>2 DEF Survivors, View
      <3> HIDE DEF e
      <3>2. fresh' = Append(fresh, e)
        BY <1>2, <1>3, <3>1, Concatenated
      <3> QED
        BY <1>1, <2>1, <3>2, KeepStep DEF e
    <2>3. CASE e.id \notin Ids(list)
      <3>1. "check" \notin want
        BY <1>0, <1>3, <2>3 DEF MotherInv, PassInv
      <3>2. NewEntries(list) = <<>>
        BY <1>0, NoNewEntries DEF Shape
      <3>3. Survivors(e, v) = <<>>
        BY <1>3, <1>4, <2>3, <3>2 DEF Survivors, View
      <3>4. fresh' = fresh
        BY <1>2, <1>3, <3>3, Concatenated
      <3> QED
        BY <1>1, <1>4, <2>1, <3>1, <3>4, DropStep
    <2> QED
      BY <2>2, <2>3
  <1>5. CASE e.cb = "check" /\ v = off
    <2>1. v.list = Without(list, "check") /\ v.walked = walked /\ v.shared = FALSE
          /\ v.want = want \ {"check"}
      BY <1>5 DEF unregister_timer, View
    <2> QED
      BY <1>1, <1>2, <1>5, <2>1, SelfOff
  <1>6. CASE e.cb = "call" /\ v = done
    <2>1. v.list = list /\ v.walked = walked /\ v.shared = shared /\ v.want = want \ {"call"}
      BY <1>6 DEF View
    <2>2. Survivors(e, v) = <<>>
      BY <1>3, <1>6 DEF Survivors
    <2>3. fresh' = fresh
      BY <1>2, <1>3, <2>2, Concatenated
    <2>4. UNCHANGED <<list, walked, shared>> /\ want' = want \ {"call"}
      BY <1>2, <2>1 DEF Apply
    <2>5. want' \subseteq want /\ walked[pos].cb \notin want'
      BY <1>6, <2>4
    <2> QED
      BY <1>1, <2>3, <2>4, <2>5, DropStep
  <1>7. (e.cb = "check" /\ v = View) \/ (e.cb = "check" /\ v = off) \/ (e.cb = "call" /\ v = done)
    <2> HIDE DEF e
    <2>1. CASE e.cb = "check"
      <3>1. Outcomes(e.cb, View) = {View} \cup (IF "call" \in View.want THEN {} ELSE {off})
        BY <2>1 DEF Outcomes
      <3> HIDE DEF off
      <3> QED
        BY <1>2, <2>1, <3>1
    <2>2. CASE e.cb = "call"
      <3>1. Outcomes(e.cb, View) = {done}
        BY <2>2 DEF Outcomes
      <3> HIDE DEF done
      <3> QED
        BY <1>2, <2>2, <3>1
    <2> QED
      BY <1>3, <2>1, <2>2
  <1> QED
    BY <1>4, <1>5, <1>6, <1>7

-----------------------------------------------------------------------------
LEMMA InitInv == Init => Inv
  <1> SUFFICES ASSUME Init PROVE Inv
    OBVIOUS
  <1> DEFINE cb0 == IF profile = "hostmon" THEN "cpu" ELSE "check"
             e == Entry(1, cb0)
  <1>1. /\ profile \in Profiles /\ list = <<e>> /\ want = Permanent(profile)
        /\ walked = <<>> /\ fresh = <<>> /\ pos = 0 /\ shared = FALSE
    BY DEF Init
  <1>2. e \in TimerEntry /\ e.cb = cb0 /\ ~e.oneshot /\ cb0 \in Mine /\ cb0 # "call"
    BY DEF Entry, TimerEntry, Callback, Mine
  <1>3. /\ profile # "mother" => Permanent(profile) = {cb0}
        /\ profile = "mother" => Permanent(profile) = {}
        /\ profile = "meta" => cb0 = "check"
        /\ Permanent(profile) \subseteq Mine
    BY <1>1, TimerAssumption DEF Permanent, Mine
  <1> HIDE DEF e, cb0
  <1>4. /\ list \in Seq(TimerEntry) /\ DOMAIN list = {1} /\ list[1] = e /\ list # <<>>
    BY <1>1, <1>2
  <1>5. /\ Kinds(list) /\ Distinct(list) /\ OneEach(list)
        /\ \A cb : Has(list, cb) <=> cb = cb0
        /\ First(list, cb0)
    BY <1>2, <1>4 DEF Kinds, Distinct, OneEach, Has, First
  <1>6. <<>> \in Seq(TimerEntry) /\ Elements(<<>>) = {} /\ Kinds(<<>>) /\ Distinct(<<>>)
        /\ OneEach(<<>>) /\ Len(<<>>) = 0
    BY DEF Elements, Kinds, Distinct, OneEach
  <1>7. Shape
    BY <1>1, <1>3, <1>4, <1>5, <1>6 DEF Shape
  <1>8. PassInv
    BY <1>1, <1>5, <1>6 DEF PassInv
  <1>9. profile # "mother" => FlagInv
    BY <1>1, <1>3, <1>5, <1>6 DEF FlagInv
  <1>10. profile = "meta" => MetaInv
    BY <1>1, <1>3, <1>5 DEF MetaInv
  <1>11. profile = "mother" => MotherInv
    BY <1>1, <1>3 DEF MotherInv
  <1> QED
    BY <1>7, <1>8, <1>9, <1>10, <1>11 DEF Inv

LEMMA NextInv == Inv /\ [Next]_vars => Inv'
  <1> SUFFICES ASSUME Inv, [Next]_vars PROVE Inv'
    OBVIOUS
  <1>1. CASE Handler
    BY <1>1, HandlerStep
  <1>2. CASE PassStart
    BY <1>2, PassStartStep
  <1>3. CASE Call
    <2>1. profile \in {"meta", "hostmon", "mother"}
      BY TimerAssumption DEF Inv, Shape
    <2> QED
      BY <1>3, <2>1, MetaCall, HostmonCall, MotherCall
  <1>4. CASE NotDue
    BY <1>4, KeepStep DEF NotDue
  <1>5. CASE PassEnd
    BY <1>5, PassEndStep
  <1>6. CASE Abort
    BY <1>6, AbortStep
  <1>7. CASE UNCHANGED vars
    <2>1. UNCHANGED <<profile, list, walked, shared, pos, fresh, want>>
      BY <1>7 DEF vars
    <2>2. Mine' = Mine /\ Rest' = Rest
      BY <2>1 DEF Mine, Rest
    <2>3. Shape'
      BY <2>1, <2>2 DEF Inv, Shape, Kinds
    <2>4. PassInv'
      BY <2>1, <2>2 DEF Inv, PassInv
    <2>5. profile # "mother" => FlagInv'
      BY <2>1, <2>2 DEF Inv, FlagInv
    <2>6. profile = "meta" => MetaInv'
      BY <2>1 DEF Inv, MetaInv
    <2>7. profile = "mother" => MotherInv'
      BY <2>1, <2>2 DEF Inv, MotherInv
    <2> QED
      BY <2>1, <2>3, <2>4, <2>5, <2>6, <2>7 DEF Inv
  <1> QED
    BY <1>1, <1>2, <1>3, <1>4, <1>5, <1>6, <1>7 DEF Next

LEMMA AlwaysInv == Spec => []Inv
  BY InitInv, NextInv, PTL DEF Spec

(* Every entry of the three lists is one the daemons register, and a list  *)
(* never holds the same entry twice, although a pass may both keep an      *)
(* entry and come to a copy of it in the list the callbacks changed.       *)
THEOREM TypeCorrect == Spec => []TypeOK
  <1>1. Inv => TypeOK
    <2> SUFFICES ASSUME Inv PROVE TypeOK
      OBVIOUS
    <2>1. Mine \subseteq Callback
      BY DEF Mine, Callback
    <2>2. Shape /\ Distinct(list)
      BY DEF Inv, PassInv
    <2>3. ASSUME NEW s \in Seq(TimerEntry), Kinds(s) PROVE Entries(s)
      <3>1. ASSUME NEW i \in DOMAIN s PROVE s[i].cb \in Callback /\ s[i].oneshot \in BOOLEAN
        <4>1. s[i] \in TimerEntry
          OBVIOUS
        <4> QED
          BY <4>1 DEF TimerEntry
      <3> QED
        BY <3>1 DEF Entries
    <2> QED
      BY <2>1, <2>2, <2>3 DEF TypeOK, Shape, Distinct
  <1> QED
    BY <1>1, AlwaysInv, PTL

(* _handle_timer loses no timer: after every pass, whatever its callbacks  *)
(* registered and unregistered and wherever a signal ended it, there is an *)
(* entry for each callback the daemon believes to be registered.           *)
THEOREM TimersAreKept == Spec => []TimerKept
  <1>1. Inv => TimerKept
    <2> SUFFICES ASSUME Inv, pos = 0, NEW cb \in want PROVE Has(list, cb)
      BY DEF TimerKept
    <2>1. want \subseteq Callback
      BY DEF Inv, Shape, Mine, Callback
    <2> QED
      BY <2>1, IdleGood DEF Good
  <1> QED
    BY <1>1, AlwaysInv, PTL

(* The flags of meta-server and host-monitoring agree with __timer_list:   *)
(* one entry for each callback that is on, none for one that is off.       *)
THEOREM TimersAgree == Spec => []TimersExact
  <1>1. Inv => TimersExact
    <2> SUFFICES ASSUME Inv, pos = 0, profile # "mother", NEW cb \in Callback
                 PROVE  Cardinality({i \in DOMAIN list : list[i].cb = cb})
                          = IF cb \in want THEN 1 ELSE 0
      BY DEF TimersExact
    <2> DEFINE S == {i \in DOMAIN list : list[i].cb = cb}
    <2>1. OneEach(list) /\ (cb \in want <=> Has(list, cb))
      BY DEF Inv, FlagInv
    <2>2. CASE cb \in want
      <3>1. PICK i \in DOMAIN list : list[i].cb = cb
        BY <2>1, <2>2 DEF Has
      <3>2. S = {i}
        BY <2>1, <3>1 DEF OneEach
      <3> HIDE DEF S
      <3>3. Cardinality(S) = 1
        BY <3>2, FS_Singleton
      <3> QED
        BY <2>2, <3>3 DEF S
    <2>3. CASE cb \notin want
      <3>1. S = {}
        BY <2>1, <2>3 DEF Has
      <3> HIDE DEF S
      <3>2. Cardinality(S) = 0
        BY <3>1, FS_EmptySet
      <3> QED
        BY <2>3, <3>2 DEF S
    <2> QED
      BY <2>2, <2>3
  <1> QED
    BY <1>1, AlwaysInv, PTL
=============================================================================
