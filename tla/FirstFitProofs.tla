---------------------------- MODULE FirstFitProofs ----------------------------
(***************************************************************************)
(* Theorems about FirstFit, for any number of hosts and VMs, any demands,  *)
(* any capacities and any set of hosts to check.                           *)
(***************************************************************************)
EXTENDS FirstFit, SumsProofs, SequenceTheorems

-----------------------------------------------------------------------------
(* Sums of demands.                                                          *)

LEMMA VMsAreFinite == IsFiniteSet(VMs)
  BY FirstFitAssumption, FS_Interval DEF VMs

LEMMA GivenSizes ==
  ASSUME given \in Given
  PROVE  given.load \in [VMs -> Nat] /\ given.ram \in [VMs -> Nat]
  BY FirstFitAssumption DEF Given

LEMMA DemandType ==
  ASSUME given \in Given, NEW S \in SUBSET VMs
  PROVE  /\ DemandOf(given, S) \in [cpu : Nat, mem : Nat]
         /\ S = {} => DemandOf(given, S) = [cpu |-> 0, mem |-> 0]
  BY GivenSizes, VMsAreFinite, UnitsAreFinite, UnitsOfNone DEF DemandOf

LEMMA DemandOfMore ==
  ASSUME given \in Given, NEW S \in SUBSET VMs, NEW v \in VMs \ S
  PROVE  DemandOf(given, S \cup {v}) = Plus(DemandOf(given, S), v)
  BY GivenSizes, VMsAreFinite, UnitsOfMore DEF DemandOf, Plus

LEMMA DemandOfLess ==
  ASSUME given \in Given, NEW S \in SUBSET VMs, NEW v \in S
  PROVE  DemandOf(given, S \ {v}) = Minus(DemandOf(given, S), v)
<1> DEFINE R == S \ {v}
<1>1. R \in SUBSET VMs /\ v \in VMs \ R /\ S = R \cup {v}
  OBVIOUS
<1> HIDE DEF R
<1>2. DemandOf(given, S) = Plus(DemandOf(given, R), v)
  BY <1>1, DemandOfMore
<1>3. DemandOf(given, R) \in [cpu : Nat, mem : Nat] /\ given.load[v] \in Nat /\ given.ram[v] \in Nat
  BY <1>1, DemandType, GivenSizes
<1>4. Minus(Plus(DemandOf(given, R), v), v) = DemandOf(given, R)
  BY <1>3 DEF Minus, Plus
<1> QED BY <1>2, <1>4 DEF R

LEMMA DemandOfFewer ==
  ASSUME given \in Given, NEW T \in SUBSET VMs, NEW S \in SUBSET T
  PROVE  /\ DemandOf(given, S).cpu <= DemandOf(given, T).cpu
         /\ DemandOf(given, S).mem <= DemandOf(given, T).mem
  BY GivenSizes, VMsAreFinite, UnitsOfFewer DEF DemandOf

-----------------------------------------------------------------------------
(* The VMs taken out, a sequence without duplicates.                         *)

Distinct(q) == \A i, j \in DOMAIN q : q[i] = q[j] => i = j

LEMMA InsertAtParts ==
  ASSUME NEW S, NEW q \in Seq(S), NEW v \in S, NEW i \in 1..(Len(q) + 1)
  PROVE  /\ InsertAt(q, i, v) \in Seq(S) /\ Len(InsertAt(q, i, v)) = Len(q) + 1
         /\ \A j \in 1..(i - 1) : InsertAt(q, i, v)[j] = q[j]
         /\ InsertAt(q, i, v)[i] = v
         /\ \A j \in i..Len(q) : InsertAt(q, i, v)[j + 1] = q[j]
<1> DEFINE n == Len(q)
           a == SubSeq(q, 1, i - 1)
           b == <<v>>
           c == SubSeq(q, i, n)
           d == a \o b
<1>0. n \in Nat /\ i \in Nat /\ 1 <= i /\ i <= n + 1
  OBVIOUS
<1>1. /\ a \in Seq(S) /\ Len(a) = i - 1
      /\ \A j \in 1..(i - 1) : a[j] = q[j]
  BY <1>0
<1>2. b \in Seq(S) /\ Len(b) = 1 /\ b[1] = v
  OBVIOUS
<1>3. /\ c \in Seq(S) /\ Len(c) = n - i + 1
      /\ \A j \in 1..(n - i + 1) : c[j] = q[j + i - 1]
  BY <1>0
<1>4. InsertAt(q, i, v) = d \o c
  BY DEF InsertAt
<1>5. /\ d \in Seq(S) /\ Len(d) = Len(a) + Len(b)
      /\ \A j \in 1..(Len(a) + Len(b)) : d[j] = IF j <= Len(a) THEN a[j] ELSE b[j - Len(a)]
  BY <1>1, <1>2, ConcatProperties
<1> HIDE DEF a, b, c, d, n
<1>6. /\ d \o c \in Seq(S) /\ Len(d \o c) = Len(d) + Len(c)
      /\ \A j \in 1..(Len(d) + Len(c)) :
           (d \o c)[j] = IF j <= Len(d) THEN d[j] ELSE c[j - Len(d)]
  <2>1. c \in Seq(S) /\ d \in Seq(S)
    BY <1>3, <1>5
  <2> QED BY <2>1, ConcatProperties
<1>7. Len(d) = i /\ Len(d) + Len(c) = n + 1
  BY <1>0, <1>1, <1>2, <1>3, <1>5
<1>8. ASSUME NEW j \in 1..(i - 1) PROVE (d \o c)[j] = q[j]
  <2>1. j \in 1..(n + 1) /\ j <= i /\ j \in 1..i /\ j <= i - 1
    BY <1>0
  <2>2. (d \o c)[j] = d[j]
    BY <1>6, <1>7, <2>1
  <2>3. d[j] = a[j]
    BY <1>1, <1>5, <1>7, <2>1
  <2> QED BY <1>1, <2>2, <2>3
<1>9. (d \o c)[i] = v
  <2>1. i \in 1..(n + 1) /\ i <= i /\ i \in 1..i /\ ~(i <= i - 1) /\ i - (i - 1) = 1
    BY <1>0
  <2>2. (d \o c)[i] = d[i]
    BY <1>6, <1>7, <2>1
  <2>3. d[i] = b[1]
    BY <1>1, <1>5, <1>7, <2>1
  <2> QED BY <1>2, <2>2, <2>3
<1>10. ASSUME NEW j \in i..n PROVE (d \o c)[j + 1] = q[j]
  <2> DEFINE k == j + 1 - i
  <2>1. j + 1 \in 1..(n + 1) /\ ~(j + 1 <= i) /\ k \in 1..(n - i + 1) /\ k + i - 1 = j
    BY <1>0
  <2>2. (d \o c)[j + 1] = c[k]
    BY <1>6, <1>7, <2>1
  <2> HIDE DEF k
  <2>3. c[k] = q[k + i - 1]
    BY <1>3, <2>1
  <2> QED BY <2>1, <2>2, <2>3
<1> QED BY <1>4, <1>6, <1>7, <1>8, <1>9, <1>10 DEF n

LEMMA InsertedRange ==
  ASSUME NEW S, NEW q \in Seq(S), NEW v \in S \ Range(q), NEW i \in 1..(Len(q) + 1), Distinct(q)
  PROVE  Range(InsertAt(q, i, v)) = Range(q) \cup {v} /\ Distinct(InsertAt(q, i, v))
<1> DEFINE t == InsertAt(q, i, v)
           n == Len(q)
<1>0. n \in Nat /\ i \in Nat /\ 1 <= i /\ i <= n + 1 /\ DOMAIN q = 1..n
  OBVIOUS
<1>1. /\ t \in Seq(S) /\ Len(t) = n + 1
      /\ \A j \in 1..(i - 1) : t[j] = q[j]
      /\ t[i] = v
      /\ \A j \in i..n : t[j + 1] = q[j]
  BY InsertAtParts
<1> HIDE DEF t, n
<1>2. DOMAIN t = 1..(n + 1)
  BY <1>1
<1>3. \A j \in 1..(n + 1) : j < i \/ j = i \/ i < j
  BY <1>0
<1>4. /\ \A j \in 1..(n + 1) : j < i => j \in 1..n /\ t[j] = q[j]
      /\ \A j \in 1..(n + 1) : i < j => j - 1 \in 1..n /\ t[j] = q[j - 1]
  <2>1. ASSUME NEW j \in 1..(n + 1), j < i PROVE j \in 1..n /\ t[j] = q[j]
    <3>1. j \in 1..(i - 1) /\ j \in 1..n
      BY <1>0, <2>1
    <3> QED BY <1>1, <3>1
  <2>2. ASSUME NEW j \in 1..(n + 1), i < j PROVE j - 1 \in 1..n /\ t[j] = q[j - 1]
    <3>1. j - 1 \in i..n /\ j - 1 \in 1..n /\ (j - 1) + 1 = j
      BY <1>0, <2>2
    <3>2. t[(j - 1) + 1] = q[j - 1]
      BY <1>1, <3>1
    <3> QED BY <3>1, <3>2
  <2> QED BY <2>1, <2>2
<1>5. \A j \in 1..n : q[j] \in Range(q) /\ q[j] # v
  BY <1>0 DEF Range
<1>6. Range(t) \subseteq Range(q) \cup {v}
  <2> SUFFICES ASSUME NEW j \in 1..(n + 1) PROVE t[j] \in Range(q) \cup {v}
    BY <1>2 DEF Range
  <2> QED BY <1>1, <1>4, <1>3, <1>5
<1>7. Range(q) \cup {v} \subseteq Range(t)
  <2>1. v \in Range(t)
    BY <1>0, <1>1, <1>2 DEF Range
  <2>2. ASSUME NEW j \in 1..n PROVE q[j] \in Range(t)
    <3>1. CASE j \in 1..(i - 1)
      <4>1. j \in 1..(n + 1)
        BY <1>0
      <4> QED BY <1>1, <1>2, <3>1, <4>1 DEF Range
    <3>2. CASE j \in i..n
      <4>1. j + 1 \in 1..(n + 1)
        BY <1>0
      <4> QED BY <1>1, <1>2, <3>2, <4>1 DEF Range
    <3> QED BY <1>0, <3>1, <3>2
  <2> QED BY <1>0, <2>1, <2>2 DEF Range
<1>8. ASSUME NEW j \in 1..(n + 1), NEW k \in 1..(n + 1), t[j] = t[k] PROVE j = k
  <2>1. CASE j = i \/ k = i
    BY <1>1, <1>4, <1>5, <1>3, <1>8, <2>1
  <2>2. CASE j < i /\ k < i
    BY <1>0, <1>4, <1>8, <2>2 DEF Distinct
  <2>3. CASE i < j /\ i < k
    <3>1. j - 1 = k - 1
      BY <1>0, <1>4, <1>8, <2>3 DEF Distinct
    <3> QED BY <3>1
  <2>4. CASE j < i /\ i < k
    <3>1. j = k - 1
      BY <1>0, <1>4, <1>8, <2>4 DEF Distinct
    <3> QED BY <1>0, <2>4, <3>1
  <2>5. CASE i < j /\ k < i
    <3>1. j - 1 = k
      BY <1>0, <1>4, <1>8, <2>5 DEF Distinct
    <3> QED BY <1>0, <2>5, <3>1
  <2> QED BY <1>3, <2>1, <2>2, <2>3, <2>4, <2>5
<1>9. Distinct(t)
  BY <1>2, <1>8 DEF Distinct
<1> QED BY <1>6, <1>7, <1>9 DEF t

LEMMA TailRange ==
  ASSUME NEW S, NEW q \in Seq(S), q # <<>>, Distinct(q)
  PROVE  /\ Head(q) \in S /\ Head(q) \in Range(q) /\ Tail(q) \in Seq(S)
         /\ Range(Tail(q)) = Range(q) \ {Head(q)} /\ Distinct(Tail(q))
<1> DEFINE t == Tail(q)
           n == Len(q)
<1>1. /\ n \in Nat /\ 1 <= n /\ DOMAIN q = 1..n /\ DOMAIN t = 1..(n - 1)
      /\ \A j \in 1..(n - 1) : t[j] = q[j + 1]
      /\ Head(q) = q[1] /\ Head(q) \in S /\ t \in Seq(S)
  OBVIOUS
<1> HIDE DEF t, n
<1>2. Head(q) \in Range(q)
  BY <1>1 DEF Range
<1>3. \A j \in 1..(n - 1) : j + 1 \in 1..n /\ j + 1 # 1
  BY <1>1
<1>4. ASSUME NEW x \in Range(t) PROVE x \in Range(q) \ {Head(q)}
  <2>1. PICK j \in 1..(n - 1) : x = q[j + 1]
    BY <1>1 DEF Range
  <2>2. 1 \in 1..n
    BY <1>1
  <2> QED BY <1>1, <1>3, <2>1, <2>2 DEF Range, Distinct
<1>5. ASSUME NEW x \in Range(q) \ {Head(q)} PROVE x \in Range(t)
  <2>1. PICK j \in 1..n : x = q[j]
    BY <1>1 DEF Range
  <2>2. j # 1
    BY <1>1, <1>5, <2>1
  <2>3. j - 1 \in 1..(n - 1) /\ (j - 1) + 1 = j
    BY <1>1, <2>2
  <2>4. t[j - 1] = x
    BY <1>1, <2>1, <2>3
  <2> QED BY <1>1, <2>3, <2>4 DEF Range
<1>6. ASSUME NEW j \in 1..(n - 1), NEW k \in 1..(n - 1), t[j] = t[k] PROVE j = k
  <2>1. q[j + 1] = q[k + 1] /\ j + 1 \in 1..n /\ k + 1 \in 1..n
    BY <1>1, <1>3, <1>6
  <2>2. j + 1 = k + 1
    BY <1>1, <2>1 DEF Distinct
  <2> QED BY <1>1, <2>2
<1> QED BY <1>1, <1>2, <1>4, <1>5, <1>6 DEF Distinct, t

-----------------------------------------------------------------------------
(* The plan.                                                                 *)

Sane(h) == Fits(DemandOf(given, Runnings(given, h)))

(* The invariant.  Where a host has been relieved, or with lazy everywhere,  *)
(* the prediction counts the VMs the host will have, without those taken     *)
(* out; VMs are taken out, and moved, only of overloaded hosts; a host that  *)
(* was relieved, or needs not be, fits; each VM is planned once.             *)
Settled(h) == given.lazy \/ h \notin overloaded

Accounted ==
  /\ TypeOK
  /\ \A h \in overloaded : ~Sane(h)
  /\ overloaded # {} => migrations = {} /\ state = "none"
  /\ Distinct(toSchedule)
  /\ \A v \in TakenOut : ~Sane(given.at[v])
  /\ \A m \in migrations : m.vm \notin TakenOut /\ ~Sane(given.at[m.vm])
  /\ \A m, n \in migrations : m.vm = n.vm => m = n
  /\ \A h \in Hosts : Settled(h) => predicted[h] = DemandOf(given, After(h) \ TakenOut)
  /\ \A h \in Hosts : h \in given.hostsToCheck \ overloaded \/ Sane(h) => Fits(predicted[h])

LEMMA GivenTypes ==
  ASSUME given \in Given
  PROVE  /\ \A v \in VMs : given.at[v] \in Hosts /\ given.load[v] \in Nat /\ given.ram[v] \in Nat
         /\ given.lazy \in BOOLEAN /\ given.hostsToCheck \subseteq Hosts
         /\ CPUCapacity \in Nat /\ MemSize \in Nat
  BY FirstFitAssumption DEF Given, Hosts

(* A VM is planned where its migration takes it, or stays.                   *)
LEMMA Destinations ==
  ASSUME NEW M, NEW v, \A m, n \in M : m.vm = n.vm => m = n
  PROVE  LET to == {m.dest : m \in {n \in M : n.vm = v}} IN
         /\ (\A m \in M : m.vm # v) => to = {}
         /\ \A m \in M : m.vm = v => to = {m.dest}
  OBVIOUS

LEMMA WherePlanned ==
  ASSUME NEW v, \A m, n \in migrations : m.vm = n.vm => m = n
  PROVE  /\ (\A m \in migrations : m.vm # v) => PlannedAt(v) = given.at[v]
         /\ \A m \in migrations : m.vm = v => PlannedAt(v) = m.dest
  BY Destinations DEF PlannedAt

LEMMA PlusMinusTypes ==
  ASSUME given \in Given, NEW d \in Demand, NEW v \in VMs
  PROVE  Plus(d, v) \in Demand /\ Minus(d, v) \in Demand
  BY GivenTypes DEF Demand, Plus, Minus

LEMMA InitAccounted == Init => Accounted
<1> SUFFICES ASSUME Init PROVE Accounted
  OBVIOUS
<1>1. given \in Given
  BY DEF Init
<1>2. \A h \in Hosts : Runnings(given, h) \subseteq VMs
  BY DEF Runnings
<1>3. TypeOK
  <2>1. \A h \in Hosts : DemandOf(given, Runnings(given, h)) \in Demand
    BY <1>1, <1>2, DemandType DEF Demand
  <2>2. overloaded \subseteq given.hostsToCheck
    BY DEF Init, Overloaded
  <2>3. predicted \in [Hosts -> Demand]
    BY <2>1 DEF Init
  <2> QED BY <2>2, <2>3 DEF Init, TypeOK
<1>4. TakenOut = {} /\ Distinct(toSchedule)
  BY DEF Init, TakenOut, Range, Distinct
<1>5. \A h \in Hosts : After(h) = Runnings(given, h)
  <2>1. \A v \in VMs : PlannedAt(v) = given.at[v]
    BY WherePlanned DEF Init
  <2> QED BY <2>1 DEF After, Runnings
<1>6. \A h \in Hosts : predicted[h] = DemandOf(given, Runnings(given, h))
  BY DEF Init
<1>7. \A h \in Hosts : predicted[h] = DemandOf(given, After(h) \ TakenOut)
  BY <1>4, <1>5, <1>6
<1>8. \A h \in given.hostsToCheck : h \in Hosts /\ (h \in overloaded <=> ~Sane(h))
  BY <1>1, GivenTypes DEF Init, Overloaded, Sane
<1>9. \A h \in Hosts : Sane(h) => Fits(predicted[h])
  BY <1>6 DEF Sane
<1> QED BY <1>3, <1>4, <1>7, <1>8, <1>9 DEF Accounted, Init, TypeOK

LEMMA TakeOutAccounted ==
  ASSUME Accounted, NEW h \in Hosts, NEW v \in VMs, TakeOut(h, v)
  PROVE  Accounted'
<1>1. /\ TypeOK /\ given \in Given /\ h \in overloaded /\ given.at[v] = h /\ v \notin TakenOut
      /\ migrations = {} /\ state = "none" /\ ~Sane(h)
      /\ UNCHANGED <<given, overloaded, migrations, state>>
  BY DEF TakeOut, Current, Accounted, TypeOK
<1>2. PICK i \in 1..(Len(toSchedule) + 1) : toSchedule' = InsertAt(toSchedule, i, v)
  BY DEF TakeOut, Added
<1>3. toSchedule \in Seq(VMs) /\ v \in VMs \ Range(toSchedule) /\ Distinct(toSchedule)
  BY <1>1 DEF TypeOK, TakenOut, Accounted
<1>4. toSchedule' \in Seq(VMs)
  BY <1>2, <1>3, InsertAtParts
<1>5. TakenOut' = TakenOut \cup {v} /\ Distinct(toSchedule)'
  BY <1>2, <1>3, InsertedRange DEF TakenOut
<1>6. predicted' = IF given.lazy THEN [predicted EXCEPT ![h] = Minus(@, v)] ELSE predicted
  BY DEF TakeOut
<1>7. predicted' \in [Hosts -> Demand]
  <2>1. predicted \in [Hosts -> Demand] /\ predicted[h] \in Demand
    BY <1>1 DEF TypeOK
  <2>2. Minus(predicted[h], v) \in Demand
    BY <1>1, <2>1, PlusMinusTypes
  <2> QED BY <1>6, <2>1, <2>2
<1>8. TypeOK'
  BY <1>1, <1>4, <1>7 DEF TypeOK
<1>9. /\ \A x \in Hosts : After(x)' = After(x) /\ After(x) \subseteq VMs
      /\ \A x \in Hosts : v \in After(x) <=> x = h
  <2>1. PlannedAt(v) = h
    BY <1>1, WherePlanned
  <2> QED BY <1>1, <2>1 DEF After, PlannedAt
<1>10. \A x \in Hosts : (Settled(x)' <=> Settled(x)) /\ (Sane(x)' <=> Sane(x))
  BY <1>1 DEF Settled, Sane
<1>11. \A x \in Hosts \ {h} : predicted'[x] = predicted[x]
  BY <1>1, <1>6 DEF TypeOK
<1>12. ASSUME NEW x \in Hosts, Settled(x)'
       PROVE  predicted'[x] = DemandOf(given, After(x) \ TakenOut')
  <2>1. predicted[x] = DemandOf(given, After(x) \ TakenOut)
    BY <1>10, <1>12 DEF Accounted
  <2>2. CASE x # h
    <3>1. After(x) \ TakenOut' = After(x) \ TakenOut
      BY <1>5, <1>9, <2>2
    <3> QED BY <1>11, <2>1, <2>2, <3>1
  <2>3. CASE x = h
    <3> DEFINE S == After(h) \ TakenOut
    <3>1. given.lazy
      BY <1>1, <1>12, <2>3 DEF Settled
    <3>2. S \in SUBSET VMs /\ v \in S /\ After(h) \ TakenOut' = S \ {v}
      BY <1>1, <1>5, <1>9
    <3>3. predicted'[h] = Minus(predicted[h], v)
      BY <1>1, <1>6, <3>1 DEF TypeOK
    <3> HIDE DEF S
    <3>4. DemandOf(given, S \ {v}) = Minus(DemandOf(given, S), v)
      BY <1>1, <3>2, DemandOfLess
    <3> QED BY <2>1, <2>3, <3>2, <3>3, <3>4 DEF S
  <2> QED BY <2>2, <2>3
<1>13. ASSUME NEW x \in Hosts, x \in given.hostsToCheck \ overloaded \/ Sane(x)
       PROVE  Fits(predicted'[x])
  <2>1. x # h
    BY <1>1, <1>13
  <2> QED BY <1>11, <1>13, <2>1 DEF Accounted
<1>14. \A u \in TakenOut' : ~Sane(given.at[u])
  BY <1>1, <1>5 DEF Accounted
<1>15. /\ (\A x \in overloaded : ~Sane(x))'
       /\ (\A u \in TakenOut : ~Sane(given.at[u]))'
       /\ (\A m \in migrations : m.vm \notin TakenOut /\ ~Sane(given.at[m.vm]))'
       /\ (\A m, n \in migrations : m.vm = n.vm => m = n)'
       /\ (overloaded # {} => migrations = {} /\ state = "none")'
  BY <1>1, <1>14 DEF Accounted, Sane
<1>16. /\ (\A x \in Hosts : Settled(x) => predicted[x] = DemandOf(given, After(x) \ TakenOut))'
       /\ (\A x \in Hosts : x \in given.hostsToCheck \ overloaded \/ Sane(x) => Fits(predicted[x]))'
  BY <1>1, <1>9, <1>10, <1>12, <1>13
<1> QED BY <1>5, <1>8, <1>15, <1>16 DEF Accounted

LEMMA RelievedAccounted ==
  ASSUME Accounted, NEW h \in Hosts, Relieved(h)
  PROVE  Accounted'
<1>1. /\ TypeOK /\ given \in Given /\ h \in overloaded /\ overloaded' = overloaded \ {h}
      /\ migrations = {} /\ state = "none"
      /\ Runnings(given, h) \subseteq TakenOut \/ ~KeepsTaking(h)
      /\ UNCHANGED <<given, toSchedule, migrations, state>>
  BY DEF Relieved, Current, Accounted, TypeOK
<1>2. predicted' = IF given.lazy THEN predicted ELSE [predicted EXCEPT ![h] = [cpu |-> 0, mem |-> 0]]
  BY DEF Relieved
<1>3. TypeOK'
  <2>1. predicted' \in [Hosts -> Demand]
    BY <1>1, <1>2 DEF TypeOK, Demand
  <2> QED BY <1>1, <2>1 DEF TypeOK
<1>4. \A x \in Hosts : After(x)' = After(x) /\ After(x) = Runnings(given, x) /\ After(x) \subseteq VMs
  <2>1. \A v \in VMs : PlannedAt(v) = given.at[v]
    BY <1>1, WherePlanned
  <2> QED BY <1>1, <2>1 DEF After, PlannedAt, Runnings
<1>5. TakenOut' = TakenOut
  BY <1>1 DEF TakenOut
<1>6. \A x \in Hosts \ {h} : predicted'[x] = predicted[x]
  BY <1>1, <1>2 DEF TypeOK
<1>7. Runnings(given, h) \subseteq TakenOut =>
        DemandOf(given, After(h) \ TakenOut) = [cpu |-> 0, mem |-> 0]
  BY <1>1, <1>4, DemandType
<1>8. predicted'[h] = DemandOf(given, After(h) \ TakenOut)
  <2>1. CASE given.lazy
    BY <1>2, <2>1 DEF Accounted, Settled
  <2>2. CASE ~given.lazy
    <3>1. Runnings(given, h) \subseteq TakenOut
      BY <1>1, <2>2 DEF KeepsTaking
    <3> QED BY <1>1, <1>2, <1>7, <2>2, <3>1 DEF TypeOK
  <2> QED BY <2>1, <2>2
<1>9. Fits(predicted'[h])
  <2>1. CASE Runnings(given, h) \subseteq TakenOut
    BY <1>1, <1>7, <1>8, <2>1, GivenTypes DEF Fits
  <2>2. CASE ~KeepsTaking(h)
    <3>1. /\ given.lazy /\ ~(predicted[h].cpu > CPUCapacity)
          /\ ~(DemandOf(given, Runnings(given, h)).mem > MemSize)
      BY <2>2 DEF KeepsTaking
    <3>2. predicted'[h] = predicted[h]
      BY <1>2, <3>1
    <3> DEFINE S == After(h) \ TakenOut
               T == Runnings(given, h)
    <3>3. S \in SUBSET T /\ T \in SUBSET VMs
      BY <1>4
    <3> HIDE DEF S, T
    <3>4. DemandOf(given, S).mem <= DemandOf(given, T).mem
      BY <1>1, <3>3, DemandOfFewer
    <3>5. DemandOf(given, S) \in [cpu : Nat, mem : Nat] /\ DemandOf(given, T) \in [cpu : Nat, mem : Nat]
      BY <1>1, <3>3, DemandType
    <3>6. predicted'[h] = DemandOf(given, S)
      BY <1>8 DEF S
    <3>7. ~(DemandOf(given, S).cpu > CPUCapacity) /\ ~(DemandOf(given, T).mem > MemSize)
      BY <3>1, <3>2, <3>6 DEF T
    <3> QED BY <1>1, <3>4, <3>5, <3>6, <3>7, GivenTypes DEF Fits
  <2> QED BY <1>1, <2>1, <2>2
<1>10. ASSUME NEW x \in Hosts, Settled(x)'
       PROVE  predicted'[x] = DemandOf(given, After(x) \ TakenOut)
  <2>1. CASE x # h
    <3>1. Settled(x)
      BY <1>1, <1>10, <2>1 DEF Settled
    <3> QED BY <1>6, <2>1, <3>1 DEF Accounted
  <2> QED BY <1>8, <2>1
<1>11. ASSUME NEW x \in Hosts, x \in given.hostsToCheck \ overloaded' \/ Sane(x)
       PROVE  Fits(predicted'[x])
  <2>1. CASE x # h
    <3>1. x \in given.hostsToCheck \ overloaded \/ Sane(x)
      BY <1>1, <1>11, <2>1
    <3> QED BY <1>6, <2>1, <3>1 DEF Accounted
  <2> QED BY <1>9, <2>1
<1>12. \A x : Sane(x)' <=> Sane(x)
  BY <1>1 DEF Sane
<1>13. /\ (\A x \in overloaded : ~Sane(x))'
       /\ (\A u \in TakenOut : ~Sane(given.at[u]))'
       /\ (\A m \in migrations : m.vm \notin TakenOut /\ ~Sane(given.at[m.vm]))'
       /\ (\A m, n \in migrations : m.vm = n.vm => m = n)'
       /\ (overloaded # {} => migrations = {} /\ state = "none")'
       /\ Distinct(toSchedule)'
  BY <1>1, <1>5, <1>12 DEF Accounted
<1>14. /\ (\A x \in Hosts : Settled(x) => predicted[x] = DemandOf(given, After(x) \ TakenOut))'
       /\ (\A x \in Hosts : x \in given.hostsToCheck \ overloaded \/ Sane(x) => Fits(predicted[x]))'
  BY <1>1, <1>4, <1>5, <1>10, <1>11, <1>12
<1> QED BY <1>3, <1>13, <1>14 DEF Accounted

LEMMA PlaceAccounted ==
  ASSUME Accounted, Place
  PROVE  Accounted'
<1>0. PICK v \in VMs : v = Head(toSchedule)
  BY TailRange DEF Place, Accounted, TypeOK
<1>1. /\ TypeOK /\ given \in Given /\ overloaded = {} /\ toSchedule # <<>>
      /\ toSchedule' = Tail(toSchedule)
      /\ UNCHANGED <<given, overloaded, state>>
  BY DEF Place, Accounted, TypeOK
<1>2. PICK dest \in Room(v) :
        /\ predicted' = [predicted EXCEPT ![dest] = Plus(@, v)]
        /\ migrations' = migrations \cup
             (IF given.at[v] = dest THEN {} ELSE {[vm |-> v, dest |-> dest]})
  BY <1>0 DEF Place
<1>3. /\ v \in VMs /\ v \in TakenOut /\ toSchedule' \in Seq(VMs)
      /\ TakenOut' = TakenOut \ {v} /\ Distinct(toSchedule)'
  <2>1. toSchedule \in Seq(VMs) /\ Distinct(toSchedule)
    BY <1>1 DEF TypeOK, Accounted
  <2> QED BY <1>0, <1>1, <2>1, TailRange DEF TakenOut
<1>4. dest \in Hosts /\ Fits(Plus(predicted[dest], v))
  BY <1>2 DEF Room
<1>5. predicted'[dest] = Plus(predicted[dest], v) /\ \A x \in Hosts \ {dest} : predicted'[x] = predicted[x]
  BY <1>1, <1>2, <1>4 DEF TypeOK
<1>6. TypeOK'
  <2>1. predicted' \in [Hosts -> Demand]
    <3>1. predicted \in [Hosts -> Demand] /\ predicted[dest] \in Demand
      BY <1>1, <1>4 DEF TypeOK
    <3>2. Plus(predicted[dest], v) \in Demand
      BY <1>1, <1>3, <3>1, PlusMinusTypes
    <3> QED BY <1>2, <3>1, <3>2
  <2>2. migrations' \subseteq [vm : VMs, dest : Hosts]
    BY <1>1, <1>2, <1>3, <1>4 DEF TypeOK
  <2> QED BY <1>1, <1>3, <2>1, <2>2 DEF TypeOK
<1>7. \A m \in migrations : m.vm # v
  BY <1>3 DEF Accounted
<1>8. \A m, n \in migrations' : m.vm = n.vm => m = n
  BY <1>2, <1>7 DEF Accounted
<1>9. PlannedAt(v)' = dest
  <2> DEFINE to == {m.dest : m \in {n \in migrations' : n.vm = v}}
  <2>1. PlannedAt(v)' = IF to = {} THEN given.at[v] ELSE CHOOSE x \in to : TRUE
    BY <1>1 DEF PlannedAt
  <2>2. /\ (\A m \in migrations' : m.vm # v) => to = {}
        /\ \A m \in migrations' : m.vm = v => to = {m.dest}
    BY <1>8, Destinations
  <2> HIDE DEF to
  <2>3. CASE given.at[v] = dest
    <3>1. migrations' = migrations
      BY <1>2, <2>3
    <3>2. \A m \in migrations' : m.vm # v
      BY <1>7, <3>1
    <3>3. to = {}
      BY <2>2, <3>2
    <3> QED BY <2>1, <2>3, <3>3
  <2>4. CASE given.at[v] # dest
    <3>1. [vm |-> v, dest |-> dest] \in migrations'
      BY <1>2, <2>4
    <3>2. to = {dest}
      BY <2>2, <3>1
    <3> QED BY <2>1, <3>2
  <2> QED BY <2>3, <2>4
<1>10. \A u \in VMs \ {v} : PlannedAt(u)' = PlannedAt(u)
  <2> SUFFICES ASSUME NEW u \in VMs \ {v} PROVE PlannedAt(u)' = PlannedAt(u)
    OBVIOUS
  <2>1. {m \in migrations' : m.vm = u} = {m \in migrations : m.vm = u}
    BY <1>2
  <2> QED BY <1>1, <2>1 DEF PlannedAt
<1>11. \A x \in Hosts : After(x)' \ TakenOut' =
          IF x = dest THEN (After(x) \ TakenOut) \cup {v} ELSE After(x) \ TakenOut
  <2> SUFFICES ASSUME NEW x \in Hosts
               PROVE  /\ x = dest => After(x)' \ TakenOut' = (After(x) \ TakenOut) \cup {v}
                      /\ x # dest => After(x)' \ TakenOut' = After(x) \ TakenOut
    OBVIOUS
  <2>1. \A u \in VMs \ {v} : u \in After(x)' <=> u \in After(x)
    BY <1>10 DEF After
  <2>2. v \in After(x)' <=> x = dest
    BY <1>3, <1>9 DEF After
  <2>3. After(x) \subseteq VMs /\ After(x)' \subseteq VMs
    BY DEF After
  <2>4. v \in TakenOut /\ TakenOut' = TakenOut \ {v}
    BY <1>3
  <2> QED BY <2>1, <2>2, <2>3, <2>4
<1>12. \A x \in Hosts : predicted[x] = DemandOf(given, After(x) \ TakenOut)
  BY <1>1 DEF Accounted, Settled
<1>13. ASSUME NEW x \in Hosts
       PROVE  predicted'[x] = DemandOf(given, After(x)' \ TakenOut')
  <2>1. CASE x # dest
    BY <1>5, <1>11, <1>12, <2>1
  <2>2. CASE x = dest
    <3> DEFINE S == After(dest) \ TakenOut
    <3>1. S \in SUBSET VMs /\ v \in VMs \ S
      BY <1>3 DEF After
    <3>2. After(dest)' \ TakenOut' = S \cup {v} /\ predicted[dest] = DemandOf(given, S)
      BY <1>4, <1>11, <1>12
    <3> HIDE DEF S
    <3>3. DemandOf(given, S \cup {v}) = Plus(DemandOf(given, S), v)
      BY <1>1, <3>1, DemandOfMore
    <3> QED BY <1>5, <2>2, <3>2, <3>3
  <2> QED BY <2>1, <2>2
<1>14. \A x : Sane(x)' <=> Sane(x)
  BY <1>1 DEF Sane
<1>15. ASSUME NEW x \in Hosts, x \in given.hostsToCheck \ overloaded \/ Sane(x)
       PROVE  Fits(predicted'[x])
  <2>1. CASE x # dest
    BY <1>5, <1>15, <2>1 DEF Accounted
  <2> QED BY <1>4, <1>5, <2>1
<1>16. \A m \in migrations' : m.vm \notin TakenOut' /\ ~Sane(given.at[m.vm])
  <2>1. \A m \in migrations : m.vm \notin TakenOut' /\ ~Sane(given.at[m.vm])
    BY <1>3 DEF Accounted
  <2>2. v \notin TakenOut' /\ ~Sane(given.at[v])
    BY <1>3 DEF Accounted
  <2> QED BY <1>2, <2>1, <2>2
<1>17. /\ (\A x \in overloaded : ~Sane(x))'
       /\ (\A u \in TakenOut : ~Sane(given.at[u]))'
       /\ (\A m \in migrations : m.vm \notin TakenOut /\ ~Sane(given.at[m.vm]))'
       /\ (overloaded # {} => migrations = {} /\ state = "none")'
  BY <1>1, <1>3, <1>14, <1>16 DEF Accounted
<1>18. /\ (\A x \in Hosts : Settled(x) => predicted[x] = DemandOf(given, After(x) \ TakenOut))'
       /\ (\A x \in Hosts : x \in given.hostsToCheck \ overloaded \/ Sane(x) => Fits(predicted[x]))'
  BY <1>1, <1>13, <1>14, <1>15
<1> QED BY <1>3, <1>6, <1>8, <1>17, <1>18 DEF Accounted

LEMMA NextAccounted == Accounted /\ [Next]_vars => Accounted'
<1> SUFFICES ASSUME Accounted, [Next]_vars PROVE Accounted'
  OBVIOUS
<1>1. ASSUME UNCHANGED <<given, overloaded, toSchedule, predicted, migrations>>,
             overloaded = {} \/ state' = state, TypeOK'
      PROVE  Accounted'
  <2>1. \A x : (Sane(x)' <=> Sane(x)) /\ (Settled(x)' <=> Settled(x)) /\ After(x)' = After(x)
    BY <1>1 DEF Sane, Settled, After, PlannedAt
  <2>2. TakenOut' = TakenOut
    BY <1>1 DEF TakenOut
  <2> QED BY <1>1, <2>1, <2>2 DEF Accounted
<1>2. CASE Conclude
  <2>1. TypeOK'
    BY <1>2 DEF Conclude, Accounted, TypeOK
  <2> QED BY <1>1, <1>2, <2>1 DEF Conclude
<1>3. CASE UNCHANGED vars
  <2>1. TypeOK'
    BY <1>3 DEF vars, Accounted, TypeOK
  <2> QED BY <1>1, <1>3, <2>1 DEF vars
<1> QED BY <1>2, <1>3, TakeOutAccounted, RelievedAccounted, PlaceAccounted DEF Next

LEMMA AlwaysAccounted == Spec => []Accounted
  BY InitAccounted, NextAccounted, PTL DEF Spec

(* What First Fit predicts of a host is the demand of the VMs it will have,  *)
(* for any order of the VMs, and whether lazy or optimistic: nothing that is *)
(* taken out, put back or moved is counted twice or forgotten                *)
(* (FirstFitDecreased.manageOverloadedHost, computeReconfigurationPlan;      *)
(* FirstFit!PredictionsExact).                                               *)
THEOREM Predictions == Spec => []PredictionsExact
<1>1. Accounted => PredictionsExact
  BY DEF Accounted, PredictionsExact, Settled
<1> QED BY <1>1, AlwaysAccounted, PTL

(* A plan with room for every VM that it took out leaves none of the hosts   *)
(* that were to be checked overloaded (FirstFit!PlanIsViable).               *)
THEOREM CompletePlansAreViable == Spec => []PlanIsViable
<1>1. ASSUME Accounted PROVE PlanIsViable
  <2> SUFFICES ASSUME state # "none", toSchedule = <<>>, NEW h \in given.hostsToCheck
               PROVE  Fits(DemandOf(given, After(h)))
    BY DEF PlanIsViable
  <2>1. overloaded = {} /\ given \in Given
    BY <1>1 DEF Accounted, TypeOK
  <2>2. h \in Hosts
    BY <2>1, GivenTypes
  <2>3. TakenOut = {}
    BY DEF TakenOut, Range
  <2>4. predicted[h] = DemandOf(given, After(h) \ TakenOut) /\ Fits(predicted[h])
    BY <1>1, <2>1, <2>2 DEF Accounted, Settled
  <2>5. After(h) \ TakenOut = After(h)
    BY <2>3
  <2> QED BY <2>4, <2>5
<1> QED BY <1>1, AlwaysAccounted, PTL

(* At no time, and so also when First Fit gives up half way, does the plan   *)
(* overload a host that was not overloaded (FirstFit!SaneHostsStaySane).     *)
THEOREM NoHostIsMadeOverloaded == Spec => []SaneHostsStaySane
<1>1. ASSUME Accounted PROVE SaneHostsStaySane
  <2> SUFFICES ASSUME NEW h \in Hosts, Sane(h) PROVE Fits(DemandOf(given, After(h)))
    BY DEF SaneHostsStaySane, Sane
  <2>1. Settled(h)
    BY <1>1 DEF Accounted, Settled
  <2>2. ASSUME NEW v \in After(h) PROVE v \notin TakenOut
    <3>1. CASE \A m \in migrations : m.vm # v
      <4>1. given.at[v] = h
        BY <1>1, <2>2, <3>1, WherePlanned DEF Accounted, After
      <4> QED BY <1>1, <4>1 DEF Accounted
    <3>2. CASE \E m \in migrations : m.vm = v
      BY <1>1, <3>2 DEF Accounted
    <3> QED BY <3>1, <3>2
  <2>3. After(h) \ TakenOut = After(h)
    BY <2>2
  <2>4. predicted[h] = DemandOf(given, After(h) \ TakenOut) /\ Fits(predicted[h])
    BY <1>1, <2>1 DEF Accounted
  <2> QED BY <2>3, <2>4
<1> QED BY <1>1, AlwaysAccounted, PTL

=============================================================================
