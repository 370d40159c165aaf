-------------------------- MODULE EventQueuesProofs --------------------------
(***************************************************************************)
(* Theorems about EventQueues, for any hosts, VMs, durations and draws.    *)
(***************************************************************************)
EXTENDS EventQueues, SequenceTheorems, WellFoundedInduction, TLAPS

-----------------------------------------------------------------------------
(* Sequences of which an element is removed or to which some are added.      *)

LEMMA SuffixType ==
  ASSUME NEW S, NEW s \in Seq(S), NEW i \in Nat, i <= Len(s)
  PROVE  /\ SubSeq(s, i + 1, Len(s)) \in Seq(S)
         /\ Len(SubSeq(s, i + 1, Len(s))) = Len(s) - i
         /\ \A j \in 1..(Len(s) - i) : SubSeq(s, i + 1, Len(s))[j] = s[j + i]
  OBVIOUS

LEMMA ConcatParts ==
  ASSUME NEW S, NEW a \in Seq(S), NEW b \in Seq(S)
  PROVE  /\ a \o b \in Seq(S) /\ Len(a \o b) = Len(a) + Len(b)
         /\ \A j \in 1..Len(a) : (a \o b)[j] = a[j]
         /\ \A j \in 1..Len(b) : (a \o b)[Len(a) + j] = b[j]
  OBVIOUS

LEMMA PrefixType ==
  ASSUME NEW S, NEW s \in Seq(S), NEW i \in Nat, i <= Len(s)
  PROVE  /\ SubSeq(s, 1, i) \in Seq(S) /\ Len(SubSeq(s, 1, i)) = i
         /\ \A j \in 1..i : SubSeq(s, 1, i)[j] = s[j]
  OBVIOUS

LEMMA RemoveAtType ==
  ASSUME NEW S, NEW s \in Seq(S), NEW i \in 1..Len(s)
  PROVE  /\ RemoveAt(s, i) \in Seq(S)
         /\ Len(RemoveAt(s, i)) = Len(s) - 1
         /\ \A j \in 1..(Len(s) - 1) :
              RemoveAt(s, i)[j] = IF j < i THEN s[j] ELSE s[j + 1]
<1> DEFINE a == SubSeq(s, 1, i - 1)
           b == SubSeq(s, i + 1, Len(s))
           n == Len(s)
<1>0. n \in Nat /\ i \in Nat /\ 1 <= i /\ i <= n
  OBVIOUS
<1>1. /\ a \in Seq(S) /\ Len(a) = i - 1
      /\ \A j \in 1..(i - 1) : a[j] = s[j]
  BY <1>0, PrefixType
<1>2. /\ b \in Seq(S) /\ Len(b) = n - i
      /\ \A j \in 1..(n - i) : b[j] = s[j + i]
  BY <1>0, SuffixType
<1>3. RemoveAt(s, i) = a \o b
  BY DEF RemoveAt
<1> HIDE DEF a, b
<1>4. RemoveAt(s, i) \in Seq(S) /\ Len(RemoveAt(s, i)) = n - 1
  <2>1. (i - 1) + (n - i) = n - 1
    BY <1>0
  <2> HIDE DEF n
  <2>2. /\ a \o b \in Seq(S)
        /\ Len(a \o b) = Len(a) + Len(b)
    BY <1>1, <1>2, ConcatParts
  <2> QED BY <1>1, <1>2, <1>3, <2>1, <2>2
<1>5. ASSUME NEW j \in 1..(n - 1) PROVE RemoveAt(s, i)[j] = IF j < i THEN s[j] ELSE s[j + 1]
  <2>1. CASE j < i
    <3>1. j \in 1..(i - 1)
      BY <1>0, <2>1
    <3> QED BY <1>1, <1>2, <1>3, <2>1, <3>1, ConcatParts
  <2>2. CASE i <= j
    <3> DEFINE k == j - (i - 1)
    <3>1. k \in 1..(n - i) /\ k + i = j + 1 /\ (i - 1) + k = j /\ ~(j < i)
      BY <1>0, <2>2
    <3> HIDE DEF k
    <3>2. (a \o b)[(i - 1) + k] = b[k]
      BY <1>1, <1>2, <3>1, ConcatParts
    <3> QED BY <1>2, <1>3, <3>1, <3>2
  <2> QED BY <1>0, <2>1, <2>2
<1> QED BY <1>4, <1>5

-----------------------------------------------------------------------------
(* What is kept when a fluctuation of v is drawn: p tells where the events   *)
(* of q that survive, old, are in r.  The others of r are later and about v, *)
(* and those that were removed were the last about v.                        *)

Survive(q, r, old, p, v) ==
  /\ old \subseteq DOMAIN q /\ p \in [old -> DOMAIN r]
  /\ \A i, j \in old : i < j => p[i] < p[j]
  /\ \A i \in old : r[p[i]] = q[i]
  /\ \A n \in DOMAIN r : (\E i \in old : p[i] = n) \/ (r[n].what = v /\ \A i \in old : p[i] < n)
  /\ \A k \in DOMAIN q \ old : q[k].what = v /\ \A i \in old : q[i].what = v => i < k

LEMMA StillAlternates ==
  ASSUME NEW q \in Seq(Events), NEW r \in Seq(Events), NEW old, NEW p, NEW v,
         Survive(q, r, old, p, v), NEW i \in old, Alternates(q, i)
  PROVE  Alternates(r, p[i])
<1> DEFINE others == {j \in DOMAIN q : j # i /\ q[j].what = q[i].what}
           others2 == {j \in DOMAIN r : j # p[i] /\ r[j].what = r[p[i]].what}
<1>0. /\ \A j \in DOMAIN q : j \in Nat
      /\ \A n \in DOMAIN r : n \in Nat
      /\ old \subseteq DOMAIN q /\ p[i] \in DOMAIN r
      /\ \A j \in old : p[j] \in DOMAIN r
      /\ \A j, k \in old : j < k => p[j] < p[k]
      /\ \A j \in old : r[p[j]] = q[j]
      /\ \A n \in DOMAIN r : (\E j \in old : p[j] = n) \/ \A j \in old : p[j] < n
      /\ \A k \in DOMAIN q \ old : \A j \in old : q[j].what = q[k].what => j < k
  BY DEF Survive
<1>1. \A n \in others2 : (\E j \in old : p[j] = n /\ j \in others) \/ p[i] < n
  BY <1>0
<1>2. \A j \in others \cap old : j < i => p[j] < p[i]
  BY <1>0
<1>3. \A j \in others \cap old : j > i => p[j] > p[i]
  BY <1>0
<1>4. CASE ~q[i].state /\ \A j \in others : j > i
  <2>1. \A n \in others2 : n > p[i]
    <3> SUFFICES ASSUME NEW n \in others2, ~(p[i] < n) PROVE FALSE
      BY <1>0
    <3>1. PICK j \in old : p[j] = n /\ j \in others
      BY <1>1
    <3> QED BY <1>0, <1>3, <1>4, <3>1
  <2> QED BY <1>0, <1>4, <2>1 DEF Alternates
<1>5. ASSUME NEW j \in others,
             j < i, q[j].state # q[i].state, q[j].time < q[i].time,
             \A k \in others : k <= j \/ k > i
      PROVE  Alternates(r, p[i])
  <2>1. j \in old /\ p[j] \in others2 /\ p[j] < p[i]
    BY <1>0, <1>5
  <2>2. r[p[j]].state # r[p[i]].state /\ r[p[j]].time < r[p[i]].time
    BY <1>0, <1>5, <2>1
  <2>3. ASSUME NEW n \in others2 PROVE n <= p[j] \/ n > p[i]
    <3>1. CASE p[i] < n
      BY <1>0, <3>1
    <3>2. CASE \E k \in old : p[k] = n /\ k \in others
      <4>1. PICK k \in old : p[k] = n /\ k \in others
        BY <3>2
      <4>2. k <= j \/ k > i
        BY <1>5, <4>1
      <4>3. CASE k > i
        BY <1>3, <4>1, <4>3
      <4>4. CASE k = j
        BY <1>0, <4>1, <4>4
      <4>5. CASE k < j
        <5>1. p[k] < p[j]
          BY <1>0, <2>1, <4>1, <4>5
        <5> QED BY <1>0, <2>1, <4>1, <5>1
      <4> QED BY <1>0, <4>1, <4>2, <4>3, <4>4, <4>5
    <3> QED BY <1>1, <3>1, <3>2
  <2> QED BY <2>1, <2>2, <2>3 DEF Alternates
<1> QED BY <1>4, <1>5 DEF Alternates

LEMMA StillLast ==
  ASSUME NEW q \in Seq(Events), NEW r \in Seq(Events), NEW old, NEW p, NEW v,
         Survive(q, r, old, p, v), NEW w, NEW t \in Nat,
         \A n \in DOMAIN r : (\E i \in old : p[i] = n) \/ n \notin UpTo(r, w, t),
         \A k \in DOMAIN q : k \in old \/ k \notin UpTo(q, w, t)
  PROVE  LastOf(r, w, t) <=> LastOf(q, w, t)
<1>0. /\ \A j \in DOMAIN q : j \in Nat
      /\ \A n \in DOMAIN r : n \in Nat
      /\ old \subseteq DOMAIN q
      /\ \A j \in old : p[j] \in DOMAIN r
      /\ \A j, k \in old : j < k => p[j] < p[k]
      /\ \A j \in old : r[p[j]] = q[j]
  BY DEF Survive
<1>1. /\ UpTo(q, w, t) \subseteq old
      /\ \A i \in old : p[i] \in UpTo(r, w, t) <=> i \in UpTo(q, w, t)
      /\ \A n \in UpTo(r, w, t) : \E i \in UpTo(q, w, t) : p[i] = n
  BY <1>0 DEF UpTo
<1>2. \A i, j \in old : j <= i <=> p[j] <= p[i]
  <2> SUFFICES ASSUME NEW i \in old, NEW j \in old PROVE j <= i <=> p[j] <= p[i]
    OBVIOUS
  <2>1. i \in Nat /\ j \in Nat /\ p[i] \in Nat /\ p[j] \in Nat
    BY <1>0
  <2>2. (j < i => p[j] < p[i]) /\ (i < j => p[i] < p[j]) /\ (i = j => p[i] = p[j])
    BY <1>0
  <2> QED BY <2>1, <2>2
<1>3. ASSUME LastOf(q, w, t) PROVE LastOf(r, w, t)
  <2>1. PICK i \in UpTo(q, w, t) : ~q[i].state /\ \A j \in UpTo(q, w, t) : j <= i
    BY <1>3 DEF LastOf
  <2>2. p[i] \in UpTo(r, w, t) /\ ~r[p[i]].state
    BY <1>0, <1>1, <2>1
  <2>3. \A n \in UpTo(r, w, t) : n <= p[i]
    BY <1>1, <1>2, <2>1
  <2> QED BY <2>2, <2>3 DEF LastOf
<1>4. ASSUME LastOf(r, w, t) PROVE LastOf(q, w, t)
  <2>1. PICK n \in UpTo(r, w, t) : ~r[n].state /\ \A m \in UpTo(r, w, t) : m <= n
    BY <1>4 DEF LastOf
  <2>2. PICK i \in UpTo(q, w, t) : p[i] = n
    BY <1>1, <2>1
  <2>3. ~q[i].state
    BY <1>0, <1>1, <2>1, <2>2
  <2>4. \A j \in UpTo(q, w, t) : j <= i
    BY <1>1, <1>2, <2>1, <2>2
  <2> QED BY <2>3, <2>4 DEF LastOf
<1> QED BY <1>3, <1>4

-----------------------------------------------------------------------------
(* The queue of the fluctuations, drawn until now.                           *)

EndsOn(q, v) ==
  \/ \A i \in DOMAIN q : q[i].what # v
  \/ \E k \in DOMAIN q : /\ q[k].what = v /\ q[k].state
                         /\ \A i \in DOMAIN q : q[i].what = v => i <= k

Shape(q, now) ==
  /\ \A i \in DOMAIN q :
       /\ q[i].kind = "switch" /\ q[i].what \in VMs
       /\ q[i].state => q[i].time <= now + CrashDuration
       /\ ~q[i].state => q[i].time <= now
       /\ Alternates(q, i)
  /\ \A i, j \in DOMAIN q : i < j /\ q[i].state /\ q[j].state => q[i].time <= q[j].time
  /\ \A v \in VMs : EndsOn(q, v)

OutBy(draws, x, t) == \E d \in draws : d[2] = x /\ d[1] <= t /\ t < d[1] + CrashDuration
AsDrawn(q, draws) ==
  \A v \in VMs, t \in 0..(Duration - 1) : LastOf(q, v, t) <=> OutBy(draws, v, t)

(* How drawing a fluctuation of v at time t changes the queue: at the end    *)
(* there is an event that resumes v, and the one before of v, f, suspends    *)
(* it.  What is removed or added is not due before t.                        *)
Redrawn(q, r, old, p, v, t, f) ==
  /\ r \in Seq(Events) /\ Len(r) >= 1 /\ r[Len(r)] = Switch(t + CrashDuration, v, TRUE)
  /\ Survive(q, r, old, p, v)
  /\ f \in DOMAIN r /\ f < Len(r) /\ Alternates(r, f)
  /\ r[f].what = v /\ ~r[f].state /\ r[f].kind = "switch" /\ r[f].time <= t
  /\ \A m \in DOMAIN r : r[m].what = v => m <= f \/ m = Len(r)
  /\ \A m \in DOMAIN r : (\E i \in old : p[i] = m) \/ (m \in {f, Len(r)} /\ r[m].time >= t)
  /\ \A k \in DOMAIN q \ old : q[k].time >= t

LEMMA Durations ==
  /\ Duration \in Nat \ {0} /\ CrashDuration \in Nat \ {0}
  /\ GLFaultPeriod \in Nat /\ GMFaultPeriod \in Nat
<1>1. Duration \in Nat \ {0} /\ CrashDuration \in Nat \ {0}
  BY DurationsAssumption DEF DurationsAssumption
<1>2. GLFaultPeriod \in 1..(Duration - 1) /\ GMFaultPeriod \in 1..(Duration - 1)
  BY DurationsAssumption DEF DurationsAssumption
<1> QED BY <1>1, <1>2

LEMMA EventTypes ==
  ASSUME NEW q \in Seq(Events)
  PROVE  /\ Len(q) \in Nat /\ DOMAIN q = 1..Len(q)
         /\ \A i \in DOMAIN q : q[i] \in Events /\ q[i].time \in Nat /\ q[i].state \in BOOLEAN
<1>1. \A e \in Events : e.time \in Nat /\ e.state \in BOOLEAN
  BY DEF Events
<1>2. Len(q) \in Nat /\ DOMAIN q = 1..Len(q)
  OBVIOUS
<1>3. \A i \in DOMAIN q : q[i] \in Events
  OBVIOUS
<1> QED BY <1>1, <1>2, <1>3

(* The queue stays in shape. *)
LEMMA RedrawnShape ==
  ASSUME NEW q \in Seq(Events), NEW now \in Nat, Shape(q, now), NEW v \in VMs,
         NEW t \in Nat, now < t, NEW r, NEW old, NEW p, NEW f, Redrawn(q, r, old, p, v, t, f)
  PROVE  Shape(r, t)
<1> DEFINE n == Len(r)
<1>1. /\ r \in Seq(Events) /\ n \in Nat /\ n >= 1 /\ DOMAIN r = 1..n /\ n \in DOMAIN r
      /\ f \in DOMAIN r /\ f < n
      /\ \A i \in DOMAIN r : r[i] \in Events /\ r[i].time \in Nat
      /\ \A i \in DOMAIN q : i \in Nat /\ q[i].time \in Nat
      /\ CrashDuration \in Nat \ {0}
  <2>1. r \in Seq(Events) /\ n >= 1 /\ f \in DOMAIN r /\ f < n
    BY DEF Redrawn
  <2>2. n \in Nat /\ DOMAIN r = 1..n
    BY <2>1, EventTypes
  <2>3. n \in DOMAIN r
    BY <2>1, <2>2
  <2>4. \A i \in DOMAIN r : r[i] \in Events /\ r[i].time \in Nat
    BY <2>1, EventTypes
  <2>5. \A i \in DOMAIN q : i \in Nat /\ q[i].time \in Nat
    BY EventTypes
  <2> QED BY <2>1, <2>2, <2>3, <2>4, <2>5, Durations
<1>2. /\ r[n].time = t + CrashDuration /\ r[n].what = v /\ r[n].state /\ r[n].kind = "switch"
  <2>1. r[n] = Switch(t + CrashDuration, v, TRUE)
    BY DEF Redrawn
  <2> QED BY <2>1 DEF Switch
<1>3. /\ old \subseteq DOMAIN q /\ \A i \in old : p[i] \in DOMAIN r /\ r[p[i]] = q[i]
      /\ \A i, j \in old : i < j => p[i] < p[j]
      /\ \A m \in DOMAIN r : m # n /\ m # f => \E i \in old : p[i] = m
  BY DEF Redrawn, Survive
<1> HIDE DEF n
<1>4. ASSUME NEW m \in DOMAIN r
      PROVE  /\ r[m].kind = "switch" /\ r[m].what \in VMs
             /\ r[m].state => r[m].time <= t + CrashDuration
             /\ ~r[m].state => r[m].time <= t
             /\ Alternates(r, m)
  <2>1. CASE m = n
    <3>1. /\ f # n /\ r[f].what = v /\ ~r[f].state /\ r[f].time < r[n].time
          /\ \A k \in DOMAIN r : r[k].what = v => k <= f \/ k = n
      <4>1. /\ r[f].what = v /\ ~r[f].state /\ r[f].time <= t
            /\ \A k \in DOMAIN r : r[k].what = v => k <= f \/ k = n
        BY DEF Redrawn, n
      <4>2. r[f].time \in Nat
        BY <1>1
      <4>3. r[f].time < t + CrashDuration /\ f # n
        BY <1>1, <4>1, <4>2
      <4> QED BY <1>2, <4>1, <4>3
    <3>2. Alternates(r, n)
      BY <1>1, <1>2, <3>1 DEF Alternates
    <3> QED BY <1>1, <1>2, <2>1, <3>2
  <2>2. CASE m = f
    BY <1>1, <2>2 DEF Redrawn
  <2>3. CASE m # n /\ m # f
    <3>1. PICK i \in old : p[i] = m
      BY <1>3, <2>3
    <3>2. i \in DOMAIN q /\ r[m] = q[i]
      BY <1>3, <3>1
    <3>3. Alternates(q, i) /\ q[i].kind = "switch" /\ q[i].what \in VMs
          /\ (q[i].state => q[i].time <= now + CrashDuration) /\ (~q[i].state => q[i].time <= now)
      BY <3>2 DEF Shape
    <3>4. Alternates(r, p[i])
      BY <1>1, <3>3, StillAlternates DEF Redrawn
    <3>5. q[i].time \in Nat
      BY <1>1, <3>2
    <3> QED BY <1>1, <3>1, <3>2, <3>3, <3>4, <3>5
  <2> QED BY <2>1, <2>2, <2>3
<1>5. ASSUME NEW l \in DOMAIN r, NEW m \in DOMAIN r, l < m, r[l].state, r[m].state
      PROVE  r[l].time <= r[m].time
  <2>1. l # f /\ m # f /\ l # n
    BY <1>1, <1>5 DEF Redrawn
  <2>2. PICK i \in old : p[i] = l
    BY <1>3, <2>1
  <2>3. i \in DOMAIN q /\ q[i].state /\ r[l] = q[i]
    BY <1>3, <1>5, <2>2
  <2>4. CASE m = n
    <3>1. q[i].time <= now + CrashDuration /\ q[i].time \in Nat
      BY <1>1, <2>3 DEF Shape
    <3> QED BY <1>1, <1>2, <2>3, <2>4, <3>1
  <2>5. CASE m # n
    <3>1. PICK j \in old : p[j] = m
      BY <1>3, <2>1, <2>5
    <3>2. j \in DOMAIN q /\ q[j].state /\ r[m] = q[j]
      BY <1>3, <1>5, <3>1
    <3>3. i < j
      <4>1. i \in Nat /\ j \in Nat /\ l \in Nat /\ m \in Nat
        BY <1>1, <2>3, <3>2
      <4>2. (j < i => m < l) /\ (i = j => l = m)
        BY <1>3, <2>2, <3>1
      <4> QED BY <1>5, <4>1, <4>2
    <3> QED BY <2>3, <3>2, <3>3 DEF Shape
  <2> QED BY <2>4, <2>5
<1>6. ASSUME NEW w \in VMs PROVE EndsOn(r, w)
  <2>1. CASE w = v
    BY <1>1, <1>2, <2>1 DEF EndsOn
  <2>2. CASE w # v
    <3>1. \A m \in DOMAIN r : r[m].what = w => \E i \in old : p[i] = m /\ q[i].what = w
      BY <1>2, <1>3, <2>2 DEF Redrawn
    <3>2. CASE \A i \in DOMAIN q : q[i].what # w
      BY <1>3, <3>1, <3>2 DEF EndsOn
    <3>3. ASSUME NEW k \in DOMAIN q, q[k].what = w, q[k].state,
                 \A i \in DOMAIN q : q[i].what = w => i <= k
          PROVE  EndsOn(r, w)
      <4>1. k \in old
        BY <2>2, <3>3 DEF Redrawn, Survive
      <4>2. p[k] \in DOMAIN r /\ r[p[k]].what = w /\ r[p[k]].state
        BY <1>3, <3>3, <4>1
      <4>3. ASSUME NEW m \in DOMAIN r, r[m].what = w PROVE m <= p[k]
        <5>1. PICK i \in old : p[i] = m /\ q[i].what = w
          BY <3>1, <4>3
        <5>2. i <= k /\ i \in Nat /\ k \in Nat /\ p[k] \in Nat /\ m \in Nat
          BY <1>1, <1>3, <3>3, <4>2, <5>1
        <5>3. (i < k => m < p[k]) /\ (i = k => m = p[k])
          BY <1>3, <4>1, <5>1
        <5> QED BY <5>2, <5>3
      <4> QED BY <4>2, <4>3 DEF EndsOn
    <3> QED BY <3>2, <3>3 DEF Shape, EndsOn
  <2> QED BY <2>1, <2>2
<1> QED BY <1>4, <1>5, <1>6 DEF Shape

(* The VM is suspended by the queue when it should be. *)
LEMMA RedrawnAsDrawn ==
  ASSUME NEW q \in Seq(Events), NEW now \in Nat, Shape(q, now), NEW v \in VMs,
         NEW t \in Nat, now < t, NEW r, NEW old, NEW p, NEW f, Redrawn(q, r, old, p, v, t, f),
         NEW draws \in SUBSET (Nat \X (Hosts \cup VMs)), AsDrawn(q, draws),
         \A d \in draws : d[2] \in VMs => d[1] <= now
  PROVE  AsDrawn(r, draws \cup {<<t, v>>})
<1> DEFINE n == Len(r)
<1>1. /\ r \in Seq(Events) /\ n \in Nat /\ n >= 1 /\ DOMAIN r = 1..n /\ n \in DOMAIN r
      /\ f \in DOMAIN r /\ f < n
      /\ \A i \in DOMAIN r : r[i] \in Events /\ r[i].time \in Nat
      /\ \A i \in DOMAIN q : i \in Nat /\ q[i].time \in Nat
      /\ CrashDuration \in Nat \ {0} /\ Duration \in Nat \ {0}
  <2>1. r \in Seq(Events) /\ n >= 1 /\ f \in DOMAIN r /\ f < n
    BY DEF Redrawn
  <2>2. n \in Nat /\ DOMAIN r = 1..n
    BY <2>1, EventTypes
  <2>3. n \in DOMAIN r
    BY <2>1, <2>2
  <2>4. \A i \in DOMAIN r : r[i] \in Events /\ r[i].time \in Nat
    BY <2>1, EventTypes
  <2>5. \A i \in DOMAIN q : i \in Nat /\ q[i].time \in Nat
    BY EventTypes
  <2> QED BY <2>1, <2>2, <2>3, <2>4, <2>5, Durations
<1>2. /\ r[n].time = t + CrashDuration /\ r[n].what = v /\ r[n].state /\ r[n].kind = "switch"
  <2>1. r[n] = Switch(t + CrashDuration, v, TRUE)
    BY DEF Redrawn
  <2> QED BY <2>1 DEF Switch
<1>3. /\ Survive(q, r, old, p, v)
      /\ r[f].what = v /\ ~r[f].state /\ r[f].kind = "switch" /\ r[f].time <= t
      /\ \A m \in DOMAIN r : r[m].what = v => m <= f \/ m = n
      /\ \A m \in DOMAIN r : (\E i \in old : p[i] = m) \/ (r[m].what = v /\ r[m].time >= t)
      /\ \A k \in DOMAIN q \ old : q[k].what = v /\ q[k].time >= t
  BY DEF Redrawn, Survive
<1> HIDE DEF n
<1> SUFFICES ASSUME NEW w \in VMs, NEW u \in 0..(Duration - 1)
             PROVE  LastOf(r, w, u) <=> OutBy(draws \cup {<<t, v>>}, w, u)
  BY DEF AsDrawn
<1>4. u \in Nat /\ (LastOf(q, w, u) <=> OutBy(draws, w, u))
  BY <1>1 DEF AsDrawn
<1>5. OutBy(draws \cup {<<t, v>>}, w, u) <=>
        OutBy(draws, w, u) \/ (v = w /\ t <= u /\ u < t + CrashDuration)
  <2> DEFINE new == <<t, v>>
  <2>1. new[1] = t /\ new[2] = v
    OBVIOUS
  <2> HIDE DEF new
  <2>2. OutBy(draws \cup {new}, w, u) <=>
          OutBy(draws, w, u) \/ (new[2] = w /\ new[1] <= u /\ u < new[1] + CrashDuration)
    BY DEF OutBy
  <2> QED BY <2>1, <2>2 DEF new
<1>6. CASE w # v \/ u < t
  <2>1. \A m \in DOMAIN r : (\E i \in old : p[i] = m) \/ m \notin UpTo(r, w, u)
    <3> SUFFICES ASSUME NEW m \in DOMAIN r, m \in UpTo(r, w, u), r[m].what = v, r[m].time >= t
                 PROVE  FALSE
      BY <1>3
    <3> QED BY <1>1, <1>4, <1>6 DEF UpTo
  <2>2. \A k \in DOMAIN q : k \in old \/ k \notin UpTo(q, w, u)
    <3> SUFFICES ASSUME NEW k \in DOMAIN q, k \in UpTo(q, w, u), q[k].what = v, q[k].time >= t
                 PROVE  FALSE
      BY <1>3
    <3> QED BY <1>1, <1>4, <1>6 DEF UpTo
  <2>3. LastOf(r, w, u) <=> LastOf(q, w, u)
    BY <1>1, <1>3, <1>4, <2>1, <2>2, StillLast
  <2>4. ~(v = w /\ t <= u)
    BY <1>4, <1>6
  <2> QED BY <1>4, <1>5, <2>3, <2>4
<1>7. CASE w = v /\ t <= u /\ u < t + CrashDuration
  <2>1. f \in UpTo(r, w, u)
    BY <1>1, <1>3, <1>4, <1>7 DEF UpTo
  <2>2. ASSUME NEW m \in UpTo(r, w, u) PROVE m <= f
    <3>1. m # n
      BY <1>1, <1>2, <1>4, <1>7, <2>2 DEF UpTo
    <3> QED BY <1>3, <1>7, <2>2, <3>1 DEF UpTo
  <2>3. LastOf(r, w, u)
    BY <1>3, <2>1, <2>2 DEF LastOf
  <2> QED BY <1>5, <1>7, <2>3
<1>8. CASE w = v /\ t + CrashDuration <= u
  <2>1. n \in UpTo(r, w, u)
    BY <1>1, <1>2, <1>4, <1>8 DEF UpTo
  <2>2. \A m \in UpTo(r, w, u) : m <= n /\ m \in Nat
    BY <1>1 DEF UpTo
  <2>3. ~LastOf(r, w, u)
    <3> SUFFICES ASSUME NEW m \in UpTo(r, w, u), ~r[m].state, n <= m PROVE FALSE
      BY <2>1 DEF LastOf
    <3>1. m = n
      BY <1>1, <2>2
    <3> QED BY <1>2, <3>1
  <2>4. ~OutBy(draws, w, u)
    <3> SUFFICES ASSUME NEW d \in draws, d[2] = w, u < d[1] + CrashDuration PROVE FALSE
      BY DEF OutBy
    <3>1. d[1] <= now /\ d[1] \in Nat
      OBVIOUS
    <3> QED BY <1>1, <1>4, <1>8, <3>1
  <2>5. ~(u < t + CrashDuration)
    BY <1>1, <1>4, <1>8
  <2> QED BY <1>5, <2>3, <2>4, <2>5
<1>9. u < t \/ (t <= u /\ u < t + CrashDuration) \/ t + CrashDuration <= u
  BY <1>1, <1>4
<1> QED BY <1>6, <1>7, <1>8, <1>9

(* The last resumption of v is before t, if there is any: a suspension is    *)
(* added, and another resumption.                                            *)
LEMMA Suspended ==
  ASSUME NEW q \in Seq(Events), NEW now \in Nat, Shape(q, now), NEW v \in VMs,
         NEW t \in Nat, now < t, ToTurnOn(q, v, t) = {}
  PROVE  LET r == Append(Append(q, Switch(t, v, FALSE)), Switch(t + CrashDuration, v, TRUE))
         IN \E old, p, f : Redrawn(q, r, old, p, v, t, f)
<1> DEFINE a == Switch(t, v, FALSE)
           b == Switch(t + CrashDuration, v, TRUE)
           r == Append(Append(q, a), b)
           n == Len(q)
           old == DOMAIN q
           p == [i \in old |-> i]
<1>1. /\ a \in Events /\ b \in Events /\ a.time = t /\ a.what = v /\ ~a.state /\ a.kind = "switch"
      /\ b.what = v /\ b.state
  <2>1. t + CrashDuration \in Nat /\ v \in Hosts \cup VMs
    BY Durations
  <2>2. a \in Events /\ b \in Events
    BY <2>1 DEF Switch, Events
  <2> QED BY <2>2 DEF Switch
<1>2. b.time = t + CrashDuration
  BY DEF Switch
<1> HIDE DEF a, b
<1>3. /\ n \in Nat /\ DOMAIN q = 1..n /\ r \in Seq(Events) /\ Len(r) = n + 2 /\ DOMAIN r = 1..(n + 2)
      /\ \A i \in 1..n : r[i] = q[i]
      /\ r[n + 1] = a /\ r[n + 2] = b
  BY <1>1
<1> HIDE DEF r, n
<1>4. /\ old \subseteq DOMAIN q /\ p \in [old -> DOMAIN r]
      /\ \A i \in old : p[i] = i /\ i \in 1..n
  BY <1>3
<1>5. \A m \in DOMAIN r : m \in 1..n \/ m = n + 1 \/ m = n + 2
  BY <1>3
<1> HIDE DEF p
<1>6. Survive(q, r, old, p, v)
  <2>1. \A m \in DOMAIN r : (\E i \in old : p[i] = m) \/ (r[m].what = v /\ \A i \in old : p[i] < m)
    BY <1>1, <1>3, <1>4, <1>5
  <2> QED BY <1>3, <1>4, <2>1 DEF Survive
<1>7. \A m \in DOMAIN r : (\E i \in old : p[i] = m) \/ (m \in {n + 1, n + 2} /\ r[m].time >= t)
  BY <1>1, <1>2, <1>3, <1>4, <1>5, Durations
<1>8. Alternates(r, n + 1)
  <2>1. CASE \A i \in DOMAIN q : q[i].what # v
    <3>1. \A m \in DOMAIN r : m # n + 1 /\ r[m].what = v => m > n + 1
      BY <1>1, <1>3, <1>5, <2>1
    <3> QED BY <1>1, <1>3, <3>1 DEF Alternates
  <2>2. ASSUME NEW k \in DOMAIN q, q[k].what = v, q[k].state,
               \A i \in DOMAIN q : q[i].what = v => i <= k
        PROVE  Alternates(r, n + 1)
    <3>1. \A j \in k..Len(q) : j \in DOMAIN q /\ (j = k \/ k < j)
      BY <1>3, <2>2 DEF n
    <3>2. \A j \in k..Len(q) : q[j].state => q[j].time >= q[k].time
      <4>1. \A j \in DOMAIN q : q[j].time \in Nat
        BY EventTypes
      <4> QED BY <2>2, <3>1, <4>1 DEF Shape
    <3>3. q[k].time < t
      <4> SUFFICES ASSUME ~(q[k].time < t) PROVE FALSE
        OBVIOUS
      <4>1. \A j \in DOMAIN q : q[j].time \in Nat
        BY EventTypes
      <4>2. \A j \in k..Len(q) : q[j].state => q[j].time >= t
        BY <3>1, <3>2, <4>1
      <4>3. k \in ToTurnOn(q, v, t)
        BY <2>2, <4>2 DEF ToTurnOn
      <4> QED BY <4>3
    <3>4. k \in DOMAIN r /\ k < n + 1 /\ r[k] = q[k] /\ r[k].what = v
      BY <1>3, <2>2
    <3>5. \A m \in DOMAIN r : m # n + 1 /\ r[m].what = v => m <= k \/ m > n + 1
      BY <1>3, <1>5, <2>2
    <3> QED BY <1>1, <1>3, <2>2, <3>3, <3>4, <3>5 DEF Alternates
  <2> QED BY <2>1, <2>2 DEF Shape, EndsOn
<1>9. \A m \in DOMAIN r : r[m].what = v => m <= n + 1 \/ m = n + 2
  BY <1>3, <1>5
<1>10. Redrawn(q, r, old, p, v, t, n + 1)
  <2>1. n + 1 \in DOMAIN r /\ n + 1 < Len(r) /\ Len(r) >= 1 /\ t <= t
    BY <1>3
  <2> QED BY <1>1, <1>3, <1>6, <1>7, <1>8, <1>9, <2>1 DEF Redrawn, b
<1> QED BY <1>10 DEF r, a, b

(* Otherwise the last resumption of v is due at t or later: it is removed,   *)
(* and another one takes its place.                                          *)
LEMMA SuspendedLonger ==
  ASSUME NEW q \in Seq(Events), NEW now \in Nat, Shape(q, now), NEW v \in VMs,
         NEW t \in Nat, now < t, NEW k \in ToTurnOn(q, v, t),
         \A i \in ToTurnOn(q, v, t) : i <= k
  PROVE  LET r == Append(RemoveAt(q, k), Switch(t + CrashDuration, v, TRUE))
         IN \E old, p, f : Redrawn(q, r, old, p, v, t, f)
<1> DEFINE b == Switch(t + CrashDuration, v, TRUE)
           r == Append(RemoveAt(q, k), b)
           n == Len(q)
           old == DOMAIN q \ {k}
           p == [i \in old |-> IF i < k THEN i ELSE i - 1]
<1>1. b \in Events /\ b.what = v /\ b.state
  <2>1. t + CrashDuration \in Nat /\ v \in Hosts \cup VMs
    BY Durations
  <2>2. b \in Events
    BY <2>1 DEF Switch, Events
  <2> QED BY <2>2 DEF Switch
<1>2. b.time = t + CrashDuration
  BY DEF Switch
<1> HIDE DEF b
<1>3. /\ n \in Nat /\ DOMAIN q = 1..n /\ k \in 1..n
      /\ q[k].what = v /\ q[k].state /\ q[k].time >= t
      /\ \A i \in DOMAIN q : q[i].time \in Nat
  <2>1. k \in DOMAIN q /\ k \in k..Len(q)
    BY EventTypes DEF ToTurnOn
  <2> QED BY <2>1, EventTypes DEF ToTurnOn
<1>4. \A i \in DOMAIN q : q[i].what = v => i <= k
  <2>1. PICK l \in DOMAIN q : /\ q[l].what = v /\ q[l].state
                              /\ \A i \in DOMAIN q : q[i].what = v => i <= l
    BY <1>3 DEF Shape, EndsOn
  <2>2. k <= l /\ l \in Nat /\ k \in Nat
    BY <1>3, <2>1
  <2>3. \A j \in k..Len(q) : q[j].state => q[j].time >= t
    BY DEF ToTurnOn
  <2>4. \A j \in l..Len(q) : j \in k..Len(q)
    BY <1>3, <2>2 DEF n
  <2>5. l \in ToTurnOn(q, v, t)
    BY <2>1, <2>3, <2>4 DEF ToTurnOn
  <2> QED BY <2>1, <2>2, <2>5, <1>3
<1>5. PICK j \in DOMAIN q :
        /\ j < k /\ q[j].what = v /\ ~q[j].state
        /\ \A i \in DOMAIN q : i # k /\ q[i].what = v => i <= j
  <2>1. Alternates(q, k)
    BY <1>3 DEF Shape
  <2>2. PICK j \in DOMAIN q :
          /\ j # k /\ q[j].what = v /\ j < k /\ q[j].state # q[k].state
          /\ \A i \in DOMAIN q : i # k /\ q[i].what = v => i <= j \/ i > k
    BY <1>3, <2>1 DEF Alternates
  <2>3. ~q[j].state
    BY <1>3, <2>2, EventTypes
  <2>4. \A i \in DOMAIN q : i # k /\ q[i].what = v => i <= j
    BY <1>3, <1>4, <2>2
  <2> QED BY <2>2, <2>3, <2>4
<1>6. /\ r \in Seq(Events) /\ Len(r) = n /\ DOMAIN r = 1..n /\ r[n] = b
      /\ \A i \in 1..(n - 1) : r[i] = IF i < k THEN q[i] ELSE q[i + 1]
  <2> DEFINE c == RemoveAt(q, k)
  <2>1. /\ c \in Seq(Events) /\ Len(c) = n - 1
        /\ \A i \in 1..(n - 1) : c[i] = IF i < k THEN q[i] ELSE q[i + 1]
    BY <1>3, RemoveAtType
  <2> HIDE DEF c
  <2>2. /\ Append(c, b) \in Seq(Events) /\ Len(Append(c, b)) = Len(c) + 1
        /\ \A i \in 1..Len(c) : Append(c, b)[i] = c[i]
        /\ Append(c, b)[Len(c) + 1] = b
    BY <1>1, <2>1
  <2>3. Len(c) + 1 = n /\ r = Append(c, b)
    BY <1>3, <2>1 DEF c
  <2> HIDE DEF r, n
  <2>4. DOMAIN r = 1..Len(r)
    BY <2>2, <2>3
  <2> QED BY <2>1, <2>2, <2>3, <2>4
<1> HIDE DEF r, n
<1>7. /\ old \subseteq DOMAIN q
      /\ \A i \in old : i \in 1..n /\ i # k /\ (i < k => p[i] = i) /\ (~(i < k) => p[i] = i - 1)
  BY <1>3
<1> HIDE DEF p
<1>8. /\ \A i \in old : p[i] \in 1..(n - 1) /\ r[p[i]] = q[i]
      /\ \A i, l \in old : i < l => p[i] < p[l]
  <2>1. ASSUME NEW i \in old PROVE p[i] \in 1..(n - 1) /\ r[p[i]] = q[i]
    <3>1. CASE i < k
      <4>1. p[i] = i /\ i \in 1..(n - 1)
        BY <1>3, <1>7, <3>1
      <4> QED BY <1>6, <3>1, <4>1
    <3>2. CASE ~(i < k)
      <4>1. p[i] = i - 1 /\ i - 1 \in 1..(n - 1) /\ ~(i - 1 < k) /\ i - 1 + 1 = i
        BY <1>3, <1>7, <3>2
      <4> QED BY <1>6, <4>1
    <3> QED BY <3>1, <3>2
  <2>2. ASSUME NEW i \in old, NEW l \in old, i < l PROVE p[i] < p[l]
    BY <1>3, <1>7, <2>2
  <2> QED BY <2>1, <2>2
<1>9. \A m \in 1..(n - 1) : \E i \in old : p[i] = m
  <2> SUFFICES ASSUME NEW m \in 1..(n - 1) PROVE \E i \in old : p[i] = m
    OBVIOUS
  <2>1. CASE m < k
    <3>1. m \in old
      BY <1>3, <2>1
    <3> QED BY <1>7, <2>1, <3>1
  <2>2. CASE ~(m < k)
    <3>1. m + 1 \in old /\ ~(m + 1 < k) /\ m + 1 - 1 = m
      BY <1>3, <2>2
    <3>2. p[m + 1] = m
      BY <1>7, <3>1
    <3> QED BY <3>1, <3>2
  <2> QED BY <2>1, <2>2
<1>10. \A m \in DOMAIN r : m \in 1..(n - 1) \/ m = n
  BY <1>3, <1>6
<1>11. Survive(q, r, old, p, v)
  <2>1. p \in [old -> DOMAIN r]
    <3>1. \A i \in old : p[i] \in DOMAIN r
      BY <1>3, <1>6, <1>8
    <3> QED BY <3>1 DEF p
  <2>2. \A m \in DOMAIN r : (\E i \in old : p[i] = m) \/ (r[m].what = v /\ \A i \in old : p[i] < m)
    <3>1. \A i \in old : p[i] < n
      BY <1>3, <1>8
    <3> QED BY <1>1, <1>6, <1>9, <1>10, <3>1
  <2>3. \A l \in DOMAIN q \ old : q[l].what = v /\ \A i \in old : q[i].what = v => i < l
    <3>1. \A l \in DOMAIN q \ old : l = k
      OBVIOUS
    <3>2. \A i \in old : q[i].what = v => i < k
      BY <1>3, <1>4, <1>7
    <3> QED BY <1>3, <3>1, <3>2
  <2> QED BY <1>7, <1>8, <2>1, <2>2, <2>3 DEF Survive
<1>12. /\ j \in old /\ p[j] = j /\ j \in 1..(n - 1) /\ r[j] = q[j] /\ j < n
  BY <1>3, <1>5, <1>7, <1>8
<1>13. Alternates(r, j)
  <2>1. Alternates(q, j)
    BY DEF Shape
  <2>2. Alternates(r, p[j])
    BY <1>6, <1>11, <1>12, <2>1, StillAlternates
  <2> QED BY <1>12, <2>2
<1>14. \A m \in DOMAIN r : r[m].what = v => m <= j \/ m = n
  <2> SUFFICES ASSUME NEW m \in 1..(n - 1), r[m].what = v PROVE m <= j
    BY <1>10
  <2>1. PICK i \in old : p[i] = m
    BY <1>9
  <2>2. i <= j /\ i < k
    BY <1>3, <1>5, <1>7, <1>8, <2>1
  <2> QED BY <1>7, <2>1, <2>2
<1>15. q[j].time <= t /\ q[j].kind = "switch"
  <2>1. q[j].time <= now /\ q[j].kind = "switch"
    BY <1>5 DEF Shape
  <2> QED BY <1>3, <2>1
<1>16. Redrawn(q, r, old, p, v, t, j)
  <2>1. \A m \in DOMAIN r : (\E i \in old : p[i] = m) \/ (m \in {j, Len(r)} /\ r[m].time >= t)
    BY <1>2, <1>6, <1>9, <1>10, Durations
  <2>2. \A l \in DOMAIN q \ old : q[l].time >= t
    BY <1>3
  <2>3. Len(r) >= 1 /\ r[Len(r)] = b /\ j \in DOMAIN r /\ j < Len(r)
    BY <1>3, <1>6, <1>12
  <2>4. r[j].what = v /\ ~r[j].state /\ r[j].kind = "switch" /\ r[j].time <= t
    BY <1>5, <1>12, <1>15
  <2>5. \A m \in DOMAIN r : r[m].what = v => m <= j \/ m = Len(r)
    BY <1>6, <1>14
  <2> QED BY <1>6, <1>11, <1>13, <2>1, <2>2, <2>3, <2>4, <2>5 DEF Redrawn, b
<1> QED BY <1>16 DEF r, b

LEMMA PostponedRedrawn ==
  ASSUME NEW q \in Seq(Events), NEW now \in Nat, Shape(q, now), NEW v \in VMs,
         NEW t \in Nat, now < t
  PROVE  LET r == Append(Postponed(q, v, t), Switch(t + CrashDuration, v, TRUE))
         IN \E old, p, f : Redrawn(q, r, old, p, v, t, f)
<1>1. CASE ToTurnOn(q, v, t) = {}
  <2>1. Postponed(q, v, t) = Append(q, Switch(t, v, FALSE))
    BY <1>1 DEF Postponed
  <2> QED BY <1>1, <2>1, Suspended
<1>2. CASE ToTurnOn(q, v, t) # {}
  <2> DEFINE S == ToTurnOn(q, v, t)
  <2>1. PICK k \in S : \A i \in S : i <= k
    <3>1. PICK i \in S : TRUE
      BY <1>2
    <3>2. i \in DOMAIN q /\ q[i].what = v /\ q[i].state /\ \A j \in i..Len(q) : q[j].state => q[j].time >= t
      BY DEF ToTurnOn
    <3>3. PICK l \in DOMAIN q : /\ q[l].what = v /\ q[l].state
                                /\ \A j \in DOMAIN q : q[j].what = v => j <= l
      BY <3>2 DEF Shape, EndsOn
    <3>4. \A j \in l..Len(q) : j \in i..Len(q)
      BY <3>2, <3>3, EventTypes
    <3>5. l \in S
      BY <3>2, <3>3, <3>4 DEF ToTurnOn
    <3> QED BY <3>3, <3>5 DEF ToTurnOn
  <2> DEFINE c == CHOOSE i \in S : \A j \in S : j <= i
  <2>2. c \in S /\ \A j \in S : j <= c
    BY <2>1
  <2>3. Postponed(q, v, t) = RemoveAt(q, c)
    BY <1>2 DEF Postponed
  <2> HIDE DEF c
  <2> QED BY <2>2, <2>3, SuspendedLonger
<1> QED BY <1>1, <1>2

-----------------------------------------------------------------------------
FluctuationsInv ==
  /\ mode \in Modes /\ currentTime \in Nat
  /\ stage = "leader faults" => mode = "leader"
  /\ stage # "playing" => drawn \subseteq Nat \X (Hosts \cup VMs)
  /\ stage \in {"loads", "leader faults", "faults"} =>
       vmQueue = <<>> /\ \A d \in drawn : d[2] \notin VMs
  /\ stage = "fluctuations" =>
       /\ vmQueue \in Seq(Events) /\ Shape(vmQueue, currentTime)
       /\ AsDrawn(vmQueue, drawn)
       /\ \A d \in drawn : d[2] \in VMs => d[1] <= currentTime

LEMMA InitFluctuations == Init => FluctuationsInv
  BY DEF Init, FluctuationsInv

LEMMA FaultKeepsFluctuations ==
  ASSUME FluctuationsInv, NEW t \in Nat, NEW h \in Hosts, Fault(t, h),
         stage \in {"leader faults", "faults"}, UNCHANGED <<mode, stage>>, currentTime' = t
  PROVE  FluctuationsInv'
<1>1. /\ drawn' = drawn \cup {<<t, h>>} /\ vmQueue' = vmQueue
      /\ stage' = stage /\ mode' = mode /\ h \notin VMs
  BY NamesAssumption DEF Fault, NamesAssumption
<1>2. drawn \subseteq Nat \X (Hosts \cup VMs) /\ vmQueue = <<>> /\ \A d \in drawn : d[2] \notin VMs
  BY DEF FluctuationsInv
<1>3. drawn' \subseteq Nat \X (Hosts \cup VMs) /\ \A d \in drawn' : d[2] \notin VMs
  <2> DEFINE new == <<t, h>>
  <2>1. new \in Nat \X (Hosts \cup VMs) /\ new[2] \notin VMs
    BY <1>1
  <2> HIDE DEF new
  <2>2. drawn' = drawn \cup {new}
    BY <1>1 DEF new
  <2> QED BY <1>2, <2>1, <2>2
<1> QED BY <1>1, <1>2, <1>3 DEF FluctuationsInv

LEMMA DrawKeepsFluctuations ==
  ASSUME FluctuationsInv, NEW t \in 1..(Duration - 1), NEW v \in VMs, DrawFluctuation(t, v)
  PROVE  FluctuationsInv'
<1>1. /\ stage = "fluctuations" /\ stage' = stage /\ mode' = mode
      /\ currentTime < t /\ currentTime' = t
      /\ vmQueue' = Append(Postponed(vmQueue, v, t), Switch(t + CrashDuration, v, TRUE))
      /\ drawn' = drawn \cup {<<t, v>>}
  BY DEF DrawFluctuation, Draw
<1>2. /\ vmQueue \in Seq(Events) /\ currentTime \in Nat /\ Shape(vmQueue, currentTime)
      /\ drawn \in SUBSET (Nat \X (Hosts \cup VMs)) /\ AsDrawn(vmQueue, drawn)
      /\ \A d \in drawn : d[2] \in VMs => d[1] <= currentTime
      /\ t \in Nat
  BY <1>1, Durations DEF FluctuationsInv
<1>3. PICK old, p, f : Redrawn(vmQueue, vmQueue', old, p, v, t, f)
  BY <1>1, <1>2, PostponedRedrawn
<1>4. Shape(vmQueue', t)
  BY <1>1, <1>2, <1>3, RedrawnShape
<1>5. AsDrawn(vmQueue', drawn')
  BY <1>1, <1>2, <1>3, RedrawnAsDrawn
<1>6. vmQueue' \in Seq(Events)
  BY <1>3 DEF Redrawn
<1>7. drawn' \subseteq Nat \X (Hosts \cup VMs) /\ \A d \in drawn' : d[2] \in VMs => d[1] <= t
  <2>1. \A d \in drawn : d[1] \in Nat
    BY <1>2
  <2> QED BY <1>1, <1>2, <2>1
<1> QED BY <1>1, <1>2, <1>4, <1>5, <1>6, <1>7 DEF FluctuationsInv

LEMMA NextQueueKeepsFluctuations ==
  ASSUME FluctuationsInv, NextQueue
  PROVE  FluctuationsInv'
<1>1. currentTime' = 0 /\ mode' = mode /\ drawn' = drawn /\ vmQueue' = vmQueue
  BY DEF NextQueue, queues
<1>2. CASE stage' \in {"leader faults", "faults"}
  <2>1. stage \in {"loads", "leader faults", "faults"} /\ (stage' = "leader faults" => mode = "leader")
    BY <1>2 DEF NextQueue
  <2> QED BY <1>1, <1>2, <2>1 DEF FluctuationsInv
<1>3. CASE stage' = "fluctuations"
  <2>1. vmQueue' = <<>> /\ drawn' \subseteq Nat \X (Hosts \cup VMs) /\ \A d \in drawn' : d[2] \notin VMs
    BY <1>1, <1>3 DEF FluctuationsInv, NextQueue
  <2>2. Shape(vmQueue', 0)
    BY <2>1 DEF Shape, EndsOn
  <2>3. AsDrawn(vmQueue', drawn')
    <3>1. \A v \in VMs, t \in 0..(Duration - 1) : ~OutBy(drawn', v, t)
      BY <2>1 DEF OutBy
    <3>2. \A v \in VMs, t \in 0..(Duration - 1) : UpTo(vmQueue', v, t) = {}
      BY <2>1 DEF UpTo
    <3> QED BY <3>1, <3>2 DEF AsDrawn, LastOf
  <2>4. vmQueue' \in Seq(Events)
    BY <2>1
  <2>5. Shape(vmQueue', currentTime') /\ \A d \in drawn' : d[2] \in VMs => d[1] <= currentTime'
    BY <1>1, <2>1, <2>2
  <2>6. mode' \in Modes /\ currentTime' \in Nat
    BY <1>1 DEF FluctuationsInv
  <2> QED BY <1>3, <2>1, <2>3, <2>4, <2>5, <2>6 DEF FluctuationsInv
<1> QED BY <1>2, <1>3 DEF NextQueue

LEMMA NextFluctuations == FluctuationsInv /\ [Next]_vars => FluctuationsInv'
<1> SUFFICES ASSUME FluctuationsInv, [Next]_vars PROVE FluctuationsInv'
  OBVIOUS
<1>1. ASSUME NEW t \in 1..(Duration - 1), NEW v \in VMs, DrawLoad(t, v) PROVE FluctuationsInv'
  <2>1. /\ stage = "loads" /\ UNCHANGED <<mode, stage, vmQueue, drawn>>
        /\ currentTime' = t /\ t \in Nat
    BY <1>1, Durations DEF DrawLoad, Draw
  <2> QED BY <2>1 DEF FluctuationsInv
<1>2. ASSUME NEW t \in 1..(Duration - 1), NEW h \in Hosts, DrawFault(t, h) PROVE FluctuationsInv'
  BY <1>2, FaultKeepsFluctuations, Durations DEF DrawFault, Draw
<1>3. CASE DrawLeaderFault
  <2>1. mode \in Modes /\ mode = "leader"
    BY <1>3 DEF DrawLeaderFault, FluctuationsInv
  <2>2. Services \in Seq(Hosts) /\ Services # <<>>
    BY <2>1, ModesAssumption, NamesAssumption DEF ModesAssumption, NamesAssumption
  <2>3. Head(Services) \in Hosts
    BY <2>2
  <2>4. currentTime' \in Nat
    <3>1. GLFaultPeriod \in Nat
      BY Durations
    <3>2. currentTime \in Nat
      BY DEF FluctuationsInv
    <3>3. currentTime' = currentTime + GLFaultPeriod
      BY <1>3 DEF DrawLeaderFault, Advance
    <3> QED BY <3>1, <3>2, <3>3
  <2> QED BY <1>3, <2>3, <2>4, FaultKeepsFluctuations DEF DrawLeaderFault, Advance
<1>4. ASSUME NEW i \in DOMAIN Services, DrawManagerFault(i) PROVE FluctuationsInv'
  <2>1. Services[i] \in Hosts
    BY NamesAssumption DEF NamesAssumption
  <2>2. currentTime' \in Nat
    BY <1>4, Durations DEF DrawManagerFault, Advance, FluctuationsInv
  <2> QED BY <1>4, <2>1, <2>2, FaultKeepsFluctuations DEF DrawManagerFault, Advance
<1>5. CASE Merge
  BY <1>5 DEF Merge, FluctuationsInv
<1>6. CASE Play
  BY <1>6 DEF Play, FluctuationsInv, queues
<1>7. CASE UNCHANGED vars
  BY <1>7 DEF vars, queues, FluctuationsInv
<1> QED BY <1>1, <1>2, <1>3, <1>4, <1>5, <1>6, <1>7, DrawKeepsFluctuations,
     NextQueueKeepsFluctuations DEF Next

(* However the suspensions that are drawn overlap, the queue suspends and    *)
(* resumes each VM in turn, and has it suspended exactly while one of them   *)
(* lasts (Injector.generateVMFluctuationQueue, ifStillSuspendedUpdate;       *)
(* EventQueues!FluctuationsAlternate).                                       *)
THEOREM FluctuationsAreInOrder == Spec => []FluctuationsAlternate
<1>1. FluctuationsInv => FluctuationsAlternate
  BY DEF FluctuationsInv, FluctuationsAlternate, Shape, AsDrawn, OutBy, Out
<1> QED BY <1>1, InitFluctuations, NextFluctuations, PTL DEF Spec

-----------------------------------------------------------------------------
(* Induction on a set of natural numbers, which stands for the property.     *)

LEMMA LeastNumber ==
  ASSUME NEW T, T \subseteq Nat, T # {}
  PROVE  \E m \in T : \A n \in T : m <= n
<1> DEFINE R == OpToRel(<, Nat)
<1>1. IsWellFoundedOn(R, Nat)
  BY NatLessThanWellFounded
<1>2. \A x, y \in Nat : x < y => <<x, y>> \in R
  BY DEF OpToRel
<1> HIDE DEF R
<1>3. PICK m \in T : \A y \in T : ~ (<<y, m>> \in R)
  BY <1>1, WFMin
<1>4. ASSUME NEW n \in T PROVE m <= n
  <2>1. m \in Nat /\ n \in Nat /\ ~(<<n, m>> \in R)
    BY <1>3
  <2>2. ~(n < m)
    BY <1>2, <2>1
  <2> QED BY <2>1, <2>2
<1> QED BY <1>4

LEMMA InductionOnSet ==
  ASSUME NEW P, \A n \in Nat : (\A k \in Nat : k < n => k \in P) => n \in P
  PROVE  Nat \subseteq P
<1> SUFFICES ASSUME Nat \ P # {} PROVE FALSE
  OBVIOUS
<1>1. PICK m \in Nat \ P : \A n \in Nat \ P : m <= n
  BY LeastNumber
<1>2. \A k \in Nat : k < m => k \in P
  BY <1>1
<1> QED BY <1>1, <1>2

-----------------------------------------------------------------------------
(* The binary search.  Recursive functions exist, and what they return is    *)
(* what their definitions say.                                               *)

Spans(q) == (0..Len(q)) \X (0..Len(q))
Found(q, e, by, f, s) ==
  LET mid == (s[1] + s[2]) \div 2
  IN IF s[1] >= s[2] THEN s[1]
     ELSE IF Compare(by, e, q[mid + 1]) < 0 THEN f[<<s[1], mid>>] ELSE f[<<mid + 1, s[2]>>]

LEMMA Middle ==
  ASSUME NEW l \in Nat, NEW r \in Nat, l < r
  PROVE  (l + r) \div 2 \in Nat /\ l <= (l + r) \div 2 /\ (l + r) \div 2 < r
  OBVIOUS

LEMMA SearchExists ==
  ASSUME NEW q, Len(q) \in Nat, NEW e, NEW by
  PROVE  \E f : f = [s \in Spans(q) |-> Found(q, e, by, f, s)]
<1> DEFINE Short(d) == {s \in Spans(q) : s[2] - s[1] <= d}
           P == {d \in Nat : \E f : f = [s \in Short(d) |-> Found(q, e, by, f, s)]}
<1>1. ASSUME NEW d \in Nat, \A k \in Nat : k < d => k \in P PROVE d \in P
  <2>1. CASE d = 0
    <3> DEFINE f == [s \in Short(0) |-> s[1]]
    <3>1. \A s \in Short(0) : s[1] >= s[2]
      BY DEF Spans
    <3>2. \A s \in Short(0) : Found(q, e, by, f, s) = s[1]
      BY <3>1 DEF Found
    <3>3. f = [s \in Short(0) |-> Found(q, e, by, f, s)]
      BY <3>2
    <3> QED BY <2>1, <3>3
  <2>2. CASE d # 0
    <3>1. d - 1 \in Nat /\ d - 1 \in P
      <4> HIDE DEF P
      <4> QED BY <1>1, <2>2
    <3>2. PICK f : f = [s \in Short(d - 1) |-> Found(q, e, by, f, s)]
      BY <3>1
    <3> DEFINE g == [s \in Short(d) |-> IF s \in Short(d - 1) THEN f[s] ELSE Found(q, e, by, f, s)]
    <3>3. ASSUME NEW s \in Short(d) PROVE Found(q, e, by, g, s) = Found(q, e, by, f, s)
      <4>1. CASE s[1] >= s[2]
        BY <4>1 DEF Found
      <4>2. CASE s[1] < s[2]
        <5> DEFINE mid == (s[1] + s[2]) \div 2
        <5>1. s[1] \in Nat /\ s[2] \in Nat /\ s[1] <= Len(q) /\ s[2] <= Len(q) /\ s[2] - s[1] <= d
          BY DEF Spans
        <5>2. mid \in Nat /\ s[1] <= mid /\ mid < s[2]
          BY <4>2, <5>1, Middle
        <5> HIDE DEF mid
        <5>3. <<s[1], mid>> \in Short(d - 1) /\ <<mid + 1, s[2]>> \in Short(d - 1)
          <6>1. /\ <<s[1], mid>> \in Spans(q) /\ mid - s[1] <= d - 1
                /\ <<mid + 1, s[2]>> \in Spans(q) /\ s[2] - (mid + 1) <= d - 1
            BY <5>1, <5>2 DEF Spans
          <6> QED BY <6>1
        <5>4. Short(d - 1) \subseteq Short(d)
          BY DEF Spans
        <5>5. g[<<s[1], mid>>] = f[<<s[1], mid>>] /\ g[<<mid + 1, s[2]>>] = f[<<mid + 1, s[2]>>]
          BY <5>3, <5>4
        <5> HIDE DEF g
        <5> QED BY <5>5 DEF Found, mid
      <4> QED BY <4>1, <4>2 DEF Spans
    <3>4. \A s \in Short(d - 1) : f[s] = Found(q, e, by, f, s)
      <4> HIDE DEF Short
      <4> QED BY <3>2
    <3>5. g = [s \in Short(d) |-> Found(q, e, by, g, s)]
      <4>1. \A s \in Short(d) : g[s] = Found(q, e, by, f, s)
        BY <3>4
      <4>2. \A s \in Short(d) : g[s] = Found(q, e, by, g, s)
        BY <3>3, <4>1
      <4> QED BY <4>2
    <3> HIDE DEF g
    <3> QED BY <3>5
  <2> QED BY <2>1, <2>2
<1>2. Len(q) \in P
  <2> HIDE DEF P
  <2> QED BY <1>1, InductionOnSet
<1>3. Short(Len(q)) = Spans(q)
  BY DEF Spans
<1> QED BY <1>2, <1>3

LEMMA SearchFinds ==
  ASSUME NEW q, Len(q) \in Nat, NEW e, NEW by, NEW s \in Spans(q)
  PROVE  Search(q, e, by)[s] = Found(q, e, by, Search(q, e, by), s)
<1> DEFINE g == CHOOSE f : f = [x \in Spans(q) |-> Found(q, e, by, f, x)]
<1>1. g = [x \in Spans(q) |-> Found(q, e, by, g, x)]
  BY SearchExists
<1>2. Search(q, e, by) = g
  BY DEF Search, Found, Spans
<1> QED BY <1>1, <1>2

(* It finds a place within the span, whatever it compares. *)
LEMMA SearchBounds ==
  ASSUME NEW q, Len(q) \in Nat, NEW e, NEW by
  PROVE  \A s \in Spans(q) : s[1] <= s[2] => Search(q, e, by)[s] \in s[1]..s[2]
<1> DEFINE P == {d \in Nat : \A s \in Spans(q) : s[1] <= s[2] /\ s[2] - s[1] = d =>
                                                   Search(q, e, by)[s] \in s[1]..s[2]}
<1>1. ASSUME NEW d \in Nat, \A k \in Nat : k < d => k \in P PROVE d \in P
  <2> SUFFICES ASSUME NEW s \in Spans(q), s[1] <= s[2], s[2] - s[1] = d
               PROVE  Search(q, e, by)[s] \in s[1]..s[2]
    OBVIOUS
  <2>1. s[1] \in Nat /\ s[2] \in Nat /\ s[1] <= Len(q) /\ s[2] <= Len(q)
    BY DEF Spans
  <2>2. Search(q, e, by)[s] = Found(q, e, by, Search(q, e, by), s)
    BY SearchFinds
  <2>3. CASE s[1] >= s[2]
    BY <2>1, <2>2, <2>3 DEF Found
  <2>4. CASE s[1] < s[2]
    <3> DEFINE mid == (s[1] + s[2]) \div 2
               a == <<s[1], mid>>
               b == <<mid + 1, s[2]>>
    <3>1. mid \in Nat /\ s[1] <= mid /\ mid < s[2]
      BY <2>1, <2>4, Middle
    <3>2. Search(q, e, by)[s] \in {Search(q, e, by)[a], Search(q, e, by)[b]}
      <4>1. ~(s[1] >= s[2])
        BY <2>1, <2>4
      <4> QED BY <2>2, <4>1, Zenon DEF Found
    <3> HIDE DEF mid
    <3>3. /\ a \in Spans(q) /\ a[1] <= a[2] /\ a[2] - a[1] \in Nat /\ a[2] - a[1] < d
          /\ b \in Spans(q) /\ b[1] <= b[2] /\ b[2] - b[1] \in Nat /\ b[2] - b[1] < d
      BY <2>1, <3>1 DEF Spans
    <3>4. Search(q, e, by)[a] \in a[1]..a[2] /\ Search(q, e, by)[b] \in b[1]..b[2]
      <4>1. a[2] - a[1] \in P /\ b[2] - b[1] \in P
        BY <1>1, <3>3
      <4> HIDE DEF a, b
      <4> QED BY <3>3, <4>1
    <3> QED BY <2>1, <3>1, <3>2, <3>4
  <2> QED BY <2>1, <2>3, <2>4
<1>2. Nat \subseteq P
  <2> HIDE DEF P
  <2> QED BY <1>1, InductionOnSet
<1> SUFFICES ASSUME NEW s \in Spans(q), s[1] <= s[2]
             PROVE  Search(q, e, by)[s] \in s[1]..s[2]
  OBVIOUS
<1>3. s[2] - s[1] \in Nat
  BY DEF Spans
<1> QED BY <1>2, <1>3

(* If the elements that e goes before are those after the first m, it is m.  *)
LEMMA SearchPlace ==
  ASSUME NEW q, Len(q) \in Nat, NEW e, NEW by, NEW m \in 0..Len(q),
         \A i \in 1..Len(q) : Compare(by, e, q[i]) < 0 <=> m < i
  PROVE  \A s \in Spans(q) : s[1] <= m /\ m <= s[2] => Search(q, e, by)[s] = m
<1> DEFINE P == {d \in Nat : \A s \in Spans(q) : s[1] <= m /\ m <= s[2] /\ s[2] - s[1] = d =>
                                                   Search(q, e, by)[s] = m}
<1>1. ASSUME NEW d \in Nat, \A k \in Nat : k < d => k \in P PROVE d \in P
  <2> SUFFICES ASSUME NEW s \in Spans(q), s[1] <= m, m <= s[2], s[2] - s[1] = d
               PROVE  Search(q, e, by)[s] = m
    OBVIOUS
  <2>1. s[1] \in Nat /\ s[2] \in Nat /\ s[1] <= Len(q) /\ s[2] <= Len(q) /\ m \in Nat
    BY DEF Spans
  <2>2. Search(q, e, by)[s] = Found(q, e, by, Search(q, e, by), s)
    BY SearchFinds
  <2>3. CASE s[1] >= s[2]
    BY <2>1, <2>2, <2>3 DEF Found
  <2>4. CASE s[1] < s[2]
    <3> DEFINE mid == (s[1] + s[2]) \div 2
               a == <<s[1], mid>>
               b == <<mid + 1, s[2]>>
    <3>1. mid \in Nat /\ s[1] <= mid /\ mid < s[2]
      BY <2>1, <2>4, Middle
    <3>2. Search(q, e, by)[s] = IF Compare(by, e, q[mid + 1]) < 0 THEN Search(q, e, by)[a]
                                                                  ELSE Search(q, e, by)[b]
      <4>1. ~(s[1] >= s[2])
        BY <2>1, <2>4
      <4> QED BY <2>2, <4>1, Zenon DEF Found
    <3> HIDE DEF mid
    <3>3. /\ a \in Spans(q) /\ a[2] - a[1] \in Nat /\ a[2] - a[1] < d
          /\ b \in Spans(q) /\ b[2] - b[1] \in Nat /\ b[2] - b[1] < d
          /\ mid + 1 \in 1..Len(q)
      BY <2>1, <3>1 DEF Spans
    <3>4. a[2] - a[1] \in P /\ b[2] - b[1] \in P
      BY <1>1, <3>3
    <3>5. Compare(by, e, q[mid + 1]) < 0 <=> m < mid + 1
      BY <3>3
    <3>6. CASE m <= mid
      <4>1. Search(q, e, by)[s] = Search(q, e, by)[a]
        BY <2>1, <3>1, <3>2, <3>5, <3>6
      <4>2. a[1] <= m /\ m <= a[2]
        BY <3>6
      <4> HIDE DEF a, b
      <4> QED BY <3>3, <3>4, <4>1, <4>2
    <3>7. CASE mid + 1 <= m
      <4>1. Search(q, e, by)[s] = Search(q, e, by)[b]
        BY <2>1, <3>1, <3>2, <3>5, <3>7
      <4>2. b[1] <= m /\ m <= b[2]
        BY <3>7
      <4> HIDE DEF a, b
      <4> QED BY <3>3, <3>4, <4>1, <4>2
    <3> QED BY <2>1, <3>1, <3>6, <3>7
  <2> QED BY <2>1, <2>3, <2>4
<1>2. Nat \subseteq P
  <2> HIDE DEF P
  <2> QED BY <1>1, InductionOnSet
<1> SUFFICES ASSUME NEW s \in Spans(q), s[1] <= m, m <= s[2]
             PROVE  Search(q, e, by)[s] = m
  OBVIOUS
<1>3. s[2] - s[1] \in Nat
  BY DEF Spans
<1> QED BY <1>2, <1>3

-----------------------------------------------------------------------------
(* What is sorted is a rearrangement of the queue.                           *)

LEMMA InsertAtType ==
  ASSUME NEW S, NEW s \in Seq(S), NEW i \in 1..(Len(s) + 1), NEW e \in S
  PROVE  /\ InsertAt(s, i, e) \in Seq(S)
         /\ Len(InsertAt(s, i, e)) = Len(s) + 1
         /\ \A j \in 1..(Len(s) + 1) :
              InsertAt(s, i, e)[j] = IF j < i THEN s[j] ELSE IF j = i THEN e ELSE s[j - 1]
<1> DEFINE a == SubSeq(s, 1, i - 1)
           b == SubSeq(s, i, Len(s))
           n == Len(s)
<1>0. n \in Nat /\ i \in Nat /\ 1 <= i /\ i <= n + 1
  OBVIOUS
<1>1. a \in Seq(S) /\ Len(a) = i - 1 /\ \A j \in 1..(i - 1) : a[j] = s[j]
  <2>1. i - 1 \in Nat /\ i - 1 <= Len(s)
    BY <1>0
  <2> QED BY <2>1, PrefixType
<1>2. b \in Seq(S) /\ Len(b) = n - (i - 1) /\ \A j \in 1..(n - (i - 1)) : b[j] = s[j + (i - 1)]
  <2>1. i - 1 \in Nat /\ i - 1 <= Len(s) /\ (i - 1) + 1 = i
    BY <1>0
  <2> QED BY <2>1, SuffixType
<1>3. <<e>> \in Seq(S) /\ Len(<<e>>) = 1 /\ <<e>>[1] = e
  OBVIOUS
<1>4. InsertAt(s, i, e) = (a \o <<e>>) \o b
  BY DEF InsertAt
<1> HIDE DEF a, b
<1> DEFINE c == a \o <<e>>
<1>5. c \in Seq(S) /\ Len(c) = i /\ (\A j \in 1..(i - 1) : c[j] = s[j]) /\ c[i] = e
  <2>1. /\ c \in Seq(S) /\ Len(c) = Len(a) + 1
        /\ \A j \in 1..Len(a) : c[j] = a[j]
        /\ c[Len(a) + 1] = e
    BY <1>1, <1>3, ConcatParts
  <2> HIDE DEF c
  <2> QED BY <1>0, <1>1, <2>1
<1> HIDE DEF c
<1>6. /\ c \o b \in Seq(S) /\ Len(c \o b) = i + (n - (i - 1))
      /\ \A j \in 1..i : (c \o b)[j] = c[j]
      /\ \A j \in 1..(n - (i - 1)) : (c \o b)[i + j] = b[j]
  BY <1>2, <1>5, ConcatParts
<1>7. i + (n - (i - 1)) = n + 1
  BY <1>0
<1>8. ASSUME NEW j \in 1..(n + 1)
      PROVE  (c \o b)[j] = IF j < i THEN s[j] ELSE IF j = i THEN e ELSE s[j - 1]
  <2>1. CASE j < i
    <3>1. j \in 1..i /\ j \in 1..(i - 1)
      BY <1>0, <2>1
    <3> QED BY <1>5, <1>6, <2>1, <3>1
  <2>2. CASE j = i
    <3>1. j \in 1..i
      BY <1>0, <2>2
    <3> QED BY <1>0, <1>5, <1>6, <2>2, <3>1
  <2>3. CASE j > i
    <3> DEFINE k == j - i
    <3>1. k \in 1..(n - (i - 1)) /\ i + k = j /\ k + (i - 1) = j - 1 /\ ~(j < i) /\ j # i
      BY <1>0, <2>3
    <3> HIDE DEF k
    <3>2. (c \o b)[i + k] = s[k + (i - 1)]
      BY <1>2, <1>6, <3>1
    <3> QED BY <3>1, <3>2
  <2>4. j < i \/ j = i \/ j > i
    <3>1. j \in Nat /\ i \in Nat
      BY <1>0
    <3> QED BY <3>1
  <2> QED BY <2>1, <2>2, <2>3, <2>4
<1> QED BY <1>4, <1>6, <1>7, <1>8 DEF c

(* p tells where the first n elements of q are in r. *)
Places(r, q, n, p) ==
  /\ p \in [1..n -> 1..n]
  /\ \A i, j \in 1..n : p[i] = p[j] => i = j
  /\ \A k \in 1..n : \E i \in 1..n : p[i] = k
  /\ \A i \in 1..n : r[p[i]] = q[i]

Rearranged(r, q, n) ==
  /\ r \in Seq(Events) /\ Len(r) = n
  /\ \E p : Places(r, q, n, p)

LEMMA InsertedType ==
  ASSUME NEW r \in Seq(Events), NEW e \in Events, NEW by
  PROVE  /\ InsertionPoint(r, e, by) \in 0..Len(r)
         /\ Inserted(r, e, by) \in Seq(Events) /\ Len(Inserted(r, e, by)) = Len(r) + 1
         /\ \A j \in 1..(Len(r) + 1) :
              Inserted(r, e, by)[j] =
                LET m == InsertionPoint(r, e, by)
                IN IF j <= m THEN r[j] ELSE IF j = m + 1 THEN e ELSE r[j - 1]
<1> DEFINE m == InsertionPoint(r, e, by)
<1>1. m \in 0..Len(r)
  <2> DEFINE s == <<0, Len(r)>>
  <2>1. Len(r) \in Nat /\ s \in Spans(r) /\ s[1] = 0 /\ s[2] = Len(r) /\ s[1] <= s[2]
    BY DEF Spans
  <2>2. m = Search(r, e, by)[s]
    BY DEF InsertionPoint
  <2> HIDE DEF s, m
  <2>3. Search(r, e, by)[s] \in s[1]..s[2]
    BY <2>1, SearchBounds
  <2> QED BY <2>1, <2>2, <2>3
<1>2. Inserted(r, e, by) = InsertAt(r, m + 1, e)
  BY DEF Inserted
<1> HIDE DEF m
<1>3. m + 1 \in 1..(Len(r) + 1) /\ \A j \in 1..(Len(r) + 1) : j < m + 1 <=> j <= m
  BY <1>1
<1>4. /\ InsertAt(r, m + 1, e) \in Seq(Events)
      /\ Len(InsertAt(r, m + 1, e)) = Len(r) + 1
      /\ \A j \in 1..(Len(r) + 1) :
           InsertAt(r, m + 1, e)[j] = IF j < m + 1 THEN r[j] ELSE IF j = m + 1 THEN e ELSE r[j - 1]
  <2>1. \A i \in 1..(Len(r) + 1) :
          /\ InsertAt(r, i, e) \in Seq(Events)
          /\ Len(InsertAt(r, i, e)) = Len(r) + 1
          /\ \A j \in 1..(Len(r) + 1) :
               InsertAt(r, i, e)[j] = IF j < i THEN r[j] ELSE IF j = i THEN e ELSE r[j - 1]
    BY InsertAtType
  <2> QED BY <1>3, <2>1
<1>5. \A j \in 1..(Len(r) + 1) :
        Inserted(r, e, by)[j] = IF j <= m THEN r[j] ELSE IF j = m + 1 THEN e ELSE r[j - 1]
  BY <1>2, <1>3, <1>4
<1> QED BY <1>1, <1>2, <1>4, <1>5 DEF m

LEMMA InsertedRearranged ==
  ASSUME NEW q \in Seq(Events), NEW k \in Nat, k + 1 <= Len(q), NEW r, Rearranged(r, q, k), NEW by
  PROVE  Rearranged(Inserted(r, q[k + 1], by), q, k + 1)
<1> DEFINE e == q[k + 1]
           m == InsertionPoint(r, e, by)
           s == Inserted(r, e, by)
<1>1. r \in Seq(Events) /\ Len(r) = k /\ e \in Events
  <2>1. k + 1 \in 1..Len(q)
    OBVIOUS
  <2> QED BY <2>1 DEF Rearranged
<1> HIDE DEF e
<1>2. /\ m \in 0..k /\ s \in Seq(Events) /\ Len(s) = k + 1
      /\ \A j \in 1..(k + 1) : s[j] = IF j <= m THEN r[j] ELSE IF j = m + 1 THEN e ELSE r[j - 1]
  BY <1>1, InsertedType
<1> HIDE DEF m, s
<1>3. PICK p : Places(r, q, k, p)
  BY DEF Rearranged
<1> DEFINE o == [i \in 1..(k + 1) |-> IF i = k + 1 THEN m + 1 ELSE IF p[i] <= m THEN p[i] ELSE p[i] + 1]
<1>4. ASSUME NEW i \in 1..k
      PROVE  /\ p[i] \in 1..k /\ i \in 1..(k + 1) /\ i # k + 1
             /\ o[i] \in 1..(k + 1) /\ o[i] # m + 1 /\ s[o[i]] = q[i]
             /\ p[i] = IF o[i] <= m THEN o[i] ELSE o[i] - 1
  <2>1. p[i] \in 1..k /\ r[p[i]] = q[i] /\ i \in 1..(k + 1) /\ i # k + 1
    BY <1>3 DEF Places
  <2>2. o[i] = IF p[i] <= m THEN p[i] ELSE p[i] + 1
    BY <2>1
  <2> HIDE DEF o
  <2>3. CASE p[i] <= m
    BY <1>2, <2>1, <2>2, <2>3
  <2>4. CASE p[i] > m
    <3>1. o[i] = p[i] + 1 /\ o[i] \in 1..(k + 1) /\ ~(o[i] <= m) /\ o[i] # m + 1 /\ o[i] - 1 = p[i]
      BY <1>2, <2>1, <2>2, <2>4
    <3> QED BY <1>2, <2>1, <3>1
  <2> QED BY <1>2, <2>1, <2>3, <2>4
<1>5. o[k + 1] = m + 1 /\ s[m + 1] = e /\ m + 1 \in 1..(k + 1)
  BY <1>2
<1>6. o \in [1..(k + 1) -> 1..(k + 1)]
  <2>1. \A i \in 1..(k + 1) : o[i] \in 1..(k + 1)
    <3> SUFFICES ASSUME NEW i \in 1..(k + 1) PROVE o[i] \in 1..(k + 1)
      OBVIOUS
    <3>1. i \in 1..k \/ i = k + 1
      OBVIOUS
    <3> HIDE DEF o
    <3> QED BY <1>4, <1>5, <3>1
  <2> QED BY <2>1
<1> HIDE DEF o
<1>7. \A i, j \in 1..(k + 1) : o[i] = o[j] => i = j
  <2> SUFFICES ASSUME NEW i \in 1..(k + 1), NEW j \in 1..(k + 1), o[i] = o[j] PROVE i = j
    OBVIOUS
  <2>1. (i \in 1..k \/ i = k + 1) /\ (j \in 1..k \/ j = k + 1)
    OBVIOUS
  <2>2. CASE i \in 1..k /\ j \in 1..k
    <3>1. p[i] = p[j]
      BY <1>4, <2>2
    <3> QED BY <1>3, <2>2, <3>1 DEF Places
  <2> QED BY <1>4, <1>5, <2>1, <2>2
<1>8. \A n \in 1..(k + 1) : \E i \in 1..(k + 1) : o[i] = n
  <2> SUFFICES ASSUME NEW n \in 1..(k + 1) PROVE \E i \in 1..(k + 1) : o[i] = n
    OBVIOUS
  <2>1. CASE n = m + 1
    BY <1>5, <2>1
  <2>2. CASE n <= m
    <3>1. n \in 1..k
      BY <1>2, <2>2
    <3>2. PICK i \in 1..k : p[i] = n
      BY <1>3, <3>1 DEF Places
    <3>3. o[i] = n
      BY <1>2, <1>4, <2>2, <3>2
    <3> QED BY <1>4, <3>3
  <2>3. CASE n > m + 1
    <3>1. n - 1 \in 1..k
      BY <1>2, <2>3
    <3>2. PICK i \in 1..k : p[i] = n - 1
      BY <1>3, <3>1 DEF Places
    <3>3. o[i] = n
      BY <1>2, <1>4, <2>3, <3>2
    <3> QED BY <1>4, <3>3
  <2> QED BY <1>2, <2>1, <2>2, <2>3
<1>9. \A i \in 1..(k + 1) : s[o[i]] = q[i]
  <2> SUFFICES ASSUME NEW i \in 1..(k + 1) PROVE s[o[i]] = q[i]
    OBVIOUS
  <2>1. i \in 1..k \/ i = k + 1
    OBVIOUS
  <2> QED BY <1>4, <1>5, <2>1 DEF e
<1>10. Places(s, q, k + 1, o)
  BY <1>6, <1>7, <1>8, <1>9 DEF Places
<1> QED BY <1>2, <1>10 DEF Rearranged, s, e

LEMMA RunLengthType ==
  ASSUME NEW q \in Seq(Events), Len(q) >= 2, NEW by
  PROVE  /\ RunLength(q, by) \in 2..Len(q)
         /\ \A i \in 2..RunLength(q, by) :
              Compare(by, q[i], q[i - 1]) < 0 <=> Compare(by, q[2], q[1]) < 0
<1> DEFINE Falls(i) == Compare(by, q[i], q[i - 1]) < 0
           Is(n) == /\ \A i \in 2..n : Falls(i) = Falls(2)
                    /\ n < Len(q) => Falls(n + 1) # Falls(2)
           T == {n \in 2..Len(q) : n < Len(q) => Falls(n + 1) # Falls(2)}
<1>1. Len(q) \in T /\ T \subseteq Nat
  OBVIOUS
<1>2. PICK n \in T : \A k \in T : n <= k
  <2> HIDE DEF T
  <2> QED BY <1>1, LeastNumber
<1>3. ASSUME NEW i \in 2..n PROVE Falls(i) = Falls(2)
  <2>1. CASE i = 2
    BY <2>1
  <2>2. CASE i # 2
    <3>1. i - 1 \in 2..Len(q) /\ i - 1 < Len(q) /\ ~(n <= i - 1) /\ (i - 1) + 1 = i
      BY <1>1, <1>2, <2>2
    <3>2. i - 1 \notin T
      BY <1>2, <3>1
    <3> HIDE DEF Falls
    <3> QED BY <3>1, <3>2
  <2> QED BY <2>1, <2>2
<1>4. n \in 2..Len(q) /\ Is(n)
  BY <1>2, <1>3
<1>5. RunLength(q, by) = CHOOSE k \in 2..Len(q) : Is(k)
  BY DEF RunLength
<1> HIDE DEF Is
<1>6. RunLength(q, by) \in 2..Len(q) /\ Is(RunLength(q, by))
  BY <1>4, <1>5
<1>7. \A i \in 2..RunLength(q, by) : Falls(i) = Falls(2)
  BY <1>6 DEF Is
<1>8. Falls(2) = (Compare(by, q[2], q[1]) < 0)
  OBVIOUS
<1> QED BY <1>6, <1>7, <1>8

LEMMA FirstRunType ==
  ASSUME NEW q \in Seq(Events), Len(q) >= 2, NEW by
  PROVE  LET n == RunLength(q, by)
             r == FirstRun(q, by)
         IN /\ r \in Seq(Events) /\ Len(r) = n
            /\ Compare(by, q[2], q[1]) < 0 => \A i \in 1..n : r[i] = q[(n - i) + 1]
            /\ ~(Compare(by, q[2], q[1]) < 0) => \A i \in 1..n : r[i] = q[i]
<1> DEFINE n == RunLength(q, by)
           run == SubSeq(q, 1, n)
<1>1. n \in Nat /\ n <= Len(q)
  BY RunLengthType
<1> HIDE DEF n
<1>2. run \in Seq(Events) /\ Len(run) = n /\ \A i \in 1..n : run[i] = q[i]
  BY <1>1, PrefixType
<1>3. CASE Compare(by, q[2], q[1]) < 0
  <2>1. FirstRun(q, by) = Reverse(run)
    BY <1>3 DEF FirstRun, n
  <2> HIDE DEF run
  <2>2. Reverse(run) = [i \in 1..n |-> run[(n - i) + 1]]
    BY <1>2 DEF Reverse
  <2>3. \A i \in 1..n : (n - i) + 1 \in 1..n
    BY <1>1
  <2>4. \A i \in 1..n : run[(n - i) + 1] \in Events /\ run[(n - i) + 1] = q[(n - i) + 1]
    BY <1>2, <2>3
  <2>5. Reverse(run) \in [1..n -> Events]
    BY <2>2, <2>4
  <2>6. Reverse(run) \in Seq(Events) /\ Len(Reverse(run)) = n
    BY <1>1, <2>5
  <2> QED BY <1>3, <2>1, <2>2, <2>4, <2>6 DEF n
<1>4. CASE ~(Compare(by, q[2], q[1]) < 0)
  <2>1. FirstRun(q, by) = run
    BY <1>4 DEF FirstRun, n
  <2> QED BY <1>2, <1>4, <2>1 DEF n
<1> QED BY <1>3, <1>4

LEMMA FirstRunRearranged ==
  ASSUME NEW q \in Seq(Events), Len(q) >= 2, NEW by
  PROVE  Rearranged(FirstRun(q, by), q, RunLength(q, by))
<1> DEFINE n == RunLength(q, by)
           r == FirstRun(q, by)
<1>1. /\ n \in Nat /\ r \in Seq(Events) /\ Len(r) = n
      /\ Compare(by, q[2], q[1]) < 0 => \A i \in 1..n : r[i] = q[(n - i) + 1]
      /\ ~(Compare(by, q[2], q[1]) < 0) => \A i \in 1..n : r[i] = q[i]
  BY RunLengthType, FirstRunType
<1> HIDE DEF n, r
<1>2. CASE Compare(by, q[2], q[1]) < 0
  <2> DEFINE p == [i \in 1..n |-> (n - i) + 1]
  <2>1. \A i \in 1..n : (n - i) + 1 \in 1..n /\ (n - ((n - i) + 1)) + 1 = i
    BY <1>1
  <2>2. Places(r, q, n, p)
    <3>1. p \in [1..n -> 1..n]
      BY <2>1
    <3>2. \A i \in 1..n : p[i] \in 1..n /\ p[p[i]] = i
      BY <2>1
    <3>3. \A i \in 1..n : r[p[i]] = q[i]
      BY <1>1, <1>2, <2>1
    <3> HIDE DEF p
    <3> QED BY <3>1, <3>2, <3>3 DEF Places
  <2> QED BY <1>1, <2>2 DEF Rearranged, n, r
<1>3. CASE ~(Compare(by, q[2], q[1]) < 0)
  <2> DEFINE p == [i \in 1..n |-> i]
  <2>1. Places(r, q, n, p)
    BY <1>1, <1>3 DEF Places
  <2> QED BY <1>1, <2>1 DEF Rearranged, n, r
<1> QED BY <1>2, <1>3

LEMMA InsertionsAre ==
  ASSUME NEW q, NEW n \in Nat, Len(q) \in Nat, NEW r, NEW by
  PROVE  \A k \in n..Len(q) :
           Insertions(q, n, r, by)[k] =
             IF k = n THEN r ELSE Inserted(Insertions(q, n, r, by)[k - 1], q[k], by)
<1> DEFINE Step(f, k) == IF k = n THEN r ELSE Inserted(f[k - 1], q[k], by)
           P == {d \in Nat : \E f : f = [k \in n..(n + d) |-> Step(f, k)]}
<1>1. ASSUME NEW d \in Nat, \A k \in Nat : k < d => k \in P PROVE d \in P
  <2>1. CASE d = 0
    <3> DEFINE f == [k \in n..n |-> r]
    <3>1. f = [k \in n..n |-> Step(f, k)]
      OBVIOUS
    <3>2. n + d = n
      BY <2>1
    <3> HIDE DEF Step, f
    <3> QED BY <3>1, <3>2
  <2>2. CASE d # 0
    <3>1. d - 1 \in Nat /\ d - 1 \in P
      <4> HIDE DEF P
      <4> QED BY <1>1, <2>2
    <3>2. PICK f : f = [k \in n..(n + (d - 1)) |-> Step(f, k)]
      BY <3>1
    <3> DEFINE g == [k \in n..(n + d) |-> IF k < n + d THEN f[k] ELSE Step(f, k)]
    <3>3. ASSUME NEW k \in n..(n + d) PROVE Step(g, k) = Step(f, k)
      <4>1. CASE k = n
        BY <4>1
      <4>2. CASE k # n
        <5>1. k - 1 \in n..(n + d) /\ k - 1 < n + d
          BY <4>2
        <5>2. g[k - 1] = f[k - 1]
          BY <5>1
        <5> QED BY <5>2
      <4> QED BY <4>1, <4>2
    <3>4. \A k \in n..(n + d) : k < n + d => f[k] = Step(f, k)
      <4>1. \A k \in n..(n + d) : k < n + d => k \in n..(n + (d - 1))
        OBVIOUS
      <4> HIDE DEF Step
      <4> QED BY <3>2, <4>1
    <3>5. g = [k \in n..(n + d) |-> Step(g, k)]
      <4>1. \A k \in n..(n + d) : g[k] = Step(f, k)
        <5> HIDE DEF Step
        <5> QED BY <3>4
      <4>2. \A k \in n..(n + d) : g[k] = Step(g, k)
        <5> HIDE DEF Step, g
        <5> QED BY <3>3, <4>1
      <4>3. g = [k \in n..(n + d) |-> g[k]]
        OBVIOUS
      <4> HIDE DEF Step, g
      <4> QED BY <4>2, <4>3
    <3> HIDE DEF g, Step
    <3> QED BY <3>5
  <2> QED BY <2>1, <2>2
<1>2. \E f : f = [k \in n..Len(q) |-> Step(f, k)]
  <2>1. CASE n <= Len(q)
    <3>1. Len(q) - n \in Nat /\ n + (Len(q) - n) = Len(q)
      BY <2>1
    <3>2. Len(q) - n \in P
      <4> HIDE DEF P
      <4> QED BY <1>1, <3>1, InductionOnSet
    <3> HIDE DEF Step
    <3> QED BY <3>1, <3>2
  <2>2. CASE Len(q) < n
    <3> DEFINE f == [k \in n..Len(q) |-> r]
    <3>1. n..Len(q) = {}
      BY <2>2
    <3>2. f = [k \in n..Len(q) |-> Step(f, k)]
      BY <3>1
    <3> HIDE DEF f, Step
    <3> QED BY <3>2
  <2> QED BY <2>1, <2>2
<1> DEFINE h == CHOOSE f : f = [k \in n..Len(q) |-> Step(f, k)]
<1>3. h = [k \in n..Len(q) |-> Step(h, k)]
  <2> HIDE DEF Step
  <2> QED BY <1>2
<1>4. Insertions(q, n, r, by) = h
  BY DEF Insertions
<1>5. \A k \in n..Len(q) : h[k] = Step(h, k)
  <2> HIDE DEF h, Step
  <2> QED BY <1>3
<1> HIDE DEF h
<1> QED BY <1>4, <1>5

LEMMA SortedRearranged ==
  ASSUME NEW q \in Seq(Events), NEW by
  PROVE  Rearranged(Sorted(q, by), q, Len(q))
<1>0. Len(q) \in Nat
  OBVIOUS
<1>1. CASE Len(q) < 2
  <2> DEFINE p == [i \in 1..Len(q) |-> i]
  <2>1. Places(q, q, Len(q), p)
    BY DEF Places
  <2>2. Sorted(q, by) = q
    BY <1>1 DEF Sorted
  <2> QED BY <2>1, <2>2 DEF Rearranged
<1>2. CASE Len(q) >= 2
  <2> DEFINE n == RunLength(q, by)
             r == FirstRun(q, by)
             f == Insertions(q, n, r, by)
             P == {d \in Nat : n + d <= Len(q) => Rearranged(f[n + d], q, n + d)}
  <2>1. n \in Nat /\ n <= Len(q) /\ Rearranged(r, q, n)
    BY <1>2, RunLengthType, FirstRunRearranged
  <2>2. Sorted(q, by) = f[Len(q)]
    BY <1>0, <1>2 DEF Sorted
  <2> HIDE DEF n, r
  <2>3. \A k \in n..Len(q) : f[k] = IF k = n THEN r ELSE Inserted(f[k - 1], q[k], by)
    BY <1>0, <2>1, InsertionsAre
  <2> HIDE DEF f
  <2>4. ASSUME NEW d \in Nat, \A k \in Nat : k < d => k \in P PROVE d \in P
    <3> SUFFICES ASSUME n + d <= Len(q) PROVE Rearranged(f[n + d], q, n + d)
      OBVIOUS
    <3>1. CASE d = 0
      <4>1. n + d = n /\ f[n] = r
        BY <1>0, <2>1, <2>3, <3>1
      <4> QED BY <2>1, <4>1
    <3>2. CASE d # 0
      <4> DEFINE k == n + (d - 1)
      <4>1. k \in Nat /\ k + 1 = n + d /\ k + 1 <= Len(q) /\ k + 1 \in n..Len(q) /\ k + 1 # n
            /\ (k + 1) - 1 = k
        BY <1>0, <2>1, <3>2
      <4>2. Rearranged(f[k], q, k)
        <5>1. d - 1 \in P /\ k <= Len(q)
          <6>1. d - 1 \in Nat /\ d - 1 < d /\ k <= Len(q)
            BY <1>0, <2>1, <3>2
          <6> HIDE DEF P
          <6> QED BY <2>4, <6>1
        <5> QED BY <5>1
      <4> HIDE DEF k
      <4>3. f[k + 1] = Inserted(f[k], q[k + 1], by)
        BY <2>3, <4>1
      <4> QED BY <4>1, <4>2, <4>3, InsertedRearranged
    <3> QED BY <3>1, <3>2
  <2>5. Len(q) - n \in Nat /\ n + (Len(q) - n) = Len(q)
    BY <1>0, <2>1
  <2>6. Len(q) - n \in P
    <3> HIDE DEF P
    <3> QED BY <2>4, <2>5, InductionOnSet
  <2> QED BY <1>0, <2>2, <2>5, <2>6
<1> QED BY <1>0, <1>1, <1>2

-----------------------------------------------------------------------------
(* Types.                                                                    *)

LEMMA GreatestIndex ==
  ASSUME NEW n \in Nat, NEW T, T \subseteq 1..n, T # {}
  PROVE  \E m \in T : \A i \in T : i <= m
<1> DEFINE D == {n - i : i \in T}
<1>1. D \subseteq Nat /\ D # {}
  <2>1. \A i \in T : i \in 1..n /\ n - i \in Nat
    BY Z3
  <2>2. PICK i \in T : TRUE
    OBVIOUS
  <2> QED BY <2>1, <2>2
<1>2. PICK d \in D : \A k \in D : d <= k
  <2> HIDE DEF D
  <2> QED BY <1>1, LeastNumber
<1>3. PICK m \in T : d = n - m
  OBVIOUS
<1>4. ASSUME NEW i \in T PROVE i <= m
  <2>1. n - i \in D /\ i \in 1..n /\ m \in 1..n
    OBVIOUS
  <2>2. n - m <= n - i
    BY <1>2, <1>3, <2>1
  <2> QED BY <2>1, <2>2
<1> QED BY <1>4

(* What is removed for x at time t. *)
LatestToTurnOn(q, x, t) == CHOOSE i \in ToTurnOn(q, x, t) : \A j \in ToTurnOn(q, x, t) : j <= i

LEMMA PostponedIs ==
  ASSUME NEW q \in Seq(Events), NEW x, NEW t
  PROVE  /\ ToTurnOn(q, x, t) = {} => Postponed(q, x, t) = Append(q, Switch(t, x, FALSE))
         /\ ToTurnOn(q, x, t) # {} =>
              /\ Postponed(q, x, t) = RemoveAt(q, LatestToTurnOn(q, x, t))
              /\ LatestToTurnOn(q, x, t) \in ToTurnOn(q, x, t)
              /\ \A j \in ToTurnOn(q, x, t) : j <= LatestToTurnOn(q, x, t)
<1>1. ToTurnOn(q, x, t) \subseteq 1..Len(q) /\ Len(q) \in Nat
  BY EventTypes DEF ToTurnOn
<1> DEFINE T == ToTurnOn(q, x, t)
<1>2. CASE T # {}
  <2>1. T \subseteq 1..Len(q)
    BY <1>1
  <2> HIDE DEF T
  <2>2. \E m \in T : \A i \in T : i <= m
    BY <1>1, <1>2, <2>1, GreatestIndex
  <2> QED BY <1>2, <2>2 DEF LatestToTurnOn, Postponed, T
<1> QED BY <1>2 DEF Postponed

LEMMA PostponedType ==
  ASSUME NEW q \in Seq(Events), NEW x \in Hosts \cup VMs, NEW t \in Nat
  PROVE  /\ Postponed(q, x, t) \in Seq(Events)
         /\ \A i \in DOMAIN Postponed(q, x, t) :
              Postponed(q, x, t)[i] = Switch(t, x, FALSE) \/ \E j \in DOMAIN q : Postponed(q, x, t)[i] = q[j]
<1> DEFINE r == Postponed(q, x, t)
<1>1. CASE ToTurnOn(q, x, t) = {}
  <2> DEFINE a == Switch(t, x, FALSE)
  <2>1. a \in Events
    BY DEF Switch, Events
  <2>2. r = Append(q, a)
    BY <1>1, PostponedIs
  <2> HIDE DEF a, r
  <2>3. r \in Seq(Events) /\ \A i \in DOMAIN r : r[i] = a \/ \E j \in DOMAIN q : r[i] = q[j]
    <3>1. /\ r \in Seq(Events) /\ Len(r) = Len(q) + 1 /\ r[Len(q) + 1] = a
          /\ \A i \in 1..Len(q) : r[i] = q[i]
      BY <2>1, <2>2
    <3>2. DOMAIN r = 1..(Len(q) + 1) /\ DOMAIN q = 1..Len(q) /\ Len(q) \in Nat
      BY <3>1, EventTypes
    <3>3. \A i \in DOMAIN r : i \in 1..Len(q) \/ i = Len(q) + 1
      BY <3>2
    <3> QED BY <3>1, <3>2, <3>3
  <2> QED BY <2>3 DEF a, r
<1>2. CASE ToTurnOn(q, x, t) # {}
  <2> DEFINE k == LatestToTurnOn(q, x, t)
  <2>1. k \in 1..Len(q) /\ r = RemoveAt(q, k) /\ Len(q) \in Nat /\ DOMAIN q = 1..Len(q)
    <3>1. k \in ToTurnOn(q, x, t) /\ r = RemoveAt(q, k)
      BY <1>2, PostponedIs
    <3>2. Len(q) \in Nat /\ DOMAIN q = 1..Len(q)
      BY EventTypes
    <3> HIDE DEF k, r
    <3> QED BY <3>1, <3>2 DEF ToTurnOn
  <2> HIDE DEF k, r
  <2>2. /\ r \in Seq(Events) /\ Len(r) = Len(q) - 1
        /\ \A j \in 1..(Len(q) - 1) : r[j] = IF j < k THEN q[j] ELSE q[j + 1]
    BY <2>1, RemoveAtType
  <2>3. \A i \in DOMAIN r : i \in 1..(Len(q) - 1) /\ i \in DOMAIN q /\ i + 1 \in DOMAIN q
    BY <2>1, <2>2, EventTypes
  <2>4. \A i \in DOMAIN r : \E j \in DOMAIN q : r[i] = q[j]
    BY <2>2, <2>3
  <2> QED BY <2>2, <2>4 DEF r
<1> QED BY <1>1, <1>2

LEMMA BackType ==
  ASSUME NEW x \in Hosts \cup VMs, NEW t \in Nat
  PROVE  /\ Switch(t + CrashDuration, x, TRUE) \in Events
         /\ Back(t, x) \in Seq(Events)
         /\ \A i \in DOMAIN Back(t, x) : Back(t, x)[i].time < Duration
<1> DEFINE b == Switch(t + CrashDuration, x, TRUE)
<1>1. b \in Events /\ b.time = t + CrashDuration
  <2>1. t + CrashDuration \in Nat
    BY Durations
  <2> QED BY <2>1 DEF Switch, Events
<1>2. Back(t, x) = IF t + CrashDuration < Duration THEN <<b>> ELSE <<>>
  BY DEF Back
<1> HIDE DEF b
<1>3. CASE t + CrashDuration < Duration
  <2>1. <<b>> \in Seq(Events) /\ \A i \in DOMAIN <<b>> : <<b>>[i] = b
    BY <1>1
  <2> QED BY <1>1, <1>2, <1>3, <2>1 DEF b
<1>4. CASE ~(t + CrashDuration < Duration)
  <2>1. <<>> \in Seq(Events) /\ DOMAIN <<>> = {}
    OBVIOUS
  <2>2. Back(t, x) = <<>>
    BY <1>2, <1>4
  <2> QED BY <1>1, <2>1, <2>2 DEF b
<1> QED BY <1>3, <1>4

LEMMA FaultType ==
  ASSUME TypeOK, NEW t \in Nat, t < Duration, NEW h \in Hosts, Fault(t, h)
  PROVE  /\ {loadQueue', faultQueue', vmQueue'} \subseteq Seq(Events)
         /\ \A i \in DOMAIN faultQueue' : faultQueue'[i].time < Duration
         /\ drawn' \subseteq Nat \X (Hosts \cup VMs)
<1> DEFINE a == Postponed(faultQueue, h, t)
           b == Back(t, h)
<1>1. /\ faultQueue' = a \o b /\ drawn' = drawn \cup {<<t, h>>}
      /\ UNCHANGED <<loadQueue, vmQueue>>
  BY DEF Fault
<1>2. /\ faultQueue \in Seq(Events)
      /\ \A i \in DOMAIN faultQueue : faultQueue[i].time < Duration
  BY DEF TypeOK
<1>3. a \in Seq(Events) /\ \A i \in DOMAIN a : a[i].time < Duration
  <2>1. Switch(t, h, FALSE).time = t
    BY DEF Switch
  <2>2. a \in Seq(Events)
    BY <1>2, PostponedType
  <2>3. \A i \in DOMAIN a : a[i] = Switch(t, h, FALSE) \/ \E j \in DOMAIN faultQueue : a[i] = faultQueue[j]
    <3>1. faultQueue \in Seq(Events) /\ h \in Hosts \cup VMs
      BY <1>2
    <3> QED BY <3>1, PostponedType, Zenon
  <2> HIDE DEF a
  <2> QED BY <1>2, <2>1, <2>2, <2>3
<1>4. b \in Seq(Events) /\ \A i \in DOMAIN b : b[i].time < Duration
  BY BackType
<1> HIDE DEF a, b
<1>5. a \o b \in Seq(Events) /\ \A i \in DOMAIN (a \o b) : (a \o b)[i].time < Duration
  <2>1. /\ a \o b \in Seq(Events) /\ Len(a \o b) = Len(a) + Len(b)
        /\ \A j \in 1..Len(a) : (a \o b)[j] = a[j]
        /\ \A j \in 1..Len(b) : (a \o b)[Len(a) + j] = b[j]
    BY <1>3, <1>4, ConcatParts
  <2> DEFINE c == a \o b
  <2> HIDE DEF c
  <2>2. /\ Len(a) \in Nat /\ Len(b) \in Nat /\ DOMAIN a = 1..Len(a) /\ DOMAIN b = 1..Len(b)
        /\ DOMAIN c = 1..Len(c)
    BY <1>3, <1>4, <2>1, EventTypes DEF c
  <2>3. ASSUME NEW i \in DOMAIN c PROVE c[i].time < Duration
    <3>1. CASE i <= Len(a)
      <4>1. i \in 1..Len(a)
        BY <2>2, <3>1
      <4> QED BY <1>3, <2>1, <2>2, <4>1 DEF c
    <3>2. CASE i > Len(a)
      <4> DEFINE j == i - Len(a)
      <4>1. j \in 1..Len(b) /\ Len(a) + j = i
        BY <2>1, <2>2, <3>2 DEF c
      <4> HIDE DEF j
      <4> QED BY <1>4, <2>1, <2>2, <4>1 DEF c
    <3> QED BY <2>2, <3>1, <3>2
  <2> QED BY <2>1, <2>3 DEF c
<1>6. drawn' \subseteq Nat \X (Hosts \cup VMs)
  BY <1>1 DEF TypeOK
<1> QED BY <1>1, <1>5, <1>6 DEF TypeOK

LEMMA SortedType ==
  ASSUME NEW q \in Seq(Events), NEW by
  PROVE  /\ Sorted(q, by) \in Seq(Events) /\ Len(Sorted(q, by)) = Len(q)
         /\ \A i \in DOMAIN Sorted(q, by) : \E j \in DOMAIN q : Sorted(q, by)[i] = q[j]
<1> DEFINE r == Sorted(q, by)
<1>1. r \in Seq(Events) /\ Len(r) = Len(q)
  BY SortedRearranged DEF Rearranged
<1>2. PICK p : Places(r, q, Len(q), p)
  BY SortedRearranged DEF Rearranged
<1>3. DOMAIN r = 1..Len(q) /\ DOMAIN q = 1..Len(q)
  <2> HIDE DEF r
  <2> QED BY <1>1, EventTypes
<1> HIDE DEF r
<1>4. \A k \in 1..Len(q) : \E i \in 1..Len(q) : r[k] = q[i]
  BY <1>2 DEF Places
<1> QED BY <1>1, <1>3, <1>4 DEF r

LEMMA NextType == TypeOK /\ FluctuationsInv /\ [Next]_vars => TypeOK'
<1> SUFFICES ASSUME TypeOK, FluctuationsInv, [Next]_vars PROVE TypeOK'
  OBVIOUS
<1>0. /\ mode \in Modes /\ stage \in Stages /\ currentTime \in Nat
      /\ loadQueue \in Seq(Events) /\ faultQueue \in Seq(Events)
      /\ vmQueue \in Seq(Events) /\ evtQueue \in Seq(Events)
      /\ \A i \in DOMAIN faultQueue : faultQueue[i].time < Duration
      /\ clock \in Nat /\ off \subseteq Hosts \cup VMs /\ gaveUp \in BOOLEAN
      /\ drawn \subseteq Nat \X (Hosts \cup VMs)
  BY DEF TypeOK
<1>1. ASSUME NEW t \in 1..(Duration - 1), NEW v \in VMs, DrawLoad(t, v) PROVE TypeOK'
  <2>1. t \in Nat /\ LoadEvent(t, v) \in Events
    BY Durations DEF LoadEvent, Events
  <2>2. loadQueue' \in Seq(Events)
    BY <1>0, <1>1, <2>1 DEF DrawLoad
  <2> QED BY <1>0, <1>1, <2>1, <2>2 DEF DrawLoad, Draw, TypeOK
<1>2. ASSUME NEW t \in 1..(Duration - 1), NEW h \in Hosts, DrawFault(t, h) PROVE TypeOK'
  <2>1. t \in Nat /\ t < Duration
    BY Durations
  <2> QED BY <1>0, <1>2, <2>1, FaultType DEF DrawFault, Draw, TypeOK
<1>3. CASE DrawLeaderFault
  <2>1. currentTime' \in Nat /\ currentTime' < Duration
    <3>1. currentTime + GLFaultPeriod < Duration /\ currentTime' = currentTime + GLFaultPeriod
      BY <1>3 DEF DrawLeaderFault, Advance
    <3>2. currentTime \in Nat /\ GLFaultPeriod \in Nat
      BY <1>0, Durations
    <3> QED BY <3>1, <3>2
  <2>2. Head(Services) \in Hosts
    <3>1. Services \in Seq(Hosts) /\ Services # <<>>
      BY <1>0, <1>3, ModesAssumption, NamesAssumption
      DEF ModesAssumption, NamesAssumption, DrawLeaderFault, FluctuationsInv
    <3> QED BY <3>1
  <2> QED BY <1>0, <1>3, <2>1, <2>2, FaultType DEF DrawLeaderFault, Advance, TypeOK
<1>4. ASSUME NEW i \in DOMAIN Services, DrawManagerFault(i) PROVE TypeOK'
  <2>1. currentTime' \in Nat /\ currentTime' < Duration
    BY <1>0, <1>4, Durations DEF DrawManagerFault, Advance
  <2>2. Services[i] \in Hosts
    BY NamesAssumption DEF NamesAssumption
  <2> QED BY <1>0, <1>4, <2>1, <2>2, FaultType DEF DrawManagerFault, Advance, TypeOK
<1>5. ASSUME NEW t \in 1..(Duration - 1), NEW v \in VMs, DrawFluctuation(t, v) PROVE TypeOK'
  <2>1. t \in Nat /\ v \in Hosts \cup VMs
    BY Durations
  <2>2. vmQueue' \in Seq(Events)
    <3> DEFINE a == Postponed(vmQueue, v, t)
               b == Switch(t + CrashDuration, v, TRUE)
    <3>1. a \in Seq(Events) /\ b \in Events /\ vmQueue' = Append(a, b)
      BY <1>0, <1>5, <2>1, PostponedType, BackType DEF DrawFluctuation
    <3> HIDE DEF a, b
    <3> QED BY <3>1
  <2>3. drawn' \subseteq Nat \X (Hosts \cup VMs)
    BY <1>0, <1>5, <2>1 DEF DrawFluctuation
  <2> QED BY <1>0, <1>5, <2>1, <2>2, <2>3 DEF DrawFluctuation, Draw, TypeOK
<1>6. CASE NextQueue
  <2>1. faultQueue' \in Seq(Events) /\ \A i \in DOMAIN faultQueue' : faultQueue'[i].time < Duration
    <3>1. faultQueue' = faultQueue \/ faultQueue' = Sorted(faultQueue, "exact")
      BY <1>6 DEF NextQueue, queues
    <3> QED BY <1>0, <3>1, SortedType
  <2>2. loadQueue' = loadQueue /\ vmQueue' = vmQueue /\ stage' \in Stages
    BY <1>6 DEF NextQueue, queues, Stages
  <2> QED BY <1>0, <1>6, <2>1, <2>2 DEF NextQueue, TypeOK
<1>7. CASE Merge
  <2>1. vmQueue' \in Seq(Events)
    BY <1>0, <1>7, SortedType DEF Merge
  <2>2. loadQueue \o faultQueue \o vmQueue' \in Seq(Events)
    BY <1>0, <2>1, ConcatParts
  <2>3. evtQueue' \in Seq(Events)
    BY <1>7, <2>2, SortedType DEF Merge
  <2>4. stage' \in Stages
    BY <1>7 DEF Merge, Stages
  <2> QED BY <1>0, <1>7, <2>1, <2>3, <2>4 DEF Merge, TypeOK
<1>8. CASE Play
  <2> DEFINE e == Head(evtQueue)
  <2>1. evtQueue # <<>> /\ e \in Events /\ Tail(evtQueue) \in Seq(Events)
    BY <1>0, <1>8 DEF Play
  <2>2. e.time \in Nat /\ e.what \in Hosts \cup VMs
    BY <2>1 DEF Events
  <2>3. clock' \in Nat
    BY <1>0, <1>8, <2>2 DEF Play
  <2>4. off' \subseteq Hosts \cup VMs
    BY <1>0, <1>8, <2>2 DEF Play
  <2>5. gaveUp' \in BOOLEAN
    BY <1>0, <1>8 DEF Play
  <2> QED BY <1>0, <1>8, <2>1, <2>3, <2>4, <2>5 DEF Play, TypeOK, queues
<1>9. CASE UNCHANGED vars
  BY <1>9 DEF vars, queues, TypeOK
<1> QED BY <1>1, <1>2, <1>3, <1>4, <1>5, <1>6, <1>7, <1>8, <1>9 DEF Next

LEMMA InitType == Init => TypeOK
<1> SUFFICES ASSUME Init PROVE TypeOK
  OBVIOUS
<1>1. <<>> \in Seq(Events) /\ DOMAIN <<>> = {}
  OBVIOUS
<1> QED BY <1>1 DEF Init, TypeOK, Stages

(* Every event in every queue is about a host or a VM at a time, sorted or   *)
(* not, and no fault is planned past the end (EventQueues!TypeOK).           *)
THEOREM TypeCorrect == Spec => []TypeOK
<1> QED BY InitType, NextType, InitFluctuations, NextFluctuations, PTL DEF Spec

-----------------------------------------------------------------------------
(* The switch events about x in a queue, and what those up to time u make of *)
(* it: the latest of them turns it off.                                      *)

Of(q, x) == {j \in DOMAIN q : q[j].what = x /\ q[j].kind = "switch"}
Switches(q, x) == {q[i] : i \in Of(q, x)}
LeftOff(S, u) ==
  \E e \in S : e.time <= u /\ ~e.state /\ \A f \in S : f.time <= u => f.time <= e.time

(* No two of them have the same time; they are in the order of time.         *)
Distinct(q, x) == \A i, j \in Of(q, x) : q[i].time = q[j].time => i = j
Increasing(q, x) == \A i, j \in Of(q, x) : i < j => q[i].time < q[j].time

Ascending(q) == \A i, j \in DOMAIN q : i < j => q[i].time <= q[j].time

(* All the hosts, without the leader's if it has faults of its own. *)
Tracked == {h \in Hosts : mode = "leader" => h # Head(Services)}

(* The queue of the faults, drawn until now, as far as it is about T: to be  *)
(* turned on x must be off, and it is not due before anything that is turned *)
(* on earlier in the queue.                                                  *)
OnAfterOff(q, j) ==
  \E i \in DOMAIN q :
    /\ i < j /\ q[i].what = q[j].what /\ ~q[i].state
    /\ \A k \in DOMAIN q : q[k].what = q[j].what => k <= i \/ j <= k

FaultShape(q, T, now) ==
  /\ \A i \in DOMAIN q : q[i].kind = "switch" /\ q[i].what \in Hosts
  /\ \A i, j \in DOMAIN q : i < j /\ q[i].what \in T /\ q[j].what = q[i].what => q[i].time < q[j].time
  /\ \A i \in DOMAIN q : q[i].what \in T /\ q[i].state => q[i].time <= now + CrashDuration
  /\ \A i \in DOMAIN q : q[i].what \in T /\ ~q[i].state => q[i].time <= now
  /\ \A i, j \in DOMAIN q : i < j /\ q[i].what \in T /\ q[i].state /\ q[j].state => q[i].time <= q[j].time
  /\ \A j \in DOMAIN q : q[j].what \in T /\ q[j].state => OnAfterOff(q, j)

FaultsDrawn(q, T, draws) ==
  \A h \in T, u \in 0..(Duration - 1) : LeftOff(Switches(q, h), u) <=> OutBy(draws, h, u)

Untouched(q, T, draws) ==
  /\ \A i \in DOMAIN q : q[i].what \notin T
  /\ \A d \in draws : d[2] \notin T

FaultsInv ==
  /\ stage \in {"loads", "leader faults"} => Untouched(faultQueue, Tracked, drawn)
  /\ stage \in {"loads", "leader faults", "faults"} =>
       /\ FaultShape(faultQueue, Tracked, currentTime)
       /\ \A d \in drawn : d[2] \in Tracked => d[1] <= currentTime
  /\ \A h \in Tracked : Distinct(faultQueue, h)
  /\ stage \in {"fluctuations", "playing"} => \A h \in Tracked : Increasing(faultQueue, h)
  /\ \A i \in DOMAIN faultQueue : faultQueue[i].kind = "switch" /\ faultQueue[i].what \in Hosts
  /\ FaultsDrawn(faultQueue, Tracked, drawn)

-----------------------------------------------------------------------------
(* Sorting puts a queue in the order of time if the comparator tells which   *)
(* of two of its events is the earlier.                                      *)

Agrees(q, by) ==
  \A i, j \in DOMAIN q : Compare(by, q[i], q[j]) < 0 <=> q[i].time < q[j].time

LEMMA ExactAgrees ==
  ASSUME NEW q \in Seq(Events)
  PROVE  Agrees(q, "exact")
<1>1. \A i \in DOMAIN q : q[i].time \in Nat
  BY EventTypes
<1> QED BY <1>1 DEF Agrees, Compare, CompareExactly

LEMMA RoundedAgrees ==
  ASSUME NEW q \in Seq(Events), \A i \in DOMAIN q : q[i].time % 4 = 0
  PROVE  Agrees(q, "rounded")
<1> SUFFICES ASSUME NEW i \in DOMAIN q, NEW j \in DOMAIN q
             PROVE  Compare("rounded", q[i], q[j]) < 0 <=> q[i].time < q[j].time
  BY DEF Agrees
<1>1. q[i].time \in Nat /\ q[j].time \in Nat /\ q[i].time % 4 = 0 /\ q[j].time % 4 = 0
  BY EventTypes
<1>2. \A a, b \in Nat : a % 4 = 0 /\ b % 4 = 0 => ((a - b + 2) \div 4 < 0 <=> a < b)
  OBVIOUS
<1>3. Compare("rounded", q[i], q[j]) = (q[i].time - q[j].time + 2) \div 4
  BY DEF Compare, CompareRounded
<1> QED BY <1>1, <1>2, <1>3

LEMMA AscendingSteps ==
  ASSUME NEW r \in Seq(Events), \A i \in 1..(Len(r) - 1) : r[i].time <= r[i + 1].time
  PROVE  Ascending(r)
<1>0. Len(r) \in Nat /\ DOMAIN r = 1..Len(r) /\ \A i \in DOMAIN r : r[i].time \in Nat
  BY EventTypes
<1> SUFFICES ASSUME ~Ascending(r) PROVE FALSE
  OBVIOUS
<1> DEFINE T == {j \in DOMAIN r : \E i \in DOMAIN r : i < j /\ ~(r[i].time <= r[j].time)}
<1>1. T \subseteq Nat /\ T # {}
  BY <1>0 DEF Ascending
<1>2. PICK j \in T : \A k \in T : j <= k
  <2> HIDE DEF T
  <2> QED BY <1>1, LeastNumber
<1>3. PICK i \in DOMAIN r : i < j /\ ~(r[i].time <= r[j].time)
  OBVIOUS
<1>4. i \in 1..Len(r) /\ j \in 1..Len(r) /\ j - 1 \in 1..Len(r) /\ j - 1 \in 1..(Len(r) - 1)
      /\ (j - 1) + 1 = j /\ j - 1 \notin T
  BY <1>0, <1>2, <1>3
<1>5. r[j - 1].time <= r[j].time
  BY <1>4
<1>6. r[i].time <= r[j - 1].time
  BY <1>0, <1>3, <1>4
<1> QED BY <1>0, <1>3, <1>4, <1>5, <1>6

LEMMA InsertedAscending ==
  ASSUME NEW r \in Seq(Events), Ascending(r), NEW e \in Events, NEW by,
         \A i \in 1..Len(r) : Compare(by, e, r[i]) < 0 <=> e.time < r[i].time
  PROVE  Ascending(Inserted(r, e, by))
<1> DEFINE n == Len(r)
<1>0. n \in Nat /\ DOMAIN r = 1..n /\ e.time \in Nat /\ \A i \in 1..n : r[i].time \in Nat
  BY EventTypes DEF Events
<1>1. PICK m \in 0..n : \A i \in 1..n : e.time < r[i].time <=> m < i
  <2> DEFINE T == {i \in 1..n : e.time < r[i].time}
  <2>1. CASE T = {}
    <3>1. \A i \in 1..n : ~(e.time < r[i].time) /\ ~(n < i)
      BY <1>0, <2>1
    <3> QED BY <1>0, <3>1
  <2>2. CASE T # {}
    <3>1. PICK k \in T : \A i \in T : k <= i
      <4>1. T \subseteq Nat
        BY <1>0
      <4> HIDE DEF T
      <4> QED BY <2>2, <4>1, LeastNumber
    <3>2. k - 1 \in 0..n
      BY <1>0
    <3>3. \A i \in 1..n : k <= i => e.time < r[i].time
      BY <1>0 DEF Ascending
    <3>4. \A i \in 1..n : e.time < r[i].time <=> k - 1 < i
      BY <1>0, <3>1, <3>3
    <3> QED BY <3>2, <3>4
  <2> QED BY <2>1, <2>2
<1>2. InsertionPoint(r, e, by) = m
  <2> DEFINE s == <<0, n>>
  <2>1. s \in Spans(r) /\ s[1] = 0 /\ s[2] = n /\ 0 <= m /\ m <= n
    BY <1>0, <1>1 DEF Spans
  <2>2. InsertionPoint(r, e, by) = Search(r, e, by)[s]
    BY DEF InsertionPoint
  <2> HIDE DEF s
  <2>3. \A i \in 1..Len(r) : Compare(by, e, r[i]) < 0 <=> m < i
    BY <1>1
  <2> QED BY <1>0, <1>1, <2>1, <2>2, <2>3, SearchPlace
<1> DEFINE s == Inserted(r, e, by)
<1>3. /\ s \in Seq(Events) /\ Len(s) = n + 1
      /\ \A j \in 1..(n + 1) : s[j] = IF j <= m THEN r[j] ELSE IF j = m + 1 THEN e ELSE r[j - 1]
  BY <1>2, InsertedType
<1> HIDE DEF s, n
<1>4. ASSUME NEW j \in 1..n PROVE s[j].time <= s[j + 1].time
  <2>0. j \in 1..(n + 1) /\ j + 1 \in 1..(n + 1) /\ (j + 1) - 1 = j /\ j \in Nat /\ m \in Nat
    BY <1>0
  <2>1. CASE j + 1 <= m
    <3>1. s[j] = r[j] /\ s[j + 1] = r[j + 1] /\ j + 1 \in 1..n
      BY <1>0, <1>1, <1>3, <2>0, <2>1
    <3> QED BY <1>0, <3>1 DEF Ascending
  <2>2. CASE j = m
    <3>1. s[j] = r[j] /\ s[j + 1] = e /\ ~(m < j)
      BY <1>3, <2>0, <2>2
    <3>2. ~(e.time < r[j].time)
      BY <1>1, <3>1
    <3> QED BY <1>0, <3>1, <3>2
  <2>3. CASE j = m + 1
    <3>1. s[j] = e /\ s[j + 1] = r[j] /\ m < j
      BY <1>3, <2>0, <2>3
    <3> QED BY <1>0, <1>1, <3>1
  <2>4. CASE m + 1 < j
    <3>1. s[j] = r[j - 1] /\ s[j + 1] = r[j] /\ j - 1 \in 1..n /\ j - 1 < j
      BY <1>0, <1>3, <2>0, <2>4
    <3> QED BY <1>0, <3>1 DEF Ascending
  <2> QED BY <2>0, <2>1, <2>2, <2>3, <2>4
<1>5. \A j \in 1..(Len(s) - 1) : s[j].time <= s[j + 1].time
  BY <1>0, <1>3, <1>4
<1> QED BY <1>3, <1>5, AscendingSteps DEF s

LEMMA FirstRunAscending ==
  ASSUME NEW q \in Seq(Events), Len(q) >= 2, NEW by, Agrees(q, by)
  PROVE  Ascending(FirstRun(q, by))
<1> DEFINE n == RunLength(q, by)
           r == FirstRun(q, by)
<1>1. /\ n \in 2..Len(q) /\ r \in Seq(Events) /\ Len(r) = n
      /\ Compare(by, q[2], q[1]) < 0 => \A i \in 1..n : r[i] = q[(n - i) + 1]
      /\ ~(Compare(by, q[2], q[1]) < 0) => \A i \in 1..n : r[i] = q[i]
      /\ \A i \in 2..n : Compare(by, q[i], q[i - 1]) < 0 <=> Compare(by, q[2], q[1]) < 0
  BY RunLengthType, FirstRunType
<1> HIDE DEF n, r
<1>2. Len(q) \in Nat /\ DOMAIN q = 1..Len(q) /\ \A i \in DOMAIN q : q[i].time \in Nat
  BY EventTypes
<1>3. \A i \in 2..n : i \in DOMAIN q /\ i - 1 \in DOMAIN q /\ n \in Nat
  BY <1>1, <1>2
<1>4. \A i \in 2..n : q[i].time < q[i - 1].time <=> Compare(by, q[2], q[1]) < 0
  BY <1>1, <1>3 DEF Agrees
<1>5. ASSUME NEW i \in 1..(n - 1) PROVE r[i].time <= r[i + 1].time
  <2>0. n \in Nat /\ i \in 1..n /\ i + 1 \in 1..n /\ i + 1 \in 2..n /\ (i + 1) - 1 = i
    BY <1>1, <1>2
  <2>1. CASE Compare(by, q[2], q[1]) < 0
    <3> DEFINE k == (n - i) + 1
    <3>1. k \in 2..n /\ k - 1 = (n - (i + 1)) + 1
      BY <2>0
    <3>2. r[i] = q[k] /\ r[i + 1] = q[k - 1]
      BY <1>1, <2>0, <2>1, <3>1
    <3> HIDE DEF k
    <3>3. q[k].time < q[k - 1].time /\ q[k].time \in Nat /\ q[k - 1].time \in Nat
      BY <1>2, <1>3, <1>4, <2>1, <3>1
    <3> QED BY <3>2, <3>3
  <2>2. CASE ~(Compare(by, q[2], q[1]) < 0)
    <3>1. r[i] = q[i] /\ r[i + 1] = q[i + 1]
      BY <1>1, <2>0, <2>2
    <3>2. ~(q[i + 1].time < q[i].time) /\ q[i].time \in Nat /\ q[i + 1].time \in Nat
      BY <1>2, <1>3, <1>4, <2>0, <2>2
    <3> QED BY <3>1, <3>2
  <2> QED BY <2>1, <2>2
<1>6. \A i \in 1..(Len(r) - 1) : r[i].time <= r[i + 1].time
  BY <1>1, <1>5
<1> QED BY <1>1, <1>6, AscendingSteps DEF r

LEMMA SortedAscending ==
  ASSUME NEW q \in Seq(Events), NEW by, Agrees(q, by)
  PROVE  Ascending(Sorted(q, by))
<1>0. Len(q) \in Nat /\ DOMAIN q = 1..Len(q) /\ \A i \in DOMAIN q : q[i] \in Events /\ q[i].time \in Nat
  BY EventTypes
<1>1. CASE Len(q) < 2
  <2>1. Sorted(q, by) = q
    BY <1>1 DEF Sorted
  <2>2. \A i \in 1..(Len(q) - 1) : FALSE
    BY <1>0, <1>1
  <2> QED BY <2>1, <2>2, AscendingSteps
<1>2. CASE Len(q) >= 2
  <2> DEFINE n == RunLength(q, by)
             r == FirstRun(q, by)
             f == Insertions(q, n, r, by)
             P == {d \in Nat : n + d <= Len(q) => Rearranged(f[n + d], q, n + d) /\ Ascending(f[n + d])}
  <2>1. n \in Nat /\ n <= Len(q) /\ Rearranged(r, q, n) /\ Ascending(r)
    BY <1>2, RunLengthType, FirstRunRearranged, FirstRunAscending
  <2>2. Sorted(q, by) = f[Len(q)]
    BY <1>0, <1>2 DEF Sorted
  <2> HIDE DEF n, r
  <2>3. \A k \in n..Len(q) : f[k] = IF k = n THEN r ELSE Inserted(f[k - 1], q[k], by)
    BY <1>0, <2>1, InsertionsAre
  <2> HIDE DEF f
  <2>4. ASSUME NEW d \in Nat, \A k \in Nat : k < d => k \in P PROVE d \in P
    <3> SUFFICES ASSUME n + d <= Len(q) PROVE Rearranged(f[n + d], q, n + d) /\ Ascending(f[n + d])
      OBVIOUS
    <3>1. CASE d = 0
      <4>1. n + d = n /\ f[n] = r
        BY <1>0, <2>1, <2>3, <3>1
      <4> QED BY <2>1, <4>1
    <3>2. CASE d # 0
      <4> DEFINE k == n + (d - 1)
      <4>1. k \in Nat /\ k + 1 = n + d /\ k + 1 <= Len(q) /\ k + 1 \in n..Len(q) /\ k + 1 # n
            /\ (k + 1) - 1 = k
        BY <1>0, <2>1, <3>2
      <4>2. Rearranged(f[k], q, k) /\ Ascending(f[k])
        <5>1. d - 1 \in P /\ k <= Len(q)
          <6>1. d - 1 \in Nat /\ d - 1 < d /\ k <= Len(q)
            BY <1>0, <2>1, <3>2
          <6> HIDE DEF P
          <6> QED BY <2>4, <6>1
        <5> QED BY <5>1
      <4> HIDE DEF k
      <4>3. f[k + 1] = Inserted(f[k], q[k + 1], by)
        BY <2>3, <4>1
      <4>4. Rearranged(f[k + 1], q, k + 1)
        BY <4>1, <4>2, <4>3, InsertedRearranged
      <4>5. Ascending(f[k + 1])
        <5> DEFINE s == f[k]
                   e == q[k + 1]
        <5>1. s \in Seq(Events) /\ Len(s) = k /\ k + 1 \in DOMAIN q
          BY <1>0, <4>1, <4>2 DEF Rearranged
        <5>2. PICK p : Places(s, q, k, p)
          BY <4>2 DEF Rearranged
        <5>3. e \in Events
          BY <1>0, <5>1
        <5>4. ASSUME NEW i \in 1..k PROVE Compare(by, e, s[i]) < 0 <=> e.time < s[i].time
          <6>1. PICK j \in 1..k : p[j] = i
            BY <5>2 DEF Places
          <6>2. s[i] = q[j] /\ j \in DOMAIN q
            <7>1. s[p[j]] = q[j]
              <8> HIDE DEF s
              <8> QED BY <5>2 DEF Places
            <7>2. j \in DOMAIN q
              BY <1>0, <4>1
            <7> HIDE DEF s
            <7> QED BY <6>1, <7>1, <7>2
          <6> QED BY <5>1, <6>2 DEF Agrees
        <5>5. \A i \in 1..Len(s) : Compare(by, e, s[i]) < 0 <=> e.time < s[i].time
          BY <5>1, <5>4
        <5> HIDE DEF s, e
        <5>6. Ascending(s)
          BY <4>2 DEF s
        <5>7. Ascending(Inserted(s, e, by))
          BY <5>1, <5>3, <5>5, <5>6, InsertedAscending
        <5> QED BY <4>3, <5>7 DEF s, e
      <4> QED BY <4>1, <4>4, <4>5
    <3> QED BY <3>1, <3>2
  <2>5. Len(q) - n \in Nat /\ n + (Len(q) - n) = Len(q)
    BY <1>0, <2>1
  <2>6. Len(q) - n \in P
    <3> HIDE DEF P
    <3> QED BY <2>4, <2>5, InductionOnSet
  <2> QED BY <1>0, <2>2, <2>5, <2>6
<1> QED BY <1>0, <1>1, <1>2

-----------------------------------------------------------------------------
(* The switch events of a queue and of what it becomes.                      *)

LEMMA SwitchesAre ==
  ASSUME NEW q \in Seq(Events), NEW x
  PROVE  /\ Of(q, x) \subseteq 1..Len(q) /\ Switches(q, x) \subseteq Events
         /\ \A e \in Switches(q, x) : /\ e.time \in Nat /\ e.state \in BOOLEAN
                                      /\ e.what = x /\ e.kind = "switch"
         /\ \A i \in Of(q, x) : q[i] \in Switches(q, x)
         /\ \A e \in Switches(q, x) : \E i \in Of(q, x) : q[i] = e
<1>1. /\ Len(q) \in Nat /\ DOMAIN q = 1..Len(q)
      /\ \A i \in DOMAIN q : q[i] \in Events /\ q[i].time \in Nat /\ q[i].state \in BOOLEAN
  BY EventTypes
<1> QED BY <1>1 DEF Of, Switches

LEMMA SwitchesRearranged ==
  ASSUME NEW q \in Seq(Events), NEW r, Rearranged(r, q, Len(q)), NEW x
  PROVE  Switches(r, x) = Switches(q, x) /\ (Distinct(q, x) => Distinct(r, x))
<1> DEFINE n == Len(q)
<1>1. PICK p : Places(r, q, n, p)
  BY DEF Rearranged
<1>2. DOMAIN q = 1..n /\ DOMAIN r = 1..n
  BY EventTypes DEF Rearranged
<1> HIDE DEF n
<1>3. /\ \A i \in 1..n : p[i] \in 1..n /\ r[p[i]] = q[i]
      /\ \A k \in 1..n : \E i \in 1..n : p[i] = k
      /\ \A i, j \in 1..n : p[i] = p[j] => i = j
  BY <1>1 DEF Places
<1>4. \A i \in 1..n : i \in Of(q, x) <=> p[i] \in Of(r, x)
  BY <1>2, <1>3 DEF Of
<1>5. ASSUME NEW e PROVE e \in Switches(r, x) <=> e \in Switches(q, x)
  <2>1. ASSUME NEW k \in Of(r, x), e = r[k] PROVE e \in Switches(q, x)
    <3>1. k \in 1..n
      BY <1>2 DEF Of
    <3>2. PICK i \in 1..n : p[i] = k
      BY <1>3, <3>1
    <3>3. i \in Of(q, x) /\ q[i] = e
      BY <1>3, <1>4, <2>1, <3>2
    <3> QED BY <3>3 DEF Switches
  <2>2. ASSUME NEW i \in Of(q, x), e = q[i] PROVE e \in Switches(r, x)
    <3>1. i \in 1..n
      BY <1>2 DEF Of
    <3>2. p[i] \in Of(r, x) /\ r[p[i]] = e
      BY <1>3, <1>4, <2>2, <3>1
    <3> QED BY <3>2 DEF Switches
  <2> QED BY <2>1, <2>2 DEF Switches
<1>6. ASSUME Distinct(q, x) PROVE Distinct(r, x)
  <2> SUFFICES ASSUME NEW k \in Of(r, x), NEW l \in Of(r, x), r[k].time = r[l].time
               PROVE  k = l
    BY DEF Distinct
  <2>1. k \in 1..n /\ l \in 1..n
    BY <1>2 DEF Of
  <2>2. PICK i \in 1..n : p[i] = k
    BY <1>3, <2>1
  <2>3. PICK j \in 1..n : p[j] = l
    BY <1>3, <2>1
  <2>4. i \in Of(q, x) /\ j \in Of(q, x) /\ q[i] = r[k] /\ q[j] = r[l]
    BY <1>3, <1>4, <2>2, <2>3
  <2>5. i = j
    BY <1>6, <2>4 DEF Distinct
  <2> QED BY <2>2, <2>3, <2>5
<1> QED BY <1>5, <1>6

LEMMA IncreasingWhenAscending ==
  ASSUME NEW q \in Seq(Events), Ascending(q), NEW x, Distinct(q, x)
  PROVE  Increasing(q, x)
<1> SUFFICES ASSUME NEW i \in Of(q, x), NEW j \in Of(q, x), i < j PROVE q[i].time < q[j].time
  BY DEF Increasing
<1>1. i \in DOMAIN q /\ j \in DOMAIN q
  BY DEF Of
<1>2. q[i].time \in Nat /\ q[j].time \in Nat /\ i \in Nat /\ j \in Nat
  BY <1>1, EventTypes
<1>3. q[i].time <= q[j].time /\ q[i].time # q[j].time
  BY <1>1, <1>2 DEF Ascending, Distinct
<1> QED BY <1>2, <1>3

LEMMA DistinctWhenIncreasing ==
  ASSUME NEW q \in Seq(Events), NEW x, Increasing(q, x)
  PROVE  Distinct(q, x)
<1> SUFFICES ASSUME NEW i \in Of(q, x), NEW j \in Of(q, x), q[i].time = q[j].time PROVE i = j
  BY DEF Distinct
<1>1. i \in Nat /\ j \in Nat /\ q[i].time \in Nat /\ q[j].time \in Nat
  BY EventTypes DEF Of
<1>2. ~(i < j) /\ ~(j < i)
  BY <1>1 DEF Increasing
<1> QED BY <1>1, <1>2

LEMMA LastOfIsLeftOff ==
  ASSUME NEW q \in Seq(Events), NEW x, Increasing(q, x), NEW u \in Nat
  PROVE  LastOf(q, x, u) <=> LeftOff(Switches(q, x), u)
<1>1. \A i \in Of(q, x) : i \in Nat /\ q[i].time \in Nat
  BY EventTypes DEF Of
<1>2. UpTo(q, x, u) = {i \in Of(q, x) : q[i].time <= u}
  BY DEF UpTo, Of
<1>3. \A i, j \in Of(q, x) : i <= j <=> q[i].time <= q[j].time
  <2> SUFFICES ASSUME NEW i \in Of(q, x), NEW j \in Of(q, x) PROVE i <= j <=> q[i].time <= q[j].time
    OBVIOUS
  <2>1. (i < j => q[i].time < q[j].time) /\ (j < i => q[j].time < q[i].time)
    BY DEF Increasing
  <2> QED BY <1>1, <2>1
<1>4. ASSUME LastOf(q, x, u) PROVE LeftOff(Switches(q, x), u)
  <2>1. PICK i \in UpTo(q, x, u) : ~q[i].state /\ \A j \in UpTo(q, x, u) : j <= i
    BY <1>4 DEF LastOf
  <2>2. q[i] \in Switches(q, x) /\ q[i].time <= u
    BY <1>2 DEF Switches
  <2>3. ASSUME NEW f \in Switches(q, x), f.time <= u PROVE f.time <= q[i].time
    <3>1. PICK j \in Of(q, x) : q[j] = f
      BY DEF Switches
    <3> QED BY <1>2, <1>3, <2>1, <2>3, <3>1
  <2> QED BY <2>1, <2>2, <2>3 DEF LeftOff
<1>5. ASSUME LeftOff(Switches(q, x), u) PROVE LastOf(q, x, u)
  <2>1. PICK e \in Switches(q, x) :
          e.time <= u /\ ~e.state /\ \A f \in Switches(q, x) : f.time <= u => f.time <= e.time
    BY <1>5 DEF LeftOff
  <2>2. PICK i \in Of(q, x) : q[i] = e
    BY DEF Switches
  <2>3. ASSUME NEW j \in UpTo(q, x, u) PROVE j <= i
    <3>1. j \in Of(q, x) /\ q[j].time <= u /\ q[j] \in Switches(q, x)
      BY <1>2 DEF Switches
    <3> QED BY <1>3, <2>1, <2>2, <3>1
  <2> QED BY <1>2, <2>1, <2>2, <2>3 DEF LastOf
<1> QED BY <1>4, <1>5

LEMMA AppendIs ==
  ASSUME NEW q \in Seq(Events), NEW e \in Events
  PROVE  LET r == Append(q, e)
         IN /\ Len(q) \in Nat /\ r \in Seq(Events) /\ Len(r) = Len(q) + 1
            /\ DOMAIN q = 1..Len(q) /\ DOMAIN r = 1..(Len(q) + 1)
            /\ \A i \in 1..Len(q) : r[i] = q[i]
            /\ r[Len(q) + 1] = e
            /\ \A i \in DOMAIN r : i \in 1..Len(q) \/ i = Len(q) + 1
<1> DEFINE r == Append(q, e)
<1>1. /\ Len(q) \in Nat /\ r \in Seq(Events) /\ Len(r) = Len(q) + 1
      /\ \A i \in 1..Len(q) : r[i] = q[i]
      /\ r[Len(q) + 1] = e
  OBVIOUS
<1> HIDE DEF r
<1>2. DOMAIN q = 1..Len(q) /\ DOMAIN r = 1..(Len(q) + 1)
  BY <1>1, EventTypes
<1>3. \A i \in DOMAIN r : i \in 1..Len(q) \/ i = Len(q) + 1
  BY <1>1, <1>2
<1> QED BY <1>1, <1>2, <1>3 DEF r

LEMMA SwitchesAppend ==
  ASSUME NEW q \in Seq(Events), NEW e \in Events, NEW x
  PROVE  Switches(Append(q, e), x) =
           Switches(q, x) \cup {f \in {e} : f.what = x /\ f.kind = "switch"}
<1> DEFINE r == Append(q, e)
           n == Len(q)
<1>1. /\ n \in Nat /\ DOMAIN q = 1..n /\ DOMAIN r = 1..(n + 1)
      /\ \A i \in 1..n : r[i] = q[i] /\ i \in 1..(n + 1)
      /\ r[n + 1] = e /\ n + 1 \in 1..(n + 1)
      /\ \A i \in DOMAIN r : i \in 1..n \/ i = n + 1
  BY AppendIs
<1> HIDE DEF r, n
<1>2. Switches(r, x) = Switches(q, x) \cup {f \in {e} : f.what = x /\ f.kind = "switch"}
  BY <1>1 DEF Switches, Of
<1> QED BY <1>2 DEF r

(* What is left without the element k. *)
Shifted(k, m) == IF m < k THEN m ELSE m + 1

LEMMA RemoveAtIs ==
  ASSUME NEW q \in Seq(Events), NEW k \in DOMAIN q
  PROVE  LET r == RemoveAt(q, k)
         IN /\ r \in Seq(Events)
            /\ \A m \in DOMAIN r : /\ m \in Nat /\ Shifted(k, m) \in DOMAIN q
                                   /\ Shifted(k, m) # k /\ r[m] = q[Shifted(k, m)]
            /\ \A l, m \in DOMAIN r : l < m <=> Shifted(k, l) < Shifted(k, m)
            /\ \A i \in DOMAIN q : i # k => \E m \in DOMAIN r : Shifted(k, m) = i
<1> DEFINE r == RemoveAt(q, k)
           n == Len(q)
<1>1. n \in Nat /\ DOMAIN q = 1..n /\ k \in 1..n
  BY EventTypes
<1>2. /\ r \in Seq(Events) /\ Len(r) = n - 1
      /\ \A j \in 1..(n - 1) : r[j] = IF j < k THEN q[j] ELSE q[j + 1]
  BY <1>1, RemoveAtType
<1> HIDE DEF r, n
<1>3. DOMAIN r = 1..(n - 1)
  BY <1>2, EventTypes
<1>4. ASSUME NEW m \in DOMAIN r
      PROVE  /\ m \in Nat /\ Shifted(k, m) \in DOMAIN q
             /\ Shifted(k, m) # k /\ r[m] = q[Shifted(k, m)]
  <2>1. m \in 1..(n - 1)
    BY <1>3
  <2>2. m \in Nat /\ Shifted(k, m) \in 1..n /\ Shifted(k, m) # k
    BY <1>1, <2>1 DEF Shifted
  <2> QED BY <1>1, <1>2, <2>1, <2>2 DEF Shifted
<1>5. \A l, m \in DOMAIN r : l < m <=> Shifted(k, l) < Shifted(k, m)
  BY <1>1, <1>3 DEF Shifted
<1>6. ASSUME NEW i \in DOMAIN q, i # k PROVE \E m \in DOMAIN r : Shifted(k, m) = i
  <2>1. CASE i < k
    <3>1. i \in DOMAIN r /\ Shifted(k, i) = i
      BY <1>1, <1>3, <2>1 DEF Shifted
    <3> QED BY <3>1
  <2>2. CASE k < i
    <3>1. i - 1 \in DOMAIN r /\ Shifted(k, i - 1) = i
      BY <1>1, <1>3, <2>2 DEF Shifted
    <3> QED BY <3>1
  <2> QED BY <1>1, <1>6, <2>1, <2>2
<1> QED BY <1>2, <1>4, <1>5, <1>6 DEF r

LEMMA SwitchesRemoved ==
  ASSUME NEW q \in Seq(Events), NEW k \in DOMAIN q, NEW x, Distinct(q, x), q[k].kind = "switch"
  PROVE  Switches(RemoveAt(q, k), x) =
           IF q[k].what = x THEN Switches(q, x) \ {q[k]} ELSE Switches(q, x)
<1> DEFINE r == RemoveAt(q, k)
<1>1. /\ \A m \in DOMAIN r : /\ m \in Nat /\ Shifted(k, m) \in DOMAIN q
                             /\ Shifted(k, m) # k /\ r[m] = q[Shifted(k, m)]
      /\ \A i \in DOMAIN q : i # k => \E m \in DOMAIN r : Shifted(k, m) = i
  BY RemoveAtIs
<1> HIDE DEF r
<1>2. Switches(r, x) = {q[i] : i \in Of(q, x) \ {k}}
  BY <1>1 DEF Switches, Of
<1>3. CASE q[k].what = x
  <2>1. k \in Of(q, x)
    BY <1>3 DEF Of
  <2>2. \A i \in Of(q, x) \ {k} : q[i] # q[k]
    BY <2>1 DEF Distinct
  <2>3. {q[i] : i \in Of(q, x) \ {k}} = Switches(q, x) \ {q[k]}
    BY <2>1, <2>2 DEF Switches
  <2> QED BY <1>2, <1>3, <2>3 DEF r
<1>4. CASE q[k].what # x
  <2>1. k \notin Of(q, x)
    BY <1>4 DEF Of
  <2> QED BY <1>2, <1>4, <2>1 DEF Switches, r
<1> QED BY <1>3, <1>4

-----------------------------------------------------------------------------
(* The queue of the faults keeps its shape.                                  *)

LEMMA ShapeAppend ==
  ASSUME NEW q \in Seq(Events), NEW T, NEW now \in Nat, NEW t \in Nat, now <= t,
         FaultShape(q, T, now), NEW e \in Events, e.kind = "switch", e.what \in Hosts,
         e.what \in T => \A i \in DOMAIN q : q[i].what = e.what => q[i].time < e.time,
         e.what \in T /\ e.state => e.time <= t + CrashDuration,
         e.what \in T /\ ~e.state => e.time <= t,
         e.state => \A i \in DOMAIN q : q[i].what \in T /\ q[i].state => q[i].time <= e.time,
         e.what \in T /\ e.state =>
           \E i \in DOMAIN q : /\ q[i].what = e.what /\ ~q[i].state
                               /\ \A k \in DOMAIN q : q[k].what = e.what => k <= i
  PROVE  FaultShape(Append(q, e), T, t)
<1> DEFINE r == Append(q, e)
           n == Len(q)
<1>1. /\ n \in Nat /\ DOMAIN q = 1..n /\ DOMAIN r = 1..(n + 1)
      /\ \A i \in 1..n : r[i] = q[i] /\ i \in 1..(n + 1) /\ i < n + 1 /\ i # n + 1
      /\ r[n + 1] = e /\ n + 1 \in 1..(n + 1)
      /\ \A i \in DOMAIN r : i \in 1..n \/ i = n + 1
      /\ \A i, j \in DOMAIN r : i < j => i \in 1..n
  BY AppendIs
<1>2. \A i \in DOMAIN q : q[i].time \in Nat
  BY EventTypes
<1> HIDE DEF r, n
<1>3. \A i \in DOMAIN r : r[i].kind = "switch" /\ r[i].what \in Hosts
  BY <1>1 DEF FaultShape
<1>4. ASSUME NEW i \in DOMAIN r, NEW j \in DOMAIN r, i < j, r[i].what \in T, r[j].what = r[i].what
      PROVE  r[i].time < r[j].time
  <2>1. CASE j \in 1..n
    BY <1>1, <1>4, <2>1 DEF FaultShape
  <2>2. CASE j = n + 1
    BY <1>1, <1>4, <2>2
  <2> QED BY <1>1, <2>1, <2>2
<1>5. ASSUME NEW i \in DOMAIN r, r[i].what \in T
      PROVE  (r[i].state => r[i].time <= t + CrashDuration) /\ (~r[i].state => r[i].time <= t)
  <2>1. CASE i \in 1..n
    <3>1. /\ q[i].time \in Nat
          /\ q[i].state => q[i].time <= now + CrashDuration
          /\ ~q[i].state => q[i].time <= now
      BY <1>1, <1>2, <1>5, <2>1 DEF FaultShape
    <3>2. (q[i].state => q[i].time <= t + CrashDuration) /\ (~q[i].state => q[i].time <= t)
      BY <3>1, Durations
    <3> QED BY <1>1, <2>1, <3>2
  <2>2. CASE i = n + 1
    BY <1>1, <1>5, <2>2
  <2> QED BY <1>1, <2>1, <2>2
<1>6. ASSUME NEW i \in DOMAIN r, NEW j \in DOMAIN r, i < j, r[i].what \in T, r[i].state, r[j].state
      PROVE  r[i].time <= r[j].time
  <2>1. CASE j \in 1..n
    BY <1>1, <1>6, <2>1 DEF FaultShape
  <2>2. CASE j = n + 1
    BY <1>1, <1>6, <2>2
  <2> QED BY <1>1, <2>1, <2>2
<1>7. ASSUME NEW j \in DOMAIN r, r[j].what \in T, r[j].state PROVE OnAfterOff(r, j)
  <2>1. CASE j \in 1..n
    <3>1. PICK i \in DOMAIN q : /\ i < j /\ q[i].what = q[j].what /\ ~q[i].state
                                /\ \A k \in DOMAIN q : q[k].what = q[j].what => k <= i \/ j <= k
      BY <1>1, <1>7, <2>1 DEF FaultShape, OnAfterOff
    <3>2. i \in DOMAIN r /\ r[i].what = r[j].what /\ ~r[i].state
      BY <1>1, <2>1, <3>1
    <3>3. ASSUME NEW k \in DOMAIN r, r[k].what = r[j].what PROVE k <= i \/ j <= k
      <4>1. CASE k \in 1..n
        BY <1>1, <2>1, <3>1, <3>3, <4>1
      <4>2. CASE k = n + 1
        BY <1>1, <2>1, <4>2
      <4> QED BY <1>1, <4>1, <4>2
    <3> QED BY <3>1, <3>2, <3>3 DEF OnAfterOff
  <2>2. CASE j = n + 1
    <3>1. PICK i \in DOMAIN q : /\ q[i].what = e.what /\ ~q[i].state
                                /\ \A k \in DOMAIN q : q[k].what = e.what => k <= i
      BY <1>1, <1>7, <2>2
    <3>2. i \in DOMAIN r /\ i < j /\ r[i].what = r[j].what /\ ~r[i].state
      BY <1>1, <2>2, <3>1
    <3>3. ASSUME NEW k \in DOMAIN r, r[k].what = r[j].what PROVE k <= i \/ j <= k
      <4>1. CASE k \in 1..n
        BY <1>1, <2>2, <3>1, <3>3, <4>1
      <4>2. CASE k = n + 1
        BY <1>1, <2>2, <4>2
      <4> QED BY <1>1, <4>1, <4>2
    <3> QED BY <3>2, <3>3 DEF OnAfterOff
  <2> QED BY <1>1, <2>1, <2>2
<1>8. FaultShape(r, T, t)
  BY <1>3, <1>4, <1>5, <1>6, <1>7 DEF FaultShape
<1> QED BY <1>8 DEF r

LEMMA ShapeRemoved ==
  ASSUME NEW q \in Seq(Events), NEW T, NEW now \in Nat, FaultShape(q, T, now), NEW k \in DOMAIN q,
         q[k].what \in T => \A i \in DOMAIN q : q[i].what = q[k].what => i <= k
  PROVE  FaultShape(RemoveAt(q, k), T, now)
<1> DEFINE r == RemoveAt(q, k)
           c(m) == Shifted(k, m)
<1>1. /\ \A m \in DOMAIN r : /\ m \in Nat /\ c(m) \in DOMAIN q
                             /\ c(m) # k /\ r[m] = q[c(m)]
      /\ \A l, m \in DOMAIN r : l < m <=> c(l) < c(m)
      /\ \A i \in DOMAIN q : i # k => \E m \in DOMAIN r : c(m) = i
  BY RemoveAtIs
<1>2. \A i \in DOMAIN q : i \in Nat
  BY EventTypes
<1> HIDE DEF r, c
<1>3. /\ \A i \in DOMAIN r : r[i].kind = "switch" /\ r[i].what \in Hosts
      /\ \A i \in DOMAIN r : r[i].what \in T /\ r[i].state => r[i].time <= now + CrashDuration
      /\ \A i \in DOMAIN r : r[i].what \in T /\ ~r[i].state => r[i].time <= now
  BY <1>1 DEF FaultShape
<1>4. \A i, j \in DOMAIN r : i < j /\ r[i].what \in T /\ r[j].what = r[i].what => r[i].time < r[j].time
  BY <1>1 DEF FaultShape
<1>5. \A i, j \in DOMAIN r : i < j /\ r[i].what \in T /\ r[i].state /\ r[j].state => r[i].time <= r[j].time
  BY <1>1 DEF FaultShape
<1>6. ASSUME NEW j \in DOMAIN r, r[j].what \in T, r[j].state PROVE OnAfterOff(r, j)
  <2>1. c(j) \in DOMAIN q /\ c(j) # k /\ q[c(j)] = r[j]
    BY <1>1
  <2>2. PICK i \in DOMAIN q : /\ i < c(j) /\ q[i].what = q[c(j)].what /\ ~q[i].state
                              /\ \A l \in DOMAIN q : q[l].what = q[c(j)].what => l <= i \/ c(j) <= l
    BY <1>6, <2>1 DEF FaultShape, OnAfterOff
  <2>3. i # k
    <3> SUFFICES ASSUME i = k PROVE FALSE
      OBVIOUS
    <3>1. c(j) <= k
      BY <1>6, <2>1, <2>2
    <3> QED BY <1>2, <2>1, <2>2, <3>1
  <2>4. PICK m \in DOMAIN r : c(m) = i
    BY <1>1, <2>3
  <2>5. m < j /\ r[m].what = r[j].what /\ ~r[m].state
    BY <1>1, <2>1, <2>2, <2>4
  <2>6. ASSUME NEW l \in DOMAIN r, r[l].what = r[j].what PROVE l <= m \/ j <= l
    <3>1. c(l) <= c(m) \/ c(j) <= c(l)
      BY <1>1, <2>1, <2>2, <2>4, <2>6
    <3>2. c(l) \in Nat /\ c(m) \in Nat /\ c(j) \in Nat /\ l \in Nat /\ m \in Nat /\ j \in Nat
      BY <1>1, <1>2
    <3>3. ~(c(m) < c(l)) \/ ~(c(l) < c(j))
      BY <3>1, <3>2
    <3>4. ~(m < l) \/ ~(l < j)
      BY <1>1, <3>3
    <3> QED BY <3>2, <3>4
  <2> QED BY <2>5, <2>6 DEF OnAfterOff
<1>7. FaultShape(r, T, now)
  BY <1>3, <1>4, <1>5, <1>6 DEF FaultShape
<1> QED BY <1>7 DEF r

LEMMA ShapeDistinct ==
  ASSUME NEW q \in Seq(Events), NEW T, NEW now \in Nat, FaultShape(q, T, now), NEW h \in T
  PROVE  Distinct(q, h)
<1>1. Increasing(q, h)
  BY DEF Increasing, Of, FaultShape
<1> QED BY <1>1, DistinctWhenIncreasing

(* If h is struck at time t, then either it will be on, as its events are    *)
(* all before t; or it will be turned on by its last event, at t or later.   *)
LEMMA WillBeOn ==
  ASSUME NEW q \in Seq(Events), NEW T, NEW now \in Nat, FaultShape(q, T, now), NEW h \in T,
         NEW t \in Nat, now < t, ToTurnOn(q, h, t) = {}
  PROVE  \A i \in DOMAIN q : q[i].what = h => q[i].time < t
<1> SUFFICES ASSUME NEW i \in DOMAIN q, q[i].what = h, ~(q[i].time < t) PROVE FALSE
  OBVIOUS
<1>1. /\ Len(q) \in Nat /\ DOMAIN q = 1..Len(q) /\ i \in Nat
      /\ \A j \in DOMAIN q : q[j].time \in Nat
  BY EventTypes
<1>2. q[i].state
  BY <1>1 DEF FaultShape
<1>3. ASSUME NEW j \in i..Len(q), q[j].state PROVE q[j].time >= t
  <2>1. j \in DOMAIN q /\ (j = i \/ i < j)
    BY <1>1
  <2>2. q[i].time <= q[j].time
    BY <1>1, <1>2, <1>3, <2>1 DEF FaultShape
  <2> QED BY <1>1, <2>1, <2>2
<1>4. i \in ToTurnOn(q, h, t)
  BY <1>2, <1>3 DEF ToTurnOn
<1> QED BY <1>4

LEMMA WillTurnOn ==
  ASSUME NEW q \in Seq(Events), NEW T, NEW now \in Nat, FaultShape(q, T, now), NEW h \in T,
         NEW t \in Nat, now < t, NEW k \in ToTurnOn(q, h, t)
  PROVE  /\ k \in DOMAIN q /\ q[k].what = h /\ q[k].state /\ q[k].time >= t
         /\ \A i \in DOMAIN q : q[i].what = h => i <= k
<1>1. /\ Len(q) \in Nat /\ DOMAIN q = 1..Len(q)
      /\ \A j \in DOMAIN q : q[j].time \in Nat
  BY EventTypes
<1>2. k \in DOMAIN q /\ q[k].what = h /\ q[k].state /\ k \in k..Len(q)
  BY <1>1 DEF ToTurnOn
<1>3. q[k].time >= t
  BY <1>2 DEF ToTurnOn
<1>4. ASSUME NEW i \in DOMAIN q, q[i].what = h, k < i PROVE FALSE
  <2>1. CASE ~q[i].state
    <3>1. q[i].time <= now /\ q[k].time < q[i].time
      BY <1>2, <1>4, <2>1 DEF FaultShape
    <3> QED BY <1>1, <1>2, <1>3, <3>1
  <2>2. CASE q[i].state
    <3>1. PICK j \in DOMAIN q : /\ j < i /\ q[j].what = h /\ ~q[j].state
                                /\ \A l \in DOMAIN q : q[l].what = h => l <= j \/ i <= l
      BY <1>4, <2>2 DEF FaultShape, OnAfterOff
    <3>2. k <= j /\ k # j
      BY <1>1, <1>2, <1>4, <3>1
    <3>3. q[j].time <= now /\ q[k].time < q[j].time
      BY <1>1, <1>2, <3>1, <3>2 DEF FaultShape
    <3> QED BY <1>1, <1>2, <1>3, <3>1, <3>3
  <2> QED BY <2>1, <2>2
<1>5. \A i \in DOMAIN q : q[i].what = h => i <= k
  BY <1>1, <1>2, <1>4
<1> QED BY <1>2, <1>3, <1>5

(* R is what is kept of the events S of x, which ends by turning x off, and  *)
(* B turns it on again after the outage.                                     *)
LEMMA StruckAsDrawn ==
  ASSUME NEW S \in SUBSET Events, NEW R \in SUBSET Events, NEW B \in SUBSET Events, NEW x,
         NEW t \in Nat, NEW draws \in SUBSET (Nat \X (Hosts \cup VMs)),
         \A d \in draws : d[2] = x => d[1] <= t,
         NEW u \in 0..(Duration - 1),
         LeftOff(S, u) <=> OutBy(draws, x, u),
         u < t => (LeftOff(R, u) <=> LeftOff(S, u)),
         NEW g \in R, ~g.state, g.time <= t, \A f \in R : f.time <= g.time,
         \A b \in B : b.state /\ b.time = t + CrashDuration,
         B = {} => t + CrashDuration >= Duration
  PROVE  LeftOff(R \cup B, u) <=> OutBy(draws \cup {<<t, x>>}, x, u)
<1>0. /\ u \in Nat /\ u < Duration /\ Duration \in Nat /\ CrashDuration \in Nat /\ CrashDuration > 0
      /\ \A f \in Events : f.time \in Nat
  BY Durations DEF Events
<1>1. OutBy(draws \cup {<<t, x>>}, x, u) <=>
        OutBy(draws, x, u) \/ (t <= u /\ u < t + CrashDuration)
  <2> DEFINE new == <<t, x>>
  <2>1. new[1] = t /\ new[2] = x
    OBVIOUS
  <2> HIDE DEF new
  <2>2. OutBy(draws \cup {new}, x, u) <=>
          OutBy(draws, x, u) \/ (new[2] = x /\ new[1] <= u /\ u < new[1] + CrashDuration)
    BY DEF OutBy
  <2> QED BY <2>1, <2>2 DEF new
<1>2. CASE u < t + CrashDuration
  <2>1. \A b \in B : ~(b.time <= u)
    BY <1>0, <1>2
  <2>2. LeftOff(R \cup B, u) <=> LeftOff(R, u)
    BY <2>1 DEF LeftOff
  <2>3. CASE u < t
    BY <1>0, <1>1, <2>2, <2>3
  <2>4. CASE t <= u
    <3>1. g.time <= u
      BY <1>0, <2>4
    <3>2. LeftOff(R, u)
      BY <3>1 DEF LeftOff
    <3> QED BY <1>1, <1>2, <2>2, <2>4, <3>2
  <2> QED BY <1>0, <2>3, <2>4
<1>3. CASE t + CrashDuration <= u
  <2>1. PICK b \in B : TRUE
    BY <1>0, <1>3
  <2>2. ~LeftOff(R \cup B, u)
    <3> SUFFICES ASSUME NEW e \in R \cup B, ~e.state, \A f \in R \cup B : f.time <= u => f.time <= e.time
                 PROVE  FALSE
      BY DEF LeftOff
    <3>1. e \in R /\ b.time <= e.time /\ e.time <= g.time
      BY <1>3, <2>1
    <3>2. b.time \in Nat /\ e.time \in Nat /\ g.time \in Nat /\ b.time = t + CrashDuration
      BY <1>0, <2>1
    <3> QED BY <1>0, <3>1, <3>2
  <2>3. ~OutBy(draws, x, u)
    <3> SUFFICES ASSUME NEW d \in draws, d[2] = x, u < d[1] + CrashDuration PROVE FALSE
      BY DEF OutBy
    <3>1. d[1] <= t /\ d[1] \in Nat
      OBVIOUS
    <3> QED BY <1>0, <1>3, <3>1
  <2> QED BY <1>0, <1>1, <1>3, <2>2, <2>3
<1> QED BY <1>0, <1>2, <1>3

LEMMA ShapeLater ==
  ASSUME NEW q \in Seq(Events), NEW T, NEW now \in Nat, NEW t \in Nat, now <= t,
         FaultShape(q, T, now)
  PROVE  FaultShape(q, T, t)
<1>1. \A i \in DOMAIN q : q[i].time \in Nat
  BY EventTypes
<1>2. \A n \in Nat : (n <= now => n <= t) /\ (n <= now + CrashDuration => n <= t + CrashDuration)
  BY Durations
<1>3. \A i \in DOMAIN q : q[i].what \in T =>
        (q[i].state => q[i].time <= t + CrashDuration) /\ (~q[i].state => q[i].time <= t)
  BY <1>1, <1>2 DEF FaultShape
<1> QED BY <1>3 DEF FaultShape

(* h is off by the last of its events. *)
EndsOff(q, h, t) ==
  \E i \in DOMAIN q : /\ q[i].what = h /\ ~q[i].state /\ q[i].time <= t
                      /\ \A k \in DOMAIN q : q[k].what = h => k <= i

LEMMA PostponedShape ==
  ASSUME NEW q \in Seq(Events), NEW T \in SUBSET Hosts, NEW now \in Nat, FaultShape(q, T, now),
         NEW h \in Hosts, NEW t \in Nat, now < t
  PROVE  FaultShape(Postponed(q, h, t), T, t) /\ (h \in T => EndsOff(Postponed(q, h, t), h, t))
<1> DEFINE a == Postponed(q, h, t)
<1>0. now <= t
  OBVIOUS
<1>1. CASE ToTurnOn(q, h, t) = {}
  <2> DEFINE e == Switch(t, h, FALSE)
             n == Len(q)
  <2>1. /\ e \in Events /\ e.time = t /\ e.what = h /\ ~e.state /\ e.kind = "switch"
    BY DEF Switch, Events
  <2>2. a = Append(q, e)
    BY <1>1, PostponedIs
  <2> HIDE DEF e, a
  <2>3. h \in T => \A i \in DOMAIN q : q[i].what = h => q[i].time < t
    BY <1>1, WillBeOn
  <2>4. t <= t
    OBVIOUS
  <2>5. FaultShape(a, T, t)
    BY <1>0, <2>1, <2>2, <2>3, <2>4, ShapeAppend
  <2>6. /\ n \in Nat /\ n + 1 \in DOMAIN a /\ a[n + 1] = e
        /\ \A i \in DOMAIN a : i <= n + 1
    <3>1. n \in Nat /\ DOMAIN a = 1..(n + 1) /\ a[n + 1] = e
      BY <2>1, <2>2, AppendIs
    <3> HIDE DEF n
    <3> QED BY <3>1
  <2>7. EndsOff(a, h, t)
    BY <2>1, <2>4, <2>6 DEF EndsOff
  <2> QED BY <2>5, <2>7 DEF a
<1>2. CASE ToTurnOn(q, h, t) # {}
  <2> DEFINE k == LatestToTurnOn(q, h, t)
  <2>1. a = RemoveAt(q, k) /\ k \in ToTurnOn(q, h, t)
    BY <1>2, PostponedIs
  <2> HIDE DEF k, a
  <2>2. k \in DOMAIN q /\ q[k].what = h /\ q[k].state
    BY <2>1 DEF ToTurnOn
  <2>3. h \in T => \A i \in DOMAIN q : q[i].what = h => i <= k
    BY <2>1, WillTurnOn
  <2>4. a \in Seq(Events) /\ FaultShape(a, T, now)
    BY <2>1, <2>2, <2>3, ShapeRemoved, RemoveAtIs
  <2>5. FaultShape(a, T, t)
    BY <1>0, <2>4, ShapeLater
  <2>6. ASSUME h \in T PROVE EndsOff(a, h, t)
    <3>1. PICK i \in DOMAIN q : /\ i < k /\ q[i].what = h /\ ~q[i].state
                                /\ \A l \in DOMAIN q : q[l].what = h => l <= i \/ k <= l
      BY <2>2, <2>6 DEF FaultShape, OnAfterOff
    <3> DEFINE c(m) == Shifted(k, m)
    <3>2. /\ \A m \in DOMAIN a : m \in Nat /\ c(m) \in DOMAIN q /\ c(m) # k /\ a[m] = q[c(m)]
          /\ \A l, m \in DOMAIN a : l < m <=> c(l) < c(m)
          /\ \A l \in DOMAIN q : l # k => \E m \in DOMAIN a : c(m) = l
      BY <2>1, <2>2, RemoveAtIs
    <3>3. \A l \in DOMAIN q : l \in Nat
      BY EventTypes
    <3> HIDE DEF c
    <3>4. i # k
      BY <2>2, <3>1, <3>3
    <3>5. PICK m \in DOMAIN a : c(m) = i
      BY <3>2, <3>4
    <3>6. a[m].what = h /\ ~a[m].state
      BY <3>1, <3>2, <3>5
    <3>7. ASSUME NEW l \in DOMAIN a, a[l].what = h PROVE l <= m
      <4>1. c(l) <= k /\ c(l) # k /\ (c(l) <= i \/ k <= c(l))
        BY <2>3, <2>6, <3>1, <3>2, <3>7
      <4>2. c(l) \in Nat /\ k \in Nat /\ i \in Nat /\ l \in Nat /\ m \in Nat
        BY <2>2, <3>2, <3>3, <3>7
      <4>3. ~(i < c(l))
        BY <4>1, <4>2
      <4>4. ~(m < l)
        BY <3>2, <3>5, <4>3
      <4> QED BY <4>2, <4>4
    <3>8. a[m].time <= t
      BY <2>5, <2>6, <3>6 DEF FaultShape
    <3> QED BY <3>6, <3>7, <3>8 DEF EndsOff
  <2> QED BY <2>5, <2>6 DEF a
<1> QED BY <1>1, <1>2

LEMMA NotDueYet ==
  ASSUME NEW S, NEW u \in Nat, NEW e, e.time \in Nat, u < e.time
  PROVE  /\ LeftOff(S \cup {e}, u) <=> LeftOff(S, u)
         /\ LeftOff(S \ {e}, u) <=> LeftOff(S, u)
<1>1. ~(e.time <= u)
  OBVIOUS
<1> QED BY <1>1 DEF LeftOff

(* What is postponed changes nothing before t. *)
LEMMA PostponedLeft ==
  ASSUME NEW q \in Seq(Events), NEW T \in SUBSET Hosts, NEW now \in Nat, FaultShape(q, T, now),
         NEW h \in Hosts, NEW t \in Nat, now < t, NEW x \in T
  PROVE  LET a == Postponed(q, h, t)
         IN /\ x # h => Switches(a, x) = Switches(q, x)
            /\ x = h => \A u \in Nat : u < t => (LeftOff(Switches(a, x), u) <=> LeftOff(Switches(q, x), u))
<1> DEFINE a == Postponed(q, h, t)
           S == Switches(q, x)
<1>1. CASE ToTurnOn(q, h, t) = {}
  <2> DEFINE e == Switch(t, h, FALSE)
  <2>1. /\ e \in Events /\ e.time = t /\ e.what = h /\ e.kind = "switch"
    BY DEF Switch, Events
  <2>2. a = Append(q, e)
    BY <1>1, PostponedIs
  <2> HIDE DEF e, a
  <2>3. Switches(a, x) = S \cup {f \in {e} : f.what = x /\ f.kind = "switch"}
    BY <2>1, <2>2, SwitchesAppend
  <2> HIDE DEF S
  <2>4. (x # h => Switches(a, x) = S) /\ (x = h => Switches(a, x) = S \cup {e})
    BY <2>1, <2>3
  <2>5. \A u \in Nat : u < t => (LeftOff(S \cup {e}, u) <=> LeftOff(S, u))
    BY <2>1, NotDueYet
  <2> QED BY <2>4, <2>5 DEF a, S
<1>2. CASE ToTurnOn(q, h, t) # {}
  <2> DEFINE k == LatestToTurnOn(q, h, t)
  <2>1. a = RemoveAt(q, k) /\ k \in ToTurnOn(q, h, t)
    BY <1>2, PostponedIs
  <2> HIDE DEF k, a
  <2>2. k \in DOMAIN q /\ q[k].what = h /\ q[k].kind = "switch" /\ q[k].time \in Nat
    <3>1. k \in DOMAIN q /\ q[k].what = h
      BY <2>1 DEF ToTurnOn
    <3> QED BY <3>1, EventTypes DEF FaultShape
  <2>3. Distinct(q, x)
    BY ShapeDistinct
  <2>4. Switches(a, x) = IF q[k].what = x THEN S \ {q[k]} ELSE S
    BY <2>1, <2>2, <2>3, SwitchesRemoved
  <2> HIDE DEF S
  <2>5. ASSUME x = h, NEW u \in Nat, u < t PROVE LeftOff(S \ {q[k]}, u) <=> LeftOff(S, u)
    <3>1. q[k].time >= t
      BY <2>1, <2>5, WillTurnOn
    <3>2. u < q[k].time
      BY <2>2, <2>5, <3>1
    <3> QED BY <2>2, <3>2, NotDueYet
  <2>6. (x # h => Switches(a, x) = S) /\ (x = h => Switches(a, x) = S \ {q[k]})
    BY <2>2, <2>4
  <2> QED BY <2>5, <2>6 DEF a, S
<1> QED BY <1>1, <1>2

(* The queue once h is struck at time t. *)
Struck(q, h, t) == Postponed(q, h, t) \o Back(t, h)

LEMMA StruckIs ==
  ASSUME NEW q \in Seq(Events), NEW h \in Hosts, NEW t \in Nat
  PROVE  LET b == Switch(t + CrashDuration, h, TRUE)
             a == Postponed(q, h, t)
         IN /\ a \in Seq(Events) /\ b \in Events /\ b.time = t + CrashDuration /\ b.what = h /\ b.state
            /\ b.kind = "switch"
            /\ t + CrashDuration < Duration => Struck(q, h, t) = Append(a, b)
            /\ ~(t + CrashDuration < Duration) => Struck(q, h, t) = a
<1> DEFINE b == Switch(t + CrashDuration, h, TRUE)
           a == Postponed(q, h, t)
<1>1. a \in Seq(Events)
  BY PostponedType
<1>2. b \in Events
  BY BackType
<1>3. b.time = t + CrashDuration /\ b.what = h /\ b.state /\ b.kind = "switch"
  BY DEF Switch
<1>4. t + CrashDuration < Duration => Struck(q, h, t) = a \o <<b>>
  BY DEF Struck, Back
<1>5. ~(t + CrashDuration < Duration) => Struck(q, h, t) = a \o <<>>
  BY DEF Struck, Back
<1> HIDE DEF a, b
<1>6. a \o <<b>> = Append(a, b) /\ a \o <<>> = a
  BY <1>1, <1>2
<1> QED BY <1>1, <1>2, <1>3, <1>4, <1>5, <1>6 DEF a, b

LEMMA StruckShape ==
  ASSUME NEW q \in Seq(Events), NEW T \in SUBSET Hosts, NEW now \in Nat, FaultShape(q, T, now),
         NEW h \in Hosts, NEW t \in Nat, now < t
  PROVE  FaultShape(Struck(q, h, t), T, t)
<1> DEFINE a == Postponed(q, h, t)
           b == Switch(t + CrashDuration, h, TRUE)
<1>1. /\ a \in Seq(Events) /\ b \in Events /\ b.time = t + CrashDuration /\ b.what = h /\ b.state
      /\ b.kind = "switch"
      /\ t + CrashDuration < Duration => Struck(q, h, t) = Append(a, b)
      /\ ~(t + CrashDuration < Duration) => Struck(q, h, t) = a
  BY StruckIs
<1>2. FaultShape(a, T, t) /\ (h \in T => EndsOff(a, h, t))
  BY PostponedShape
<1> HIDE DEF a, b
<1>3. FaultShape(Append(a, b), T, t)
  <2>1. /\ \A i \in DOMAIN a : a[i].time \in Nat /\ i \in Nat
        /\ CrashDuration \in Nat /\ CrashDuration > 0 /\ t + CrashDuration \in Nat
    BY <1>1, EventTypes, Durations
  <2>2. h \in T => \A i \in DOMAIN a : a[i].what = h => a[i].time < t + CrashDuration
    <3> SUFFICES ASSUME h \in T, NEW i \in DOMAIN a, a[i].what = h PROVE a[i].time < t + CrashDuration
      OBVIOUS
    <3>1. PICK j \in DOMAIN a : /\ a[j].what = h /\ a[j].time <= t
                                /\ \A k \in DOMAIN a : a[k].what = h => k <= j
      BY <1>2 DEF EndsOff
    <3>2. i = j \/ i < j
      BY <2>1, <3>1
    <3>3. i < j => a[i].time < a[j].time
      BY <1>2, <3>1 DEF FaultShape
    <3> QED BY <2>1, <3>1, <3>2, <3>3
  <2>3. \A i \in DOMAIN a : a[i].what \in T /\ a[i].state => a[i].time <= t + CrashDuration
    BY <1>2 DEF FaultShape
  <2>4. h \in T => \E i \in DOMAIN a : /\ a[i].what = h /\ ~a[i].state
                                       /\ \A k \in DOMAIN a : a[k].what = h => k <= i
    BY <1>2 DEF EndsOff
  <2>5. t <= t /\ t + CrashDuration <= t + CrashDuration
    BY <2>1
  <2> QED BY <1>1, <1>2, <2>2, <2>3, <2>4, <2>5, ShapeAppend
<1> QED BY <1>1, <1>2, <1>3

LEMMA StruckDrawn ==
  ASSUME NEW q \in Seq(Events), NEW T \in SUBSET Hosts, NEW now \in Nat, FaultShape(q, T, now),
         NEW h \in Hosts, NEW t \in Nat, now < t,
         NEW draws \in SUBSET (Nat \X (Hosts \cup VMs)), FaultsDrawn(q, T, draws),
         \A d \in draws : d[2] \in T => d[1] <= now
  PROVE  FaultsDrawn(Struck(q, h, t), T, draws \cup {<<t, h>>})
<1> DEFINE a == Postponed(q, h, t)
           b == Switch(t + CrashDuration, h, TRUE)
           r == Struck(q, h, t)
           B == IF t + CrashDuration < Duration THEN {b} ELSE {}
<1>1. /\ a \in Seq(Events) /\ b \in Events /\ b.time = t + CrashDuration /\ b.what = h /\ b.state
      /\ b.kind = "switch"
      /\ t + CrashDuration < Duration => r = Append(a, b)
      /\ ~(t + CrashDuration < Duration) => r = a
  BY StruckIs
<1>2. FaultShape(a, T, t) /\ (h \in T => EndsOff(a, h, t))
  BY PostponedShape
<1>3. /\ \A x \in T : x # h => Switches(a, x) = Switches(q, x)
      /\ h \in T => \A u \in Nat : u < t => (LeftOff(Switches(a, h), u) <=> LeftOff(Switches(q, h), u))
  <2>1. ASSUME NEW x \in T
        PROVE  /\ x # h => Switches(a, x) = Switches(q, x)
               /\ x = h => \A u \in Nat : u < t => (LeftOff(Switches(a, x), u) <=> LeftOff(Switches(q, x), u))
    BY PostponedLeft
  <2> HIDE DEF a
  <2> QED BY <2>1
<1> HIDE DEF a, b, r
<1>4. (\A x \in T : x # h => Switches(r, x) = Switches(a, x)) /\ Switches(r, h) = Switches(a, h) \cup B
  <2>1. \A x : Switches(Append(a, b), x) =
                 Switches(a, x) \cup {f \in {b} : f.what = x /\ f.kind = "switch"}
    BY <1>1, SwitchesAppend
  <2>2. (\A x \in T : x # h => Switches(Append(a, b), x) = Switches(a, x))
        /\ Switches(Append(a, b), h) = Switches(a, h) \cup {b}
    <3>1. \A x : x # h => {f \in {b} : f.what = x /\ f.kind = "switch"} = {}
      BY <1>1
    <3>2. {f \in {b} : f.what = h /\ f.kind = "switch"} = {b}
      BY <1>1
    <3> QED BY <2>1, <3>1, <3>2
  <2> QED BY <1>1, <2>2
<1> SUFFICES ASSUME NEW x \in T, NEW u \in 0..(Duration - 1)
             PROVE  LeftOff(Switches(r, x), u) <=> OutBy(draws \cup {<<t, h>>}, x, u)
  BY DEF FaultsDrawn, r
<1>5. u \in Nat /\ (LeftOff(Switches(q, x), u) <=> OutBy(draws, x, u))
  BY Durations DEF FaultsDrawn
<1>6. CASE x # h
  <2> DEFINE new == <<t, h>>
  <2>1. new[2] # x
    BY <1>6
  <2> HIDE DEF new
  <2>2. OutBy(draws \cup {new}, x, u) <=> OutBy(draws, x, u)
    BY <2>1 DEF OutBy
  <2> QED BY <1>3, <1>4, <1>5, <1>6, <2>2 DEF new
<1>7. CASE x = h
  <2> DEFINE R == Switches(a, h)
             S == Switches(q, h)
  <2>1. PICK i \in DOMAIN a : /\ a[i].what = h /\ ~a[i].state /\ a[i].time <= t
                              /\ \A k \in DOMAIN a : a[k].what = h => k <= i
    BY <1>2, <1>7 DEF EndsOff
  <2>2. a[i] \in R
    BY <1>2, <2>1 DEF Switches, Of, FaultShape
  <2>3. ASSUME NEW f \in R PROVE f.time <= a[i].time
    <3>1. PICK j \in DOMAIN a : a[j] = f /\ a[j].what = h
      BY DEF Switches, Of
    <3>2. /\ j \in Nat /\ i \in Nat /\ a[j].time \in Nat /\ a[i].time \in Nat
      BY <1>1, <3>1, EventTypes
    <3>3. j = i \/ j < i
      BY <2>1, <3>1, <3>2
    <3>4. j < i => a[j].time < a[i].time
      BY <1>2, <1>7, <2>1, <3>1 DEF FaultShape
    <3> QED BY <3>1, <3>2, <3>3, <3>4
  <2>4. R \in SUBSET Events /\ S \in SUBSET Events /\ B \in SUBSET Events
    BY <1>1, SwitchesAre
  <2>5. u < t => (LeftOff(R, u) <=> LeftOff(S, u))
    BY <1>3, <1>5, <1>7
  <2>6. /\ \A e \in B : e.state /\ e.time = t + CrashDuration
        /\ B = {} => t + CrashDuration >= Duration
    BY <1>1, Durations
  <2>7. \A d \in draws : d[2] = x => d[1] <= t
    <3> SUFFICES ASSUME NEW d \in draws, d[2] = x PROVE d[1] <= t
      OBVIOUS
    <3>1. d[1] <= now /\ d[1] \in Nat
      OBVIOUS
    <3> QED BY <3>1
  <2>8. (LeftOff(S, u) <=> OutBy(draws, x, u)) /\ Switches(r, x) = R \cup B
    BY <1>4, <1>5, <1>7
  <2> HIDE DEF R, S, B
  <2>9. LeftOff(R \cup B, u) <=> OutBy(draws \cup {<<t, x>>}, x, u)
    BY <2>1, <2>2, <2>3, <2>4, <2>5, <2>6, <2>7, <2>8, StruckAsDrawn
  <2> QED BY <1>7, <2>8, <2>9
<1> QED BY <1>6, <1>7

-----------------------------------------------------------------------------
(* The faults, whatever is drawn.                                            *)

LEMMA StruckAbout ==
  ASSUME NEW q \in Seq(Events), NEW h \in Hosts, NEW t \in Nat
  PROVE  /\ Struck(q, h, t) \in Seq(Events)
         /\ \A i \in DOMAIN Struck(q, h, t) :
              \/ /\ Struck(q, h, t)[i].what = h /\ Struck(q, h, t)[i].kind = "switch"
                 /\ Struck(q, h, t)[i].time \in {t, t + CrashDuration}
              \/ \E j \in DOMAIN q : Struck(q, h, t)[i] = q[j]
<1> DEFINE a == Postponed(q, h, t)
           b == Switch(t + CrashDuration, h, TRUE)
           r == Struck(q, h, t)
           From(e) == \/ e.what = h /\ e.kind = "switch" /\ e.time \in {t, t + CrashDuration}
                      \/ \E j \in DOMAIN q : e = q[j]
<1>1. /\ a \in Seq(Events) /\ b \in Events /\ b.time = t + CrashDuration /\ b.what = h /\ b.state
      /\ b.kind = "switch"
      /\ t + CrashDuration < Duration => r = Append(a, b)
      /\ ~(t + CrashDuration < Duration) => r = a
  BY StruckIs
<1>2. \A i \in DOMAIN a : From(a[i])
  <2>1. Switch(t, h, FALSE).what = h /\ Switch(t, h, FALSE).kind = "switch" /\ Switch(t, h, FALSE).time = t
    BY DEF Switch
  <2>2. \A i \in DOMAIN a : a[i] = Switch(t, h, FALSE) \/ \E j \in DOMAIN q : a[i] = q[j]
    <3>1. h \in Hosts \cup VMs
      OBVIOUS
    <3> QED BY <3>1, PostponedType, Zenon
  <2> QED BY <2>1, <2>2
<1> HIDE DEF a, b, r
<1>3. From(b)
  BY <1>1
<1> HIDE DEF From
<1>4. LET c == Append(a, b) IN c \in Seq(Events) /\ \A i \in DOMAIN c : From(c[i])
  <2> DEFINE c == Append(a, b)
             n == Len(a)
  <2>1. /\ c \in Seq(Events) /\ DOMAIN a = 1..n
        /\ \A i \in 1..n : c[i] = a[i]
        /\ c[n + 1] = b
        /\ \A i \in DOMAIN c : i \in 1..n \/ i = n + 1
    BY <1>1, AppendIs
  <2> HIDE DEF c, n
  <2> QED BY <1>2, <1>3, <2>1 DEF c
<1>5. r \in Seq(Events) /\ \A i \in DOMAIN r : From(r[i])
  BY <1>1, <1>2, <1>4
<1> QED BY <1>5 DEF r, From

LEMMA OutOfOther ==
  ASSUME NEW draws, NEW t, NEW y, NEW x, x # y, NEW u
  PROVE  OutBy(draws \cup {<<t, y>>}, x, u) <=> OutBy(draws, x, u)
<1> DEFINE new == <<t, y>>
<1>1. new[2] # x
  OBVIOUS
<1> HIDE DEF new
<1>2. OutBy(draws \cup {new}, x, u) <=> OutBy(draws, x, u)
  BY <1>1 DEF OutBy
<1> QED BY <1>2 DEF new

LEMMA DrawnUntil ==
  ASSUME NEW draws \in SUBSET (Nat \X (Hosts \cup VMs)), NEW T, NEW now \in Nat,
         \A d \in draws : d[2] \in T => d[1] <= now,
         NEW t \in Nat, now < t, NEW y
  PROVE  \A d \in draws \cup {<<t, y>>} : d[2] \in T => d[1] <= t
<1> DEFINE new == <<t, y>>
<1>1. new[1] = t
  OBVIOUS
<1> HIDE DEF new
<1>2. \A d \in draws : d[1] \in Nat
  OBVIOUS
<1>3. \A d \in draws \cup {new} : d[2] \in T => d[1] <= t
  BY <1>1, <1>2
<1> QED BY <1>3 DEF new

LEMMA UntouchedShape ==
  ASSUME NEW q, NEW T, NEW draws, Untouched(q, T, draws), NEW now,
         \A i \in DOMAIN q : q[i].kind = "switch" /\ q[i].what \in Hosts
  PROVE  FaultShape(q, T, now)
  BY DEF Untouched, FaultShape

LEMMA InitFaults == Init => FaultsInv
<1> SUFFICES ASSUME Init PROVE FaultsInv
  OBVIOUS
<1>1. faultQueue = <<>> /\ drawn = {} /\ stage = "loads" /\ DOMAIN faultQueue = {}
  BY DEF Init
<1>2. Untouched(faultQueue, Tracked, drawn)
  BY <1>1 DEF Untouched
<1>3. FaultShape(faultQueue, Tracked, currentTime)
  BY <1>1, <1>2, UntouchedShape
<1>4. FaultsDrawn(faultQueue, Tracked, drawn)
  BY <1>1 DEF FaultsDrawn, LeftOff, Switches, Of, OutBy
<1>5. \A h \in Tracked : Distinct(faultQueue, h)
  BY <1>1 DEF Distinct, Of
<1> QED BY <1>1, <1>2, <1>3, <1>4, <1>5 DEF FaultsInv

LEMMA FaultKeepsFaults ==
  ASSUME TypeOK, FaultsInv, NEW t \in Nat, currentTime < t, NEW h \in Hosts, Fault(t, h),
         \/ stage = "faults"
         \/ stage = "leader faults" /\ h \notin Tracked,
         UNCHANGED <<mode, stage>>, currentTime' = t
  PROVE  FaultsInv'
<1> DEFINE T == Tracked
           q == faultQueue
           r == faultQueue'
<1>0. q \in Seq(Events) /\ currentTime \in Nat /\ drawn \in SUBSET (Nat \X (Hosts \cup VMs)) /\ T \in SUBSET Hosts
  BY DEF TypeOK, Tracked
<1>1. r = Struck(q, h, t) /\ drawn' = drawn \cup {<<t, h>>} /\ T' = T
  BY DEF Fault, Struck, Tracked
<1>2. /\ FaultShape(q, T, currentTime) /\ FaultsDrawn(q, T, drawn)
      /\ \A d \in drawn : d[2] \in T => d[1] <= currentTime
      /\ stage = "leader faults" => Untouched(q, T, drawn)
  BY DEF FaultsInv
<1>3. FaultShape(r, T, t)
  BY <1>0, <1>1, <1>2, StruckShape
<1>4. FaultsDrawn(r, T, drawn')
  BY <1>0, <1>1, <1>2, StruckDrawn
<1>5. r \in Seq(Events) /\ \A i \in DOMAIN r : \/ r[i].what = h /\ r[i].kind = "switch"
                                               \/ \E j \in DOMAIN q : r[i] = q[j]
  BY <1>0, <1>1, StruckAbout
<1> HIDE DEF T, r, q
<1>6. ASSUME h \notin T, Untouched(q, T, drawn) PROVE Untouched(r, T, drawn')
  <2>1. \A i \in DOMAIN r : r[i].what \notin T
    BY <1>5, <1>6 DEF Untouched
  <2> DEFINE new == <<t, h>>
  <2>2. new[2] \notin T
    BY <1>6
  <2> HIDE DEF new
  <2>3. \A d \in drawn \cup {new} : d[2] \notin T
    BY <1>6, <2>2 DEF Untouched
  <2> QED BY <1>1, <2>1, <2>3 DEF Untouched, new
<1>7. \A d \in drawn' : d[2] \in T => d[1] <= t
  BY <1>0, <1>1, <1>2, DrawnUntil
<1>8. \A x \in T : Distinct(r, x)
  BY <1>3, <1>5, ShapeDistinct
<1>9. stage' = stage /\ stage' \notin {"loads", "fluctuations", "playing"}
  OBVIOUS
<1>10. \A i \in DOMAIN r : r[i].kind = "switch" /\ r[i].what \in Hosts
  BY <1>3 DEF FaultShape
<1>11. stage' = "leader faults" => Untouched(r, T, drawn')
  BY <1>2, <1>6, <1>9 DEF T
<1> QED BY <1>1, <1>3, <1>4, <1>7, <1>8, <1>9, <1>10, <1>11 DEF FaultsInv, T, r, q

LEMMA NextQueueKeepsFaults ==
  ASSUME TypeOK, FaultsInv, NextQueue
  PROVE  FaultsInv'
<1> DEFINE T == Tracked
<1>0. /\ faultQueue \in Seq(Events) /\ currentTime' = 0 /\ drawn' = drawn /\ T' = T
      /\ \A i \in DOMAIN faultQueue : faultQueue[i].kind = "switch" /\ faultQueue[i].what \in Hosts
      /\ FaultsDrawn(faultQueue, T, drawn)
      /\ \A h \in T : Distinct(faultQueue, h)
  BY DEF NextQueue, TypeOK, Tracked, FaultsInv
<1>1. CASE stage \in {"loads", "leader faults"}
  <2>1. faultQueue' = faultQueue /\ Untouched(faultQueue, T, drawn)
    BY <1>1 DEF NextQueue, FaultsInv, queues
  <2>2. FaultShape(faultQueue', T, 0) /\ \A d \in drawn : d[2] \notin T
    BY <1>0, <2>1, UntouchedShape DEF Untouched
  <2>3. stage' \in {"loads", "leader faults", "faults"}
    BY <1>1 DEF NextQueue
  <2> QED BY <1>0, <2>1, <2>2, <2>3 DEF FaultsInv, T
<1>2. CASE stage = "faults"
  <2> DEFINE r == Sorted(faultQueue, "exact")
  <2>1. faultQueue' = r /\ stage' = "fluctuations"
    BY <1>2 DEF NextQueue
  <2>2. Rearranged(r, faultQueue, Len(faultQueue)) /\ r \in Seq(Events)
    BY <1>0, SortedRearranged, SortedType
  <2>3. \A i \in DOMAIN r : \E j \in DOMAIN faultQueue : r[i] = faultQueue[j]
    BY <1>0, SortedType
  <2>4. Ascending(r)
    BY <1>0, ExactAgrees, SortedAscending
  <2> HIDE DEF r
  <2>5. \A h \in T : Switches(r, h) = Switches(faultQueue, h) /\ Distinct(r, h) /\ Increasing(r, h)
    BY <1>0, <2>2, <2>4, SwitchesRearranged, IncreasingWhenAscending
  <2>6. FaultsDrawn(r, T, drawn)
    BY <1>0, <2>5 DEF FaultsDrawn
  <2>7. \A i \in DOMAIN r : r[i].kind = "switch" /\ r[i].what \in Hosts
    BY <1>0, <2>3
  <2> QED BY <1>0, <2>1, <2>5, <2>6, <2>7 DEF FaultsInv, T
<1> QED BY <1>1, <1>2 DEF NextQueue

LEMMA NextFaults == TypeOK /\ FluctuationsInv /\ FaultsInv /\ [Next]_vars => FaultsInv'
<1> SUFFICES ASSUME TypeOK, FluctuationsInv, FaultsInv, [Next]_vars PROVE FaultsInv'
  OBVIOUS
<1>0. faultQueue \in Seq(Events) /\ currentTime \in Nat
  BY DEF TypeOK
<1>1. ASSUME NEW t \in 1..(Duration - 1), NEW v \in VMs, DrawLoad(t, v) PROVE FaultsInv'
  <2>1. /\ stage = "loads" /\ currentTime < t /\ currentTime' = t
        /\ UNCHANGED <<mode, stage, faultQueue, drawn>>
    BY <1>1 DEF DrawLoad, Draw
  <2>2. Untouched(faultQueue, Tracked, drawn) /\ Tracked' = Tracked
    BY <2>1 DEF FaultsInv, Tracked
  <2>3. FaultShape(faultQueue, Tracked, t)
    BY <2>2, UntouchedShape DEF FaultsInv
  <2> QED BY <2>1, <2>2, <2>3 DEF FaultsInv, Untouched
<1>2. ASSUME NEW t \in 1..(Duration - 1), NEW h \in Hosts, DrawFault(t, h) PROVE FaultsInv'
  <2>1. t \in Nat
    BY Durations
  <2> QED BY <1>2, <2>1, FaultKeepsFaults DEF DrawFault, Draw
<1>3. CASE DrawLeaderFault
  <2>1. mode \in Modes /\ mode = "leader" /\ stage = "leader faults"
    BY <1>3 DEF DrawLeaderFault, FluctuationsInv
  <2>2. Head(Services) \in Hosts /\ Head(Services) \notin Tracked
    <3>1. Services \in Seq(Hosts) /\ Services # <<>>
      BY <2>1, ModesAssumption, NamesAssumption DEF ModesAssumption, NamesAssumption
    <3>2. Head(Services) \in Hosts
      BY <3>1
    <3> QED BY <2>1, <3>2, Zenon DEF Tracked
  <2>3. currentTime' \in Nat /\ currentTime < currentTime'
    <3>1. currentTime' = currentTime + GLFaultPeriod
      BY <1>3 DEF DrawLeaderFault, Advance
    <3>2. GLFaultPeriod \in 1..(Duration - 1)
      BY DurationsAssumption DEF DurationsAssumption
    <3> QED BY <1>0, <3>1, <3>2, Durations
  <2> QED BY <1>3, <2>1, <2>2, <2>3, FaultKeepsFaults DEF DrawLeaderFault, Advance
<1>4. ASSUME NEW i \in DOMAIN Services, DrawManagerFault(i) PROVE FaultsInv'
  <2>1. Services[i] \in Hosts
    BY NamesAssumption DEF NamesAssumption
  <2>2. currentTime' \in Nat /\ currentTime < currentTime'
    <3>1. currentTime' = currentTime + GMFaultPeriod
      BY <1>4 DEF DrawManagerFault, Advance
    <3>2. GMFaultPeriod \in 1..(Duration - 1)
      BY DurationsAssumption DEF DurationsAssumption
    <3> QED BY <1>0, <3>1, <3>2, Durations
  <2> QED BY <1>4, <2>1, <2>2, FaultKeepsFaults DEF DrawManagerFault, Advance
<1>5. ASSUME NEW t \in 1..(Duration - 1), NEW v \in VMs, DrawFluctuation(t, v) PROVE FaultsInv'
  <2>1. /\ stage = "fluctuations" /\ UNCHANGED <<mode, stage, faultQueue>>
        /\ drawn' = drawn \cup {<<t, v>>}
    BY <1>5 DEF DrawFluctuation, Draw
  <2>2. Tracked' = Tracked /\ v \notin Tracked
    BY <2>1, NamesAssumption DEF Tracked, NamesAssumption
  <2>3. FaultsDrawn(faultQueue, Tracked, drawn')
    <3> SUFFICES ASSUME NEW h \in Tracked, NEW u \in 0..(Duration - 1)
                 PROVE  LeftOff(Switches(faultQueue, h), u) <=> OutBy(drawn', h, u)
      BY DEF FaultsDrawn
    <3>1. OutBy(drawn \cup {<<t, v>>}, h, u) <=> OutBy(drawn, h, u)
      BY <2>2, OutOfOther
    <3> QED BY <2>1, <3>1 DEF FaultsInv, FaultsDrawn
  <2> QED BY <2>1, <2>2, <2>3 DEF FaultsInv
<1>6. CASE NextQueue
  BY <1>6, NextQueueKeepsFaults
<1>7. CASE Merge \/ Play
  <2>1. /\ UNCHANGED <<mode, faultQueue, drawn>> /\ Tracked' = Tracked
        /\ stage \in {"fluctuations", "playing"} /\ stage' = "playing"
    BY <1>7 DEF Merge, Play, queues, Tracked
  <2> QED BY <2>1 DEF FaultsInv
<1>8. CASE UNCHANGED vars
  BY <1>8 DEF vars, queues, FaultsInv, Tracked
<1> QED BY <1>1, <1>2, <1>3, <1>4, <1>5, <1>6, <1>7, <1>8 DEF Next

(* Whatever faults are drawn, the sorted queue has each host off exactly     *)
(* while one of its outages lasts (Injector.generateFaultQueue,              *)
(* generateSnoozeFaultQueue, ifStillOffUpdate; EventQueues!FaultsAsDrawn).   *)
THEOREM FaultsAreAsDrawn == Spec => []FaultsAsDrawn
<1>1. TypeOK /\ FaultsInv => FaultsAsDrawn
  <2> SUFFICES ASSUME TypeOK, FaultsInv, stage \in {"fluctuations", "playing"},
                      NEW h \in Hosts, NEW t \in 0..(Duration - 1),
                      mode = "leader" => h # Head(Services)
               PROVE  LastOf(faultQueue, h, t) <=> Out(h, t)
    BY DEF FaultsAsDrawn
  <2>1. h \in Tracked /\ faultQueue \in Seq(Events) /\ t \in Nat
    BY Durations DEF Tracked, TypeOK
  <2>2. Increasing(faultQueue, h) /\ (LeftOff(Switches(faultQueue, h), t) <=> OutBy(drawn, h, t))
    BY <2>1 DEF FaultsInv, FaultsDrawn
  <2>3. LastOf(faultQueue, h, t) <=> LeftOff(Switches(faultQueue, h), t)
    BY <2>1, <2>2, LastOfIsLeftOff
  <2> QED BY <2>2, <2>3 DEF Out, OutBy
<1> QED BY <1>1, InitType, NextType, InitFluctuations, NextFluctuations, InitFaults, NextFaults, PTL DEF Spec

(* The earliest of S is turned on iff it is off, and each other does the     *)
(* contrary of the one before.                                               *)
InTurn(S, isOff) ==
  \A f \in S :
    \/ (f.state <=> isOff) /\ \A g \in S : f.time <= g.time
    \/ \E g \in S : /\ g.time < f.time /\ g.state # f.state
                    /\ \A h \in S : h.time <= g.time \/ f.time <= h.time

(* What is left of x at time u if it is off or not before the events of S.   *)
WillBeOff(S, isOff, u) == IF \E e \in S : e.time <= u THEN LeftOff(S, u) ELSE isOff

Whole(q) == \A i \in DOMAIN q : q[i].time % 4 = 0

PlayInv ==
  /\ \A i \in DOMAIN loadQueue : loadQueue[i].kind = "load"
  /\ stage # "playing" => off = {} /\ clock = 0 /\ ~gaveUp
  /\ stage # "playing" /\ WholeSeconds => Whole(loadQueue) /\ Whole(faultQueue) /\ Whole(vmQueue)
  /\ clock < Duration
  /\ stage = "playing" /\ mode # "leader" /\ WholeSeconds =>
       /\ Ascending(evtQueue)
       /\ \A i \in DOMAIN evtQueue : clock <= evtQueue[i].time
       /\ \A x \in Hosts \cup VMs : Distinct(evtQueue, x)
       /\ \A x \in Hosts \cup VMs, u \in 0..(Duration - 1) :
            clock <= u => (WillBeOff(Switches(evtQueue, x), x \in off, u) <=> OutBy(drawn, x, u))
       /\ \A v \in VMs : InTurn(Switches(evtQueue, v), v \in off)
       /\ ~gaveUp

-----------------------------------------------------------------------------
(* Playing the events.                                                       *)

LEMMA AlternatingIncreases ==
  ASSUME NEW q \in Seq(Events), NEW now, Shape(q, now), NEW v
  PROVE  Increasing(q, v)
<1>0. \A i \in DOMAIN q : i \in Nat /\ q[i].time \in Nat
  BY EventTypes
<1> SUFFICES ASSUME ~Increasing(q, v) PROVE FALSE
  OBVIOUS
<1> DEFINE T == {j \in Of(q, v) : \E i \in Of(q, v) : i < j /\ ~(q[i].time < q[j].time)}
<1>1. T \subseteq Nat /\ T # {}
  BY <1>0 DEF Increasing, Of
<1>2. PICK j \in T : \A k \in T : j <= k
  <2> HIDE DEF T
  <2> QED BY <1>1, LeastNumber
<1>3. PICK i \in Of(q, v) : i < j /\ ~(q[i].time < q[j].time)
  OBVIOUS
<1>4. /\ i \in DOMAIN q /\ j \in DOMAIN q /\ q[i].what = v /\ q[j].what = v /\ i # j
      /\ Alternates(q, j)
  BY <1>0, <1>3 DEF Of, Shape
<1>5. PICK k \in DOMAIN q : /\ k # j /\ q[k].what = v /\ k < j /\ q[k].time < q[j].time
                            /\ i <= k \/ i > j
  BY <1>0, <1>3, <1>4 DEF Alternates
<1>6. k \in Of(q, v) /\ k \notin T /\ i <= k
  BY <1>0, <1>2, <1>3, <1>4, <1>5 DEF Of, Shape
<1>7. i < k => q[i].time < q[k].time
  BY <1>6
<1> QED BY <1>0, <1>3, <1>4, <1>5, <1>6, <1>7

LEMMA AlternatingInTurn ==
  ASSUME NEW q \in Seq(Events), NEW now, Shape(q, now), NEW v
  PROVE  InTurn(Switches(q, v), FALSE)
<1>0. /\ \A i \in DOMAIN q : i \in Nat /\ q[i].time \in Nat
      /\ \A i \in DOMAIN q : q[i].what = v => i \in Of(q, v) /\ q[i] \in Switches(q, v)
  BY EventTypes DEF Of, Switches, Shape
<1>1. \A i, j \in Of(q, v) : i <= j => q[i].time <= q[j].time
  <2> SUFFICES ASSUME NEW i \in Of(q, v), NEW j \in Of(q, v), i <= j PROVE q[i].time <= q[j].time
    OBVIOUS
  <2>1. i < j => q[i].time < q[j].time
    BY AlternatingIncreases DEF Increasing
  <2>2. i \in Nat /\ j \in Nat /\ q[i].time \in Nat /\ q[j].time \in Nat
    BY <1>0 DEF Of
  <2> QED BY <2>1, <2>2
<1> SUFFICES ASSUME NEW f \in Switches(q, v)
             PROVE  \/ ~f.state /\ \A g \in Switches(q, v) : f.time <= g.time
                    \/ \E g \in Switches(q, v) :
                         /\ g.time < f.time /\ g.state # f.state
                         /\ \A h \in Switches(q, v) : h.time <= g.time \/ f.time <= h.time
  BY DEF InTurn
<1>2. PICK i \in Of(q, v) : q[i] = f
  BY DEF Switches
<1>3. i \in DOMAIN q /\ q[i].what = v /\ Alternates(q, i) /\ i \in Nat
  BY <1>0 DEF Of, Shape
<1> DEFINE others == {j \in DOMAIN q : j # i /\ q[j].what = q[i].what}
<1>4. \A j \in Of(q, v) : j = i \/ j \in others
  BY <1>3 DEF Of
<1>5. CASE ~q[i].state /\ \A j \in others : j > i
  <2>1. ASSUME NEW g \in Switches(q, v) PROVE f.time <= g.time
    <3>1. PICK j \in Of(q, v) : q[j] = g
      BY DEF Switches
    <3>2. i <= j
      BY <1>3, <1>4, <1>5, <3>1
    <3> QED BY <1>1, <1>2, <3>1, <3>2
  <2> QED BY <1>2, <1>5, <2>1
<1>6. ASSUME NEW j \in others, j < i, q[j].state # q[i].state, q[j].time < q[i].time,
             \A k \in others : k <= j \/ k > i
      PROVE  \E g \in Switches(q, v) :
               /\ g.time < f.time /\ g.state # f.state
               /\ \A h \in Switches(q, v) : h.time <= g.time \/ f.time <= h.time
  <2>1. q[j] \in Switches(q, v) /\ j \in Of(q, v) /\ j \in Nat
    BY <1>0, <1>3
  <2>2. ASSUME NEW h \in Switches(q, v) PROVE h.time <= q[j].time \/ f.time <= h.time
    <3>1. PICK k \in Of(q, v) : q[k] = h
      BY DEF Switches
    <3>2. k <= j \/ i <= k
      BY <1>0, <1>3, <1>4, <1>6 DEF Of
    <3> QED BY <1>1, <1>2, <2>1, <3>1, <3>2
  <2> QED BY <1>2, <1>6, <2>1, <2>2
<1> QED BY <1>2, <1>3, <1>5, <1>6 DEF Alternates

LEMMA ConcatIs ==
  ASSUME NEW a \in Seq(Events), NEW b \in Seq(Events)
  PROVE  LET c == a \o b
             n == Len(a)
         IN /\ c \in Seq(Events) /\ n \in Nat /\ DOMAIN a = 1..n
            /\ \A i \in DOMAIN a : i \in DOMAIN c /\ c[i] = a[i] /\ i \in Nat
            /\ \A i \in DOMAIN b : n + i \in DOMAIN c /\ c[n + i] = b[i] /\ i \in Nat
            /\ \A k \in DOMAIN c : k \in DOMAIN a \/ \E i \in DOMAIN b : k = n + i
<1> DEFINE c == a \o b
           n == Len(a)
           m == Len(b)
<1>1. /\ c \in Seq(Events) /\ Len(c) = n + m
      /\ \A j \in 1..n : c[j] = a[j]
      /\ \A j \in 1..m : c[n + j] = b[j]
  BY ConcatParts
<1>2. n \in Nat /\ m \in Nat /\ DOMAIN a = 1..n /\ DOMAIN b = 1..m
  BY EventTypes
<1> HIDE DEF c, n, m
<1>3. DOMAIN c = 1..(n + m)
  BY <1>1, EventTypes
<1>4. ASSUME NEW k \in DOMAIN c PROVE k \in DOMAIN a \/ \E i \in DOMAIN b : k = n + i
  <2>1. CASE k <= n
    BY <1>2, <1>3, <2>1
  <2>2. CASE n < k
    <3>1. k - n \in 1..m /\ k = n + (k - n)
      BY <1>2, <1>3, <2>2
    <3> QED BY <1>2, <3>1
  <2> QED BY <1>2, <1>3, <2>1, <2>2
<1>5. /\ \A i \in DOMAIN a : i \in DOMAIN c /\ c[i] = a[i] /\ i \in Nat
      /\ \A i \in DOMAIN b : n + i \in DOMAIN c /\ c[n + i] = b[i] /\ i \in Nat
  BY <1>1, <1>2, <1>3
<1> QED BY <1>1, <1>2, <1>4, <1>5 DEF c, n

LEMMA SwitchesConcat ==
  ASSUME NEW a \in Seq(Events), NEW b \in Seq(Events), NEW x
  PROVE  /\ Switches(a \o b, x) = Switches(a, x) \cup Switches(b, x)
         /\ Switches(b, x) = {} /\ Distinct(a, x) => Distinct(a \o b, x)
         /\ Switches(a, x) = {} /\ Distinct(b, x) => Distinct(a \o b, x)
<1> DEFINE c == a \o b
           n == Len(a)
<1>1. /\ n \in Nat
      /\ \A i \in DOMAIN a : i \in DOMAIN c /\ c[i] = a[i]
      /\ \A i \in DOMAIN b : n + i \in DOMAIN c /\ c[n + i] = b[i]
      /\ \A k \in DOMAIN c : k \in DOMAIN a \/ \E i \in DOMAIN b : k = n + i
  BY ConcatIs
<1> HIDE DEF c, n
<1>2. Switches(c, x) = Switches(a, x) \cup Switches(b, x)
  BY <1>1 DEF Switches, Of
<1>3. ASSUME Switches(b, x) = {}, Distinct(a, x) PROVE Distinct(c, x)
  <2>1. Of(b, x) = {}
    BY <1>3 DEF Switches
  <2>2. \A k \in Of(c, x) : k \in Of(a, x) /\ c[k] = a[k]
    BY <1>1, <2>1 DEF Of
  <2> QED BY <1>3, <2>2 DEF Distinct
<1>4. ASSUME Switches(a, x) = {}, Distinct(b, x) PROVE Distinct(c, x)
  <2>1. Of(a, x) = {}
    BY <1>4 DEF Switches
  <2>2. \A k \in Of(c, x) : \E i \in Of(b, x) : k = n + i /\ c[k] = b[i]
    BY <1>1, <2>1 DEF Of
  <2> QED BY <1>4, <2>2 DEF Distinct
<1> QED BY <1>2, <1>3, <1>4 DEF c

LEMMA TailIs ==
  ASSUME NEW q \in Seq(Events), q # <<>>
  PROVE  LET r == Tail(q)
         IN /\ r \in Seq(Events) /\ Head(q) = q[1] /\ 1 \in DOMAIN q
            /\ \A i \in DOMAIN r : i \in Nat /\ i + 1 \in DOMAIN q /\ i + 1 # 1 /\ r[i] = q[i + 1]
            /\ \A i \in DOMAIN q : i = 1 \/ \E j \in DOMAIN r : i = j + 1
<1> DEFINE r == Tail(q)
           n == Len(q)
<1>1. /\ n \in Nat /\ n >= 1 /\ r \in Seq(Events) /\ Len(r) = n - 1 /\ Head(q) = q[1]
      /\ \A i \in 1..(n - 1) : r[i] = q[i + 1]
  OBVIOUS
<1> HIDE DEF r, n
<1>2. DOMAIN q = 1..n /\ DOMAIN r = 1..(n - 1)
  BY <1>1, EventTypes DEF n
<1>3. ASSUME NEW i \in DOMAIN q PROVE i = 1 \/ \E j \in DOMAIN r : i = j + 1
  <2>1. CASE i # 1
    <3>1. i - 1 \in DOMAIN r /\ i = (i - 1) + 1
      BY <1>1, <1>2, <2>1
    <3> QED BY <3>1
  <2> QED BY <2>1
<1>4. \A i \in DOMAIN r : i \in Nat /\ i + 1 \in DOMAIN q /\ i + 1 # 1 /\ r[i] = q[i + 1]
  BY <1>1, <1>2
<1>5. 1 \in DOMAIN q
  BY <1>1, <1>2
<1> QED BY <1>1, <1>3, <1>4, <1>5 DEF r

LEMMA SwitchesTail ==
  ASSUME NEW q \in Seq(Events), q # <<>>, NEW x, Distinct(q, x)
  PROVE  /\ Distinct(Tail(q), x)
         /\ IF Head(q).what = x /\ Head(q).kind = "switch"
            THEN Head(q) \in Switches(q, x) /\ Switches(Tail(q), x) = Switches(q, x) \ {Head(q)}
            ELSE Switches(Tail(q), x) = Switches(q, x)
<1> DEFINE r == Tail(q)
<1>1. /\ Head(q) = q[1] /\ 1 \in DOMAIN q
      /\ \A i \in DOMAIN r : i \in Nat /\ i + 1 \in DOMAIN q /\ i + 1 # 1 /\ r[i] = q[i + 1]
      /\ \A i \in DOMAIN q : i = 1 \/ \E j \in DOMAIN r : i = j + 1
  BY TailIs
<1> HIDE DEF r
<1>2. \A i \in Of(r, x) : i \in Nat /\ i + 1 \in Of(q, x) /\ r[i] = q[i + 1]
  BY <1>1 DEF Of
<1>3. Distinct(r, x)
  <2> SUFFICES ASSUME NEW i \in Of(r, x), NEW j \in Of(r, x), r[i].time = r[j].time PROVE i = j
    BY DEF Distinct
  <2>1. i + 1 = j + 1
    BY <1>2 DEF Distinct
  <2> QED BY <1>2, <2>1
<1>4. Switches(r, x) = {q[i] : i \in Of(q, x) \ {1}}
  BY <1>1 DEF Switches, Of
<1>5. CASE q[1].what = x /\ q[1].kind = "switch"
  <2>1. 1 \in Of(q, x)
    BY <1>1, <1>5 DEF Of
  <2>2. \A i \in Of(q, x) \ {1} : q[i] # q[1]
    BY <2>1 DEF Distinct
  <2>3. {q[i] : i \in Of(q, x) \ {1}} = Switches(q, x) \ {q[1]} /\ q[1] \in Switches(q, x)
    BY <2>1, <2>2 DEF Switches
  <2> QED BY <1>1, <1>3, <1>4, <1>5, <2>3 DEF r
<1>6. CASE ~(q[1].what = x /\ q[1].kind = "switch")
  <2>1. 1 \notin Of(q, x)
    BY <1>6 DEF Of
  <2> QED BY <1>1, <1>3, <1>4, <1>6, <2>1 DEF Switches, r
<1> QED BY <1>5, <1>6

(* What the rest of the events make of x, and x turned by the earliest.      *)
LEMMA PlayedLeft ==
  ASSUME NEW S \in SUBSET Events, NEW e \in S,
         \A f \in S : e.time <= f.time /\ (f.time = e.time => f = e),
         NEW u \in Nat, e.time <= u
  PROVE  LeftOff(S, u) <=>
           IF \E f \in S \ {e} : f.time <= u THEN LeftOff(S \ {e}, u) ELSE ~e.state
<1>0. \A f \in S : f.time \in Nat /\ f.state \in BOOLEAN
  BY DEF Events
<1>1. CASE \E f \in S \ {e} : f.time <= u
  <2>1. PICK f \in S \ {e} : f.time <= u
    BY <1>1
  <2>2. ASSUME LeftOff(S, u) PROVE LeftOff(S \ {e}, u)
    <3>1. PICK g \in S : g.time <= u /\ ~g.state /\ \A h \in S : h.time <= u => h.time <= g.time
      BY <2>2 DEF LeftOff
    <3>2. g # e
      <4> SUFFICES ASSUME g = e PROVE FALSE
        OBVIOUS
      <4>1. f.time <= e.time /\ e.time <= f.time
        BY <2>1, <3>1
      <4> QED BY <1>0, <2>1, <4>1
    <3> QED BY <3>1, <3>2 DEF LeftOff
  <2>3. ASSUME LeftOff(S \ {e}, u) PROVE LeftOff(S, u)
    <3>1. PICK g \in S \ {e} : g.time <= u /\ ~g.state /\ \A h \in S \ {e} : h.time <= u => h.time <= g.time
      BY <2>3 DEF LeftOff
    <3>2. \A h \in S : h.time <= u => h.time <= g.time
      BY <3>1
    <3> QED BY <3>1, <3>2 DEF LeftOff
  <2> QED BY <1>1, <2>2, <2>3
<1>2. CASE ~ \E f \in S \ {e} : f.time <= u
  <2>1. LeftOff(S, u) <=> ~e.state
    BY <1>0, <1>2 DEF LeftOff
  <2> QED BY <1>2, <2>1
<1> QED BY <1>1, <1>2

LEMMA PlayedInTurn ==
  ASSUME NEW S \in SUBSET Events, NEW e \in S, NEW isOff \in BOOLEAN, InTurn(S, isOff),
         \A f \in S : e.time <= f.time /\ (f.time = e.time => f = e)
  PROVE  (e.state <=> isOff) /\ InTurn(S \ {e}, ~e.state)
<1>0. \A f \in S : f.time \in Nat /\ f.state \in BOOLEAN
  BY DEF Events
<1>1. e.state <=> isOff
  <2>1. \A g \in S : ~(g.time < e.time)
    BY <1>0
  <2> QED BY <1>0, <2>1 DEF InTurn
<1>2. ASSUME NEW f \in S \ {e}
      PROVE  \/ (f.state <=> ~e.state) /\ \A g \in S \ {e} : f.time <= g.time
             \/ \E g \in S \ {e} : /\ g.time < f.time /\ g.state # f.state
                                   /\ \A h \in S \ {e} : h.time <= g.time \/ f.time <= h.time
  <2>1. e.time < f.time
    BY <1>0
  <2>2. PICK g \in S : /\ g.time < f.time /\ g.state # f.state
                       /\ \A h \in S : h.time <= g.time \/ f.time <= h.time
    BY <1>0, <2>1 DEF InTurn
  <2>3. CASE g # e
    BY <2>2, <2>3
  <2>4. CASE g = e
    <3>1. f.state <=> ~e.state
      BY <1>0, <2>2, <2>4
    <3>2. \A h \in S \ {e} : f.time <= h.time
      BY <1>0, <2>2, <2>4
    <3> QED BY <3>1, <3>2
  <2> QED BY <2>3, <2>4
<1> QED BY <1>1, <1>2 DEF InTurn

-----------------------------------------------------------------------------
(* What is played, from the first draw to the last event.                    *)

LEMMA WholeElements ==
  ASSUME NEW q, NEW r, Whole(q), \A i \in DOMAIN r : \E j \in DOMAIN q : r[i] = q[j]
  PROVE  Whole(r)
  BY DEF Whole

LEMMA WholeStruck ==
  ASSUME NEW q \in Seq(Events), Whole(q), NEW x \in Hosts \cup VMs, NEW t \in Nat,
         t % 4 = 0, CrashDuration % 4 = 0
  PROVE  /\ Whole(Append(Postponed(q, x, t), Switch(t + CrashDuration, x, TRUE)))
         /\ x \in Hosts => Whole(Struck(q, x, t))
<1>0. CrashDuration \in Nat /\ (t + CrashDuration) % 4 = 0
  BY Durations
<1> DEFINE a == Postponed(q, x, t)
           b == Switch(t + CrashDuration, x, TRUE)
<1>1. a \in Seq(Events) /\ \A i \in DOMAIN a : a[i] = Switch(t, x, FALSE) \/ \E j \in DOMAIN q : a[i] = q[j]
  BY PostponedType, Zenon
<1>2. Switch(t, x, FALSE).time = t /\ b.time = t + CrashDuration
  BY DEF Switch
<1>3. b \in Events
  BY BackType
<1> HIDE DEF a, b
<1>4. Whole(a)
  BY <1>1, <1>2 DEF Whole
<1>5. Whole(Append(a, b))
  <2> DEFINE c == Append(a, b)
             n == Len(a)
  <2>1. /\ \A i \in DOMAIN c : i \in 1..n \/ i = n + 1
        /\ \A i \in 1..n : c[i] = a[i]
        /\ c[n + 1] = b /\ DOMAIN a = 1..n
    BY <1>1, <1>3, AppendIs
  <2> HIDE DEF c, n
  <2>2. Whole(c)
    BY <1>0, <1>2, <1>4, <2>1 DEF Whole
  <2> QED BY <2>2 DEF c
<1>6. x \in Hosts => Struck(q, x, t) = Append(a, b) \/ Struck(q, x, t) = a
  BY StruckIs DEF a, b
<1> QED BY <1>4, <1>5, <1>6 DEF a, b

LEMMA InitPlay == Init => PlayInv
<1> SUFFICES ASSUME Init PROVE PlayInv
  OBVIOUS
<1>1. DOMAIN <<>> = {}
  OBVIOUS
<1> QED BY <1>1, Durations DEF Init, PlayInv, Whole

(* While the queues are drawn. *)
LEMMA DrawnPlay ==
  ASSUME PlayInv, stage # "playing", stage' # "playing",
         UNCHANGED <<clock, off, gaveUp>>,
         \A i \in DOMAIN loadQueue' : loadQueue'[i].kind = "load",
         WholeSeconds' => WholeSeconds,
         WholeSeconds' /\ Whole(faultQueue) => Whole(faultQueue'),
         WholeSeconds' /\ Whole(vmQueue) => Whole(vmQueue')
  PROVE  PlayInv'
<1>1. WholeSeconds' => Whole(loadQueue')
  BY DEF WholeSeconds, Whole
<1>2. WholeSeconds' => Whole(faultQueue') /\ Whole(vmQueue')
  BY DEF PlayInv
<1> QED BY <1>1, <1>2 DEF PlayInv

LEMMA MergePlay ==
  ASSUME TypeOK, FluctuationsInv, FaultsInv, PlayInv, Merge
  PROVE  PlayInv'
<1> DEFINE v2 == Sorted(vmQueue, "rounded")
           a == loadQueue \o faultQueue
           q == a \o v2
           e2 == Sorted(q, "rounded")
<1>0. /\ loadQueue \in Seq(Events) /\ faultQueue \in Seq(Events) /\ vmQueue \in Seq(Events)
      /\ Duration \in Nat
  BY Durations DEF TypeOK
<1>1. /\ stage = "fluctuations" /\ stage' = "playing" /\ evtQueue' = e2 /\ vmQueue' = v2
      /\ UNCHANGED <<mode, currentTime, loadQueue, faultQueue, clock, off, gaveUp, drawn>>
  BY DEF Merge
<1>2. /\ off = {} /\ clock = 0 /\ ~gaveUp /\ clock < Duration
      /\ \A i \in DOMAIN loadQueue : loadQueue[i].kind = "load"
      /\ WholeSeconds => Whole(loadQueue) /\ Whole(faultQueue) /\ Whole(vmQueue)
  BY <1>1 DEF PlayInv
<1>3. Shape(vmQueue, currentTime) /\ AsDrawn(vmQueue, drawn)
  BY <1>1 DEF FluctuationsInv
<1>4. /\ v2 \in Seq(Events) /\ Rearranged(v2, vmQueue, Len(vmQueue))
      /\ \A i \in DOMAIN v2 : \E j \in DOMAIN vmQueue : v2[i] = vmQueue[j]
  BY <1>0, SortedRearranged, SortedType
<1> HIDE DEF v2
<1>5. a \in Seq(Events) /\ q \in Seq(Events)
  <2>1. a \in Seq(Events)
    BY <1>0, ConcatParts
  <2> HIDE DEF a
  <2> QED BY <1>4, <2>1, ConcatParts
<1>6. /\ \A x : Switches(a, x) = Switches(loadQueue, x) \cup Switches(faultQueue, x)
      /\ \A x : Switches(loadQueue, x) = {} /\ Distinct(faultQueue, x) => Distinct(a, x)
      /\ \A x : Switches(q, x) = Switches(a, x) \cup Switches(v2, x)
      /\ \A x : Switches(v2, x) = {} /\ Distinct(a, x) => Distinct(q, x)
      /\ \A x : Switches(a, x) = {} /\ Distinct(v2, x) => Distinct(q, x)
  <2>1. /\ \A x : Switches(a, x) = Switches(loadQueue, x) \cup Switches(faultQueue, x)
        /\ \A x : Switches(loadQueue, x) = {} /\ Distinct(faultQueue, x) => Distinct(a, x)
    BY <1>0, SwitchesConcat
  <2> HIDE DEF a
  <2>2. /\ \A x : Switches(q, x) = Switches(a, x) \cup Switches(v2, x)
        /\ \A x : Switches(v2, x) = {} /\ Distinct(a, x) => Distinct(q, x)
        /\ \A x : Switches(a, x) = {} /\ Distinct(v2, x) => Distinct(q, x)
    BY <1>4, <1>5, SwitchesConcat
  <2> QED BY <2>1, <2>2
<1>7. /\ e2 \in Seq(Events) /\ Rearranged(e2, q, Len(q))
      /\ \A i \in DOMAIN e2 : \E j \in DOMAIN q : e2[i] = q[j]
  <2> HIDE DEF q
  <2> QED BY <1>5, SortedRearranged, SortedType
<1>8. \A x : Switches(e2, x) = Switches(q, x) /\ (Distinct(q, x) => Distinct(e2, x))
  <2> HIDE DEF q, e2
  <2> QED BY <1>5, <1>7, SwitchesRearranged
<1>9. \A x : Switches(v2, x) = Switches(vmQueue, x) /\ (Distinct(vmQueue, x) => Distinct(v2, x))
  BY <1>0, <1>4, SwitchesRearranged
<1>10. \A x : Switches(loadQueue, x) = {}
  BY <1>2 DEF Switches, Of
<1>11. /\ \A h \in Hosts : Switches(vmQueue, h) = {}
       /\ \A v \in VMs : Switches(faultQueue, v) = {}
  <2>1. \A i \in DOMAIN vmQueue : vmQueue[i].what \in VMs
    BY <1>3 DEF Shape
  <2>2. \A i \in DOMAIN faultQueue : faultQueue[i].what \in Hosts
    BY DEF FaultsInv
  <2> QED BY <2>1, <2>2, NamesAssumption DEF Switches, Of, NamesAssumption
<1>12. CASE ~(mode # "leader" /\ WholeSeconds)
  <2>1. ~(mode' # "leader" /\ WholeSeconds')
    BY <1>1, <1>12 DEF WholeSeconds
  <2> QED BY <1>1, <1>2, <2>1 DEF PlayInv
<1>13. CASE mode # "leader" /\ WholeSeconds
  <2>1. Tracked = Hosts
    BY <1>13 DEF Tracked
  <2>2. Whole(q)
    <3>1. Whole(v2)
      BY <1>2, <1>4, <1>13, WholeElements
    <3>2. Whole(a)
      <4>1. \A k \in DOMAIN a : (k \in DOMAIN loadQueue /\ a[k] = loadQueue[k])
                                \/ \E i \in DOMAIN faultQueue : a[k] = faultQueue[i]
        BY <1>0, ConcatIs
      <4> HIDE DEF a
      <4> QED BY <1>2, <1>13, <4>1 DEF Whole
    <3> HIDE DEF a
    <3>3. \A k \in DOMAIN q : (k \in DOMAIN a /\ q[k] = a[k]) \/ \E i \in DOMAIN v2 : q[k] = v2[i]
      BY <1>4, <1>5, ConcatIs
    <3> HIDE DEF q
    <3> QED BY <3>1, <3>2, <3>3 DEF Whole
  <2>3. Ascending(e2)
    <3> HIDE DEF q
    <3> QED BY <1>5, <2>2, RoundedAgrees, SortedAscending DEF Whole
  <2> HIDE DEF a, q, e2
  <2>4. ASSUME NEW h \in Hosts
        PROVE  Switches(e2, h) = Switches(faultQueue, h) /\ Distinct(e2, h)
    <3>1. Distinct(faultQueue, h)
      BY <2>1 DEF FaultsInv
    <3>2. Switches(v2, h) = {} /\ Distinct(q, h)
      BY <1>6, <1>9, <1>10, <1>11, <3>1
    <3> QED BY <1>6, <1>8, <1>10, <3>2
  <2>5. ASSUME NEW v \in VMs
        PROVE  /\ Switches(e2, v) = Switches(vmQueue, v) /\ Distinct(e2, v)
               /\ Increasing(vmQueue, v) /\ InTurn(Switches(e2, v), FALSE)
    <3>1. Increasing(vmQueue, v) /\ Distinct(vmQueue, v)
      BY <1>0, <1>3, AlternatingIncreases, DistinctWhenIncreasing
    <3>2. Switches(a, v) = {} /\ Distinct(q, v)
      BY <1>6, <1>9, <1>10, <1>11, <3>1
    <3>3. Switches(e2, v) = Switches(vmQueue, v)
      BY <1>6, <1>8, <1>9, <3>2
    <3>4. InTurn(Switches(vmQueue, v), FALSE)
      BY <1>0, <1>3, AlternatingInTurn
    <3> QED BY <1>8, <3>1, <3>2, <3>3, <3>4
  <2>6. ASSUME NEW x \in Hosts \cup VMs, NEW u \in 0..(Duration - 1)
        PROVE  LeftOff(Switches(e2, x), u) <=> OutBy(drawn, x, u)
    <3>1. CASE x \in Hosts
      BY <2>1, <2>4, <3>1 DEF FaultsInv, FaultsDrawn
    <3>2. CASE x \in VMs
      <4>1. u \in Nat
        BY <1>0
      <4>2. LastOf(vmQueue, x, u) <=> LeftOff(Switches(vmQueue, x), u)
        BY <1>0, <2>5, <3>2, <4>1, LastOfIsLeftOff
      <4> QED BY <1>3, <2>5, <3>2, <4>2 DEF AsDrawn
    <3> QED BY <3>1, <3>2
  <2>7. ASSUME NEW x \in Hosts \cup VMs, NEW u \in 0..(Duration - 1)
        PROVE  WillBeOff(Switches(e2, x), FALSE, u) <=> OutBy(drawn, x, u)
    <3>1. ~(\E e \in Switches(e2, x) : e.time <= u) => ~LeftOff(Switches(e2, x), u)
      BY DEF LeftOff
    <3> QED BY <2>6, <3>1 DEF WillBeOff
  <2>8. /\ evtQueue' = e2 /\ off' = {} /\ clock' = 0 /\ ~gaveUp' /\ clock' < Duration /\ drawn' = drawn
        /\ stage' = "playing" /\ loadQueue' = loadQueue
        /\ \A i \in DOMAIN loadQueue : loadQueue[i].kind = "load"
    BY <1>1, <1>2 DEF e2, q, a
  <2>9. \A i \in DOMAIN e2 : 0 <= e2[i].time
    <3>1. \A i \in DOMAIN e2 : e2[i].time \in Nat
      BY <1>7, EventTypes
    <3> QED BY <3>1
  <2>10. \A x : (x \in off') = FALSE
    BY <2>8
  <2>11. /\ \A x \in Hosts \cup VMs : Distinct(evtQueue', x)
         /\ \A x \in Hosts \cup VMs, u \in 0..(Duration - 1) :
              WillBeOff(Switches(evtQueue', x), x \in off', u) <=> OutBy(drawn', x, u)
         /\ \A v \in VMs : InTurn(Switches(evtQueue', v), v \in off')
    <3>1. \A x \in Hosts \cup VMs : Distinct(evtQueue', x)
      BY <2>4, <2>5, <2>8
    <3>2. ASSUME NEW x \in Hosts \cup VMs, NEW u \in 0..(Duration - 1)
          PROVE  WillBeOff(Switches(evtQueue', x), x \in off', u) <=> OutBy(drawn', x, u)
      <4>1. WillBeOff(Switches(e2, x), FALSE, u) <=> OutBy(drawn, x, u)
        BY <2>7
      <4>2. WillBeOff(Switches(e2, x), x \in off', u) <=> WillBeOff(Switches(e2, x), FALSE, u)
        BY <2>10 DEF WillBeOff
      <4> QED BY <2>8, <4>1, <4>2
    <3>3. ASSUME NEW v \in VMs PROVE InTurn(Switches(evtQueue', v), v \in off')
      <4>1. InTurn(Switches(e2, v), v \in off') <=> InTurn(Switches(e2, v), FALSE)
        BY <2>10 DEF InTurn
      <4> QED BY <2>5, <2>8, <4>1
    <3> QED BY <3>1, <3>2, <3>3
  <2> QED BY <2>3, <2>8, <2>9, <2>11 DEF PlayInv
<1> QED BY <1>12, <1>13

LEMMA PlayPlay ==
  ASSUME TypeOK, PlayInv, Play
  PROVE  PlayInv'
<1> DEFINE q == evtQueue
           e == Head(evtQueue)
<1>0. /\ q \in Seq(Events) /\ clock \in Nat /\ Duration \in Nat /\ off \subseteq Hosts \cup VMs
  BY Durations DEF TypeOK
<1>1. /\ stage = "playing" /\ stage' = stage /\ q # <<>> /\ e.time < Duration
      /\ clock' = IF e.time > clock THEN e.time ELSE clock
      /\ evtQueue' = Tail(q)
      /\ off' = IF e.kind = "load" THEN off
                ELSE IF e.state THEN off \ {e.what} ELSE off \cup {e.what}
      /\ gaveUp' = (gaveUp \/ (e.kind = "switch" /\ e.what \in VMs /\ (e.what \in off <=> ~e.state)))
      /\ UNCHANGED <<mode, loadQueue, faultQueue, vmQueue, drawn>>
  BY DEF Play, queues
<1>2. /\ Tail(q) \in Seq(Events) /\ e = q[1] /\ 1 \in DOMAIN q
      /\ \A i \in DOMAIN Tail(q) : i \in Nat /\ i + 1 \in DOMAIN q /\ i + 1 # 1 /\ Tail(q)[i] = q[i + 1]
      /\ \A i \in DOMAIN q : i = 1 \/ \E j \in DOMAIN Tail(q) : i = j + 1
  BY <1>0, <1>1, TailIs
<1>3. /\ e.time \in Nat /\ e.state \in BOOLEAN /\ e.kind \in {"load", "switch"}
      /\ e.what \in Hosts \cup VMs
      /\ \A i \in DOMAIN q : i \in Nat /\ q[i].time \in Nat
  <2>1. \A f \in Events : f.time \in Nat /\ f.state \in BOOLEAN /\ f.kind \in {"load", "switch"}
                          /\ f.what \in Hosts \cup VMs
    BY DEF Events
  <2>2. e \in Events
    BY <1>0, <1>1
  <2>3. \A i \in DOMAIN q : i \in Nat /\ q[i].time \in Nat
    BY <1>0, EventTypes
  <2> QED BY <2>1, <2>2, <2>3
<1> HIDE DEF q, e
<1>4. clock' < Duration /\ \A i \in DOMAIN loadQueue' : loadQueue'[i].kind = "load"
  <2>1. clock < Duration /\ \A i \in DOMAIN loadQueue : loadQueue[i].kind = "load"
    BY DEF PlayInv
  <2> QED BY <1>0, <1>1, <1>3, <2>1
<1>5. CASE ~(mode # "leader" /\ WholeSeconds)
  <2>1. ~(mode' # "leader" /\ WholeSeconds')
    BY <1>1, <1>5 DEF WholeSeconds
  <2> QED BY <1>1, <1>4, <2>1 DEF PlayInv
<1>6. CASE mode # "leader" /\ WholeSeconds
  <2>1. /\ Ascending(q) /\ ~gaveUp
        /\ \A i \in DOMAIN q : clock <= q[i].time
        /\ \A x \in Hosts \cup VMs : Distinct(q, x)
        /\ \A x \in Hosts \cup VMs, u \in 0..(Duration - 1) :
             clock <= u => (WillBeOff(Switches(q, x), x \in off, u) <=> OutBy(drawn, x, u))
        /\ \A v \in VMs : InTurn(Switches(q, v), v \in off)
    BY <1>1, <1>6 DEF PlayInv, q
  <2> DEFINE r == Tail(q)
  <2>2. clock' = e.time /\ clock <= e.time
    BY <1>0, <1>1, <1>2, <1>3, <2>1
  <2>3. \A i \in DOMAIN q : e.time <= q[i].time
    <3>1. \A i \in DOMAIN q : i = 1 \/ 1 < i
      BY <1>2, <1>3
    <3> QED BY <1>2, <1>3, <2>1, <3>1 DEF Ascending
  <2>4. Ascending(r) /\ \A i \in DOMAIN r : clock' <= r[i].time
    <3>1. \A i, j \in DOMAIN r : i < j => i + 1 < j + 1
      BY <1>2
    <3> QED BY <1>2, <2>1, <2>2, <2>3, <3>1 DEF Ascending
  <2>5. ASSUME NEW x \in Hosts \cup VMs
        PROVE  /\ Distinct(r, x)
               /\ IF e.what = x /\ e.kind = "switch"
                  THEN e \in Switches(q, x) /\ Switches(r, x) = Switches(q, x) \ {e}
                  ELSE Switches(r, x) = Switches(q, x)
    BY <1>0, <1>1, <2>1, SwitchesTail DEF e, q
  <2> HIDE DEF r
  <2>6. ASSUME NEW x \in Hosts \cup VMs, e.what = x, e.kind = "switch"
        PROVE  /\ \A f \in Switches(q, x) : e.time <= f.time /\ (f.time = e.time => f = e)
               /\ Switches(q, x) \in SUBSET Events /\ e \in Switches(q, x)
               /\ Switches(r, x) = Switches(q, x) \ {e}
               /\ (x \in off') <=> ~e.state
    <3>1. e \in Switches(q, x) /\ 1 \in Of(q, x) /\ Switches(r, x) = Switches(q, x) \ {e}
      BY <1>2, <2>5, <2>6 DEF Of
    <3>2. ASSUME NEW f \in Switches(q, x) PROVE e.time <= f.time /\ (f.time = e.time => f = e)
      <4>1. PICK i \in Of(q, x) : q[i] = f
        BY DEF Switches
      <4>2. i \in DOMAIN q
        BY DEF Of
      <4>3. f.time = e.time => i = 1
        BY <1>2, <2>1, <3>1, <4>1 DEF Distinct
      <4> QED BY <1>2, <2>3, <4>1, <4>2, <4>3
    <3>3. Switches(q, x) \in SUBSET Events
      BY <1>0, SwitchesAre
    <3>4. (x \in off') <=> ~e.state
      BY <1>1, <1>3, <2>6
    <3> QED BY <3>1, <3>2, <3>3, <3>4
  <2>7. ASSUME NEW x \in Hosts \cup VMs, ~(e.what = x /\ e.kind = "switch")
        PROVE  (x \in off' <=> x \in off) /\ Switches(r, x) = Switches(q, x)
    <3>1. Switches(r, x) = Switches(q, x)
      BY <2>5, <2>7
    <3>2. x \in off' <=> x \in off
      BY <1>1, <1>3, <2>7
    <3> QED BY <3>1, <3>2
  <2>8. ASSUME NEW x \in Hosts \cup VMs, NEW u \in 0..(Duration - 1), clock' <= u
        PROVE  WillBeOff(Switches(r, x), x \in off', u) <=> OutBy(drawn', x, u)
    <3>1. u \in Nat /\ clock <= u /\ e.time <= u
      BY <1>0, <1>3, <2>2, <2>8
    <3>2. WillBeOff(Switches(q, x), x \in off, u) <=> OutBy(drawn', x, u)
      BY <1>1, <2>1, <3>1
    <3>3. CASE e.what = x /\ e.kind = "switch"
      <4> DEFINE S == Switches(q, x)
      <4>1. /\ S \in SUBSET Events /\ e \in S /\ Switches(r, x) = S \ {e} /\ ((x \in off') <=> ~e.state)
            /\ \A f \in S : e.time <= f.time /\ (f.time = e.time => f = e)
        BY <2>6, <3>3
      <4> HIDE DEF S
      <4>2. LeftOff(S, u) <=> IF \E f \in S \ {e} : f.time <= u THEN LeftOff(S \ {e}, u) ELSE ~e.state
        BY <3>1, <4>1, PlayedLeft
      <4>3. WillBeOff(S, x \in off, u) <=> LeftOff(S, u)
        BY <3>1, <4>1 DEF WillBeOff
      <4>4. WillBeOff(S \ {e}, x \in off', u) <=> LeftOff(S, u)
        BY <4>1, <4>2 DEF WillBeOff
      <4> QED BY <3>2, <4>1, <4>3, <4>4 DEF S
    <3>4. CASE ~(e.what = x /\ e.kind = "switch")
      <4>1. (x \in off' <=> x \in off) /\ Switches(r, x) = Switches(q, x)
        BY <2>7, <3>4
      <4>2. WillBeOff(Switches(r, x), x \in off', u) <=> WillBeOff(Switches(q, x), x \in off, u)
        BY <4>1 DEF WillBeOff
      <4> QED BY <3>2, <4>2
    <3> QED BY <3>3, <3>4
  <2>9. ASSUME NEW v \in VMs PROVE InTurn(Switches(r, v), v \in off')
    <3>1. InTurn(Switches(q, v), v \in off)
      BY <2>1
    <3>2. CASE e.what = v /\ e.kind = "switch"
      <4> DEFINE S == Switches(q, v)
      <4>1. /\ S \in SUBSET Events /\ e \in S /\ Switches(r, v) = S \ {e} /\ ((v \in off') <=> ~e.state)
            /\ \A f \in S : e.time <= f.time /\ (f.time = e.time => f = e)
        BY <2>6, <3>2
      <4> HIDE DEF S
      <4>2. InTurn(S \ {e}, ~e.state)
        <5> DEFINE o == v \in off
        <5>1. InTurn(S, o) /\ o \in BOOLEAN
          BY <3>1 DEF S
        <5> HIDE DEF o
        <5> QED BY <4>1, <5>1, PlayedInTurn
      <4>3. InTurn(S \ {e}, v \in off') <=> InTurn(S \ {e}, ~e.state)
        BY <4>1 DEF InTurn
      <4> QED BY <4>1, <4>2, <4>3
    <3>3. CASE ~(e.what = v /\ e.kind = "switch")
      <4>1. (v \in off' <=> v \in off) /\ Switches(r, v) = Switches(q, v)
        BY <2>7, <3>3
      <4>2. InTurn(Switches(r, v), v \in off') <=> InTurn(Switches(q, v), v \in off)
        BY <4>1 DEF InTurn
      <4> QED BY <3>1, <4>2
    <3> QED BY <3>2, <3>3
  <2>10. ~gaveUp'
    <3> SUFFICES ASSUME e.kind = "switch", e.what \in VMs PROVE e.state <=> e.what \in off
      BY <1>1, <1>3, <2>1
    <3> DEFINE v == e.what
               S == Switches(q, v)
    <3>1. /\ S \in SUBSET Events /\ e \in S
          /\ \A f \in S : e.time <= f.time /\ (f.time = e.time => f = e)
      BY <2>6
    <3> DEFINE o == v \in off
    <3>2. InTurn(S, o) /\ o \in BOOLEAN
      BY <2>1
    <3> HIDE DEF S, o
    <3>3. e.state <=> o
      BY <3>1, <3>2, PlayedInTurn
    <3> QED BY <3>3 DEF o
  <2> QED BY <1>1, <1>4, <2>4, <2>5, <2>8, <2>9, <2>10 DEF PlayInv, r
<1> QED BY <1>5, <1>6

LEMMA FaultPlay ==
  ASSUME TypeOK, PlayInv, NEW t \in Nat, NEW h \in Hosts, Fault(t, h),
         stage \in {"leader faults", "faults"}, UNCHANGED <<stage, clock, off, gaveUp>>
  PROVE  PlayInv'
<1>1. /\ faultQueue' = Struck(faultQueue, h, t) /\ drawn' = drawn \cup {<<t, h>>}
      /\ loadQueue' = loadQueue /\ vmQueue' = vmQueue /\ faultQueue \in Seq(Events)
  BY DEF Fault, Struck, TypeOK
<1>2. ASSUME WholeSeconds' PROVE WholeSeconds /\ t % 4 = 0 /\ CrashDuration % 4 = 0
  <2> DEFINE new == <<t, h>>
  <2>1. new[1] = t
    OBVIOUS
  <2> HIDE DEF new
  <2>2. drawn' = drawn \cup {new}
    BY <1>1 DEF new
  <2> QED BY <1>1, <1>2, <2>1, <2>2 DEF WholeSeconds
<1>3. WholeSeconds' /\ Whole(faultQueue) => Whole(faultQueue')
  BY <1>1, <1>2, WholeStruck
<1>4. \A i \in DOMAIN loadQueue' : loadQueue'[i].kind = "load"
  BY <1>1 DEF PlayInv
<1> QED BY <1>1, <1>2, <1>3, <1>4, DrawnPlay

LEMMA NextPlay == TypeOK /\ FluctuationsInv /\ FaultsInv /\ PlayInv /\ [Next]_vars => PlayInv'
<1> SUFFICES ASSUME TypeOK, FluctuationsInv, FaultsInv, PlayInv, [Next]_vars PROVE PlayInv'
  OBVIOUS
<1>0. /\ loadQueue \in Seq(Events) /\ faultQueue \in Seq(Events) /\ vmQueue \in Seq(Events)
      /\ currentTime \in Nat /\ \A i \in DOMAIN loadQueue : loadQueue[i].kind = "load"
  BY DEF TypeOK, PlayInv
<1>1. ASSUME NEW t \in 1..(Duration - 1), NEW v \in VMs, DrawLoad(t, v) PROVE PlayInv'
  <2> DEFINE e == LoadEvent(t, v)
             n == Len(loadQueue)
  <2>1. /\ stage = "loads" /\ loadQueue' = Append(loadQueue, e)
        /\ UNCHANGED <<stage, faultQueue, vmQueue, drawn, clock, off, gaveUp>>
    BY <1>1 DEF DrawLoad, Draw
  <2>2. e \in Events /\ e.kind = "load"
    <3>1. t \in Nat
      BY Durations
    <3> QED BY <3>1 DEF LoadEvent, Events
  <2> HIDE DEF e, n
  <2>3. /\ n \in Nat /\ DOMAIN loadQueue = 1..n /\ DOMAIN loadQueue' = 1..(n + 1)
        /\ \A i \in 1..n : loadQueue'[i] = loadQueue[i] /\ i \in 1..(n + 1)
        /\ loadQueue'[n + 1] = e
        /\ \A i \in DOMAIN loadQueue' : i \in 1..n \/ i = n + 1
    BY <1>0, <2>1, <2>2, AppendIs DEF n
  <2>4. \A i \in DOMAIN loadQueue' : loadQueue'[i].kind = "load"
    BY <1>0, <2>2, <2>3
  <2>5. WholeSeconds' => WholeSeconds
    BY <2>1, <2>3 DEF WholeSeconds
  <2> QED BY <2>1, <2>4, <2>5, DrawnPlay
<1>2. ASSUME NEW t \in 1..(Duration - 1), NEW h \in Hosts, DrawFault(t, h) PROVE PlayInv'
  <2>1. t \in Nat
    BY Durations
  <2> QED BY <1>2, <2>1, FaultPlay DEF DrawFault, Draw
<1>3. CASE DrawLeaderFault
  <2>1. Head(Services) \in Hosts
    <3>1. Services \in Seq(Hosts) /\ Services # <<>>
      BY <1>3, ModesAssumption, NamesAssumption
      DEF ModesAssumption, NamesAssumption, DrawLeaderFault, FluctuationsInv
    <3> QED BY <3>1
  <2>2. currentTime' \in Nat
    <3>1. currentTime' = currentTime + GLFaultPeriod
      BY <1>3 DEF DrawLeaderFault, Advance
    <3> QED BY <1>0, <3>1, Durations
  <2> QED BY <1>3, <2>1, <2>2, FaultPlay DEF DrawLeaderFault, Advance
<1>4. ASSUME NEW i \in DOMAIN Services, DrawManagerFault(i) PROVE PlayInv'
  <2>1. Services[i] \in Hosts
    BY NamesAssumption DEF NamesAssumption
  <2>2. currentTime' \in Nat
    <3>1. currentTime' = currentTime + GMFaultPeriod
      BY <1>4 DEF DrawManagerFault, Advance
    <3> QED BY <1>0, <3>1, Durations
  <2> QED BY <1>4, <2>1, <2>2, FaultPlay DEF DrawManagerFault, Advance
<1>5. ASSUME NEW t \in 1..(Duration - 1), NEW v \in VMs, DrawFluctuation(t, v) PROVE PlayInv'
  <2>1. /\ stage = "fluctuations" /\ drawn' = drawn \cup {<<t, v>>}
        /\ vmQueue' = Append(Postponed(vmQueue, v, t), Switch(t + CrashDuration, v, TRUE))
        /\ UNCHANGED <<stage, loadQueue, faultQueue, clock, off, gaveUp>>
    BY <1>5 DEF DrawFluctuation, Draw
  <2>2. ASSUME WholeSeconds' PROVE WholeSeconds /\ t % 4 = 0 /\ CrashDuration % 4 = 0
    <3> DEFINE new == <<t, v>>
    <3>1. new[1] = t
      OBVIOUS
    <3> HIDE DEF new
    <3>2. drawn' = drawn \cup {new}
      BY <2>1 DEF new
    <3> QED BY <2>1, <2>2, <3>1, <3>2 DEF WholeSeconds
  <2>3. WholeSeconds' /\ Whole(vmQueue) => Whole(vmQueue')
    <3>1. t \in Nat /\ v \in Hosts \cup VMs
      BY Durations
    <3> QED BY <1>0, <2>1, <2>2, <3>1, WholeStruck
  <2> QED BY <1>0, <2>1, <2>2, <2>3, DrawnPlay
<1>6. CASE NextQueue
  <2>1. /\ UNCHANGED <<loadQueue, vmQueue, clock, off, gaveUp, drawn>>
        /\ faultQueue' = faultQueue \/ faultQueue' = Sorted(faultQueue, "exact")
        /\ stage # "playing" /\ stage' # "playing"
    BY <1>6 DEF NextQueue, queues
  <2>2. \A i \in DOMAIN Sorted(faultQueue, "exact") :
          \E j \in DOMAIN faultQueue : Sorted(faultQueue, "exact")[i] = faultQueue[j]
    BY <1>0, SortedType
  <2>3. Whole(faultQueue) => Whole(faultQueue')
    BY <2>1, <2>2, WholeElements
  <2>4. WholeSeconds' => WholeSeconds
    BY <2>1 DEF WholeSeconds
  <2> QED BY <1>0, <2>1, <2>3, <2>4, DrawnPlay
<1>7. CASE Merge
  BY <1>7, MergePlay
<1>8. CASE Play
  BY <1>8, PlayPlay
<1>9. CASE UNCHANGED vars
  BY <1>9 DEF vars, queues, PlayInv, WholeSeconds
<1> QED BY <1>1, <1>2, <1>3, <1>4, <1>5, <1>6, <1>7, <1>8, <1>9 DEF Next

(* If everything happens at whole seconds, then what the injector plays      *)
(* has exactly those off that should be, and finds each VM in the state it   *)
(* expects (Injector.mergeQueues, main2; EventQueues!PlayedAsDrawn).         *)
THEOREM EventsArePlayedAsDrawn == Spec => []PlayedAsDrawn
<1>1. TypeOK /\ PlayInv => PlayedAsDrawn
  <2> SUFFICES ASSUME TypeOK, PlayInv, stage = "playing", mode # "leader", WholeSeconds
               PROVE  /\ ~gaveUp
                      /\ (evtQueue # <<>> => Head(evtQueue).time > clock)
                           => off = {x \in Hosts \cup VMs : Out(x, clock)}
    BY DEF PlayedAsDrawn
  <2>1. /\ evtQueue \in Seq(Events) /\ clock \in Nat /\ off \subseteq Hosts \cup VMs
        /\ clock < Duration /\ Duration \in Nat /\ Ascending(evtQueue) /\ ~gaveUp
        /\ \A x \in Hosts \cup VMs, u \in 0..(Duration - 1) :
             clock <= u => (WillBeOff(Switches(evtQueue, x), x \in off, u) <=> OutBy(drawn, x, u))
    BY Durations DEF TypeOK, PlayInv
  <2>2. clock \in 0..(Duration - 1) /\ clock <= clock
    BY <2>1
  <2>3. ASSUME evtQueue # <<>> => Head(evtQueue).time > clock, NEW x \in Hosts \cup VMs
        PROVE  x \in off <=> Out(x, clock)
    <3>1. \A i \in DOMAIN evtQueue : ~(evtQueue[i].time <= clock)
      <4> SUFFICES ASSUME NEW i \in DOMAIN evtQueue PROVE ~(evtQueue[i].time <= clock)
        OBVIOUS
      <4>1. evtQueue # <<>>
        OBVIOUS
      <4>2. Head(evtQueue) = evtQueue[1] /\ 1 \in DOMAIN evtQueue
        BY <2>1, <4>1, TailIs
      <4>3. /\ i \in Nat /\ evtQueue[i].time \in Nat /\ evtQueue[1].time \in Nat /\ (i = 1 \/ 1 < i)
        BY <2>1, <4>2, EventTypes
      <4>4. evtQueue[1].time <= evtQueue[i].time
        BY <2>1, <4>2, <4>3 DEF Ascending
      <4> QED BY <2>1, <2>3, <4>1, <4>2, <4>3, <4>4
    <3>2. ~ \E e \in Switches(evtQueue, x) : e.time <= clock
      BY <3>1 DEF Switches, Of
    <3>3. WillBeOff(Switches(evtQueue, x), x \in off, clock) <=> x \in off
      BY <3>2 DEF WillBeOff
    <3>4. WillBeOff(Switches(evtQueue, x), x \in off, clock) <=> OutBy(drawn, x, clock)
      BY <2>1, <2>2
    <3> QED BY <3>3, <3>4 DEF Out, OutBy
  <2> QED BY <2>1, <2>3
<1> QED BY <1>1, InitType, NextType, InitFluctuations, NextFluctuations, InitFaults, NextFaults,
     InitPlay, NextPlay, PTL DEF Spec

=============================================================================
