------------------------- MODULE LogPipelineProofs -------------------------
(***************************************************************************)
(* For any posts, lines, days, faults and stops: an event that a service   *)
(* has its answer for is on disk or its write has failed, each file is in  *)
(* the order in which the events were recorded, and what is restored when  *)
(* the monitor starts is the newest of all files.                          *)
(***************************************************************************)
EXTENDS LogPipeline, Induction

Task == [day : Days, lines : Seq(Event)]
Batch == [tasks : Seq(Task), post : Posts \cup {Nobody}]

LogTypes ==
  /\ queue \in Seq(Batch) /\ \A i \in DOMAIN queue : queue[i].tasks # <<>>
  /\ flushLeft \in Nat
  /\ file \in [Days -> Seq(Event \cup {Torn})]
  /\ ingested \in Seq(Event)
  /\ posts \in [Posts -> {"idle", "waiting", "answered", "refused", "lost"}]

----------------------------------------------------------------------------
(* Order, in a history h of what was recorded, of what is on disk and what *)
(* is still to be written.                                                 *)

Precedes(h, a, b) == \E m, n \in DOMAIN h : m < n /\ h[m] = a /\ h[n] = b
Known(h, s) == \A x \in DOMAIN s : s[x] # Torn => \E m \in DOMAIN h : h[m] = s[x]
AllBefore(h, s, t) ==
  \A x \in DOMAIN s, y \in DOMAIN t : s[x] # Torn /\ t[y] # Torn => Precedes(h, s[x], t[y])
Ordered(h, s) ==
  \A x, y \in DOMAIN s : x < y /\ s[x] # Torn /\ s[y] # Torn => Precedes(h, s[x], s[y])

(* Of the tasks of a batch each has a file of its own.                     *)
TasksOK(h, f, tasks) ==
  /\ \A k \in DOMAIN tasks :
       /\ Known(h, tasks[k].lines) /\ Ordered(h, tasks[k].lines)
       /\ AllBefore(h, f[tasks[k].day], tasks[k].lines)
  /\ \A k, l \in DOMAIN tasks : k # l => tasks[k].day # tasks[l].day

QueueOK(h, f, q) ==
  /\ \A d \in Days : Known(h, f[d]) /\ Ordered(h, f[d])
  /\ \A i \in DOMAIN q : TasksOK(h, f, q[i].tasks)
  /\ \A i, j \in DOMAIN q : i < j =>
       \A k \in DOMAIN q[i].tasks, l \in DOMAIN q[j].tasks :
         q[i].tasks[k].day = q[j].tasks[l].day => AllBefore(h, q[i].tasks[k].lines, q[j].tasks[l].lines)

Held(q, p, e) ==
  \E i \in DOMAIN q : q[i].post = p /\ \E k \in DOMAIN q[i].tasks : e \in ToSet(q[i].tasks[k].lines)

(* A request waits for one batch, which holds what is not on disk yet.     *)
AwaitedOK ==
  /\ \A i \in DOMAIN queue : queue[i].post # Nobody => posts[queue[i].post] = "waiting"
  /\ \A i, j \in DOMAIN queue : queue[i].post # Nobody /\ i # j => queue[i].post # queue[j].post
  /\ \A p \in Posts : posts[p] = "waiting" =>
       \A e \in ToSet(Valid(Body[p])) : e \in Filed \cup damaged \/ Held(queue, p, e)

LogInv == LogTypes /\ QueueOK(ingested, file, queue) /\ AwaitedOK /\ AnsweredIsFiled

----------------------------------------------------------------------------
(* Parts of a sequence, in its order.                                      *)

Part(t, s) ==
  \E g \in [DOMAIN t -> DOMAIN s] :
    /\ \A x, y \in DOMAIN t : x < y => g[x] < g[y]
    /\ \A x \in DOMAIN t : t[x] = s[g[x]]

LEMMA PartKeeps ==
  ASSUME NEW h, NEW s, NEW t, Part(t, s)
  PROVE  /\ Known(h, s) => Known(h, t)
         /\ Ordered(h, s) => Ordered(h, t)
         /\ \A u : AllBefore(h, u, s) => AllBefore(h, u, t)
         /\ \A u : AllBefore(h, s, u) => AllBefore(h, t, u)
<1>1. PICK g \in [DOMAIN t -> DOMAIN s] :
        /\ \A x, y \in DOMAIN t : x < y => g[x] < g[y]
        /\ \A x \in DOMAIN t : t[x] = s[g[x]]
  BY DEF Part
<1>2. \A x \in DOMAIN t : g[x] \in DOMAIN s
  BY <1>1
<1>3. Known(h, s) => Known(h, t)
  BY <1>1, <1>2 DEF Known
<1>4. Ordered(h, s) => Ordered(h, t)
  BY <1>1, <1>2 DEF Ordered
<1>5. \A u : AllBefore(h, u, s) => AllBefore(h, u, t)
  BY <1>1, <1>2 DEF AllBefore
<1>6. \A u : AllBefore(h, s, u) => AllBefore(h, t, u)
  BY <1>1, <1>2 DEF AllBefore
<1> QED
  BY <1>3, <1>4, <1>5, <1>6

(* A finite set of numbers has a least one.                                *)
LEMMA Least ==
  ASSUME NEW S \in SUBSET Nat, S # {}, IsFiniteSet(S)
  PROVE  \E m \in S : \A n \in S : m <= n
<1> DEFINE Below(b) == {c \in S : c < b}
           R == StrictSubsetOrdering(S)
           T == {Below(b) : b \in S}
<1>1. IsWellFoundedOn(R, FiniteSubsetsOf(S))
  BY FS_StrictSubsetOrderingWellFounded
<1>2. ASSUME NEW b \in S PROVE Below(b) \in SUBSET S /\ IsFiniteSet(Below(b))
  <2>1. Below(b) \in SUBSET S
    OBVIOUS
  <2> HIDE DEF Below
  <2> QED
    BY <2>1, FS_Subset
<1>3. T \subseteq FiniteSubsetsOf(S) /\ T # {}
  BY <1>2 DEF FiniteSubsetsOf
<1> HIDE DEF R, T
<1>4. PICK A \in T : \A B \in T : <<B, A>> \notin R
  BY <1>1, <1>3, WFMin
<1>5. PICK m \in S : A = Below(m)
  BY DEF T
<1>6. ASSUME NEW c \in S, c < m PROVE FALSE
  <2>1. \A d \in Below(c) : d \in Below(m)
    BY <1>6
  <2>2. c \in Below(m) /\ c \notin Below(c)
    BY <1>6
  <2>3. Below(c) \in T
    BY DEF T
  <2> HIDE DEF Below
  <2>4. <<Below(c), Below(m)>> \in R
    BY <1>2, <2>1, <2>2 DEF R, StrictSubsetOrdering
  <2> QED
    BY <1>4, <1>5, <2>3, <2>4
<1>7. ASSUME NEW n \in S PROVE m <= n
  <2>1. m \in Nat /\ n \in Nat /\ ~(n < m)
    BY <1>6
  <2> QED
    BY <2>1
<1> QED
  BY <1>7

(* The elements at some places, in the order of the places.                *)
LEMMA Places ==
  ASSUME NEW n \in Nat, NEW I \in SUBSET (1 .. n)
  PROVE  /\ Cardinality(I) \in Nat
         /\ \A k \in 1 .. Cardinality(I) :
              /\ (CHOOSE i \in I : Place(I, i) = k) \in I
              /\ Place(I, CHOOSE i \in I : Place(I, i) = k) = k
         /\ \A i \in I : Place(I, i) \in 1 .. Cardinality(I)
         /\ \A i, j \in I : i < j => Place(I, i) < Place(I, j)
<1> DEFINE c == Cardinality(I)
           E(i) == {j \in I : j <= i}
<1>0. \A i \in I : i \in Nat
  OBVIOUS
<1>1. IsFiniteSet(I) /\ c \in Nat
  <2>1. IsFiniteSet(1 .. n)
    BY FS_Interval
  <2> QED
    BY <2>1, FS_Subset, FS_CardinalityType
<1>2. ASSUME NEW i \in I
      PROVE  IsFiniteSet(E(i)) /\ Cardinality(E(i)) \in 1 .. c
  <2>1. E(i) \subseteq I /\ i \in E(i)
    BY <1>0
  <2> HIDE DEF E
  <2>2. IsFiniteSet(E(i)) /\ Cardinality(E(i)) <= c /\ Cardinality(E(i)) \in Nat
    BY <1>1, <2>1, FS_Subset, FS_CardinalityType
  <2>3. Cardinality(E(i)) # 0
    BY <2>1, <2>2, FS_EmptySet
  <2> QED
    BY <1>1, <2>2, <2>3
<1>3. ASSUME NEW i \in I, NEW j \in I, i < j
      PROVE  Cardinality(E(i)) < Cardinality(E(j))
  <2>0. i \in Nat /\ j \in Nat /\ j <= j
    BY <1>0
  <2>1. E(i) \subseteq E(j) \ {j} /\ j \in E(j)
    <3>1. ASSUME NEW l \in I, l <= i PROVE l <= j /\ l # j
      BY <1>0, <1>3, <2>0, <3>1
    <3> QED
      BY <2>0, <3>1, Zenon
  <2>2. IsFiniteSet(E(j)) /\ Cardinality(E(j)) \in Nat /\ Cardinality(E(i)) \in Nat
    BY <1>1, <1>2
  <2> HIDE DEF E
  <2>3. IsFiniteSet(E(j) \ {j}) /\ Cardinality(E(j) \ {j}) = Cardinality(E(j)) - 1
    BY <2>1, <2>2, FS_RemoveElement
  <2>4. Cardinality(E(i)) <= Cardinality(E(j) \ {j})
    BY <2>1, <2>3, FS_Subset
  <2> QED
    BY <2>2, <2>3, <2>4
<1>4. \A i : Place(I, i) = Cardinality(E(i))
  BY DEF Place
<1> HIDE DEF E
<1>5. \A i \in I : Place(I, i) \in 1 .. c
  BY <1>2, <1>4
<1>6. \A i, j \in I : i < j => Place(I, i) < Place(I, j)
  BY <1>3, <1>4
<1>7. \A i, j \in I : Place(I, i) = Place(I, j) => i = j
  BY <1>0, <1>1, <1>5, <1>6
<1> DEFINE f == [i \in I |-> Place(I, i)]
<1>8. f \in Injection(I, 1 .. c)
  BY <1>5, <1>7 DEF Injection, IsInjective
<1>9. IsFiniteSet(1 .. c) /\ Cardinality(1 .. c) = c
  BY <1>1, FS_Interval
<1>10. f \in Surjection(I, 1 .. c)
  <2> HIDE DEF f
  <2> QED
    BY <1>1, <1>8, <1>9, FS_Injection
<1>11. \A k \in 1 .. c : \E i \in I : Place(I, i) = k
  BY <1>10 DEF Surjection
<1>12. \A k \in 1 .. c : /\ (CHOOSE i \in I : Place(I, i) = k) \in I
                          /\ Place(I, CHOOSE i \in I : Place(I, i) = k) = k
  BY <1>11
<1> QED
  BY <1>1, <1>5, <1>6, <1>12

LEMMA AtIsPart ==
  ASSUME NEW S, NEW s \in Seq(S), NEW I \in SUBSET DOMAIN s
  PROVE  /\ At(s, I) \in Seq(S)
         /\ \E g \in [DOMAIN At(s, I) -> I] :
              /\ \A x, y \in DOMAIN At(s, I) : x < y => g[x] < g[y]
              /\ \A x \in DOMAIN At(s, I) : At(s, I)[x] = s[g[x]]
         /\ \A i \in I : \E x \in DOMAIN At(s, I) : At(s, I)[x] = s[i]
<1> DEFINE n == Len(s)
           c == Cardinality(I)
           Which(k) == CHOOSE i \in I : Place(I, i) = k
           t == At(s, I)
<1>1. n \in Nat /\ I \in SUBSET (1 .. n) /\ \A i \in I : s[i] \in S
  BY LenProperties
<1> HIDE DEF n
<1>2. /\ c \in Nat
      /\ \A k \in 1 .. c : Which(k) \in I /\ Place(I, Which(k)) = k
      /\ \A i \in I : Place(I, i) \in 1 .. c
      /\ \A i, j \in I : i < j => Place(I, i) < Place(I, j)
  BY <1>1, Places
<1>3. t = [k \in 1 .. c |-> s[Which(k)]]
  BY DEF At
<1> HIDE DEF t, c, Which
<1>4. DOMAIN t = 1 .. c /\ \A k \in 1 .. c : t[k] = s[Which(k)] /\ t[k] \in S
  BY <1>1, <1>2, <1>3
<1>5. t \in Seq(S)
  BY <1>2, <1>3, <1>4
<1>6. ASSUME NEW x \in 1 .. c, NEW y \in 1 .. c, x < y
      PROVE  Which(x) < Which(y)
  <2>1. Which(x) \in 1 .. n /\ Which(y) \in 1 .. n
    BY <1>1, <1>2
  <2>2. ~(Which(y) < Which(x)) /\ Which(x) # Which(y)
    BY <1>2, <1>6
  <2> QED
    BY <1>1, <2>1, <2>2
<1> DEFINE g == [k \in 1 .. c |-> Which(k)]
<1>7. g \in [DOMAIN t -> I] /\ \A x \in DOMAIN t : g[x] = Which(x)
  BY <1>2, <1>4
<1> HIDE DEF g
<1>8. (\A x, y \in DOMAIN t : x < y => g[x] < g[y]) /\ (\A x \in DOMAIN t : t[x] = s[g[x]])
  BY <1>4, <1>6, <1>7
<1>9. ASSUME NEW i \in I PROVE \E x \in DOMAIN t : t[x] = s[i]
  <2>1. Which(Place(I, i)) = i
    <3>1. Place(I, i) \in 1 .. c
      BY <1>2
    <3>2. Which(Place(I, i)) \in I /\ Place(I, Which(Place(I, i))) = Place(I, i)
      BY <1>2, <3>1
    <3>3. Which(Place(I, i)) \in Nat /\ i \in Nat
      BY <1>1, <3>2
    <3>4. Place(I, i) \in Nat
      BY <1>2, <3>1
    <3> DEFINE w == Which(Place(I, i))
    <3> HIDE DEF w
    <3>5. ~(w < i) /\ ~(i < w)
      BY <1>2, <3>2, <3>4 DEF w
    <3> QED
      BY <3>3, <3>5 DEF w
  <2> QED
    BY <1>2, <1>4, <2>1
<1> QED
  BY <1>5, <1>7, <1>8, <1>9 DEF t

LEMMA AtOrder ==
  ASSUME NEW S, NEW s \in Seq(S), NEW I \in SUBSET DOMAIN s
  PROVE  Part(At(s, I), s)
<1>1. PICK g \in [DOMAIN At(s, I) -> I] :
        /\ \A x, y \in DOMAIN At(s, I) : x < y => g[x] < g[y]
        /\ \A x \in DOMAIN At(s, I) : At(s, I)[x] = s[g[x]]
  BY AtIsPart
<1>2. g \in [DOMAIN At(s, I) -> DOMAIN s]
  BY <1>1
<1> QED
  BY <1>1, <1>2 DEF Part

----------------------------------------------------------------------------
(* What is recorded comes after all that was.                              *)

LEMMA Grown ==
  ASSUME NEW h \in Seq(Event), NEW ev \in Seq(Event)
  PROVE  /\ \A s : Known(h, s) => Known(h \o ev, s)
         /\ \A s : Ordered(h, s) => Ordered(h \o ev, s)
         /\ \A s, u : AllBefore(h, s, u) => AllBefore(h \o ev, s, u)
         /\ \A s : Known(h, s) => AllBefore(h \o ev, s, ev)
         /\ Known(h \o ev, ev) /\ Ordered(h \o ev, ev)
         /\ h \o ev \in Seq(Event)
<1> DEFINE H == h \o ev
           m == Len(h)
           n == Len(ev)
<1>1. m \in Nat /\ n \in Nat /\ DOMAIN h = 1 .. m /\ DOMAIN ev = 1 .. n
  BY LenProperties
<1>2. H \in Seq(Event) /\ Len(H) = m + n
      /\ \A i \in 1 .. m + n : H[i] = IF i <= m THEN h[i] ELSE ev[i - m]
  BY ConcatProperties
<1>3. DOMAIN H = 1 .. m + n
  BY <1>2, LenProperties
<1> HIDE DEF H, m, n
<1>4. (\A i \in DOMAIN h : i \in DOMAIN H /\ H[i] = h[i]) /\ (\A i \in DOMAIN h : i \in Int)
  BY <1>1, <1>2, <1>3
<1>5. \A i \in DOMAIN ev : m + i \in DOMAIN H /\ H[m + i] = ev[i]
  <2> SUFFICES ASSUME NEW i \in 1 .. n PROVE m + i \in 1 .. m + n /\ H[m + i] = ev[i]
    BY <1>1, <1>3
  <2>1. m + i \in 1 .. m + n /\ ~(m + i <= m) /\ (m + i) - m = i
    BY <1>1
  <2> QED
    BY <1>2, <2>1
<1>6. \A a, b : Precedes(h, a, b) => Precedes(H, a, b)
  BY <1>4 DEF Precedes
<1>7. \A s : Known(h, s) => Known(H, s)
  BY <1>4 DEF Known
<1>8. \A s : Ordered(h, s) => Ordered(H, s)
  BY <1>6 DEF Ordered
<1>9. \A s, u : AllBefore(h, s, u) => AllBefore(H, s, u)
  BY <1>6 DEF AllBefore
<1>10. ASSUME NEW s, Known(h, s) PROVE AllBefore(H, s, ev)
  <2>1. ASSUME NEW i \in DOMAIN h, NEW y \in DOMAIN ev PROVE Precedes(H, h[i], ev[y])
    <3>1. i < m + y
      BY <1>1, <2>1
    <3> QED
      BY <1>4, <1>5, <3>1 DEF Precedes
  <2> QED
    BY <1>10, <2>1 DEF Known, AllBefore
<1>11. Known(H, ev)
  BY <1>5 DEF Known
<1>12. Ordered(H, ev)
  <2>1. ASSUME NEW x \in DOMAIN ev, NEW y \in DOMAIN ev, x < y PROVE Precedes(H, ev[x], ev[y])
    <3>1. m + x < m + y
      BY <1>1, <2>1
    <3> QED
      BY <1>5, <3>1 DEF Precedes
  <2> QED
    BY <2>1 DEF Ordered
<1> QED
  BY <1>2, <1>7, <1>8, <1>9, <1>10, <1>11, <1>12 DEF H

(* The tasks of a batch: a file each, its lines in order, and no event is  *)
(* left out.                                                               *)
LEMMA TasksOf ==
  ASSUME NEW ev \in Seq(Event), ev # <<>>
  PROVE  /\ Tasks(ev) \in Seq(Task) /\ Tasks(ev) # <<>>
         /\ \A k \in DOMAIN Tasks(ev) : Part(Tasks(ev)[k].lines, ev)
         /\ \A k, l \in DOMAIN Tasks(ev) : k # l => Tasks(ev)[k].day # Tasks(ev)[l].day
         /\ \A x \in DOMAIN ev : \E k \in DOMAIN Tasks(ev) : ev[x] \in ToSet(Tasks(ev)[k].lines)
<1> DEFINE n == Len(ev)
           I == Firsts(ev)
           first == At(ev, I)
           T == Tasks(ev)
<1>1. n \in Nat /\ DOMAIN ev = 1 .. n /\ n # 0 /\ \A i \in 1 .. n : ev[i] \in Event
  BY LenProperties, EmptySeq
<1>2. I \in SUBSET DOMAIN ev
  BY DEF Firsts
<1>3. \A i \in I : \A j \in 1 .. i - 1 : Day[ev[j]] # Day[ev[i]]
  BY DEF Firsts
<1>4. ASSUME NEW x \in DOMAIN ev PROVE \E i \in I : Day[ev[i]] = Day[ev[x]]
  <2> DEFINE S == OfDay(ev, Day[ev[x]])
  <2>1. S \in SUBSET (1 .. n) /\ x \in S /\ \A i \in S : Day[ev[i]] = Day[ev[x]]
    BY <1>1 DEF OfDay
  <2>2. IsFiniteSet(S)
    <3>1. IsFiniteSet(1 .. n)
      BY <1>1, FS_Interval
    <3> QED
      BY <2>1, <3>1, FS_Subset
  <2>3. \A j \in 1 .. n : Day[ev[j]] = Day[ev[x]] => j \in S
    BY <1>1 DEF OfDay
  <2> HIDE DEF S
  <2>4. S \in SUBSET Nat /\ S # {}
    BY <2>1
  <2>5. PICK m \in S : \A i \in S : m <= i
    BY <2>2, <2>4, Least
  <2>6. m \in 1 .. n
    BY <2>1
  <2>7. \A j \in 1 .. m - 1 : Day[ev[j]] # Day[ev[m]]
    <3> SUFFICES ASSUME NEW j \in 1 .. m - 1, Day[ev[j]] = Day[ev[m]] PROVE FALSE
      OBVIOUS
    <3>1. j \in 1 .. n /\ ~(m <= j)
      BY <1>1, <2>6
    <3> QED
      BY <2>1, <2>3, <2>5, <3>1
  <2>8. m \in I
    BY <1>1, <2>6, <2>7 DEF Firsts
  <2> QED
    BY <2>1, <2>8
<1>5. PICK g \in [DOMAIN first -> I] :
        /\ \A x, y \in DOMAIN first : x < y => g[x] < g[y]
        /\ \A x \in DOMAIN first : first[x] = ev[g[x]]
  BY <1>2, AtIsPart
<1>6. first \in Seq(Event) /\ \A i \in I : \E x \in DOMAIN first : first[x] = ev[i]
  BY <1>2, AtIsPart
<1>7. T = [k \in DOMAIN first |->
            [day |-> Day[first[k]], lines |-> At(ev, OfDay(ev, Day[first[k]]))]]
  BY DEF Tasks
<1> HIDE DEF I, first, T, n
<1>8. /\ Len(first) \in Nat /\ DOMAIN first = 1 .. Len(first) /\ DOMAIN T = DOMAIN first
      /\ \A k \in DOMAIN first : first[k] \in Event /\ Day[first[k]] \in Days
  BY <1>6, <1>7, LenProperties, LogAssumption
<1>9. \A d : /\ At(ev, OfDay(ev, d)) \in Seq(Event) /\ Part(At(ev, OfDay(ev, d)), ev)
             /\ \A i \in OfDay(ev, d) : \E x \in DOMAIN At(ev, OfDay(ev, d)) : At(ev, OfDay(ev, d))[x] = ev[i]
  <2> TAKE d
  <2>1. OfDay(ev, d) \in SUBSET DOMAIN ev
    BY DEF OfDay
  <2> QED
    BY <2>1, AtIsPart, AtOrder
<1>10. \A k \in DOMAIN T : /\ T[k].day = Day[first[k]] /\ T[k].lines = At(ev, OfDay(ev, Day[first[k]]))
                           /\ T[k] \in Task
  <2> SUFFICES ASSUME NEW k \in DOMAIN T
               PROVE  /\ T[k].day = Day[first[k]] /\ T[k].lines = At(ev, OfDay(ev, Day[first[k]]))
                      /\ T[k] \in Task
    OBVIOUS
  <2>1. T[k] = [day |-> Day[first[k]], lines |-> At(ev, OfDay(ev, Day[first[k]]))]
    BY <1>7, <1>8
  <2>2. Day[first[k]] \in Days /\ At(ev, OfDay(ev, Day[first[k]])) \in Seq(Event)
    BY <1>8, <1>9
  <2> QED
    BY <2>1, <2>2 DEF Task
<1>11. T \in Seq(Task)
  BY <1>7, <1>8, <1>10
<1>12. \A x \in DOMAIN ev : \E k \in DOMAIN T : ev[x] \in ToSet(T[k].lines)
  <2> SUFFICES ASSUME NEW x \in DOMAIN ev PROVE \E k \in DOMAIN T : ev[x] \in ToSet(T[k].lines)
    OBVIOUS
  <2>1. PICK k \in DOMAIN first : Day[first[k]] = Day[ev[x]]
    BY <1>4, <1>6
  <2>2. x \in OfDay(ev, Day[first[k]])
    BY <2>1 DEF OfDay
  <2>3. ev[x] \in ToSet(At(ev, OfDay(ev, Day[first[k]])))
    BY <1>9, <2>2 DEF ToSet
  <2> QED
    BY <1>8, <1>10, <2>1, <2>3
<1>13. T # <<>>
  <2>1. 1 \in DOMAIN ev
    BY <1>1
  <2>2. DOMAIN T # {}
    BY <1>12, <2>1
  <2> QED
    BY <2>2
<1>14. \A k, l \in DOMAIN T : k # l => T[k].day # T[l].day
  <2>1. ASSUME NEW k \in DOMAIN T, NEW l \in DOMAIN T, k < l
        PROVE  T[k].day # T[l].day
    <3>1. g[k] \in 1 .. g[l] - 1 /\ g[l] \in I
      BY <1>1, <1>2, <1>5, <1>8, <2>1
    <3>2. Day[ev[g[k]]] # Day[ev[g[l]]]
      BY <1>3, <3>1
    <3> QED
      BY <1>5, <1>8, <1>10, <3>2
  <2>2. \A k \in DOMAIN T : k \in Nat
    BY <1>8
  <2> QED
    BY <2>1, <2>2
<1> QED
  BY <1>9, <1>10, <1>11, <1>12, <1>13, <1>14 DEF T

----------------------------------------------------------------------------
(* Recording and writing keep the order.                                   *)

LEMMA RecordOrder ==
  ASSUME NEW h \in Seq(Event), NEW ev \in Seq(Event), ev # <<>>, NEW f, NEW q \in Seq(Batch),
         NEW p \in Posts \cup {Nobody}, QueueOK(h, f, q)
  PROVE  QueueOK(h \o ev, f, Append(q, [tasks |-> Tasks(ev), post |-> p]))
<1> DEFINE b == [tasks |-> Tasks(ev), post |-> p]
           T == Tasks(ev)
           q2 == Append(q, b)
           H == h \o ev
           n == Len(q)
<1>1. /\ T \in Seq(Task)
      /\ \A k \in DOMAIN T : Part(T[k].lines, ev) /\ T[k].day \in Days
      /\ \A k, l \in DOMAIN T : k # l => T[k].day # T[l].day
  <2>1. \A k \in DOMAIN T : T[k] \in Task
    BY TasksOf, ElementOfSeq, LenProperties
  <2> HIDE DEF T
  <2>2. \A k \in DOMAIN T : T[k].day \in Days
    BY <2>1 DEF Task
  <2> QED
    BY <2>2, TasksOf DEF T
<1>2. b.tasks = T
  OBVIOUS
<1>3. /\ \A s : Known(h, s) => Known(H, s)
      /\ \A s : Ordered(h, s) => Ordered(H, s)
      /\ \A s, u : AllBefore(h, s, u) => AllBefore(H, s, u)
      /\ \A s : Known(h, s) => AllBefore(H, s, ev)
      /\ Known(H, ev) /\ Ordered(H, ev)
  BY Grown
<1> HIDE DEF T, H
<1>4. n \in Nat /\ DOMAIN q = 1 .. n
  BY LenProperties
<1>5. /\ DOMAIN q2 = 1 .. n + 1 /\ q2[n + 1] = b /\ \A i \in 1 .. n : q2[i] = q[i]
  <2>1. b \in Batch
    BY <1>1 DEF Batch, T
  <2> HIDE DEF b
  <2> QED
    BY <1>4, <2>1
<1> HIDE DEF q2, b, n
<1>6. /\ \A d \in Days : Known(h, f[d]) /\ Ordered(h, f[d])
      /\ \A i \in DOMAIN q : TasksOK(h, f, q[i].tasks)
      /\ \A i, j \in DOMAIN q : i < j =>
           \A k \in DOMAIN q[i].tasks, l \in DOMAIN q[j].tasks :
             q[i].tasks[k].day = q[j].tasks[l].day => AllBefore(h, q[i].tasks[k].lines, q[j].tasks[l].lines)
  BY DEF QueueOK
<1>7. \A d \in Days : Known(H, f[d]) /\ Ordered(H, f[d])
  BY <1>3, <1>6
<1>8. \A i \in 1 .. n : TasksOK(H, f, q2[i].tasks)
  BY <1>3, <1>4, <1>5, <1>6 DEF TasksOK
<1>9. TasksOK(H, f, T)
  <2>1. ASSUME NEW k \in DOMAIN T
        PROVE  Known(H, T[k].lines) /\ Ordered(H, T[k].lines) /\ AllBefore(H, f[T[k].day], T[k].lines)
    <3>1. Part(T[k].lines, ev) /\ T[k].day \in Days
      BY <1>1
    <3>2. AllBefore(H, f[T[k].day], ev)
      BY <1>3, <1>6, <3>1
    <3> DEFINE u == f[T[k].day]
               t == T[k].lines
    <3> HIDE DEF u, t
    <3>3. Part(t, ev) /\ AllBefore(H, u, ev) /\ Known(H, ev) /\ Ordered(H, ev)
      BY <1>3, <3>1, <3>2 DEF u, t
    <3>4. Known(H, t) /\ Ordered(H, t) /\ AllBefore(H, u, t)
      BY ONLY <3>3, PartKeeps
    <3> QED
      BY <3>4 DEF u, t
  <2> QED
    BY <1>1, <2>1 DEF TasksOK
<1>10. \A i \in 1 .. n + 1 : TasksOK(H, f, q2[i].tasks)
  BY <1>2, <1>4, <1>5, <1>8, <1>9
<1>11. ASSUME NEW i \in 1 .. n + 1, NEW j \in 1 .. n + 1, i < j,
              NEW k \in DOMAIN q2[i].tasks, NEW l \in DOMAIN q2[j].tasks,
              q2[i].tasks[k].day = q2[j].tasks[l].day
       PROVE  AllBefore(H, q2[i].tasks[k].lines, q2[j].tasks[l].lines)
  <2>1. CASE j \in 1 .. n
    <3>1. i \in 1 .. n
      BY <1>4, <1>11, <2>1
    <3> QED
      BY <1>3, <1>4, <1>5, <1>6, <1>11, <2>1, <3>1
  <2>2. CASE j = n + 1
    <3>1. i \in 1 .. n
      BY <1>4, <1>11, <2>2
    <3>2. Known(h, q2[i].tasks[k].lines)
      BY <1>4, <1>5, <1>6, <3>1 DEF TasksOK
    <3>3. AllBefore(H, q2[i].tasks[k].lines, ev)
      BY <1>3, <3>2
    <3>4. Part(q2[j].tasks[l].lines, ev)
      BY <1>1, <1>2, <1>5, <2>2
    <3> DEFINE u == q2[i].tasks[k].lines
               t == q2[j].tasks[l].lines
    <3> HIDE DEF u, t
    <3>5. Part(t, ev) /\ AllBefore(H, u, ev)
      BY <3>3, <3>4 DEF u, t
    <3>6. AllBefore(H, u, t)
      BY ONLY <3>5, PartKeeps
    <3> QED
      BY <3>6 DEF u, t
  <2> QED
    BY <1>4, <2>1, <2>2
<1> QED
  BY <1>5, <1>7, <1>10, <1>11 DEF QueueOK, q2, b, H, n, T

(* What an append leaves: some of the lines, in order, and perhaps a torn  *)
(* one.                                                                    *)
Longer(F, s, lines) ==
  \E new \in Seq(Event) : Part(new, lines) /\ F \in {s \o new, Append(s \o new, Torn)}

LEMMA LongerOrder ==
  ASSUME NEW h, NEW s \in Seq(Event \cup {Torn}), NEW lines, NEW F, Longer(F, s, lines),
         Known(h, s), Ordered(h, s), Known(h, lines), Ordered(h, lines), AllBefore(h, s, lines)
  PROVE  /\ F \in Seq(Event \cup {Torn})
         /\ Known(h, F) /\ Ordered(h, F)
         /\ \A u : AllBefore(h, s, u) /\ AllBefore(h, lines, u) => AllBefore(h, F, u)
<1>1. PICK new \in Seq(Event) : Part(new, lines) /\ F \in {s \o new, Append(s \o new, Torn)}
  BY DEF Longer
<1> DEFINE S == Event \cup {Torn}
           m == Len(s)
           n == Len(new)
           r == s \o new
<1>2. m \in Nat /\ n \in Nat /\ DOMAIN s = 1 .. m /\ DOMAIN new = 1 .. n /\ new \in Seq(S)
  BY LenProperties, SeqMonotonic
<1>3. r \in Seq(S) /\ Len(r) = m + n
      /\ \A i \in 1 .. m + n : r[i] = IF i <= m THEN s[i] ELSE new[i - m]
  BY <1>2, ConcatProperties
<1> HIDE DEF m, n, r
<1>4. /\ F \in Seq(S)
      /\ \E k \in {m + n, m + n + 1} :
           /\ DOMAIN F = 1 .. k
           /\ \A i \in 1 .. m + n : F[i] = r[i]
           /\ k = m + n + 1 => F[m + n + 1] = Torn
  <2>1. CASE F = r
    BY <1>3, <2>1, LenProperties
  <2>2. CASE F = Append(r, Torn)
    <3>1. Torn \in S
      OBVIOUS
    <3> HIDE DEF S
    <3> QED
      BY <1>2, <1>3, <2>2, <3>1
  <2> QED
    BY <1>1, <2>1, <2>2 DEF r
<1>5. ASSUME NEW i \in DOMAIN F, F[i] # Torn
      PROVE  \/ i \in DOMAIN s /\ F[i] = s[i]
             \/ i > m /\ i - m \in DOMAIN new /\ F[i] = new[i - m]
  <2>1. i \in 1 .. m + n /\ F[i] = r[i]
    BY <1>2, <1>4, <1>5
  <2>2. CASE i <= m
    <3>1. i \in 1 .. m
      BY <1>2, <2>1, <2>2
    <3> QED
      BY <1>2, <1>3, <2>1, <2>2, <3>1
  <2>3. CASE ~(i <= m)
    <3>1. i > m /\ i - m \in 1 .. n
      BY <1>2, <2>1, <2>3
    <3> QED
      BY <1>2, <1>3, <2>1, <2>3, <3>1
  <2> QED
    BY <2>2, <2>3
<1>6. /\ Known(h, new) /\ Ordered(h, new) /\ AllBefore(h, s, new)
      /\ \A u : AllBefore(h, lines, u) => AllBefore(h, new, u)
  BY <1>1, PartKeeps
<1>7. Known(h, F)
  BY <1>5, <1>6 DEF Known
<1>8. Ordered(h, F)
  <2> SUFFICES ASSUME NEW i \in DOMAIN F, NEW j \in DOMAIN F, i < j, F[i] # Torn, F[j] # Torn
               PROVE  Precedes(h, F[i], F[j])
    BY DEF Ordered
  <2>0. i \in Int /\ j \in Int
    BY <1>2, <1>4
  <2>1. CASE j \in DOMAIN s /\ F[j] = s[j]
    <3>1. i \in DOMAIN s /\ F[i] = s[i]
      BY <1>2, <1>5, <2>0, <2>1
    <3> QED
      BY <2>1, <3>1 DEF Ordered
  <2>2. CASE j > m /\ j - m \in DOMAIN new /\ F[j] = new[j - m]
    <3>1. CASE i \in DOMAIN s /\ F[i] = s[i]
      BY <1>6, <2>2, <3>1 DEF AllBefore
    <3>2. CASE i > m /\ i - m \in DOMAIN new /\ F[i] = new[i - m]
      <4>1. i - m < j - m
        BY <1>2, <2>0
      <4> QED
        BY <1>6, <2>2, <3>2, <4>1 DEF Ordered
    <3> QED
      BY <1>5, <3>1, <3>2
  <2> QED
    BY <1>5, <2>1, <2>2
<1>9. ASSUME NEW u, AllBefore(h, s, u), AllBefore(h, lines, u)
      PROVE  AllBefore(h, F, u)
  <2>1. AllBefore(h, new, u)
    BY <1>6, <1>9
  <2> QED
    BY <1>5, <1>9, <2>1 DEF AllBefore
<1> QED
  BY <1>4, <1>7, <1>8, <1>9

(* Some of the batches of q in their order, with some of their tasks, and  *)
(* without the first task of the first one.                                *)
Within(q2, q) ==
  \E g \in [DOMAIN q2 -> DOMAIN q] :
    /\ \A i, j \in DOMAIN q2 : i < j => g[i] < g[j]
    /\ \A i \in DOMAIN q2 :
         \E r \in [DOMAIN q2[i].tasks -> DOMAIN q[g[i]].tasks] :
           /\ \A k, l \in DOMAIN q2[i].tasks : k # l => r[k] # r[l]
           /\ \A k \in DOMAIN q2[i].tasks :
                q2[i].tasks[k] = q[g[i]].tasks[r[k]] /\ (g[i] = 1 => r[k] # 1)

LEMMA WriteOrder ==
  ASSUME NEW h, NEW f \in [Days -> Seq(Event \cup {Torn})], NEW q \in Seq(Batch),
         q # <<>>, q[1].tasks # <<>>, QueueOK(h, f, q),
         NEW F, Longer(F, f[q[1].tasks[1].day], q[1].tasks[1].lines),
         NEW q2, Within(q2, q)
  PROVE  /\ [f EXCEPT ![q[1].tasks[1].day] = F] \in [Days -> Seq(Event \cup {Torn})]
         /\ QueueOK(h, [f EXCEPT ![q[1].tasks[1].day] = F], q2)
<1> DEFINE t == q[1].tasks[1]
           f2 == [f EXCEPT ![t.day] = F]
           S == Event \cup {Torn}
<1>1. 1 \in DOMAIN q /\ DOMAIN q \subseteq Nat /\ \A i \in DOMAIN q : i = 1 \/ 1 < i
  BY LenProperties, EmptySeq
<1>2. 1 \in DOMAIN q[1].tasks /\ t \in Task
  <2>1. q[1] \in Batch
    BY <1>1, ElementOfSeq, LenProperties
  <2> DEFINE ts == q[1].tasks
  <2>2. ts \in Seq(Task) /\ ts # <<>>
    BY <2>1 DEF Batch
  <2> HIDE DEF ts
  <2>3. 1 \in DOMAIN ts /\ ts[1] \in Task
    BY <2>2, LenProperties, EmptySeq, ElementOfSeq
  <2> QED
    BY <2>3 DEF ts
<1>3. t.day \in Days
  BY <1>2 DEF Task
<1> HIDE DEF t
<1>4. /\ \A d \in Days : Known(h, f[d]) /\ Ordered(h, f[d])
      /\ \A i \in DOMAIN q : TasksOK(h, f, q[i].tasks)
      /\ \A i, j \in DOMAIN q : i < j =>
           \A k \in DOMAIN q[i].tasks, l \in DOMAIN q[j].tasks :
             q[i].tasks[k].day = q[j].tasks[l].day => AllBefore(h, q[i].tasks[k].lines, q[j].tasks[l].lines)
  BY DEF QueueOK
<1>5. Known(h, t.lines) /\ Ordered(h, t.lines) /\ AllBefore(h, f[t.day], t.lines)
  BY <1>1, <1>2, <1>4 DEF TasksOK, t
<1>6. /\ F \in Seq(S) /\ Known(h, F) /\ Ordered(h, F)
      /\ \A u : AllBefore(h, f[t.day], u) /\ AllBefore(h, t.lines, u) => AllBefore(h, F, u)
  <2> DEFINE s == f[t.day]
             ln == t.lines
  <2>1. s \in Seq(S) /\ Longer(F, s, ln) /\ Known(h, s) /\ Ordered(h, s)
    BY <1>3, <1>4 DEF t
  <2>2. Known(h, ln) /\ Ordered(h, ln) /\ AllBefore(h, s, ln)
    BY <1>5
  <2> HIDE DEF s, ln
  <2>3. /\ F \in Seq(S) /\ Known(h, F) /\ Ordered(h, F)
        /\ \A u : AllBefore(h, s, u) /\ AllBefore(h, ln, u) => AllBefore(h, F, u)
    BY <2>1, <2>2, LongerOrder
  <2> QED
    BY <2>3 DEF s, ln
<1>7. /\ f2 \in [Days -> Seq(S)] /\ f2[t.day] = F
      /\ \A d \in Days : d # t.day => f2[d] = f[d]
  BY <1>3, <1>6
<1> HIDE DEF S, f2
<1>8. \A d \in Days : Known(h, f2[d]) /\ Ordered(h, f2[d])
  BY <1>4, <1>6, <1>7
<1>9. ASSUME NEW i \in DOMAIN q, NEW k \in DOMAIN q[i].tasks, i = 1 => k # 1
      PROVE  /\ Known(h, q[i].tasks[k].lines) /\ Ordered(h, q[i].tasks[k].lines)
             /\ AllBefore(h, f2[q[i].tasks[k].day], q[i].tasks[k].lines)
  <2>1. /\ Known(h, q[i].tasks[k].lines) /\ Ordered(h, q[i].tasks[k].lines)
        /\ AllBefore(h, f[q[i].tasks[k].day], q[i].tasks[k].lines)
    BY <1>4 DEF TasksOK
  <2>2. q[i].tasks[k].day \in Days
    <3>1. q[i] \in Batch
      BY ElementOfSeq, LenProperties
    <3> DEFINE ts == q[i].tasks
    <3>2. ts \in Seq(Task) /\ k \in DOMAIN ts
      BY <3>1 DEF Batch
    <3> HIDE DEF ts
    <3>3. ts[k] \in Task
      BY <3>2, LenProperties, ElementOfSeq
    <3>4. ts[k].day \in Days
      BY <3>3 DEF Task
    <3> QED
      BY <3>4 DEF ts
  <2>3. CASE q[i].tasks[k].day # t.day
    BY <1>7, <2>1, <2>2, <2>3
  <2>4. CASE q[i].tasks[k].day = t.day
    <3>1. 1 < i
      <4>1. i # 1
        BY <1>2, <1>4, <1>9, <2>4 DEF TasksOK, t
      <4> QED
        BY <1>1, <4>1
    <3>2. AllBefore(h, t.lines, q[i].tasks[k].lines)
      BY <1>1, <1>2, <1>4, <2>4, <3>1 DEF t
    <3> QED
      BY <1>6, <1>7, <2>1, <2>4, <3>2
  <2> QED
    BY <2>1, <2>3, <2>4
<1>10. PICK g \in [DOMAIN q2 -> DOMAIN q] :
         /\ \A i, j \in DOMAIN q2 : i < j => g[i] < g[j]
         /\ \A i \in DOMAIN q2 :
              \E r \in [DOMAIN q2[i].tasks -> DOMAIN q[g[i]].tasks] :
                /\ \A k, l \in DOMAIN q2[i].tasks : k # l => r[k] # r[l]
                /\ \A k \in DOMAIN q2[i].tasks :
                     q2[i].tasks[k] = q[g[i]].tasks[r[k]] /\ (g[i] = 1 => r[k] # 1)
  BY DEF Within
<1>11. ASSUME NEW i \in DOMAIN q2 PROVE TasksOK(h, f2, q2[i].tasks)
  <2>1. PICK r \in [DOMAIN q2[i].tasks -> DOMAIN q[g[i]].tasks] :
          /\ \A k, l \in DOMAIN q2[i].tasks : k # l => r[k] # r[l]
          /\ \A k \in DOMAIN q2[i].tasks :
               q2[i].tasks[k] = q[g[i]].tasks[r[k]] /\ (g[i] = 1 => r[k] # 1)
    BY <1>10
  <2>2. g[i] \in DOMAIN q
    BY <1>10
  <2>3. ASSUME NEW k \in DOMAIN q2[i].tasks
        PROVE  /\ Known(h, q2[i].tasks[k].lines) /\ Ordered(h, q2[i].tasks[k].lines)
               /\ AllBefore(h, f2[q2[i].tasks[k].day], q2[i].tasks[k].lines)
    BY <1>9, <2>1, <2>2
  <2>4. ASSUME NEW k \in DOMAIN q2[i].tasks, NEW l \in DOMAIN q2[i].tasks, k # l
        PROVE  q2[i].tasks[k].day # q2[i].tasks[l].day
    <3>1. \A x, y \in DOMAIN q[g[i]].tasks : x # y => q[g[i]].tasks[x].day # q[g[i]].tasks[y].day
      BY <1>4, <2>2 DEF TasksOK
    <3>2. r[k] \in DOMAIN q[g[i]].tasks /\ r[l] \in DOMAIN q[g[i]].tasks /\ r[k] # r[l]
      BY <2>1, <2>4
    <3> QED
      BY <2>1, <3>1, <3>2
  <2> QED
    BY <2>3, <2>4 DEF TasksOK
<1>12. ASSUME NEW i \in DOMAIN q2, NEW j \in DOMAIN q2, i < j,
              NEW k \in DOMAIN q2[i].tasks, NEW l \in DOMAIN q2[j].tasks,
              q2[i].tasks[k].day = q2[j].tasks[l].day
       PROVE  AllBefore(h, q2[i].tasks[k].lines, q2[j].tasks[l].lines)
  <2>1. g[i] \in DOMAIN q /\ g[j] \in DOMAIN q /\ g[i] < g[j]
    BY <1>10, <1>12
  <2>2. \E x \in DOMAIN q[g[i]].tasks : q2[i].tasks[k] = q[g[i]].tasks[x]
    BY <1>10
  <2>3. \E y \in DOMAIN q[g[j]].tasks : q2[j].tasks[l] = q[g[j]].tasks[y]
    <3>1. PICK r \in [DOMAIN q2[j].tasks -> DOMAIN q[g[j]].tasks] :
            \A x \in DOMAIN q2[j].tasks : q2[j].tasks[x] = q[g[j]].tasks[r[x]]
      BY <1>10
    <3> QED
      BY <3>1
  <2> QED
    BY <1>4, <1>12, <2>1, <2>2, <2>3
<1>13. QueueOK(h, f2, q2)
  BY <1>8, <1>11, <1>12 DEF QueueOK
<1> QED
  BY <1>7, <1>13 DEF f2, t, S

LEMMA Rests ==
  ASSUME NEW q \in Seq(Batch), q # <<>>, q[1].tasks # <<>>
  PROVE  /\ 1 \in DOMAIN q /\ q[1] \in Batch /\ q[1].tasks[1] \in Task
         /\ Tail(q) \in Seq(Batch) /\ RemoveAt(q, 1) = Tail(q) /\ Within(Tail(q), q)
         /\ DOMAIN Tail(q) = 1 .. Len(q) - 1 /\ \A i \in 1 .. Len(q) - 1 : Tail(q)[i] = q[i + 1]
<1> DEFINE n == Len(q)
           T == Tail(q)
<1>1. n \in Nat /\ n # 0 /\ DOMAIN q = 1 .. n /\ 1 \in 1 .. n
  BY LenProperties, EmptySeq
<1>2. T \in Seq(Batch) /\ Len(T) = n - 1 /\ \A i \in 1 .. n - 1 : T[i] = q[i + 1]
  BY HeadTailProperties
<1>3. DOMAIN T = 1 .. n - 1
  BY <1>2, LenProperties
<1>4. q[1] \in Batch
  BY <1>1, ElementOfSeq
<1>5. q[1].tasks[1] \in Task
  <2> DEFINE ts == q[1].tasks
  <2>1. ts \in Seq(Task) /\ ts # <<>>
    BY <1>4 DEF Batch
  <2> HIDE DEF ts
  <2>2. ts[1] \in Task
    BY <2>1, LenProperties, EmptySeq, ElementOfSeq
  <2> QED
    BY <2>2 DEF ts
<1>6. RemoveAt(q, 1) = Tail(q)
  BY <1>1 DEF RemoveAt
<1> HIDE DEF n, T
<1>7. Within(T, q)
  <2> DEFINE g == [i \in 1 .. n - 1 |-> i + 1]
  <2>1. g \in [DOMAIN T -> DOMAIN q] /\ \A i \in DOMAIN T : g[i] = i + 1 /\ i \in Nat /\ i + 1 # 1
    BY <1>1, <1>3
  <2>2. \A i, j \in DOMAIN T : i < j => g[i] < g[j]
    BY <2>1
  <2> HIDE DEF g
  <2>3. ASSUME NEW i \in DOMAIN T
        PROVE  \E r \in [DOMAIN T[i].tasks -> DOMAIN q[g[i]].tasks] :
                 /\ \A k, l \in DOMAIN T[i].tasks : k # l => r[k] # r[l]
                 /\ \A k \in DOMAIN T[i].tasks :
                      T[i].tasks[k] = q[g[i]].tasks[r[k]] /\ (g[i] = 1 => r[k] # 1)
    <3> DEFINE D == DOMAIN T[i].tasks
               r == [k \in D |-> k]
    <3>1. T[i] = q[g[i]] /\ g[i] # 1
      BY <1>2, <1>3, <2>1
    <3>2. r \in [D -> DOMAIN q[g[i]].tasks] /\ \A k \in D : r[k] = k
      BY <3>1
    <3> HIDE DEF r
    <3> QED
      BY <3>1, <3>2
  <2> QED
    BY <2>1, <2>2, <2>3 DEF Within
<1> QED
  BY <1>1, <1>2, <1>3, <1>4, <1>5, <1>6, <1>7 DEF n, T

LEMMA RestsOfBatch ==
  ASSUME NEW q \in Seq(Batch), q # <<>>, q[1].tasks # <<>>,
         NEW q2, q2 = [q EXCEPT ![1].tasks = Tail(q[1].tasks)]
  PROVE  /\ q2 \in Seq(Batch) /\ DOMAIN q2 = DOMAIN q /\ Within(q2, q)
         /\ \A i \in DOMAIN q : i # 1 => q2[i] = q[i]
         /\ q2[1].post = q[1].post /\ q2[1].tasks = Tail(q[1].tasks)
<1> DEFINE n == Len(q)
           ts == q[1].tasks
           rest == Tail(ts)
<1>1. n \in Nat /\ n # 0 /\ DOMAIN q = 1 .. n /\ 1 \in 1 .. n /\ \A i \in 1 .. n : q[i] \in Batch
  BY LenProperties, EmptySeq, ElementOfSeq
<1>2. ts \in Seq(Task) /\ ts # <<>> /\ q[1].post \in Posts \cup {Nobody}
  BY <1>1 DEF Batch
<1> HIDE DEF n, ts
<1>3. rest \in Seq(Task) /\ Len(rest) = Len(ts) - 1 /\ \A k \in 1 .. Len(ts) - 1 : rest[k] = ts[k + 1]
  BY <1>2, HeadTailProperties
<1>4. Len(ts) \in Nat /\ DOMAIN ts = 1 .. Len(ts) /\ DOMAIN rest = 1 .. Len(ts) - 1
  BY <1>2, <1>3, LenProperties
<1> HIDE DEF rest
<1>5. /\ q2 = [i \in 1 .. n |-> IF i = 1 THEN [tasks |-> rest, post |-> q[1].post] ELSE q[i]]
  <2>1. [q[1] EXCEPT !.tasks = rest] = [tasks |-> rest, post |-> q[1].post]
    BY <1>1 DEF Batch
  <2>2. q2 = [i \in 1 .. n |-> IF i = 1 THEN [q[1] EXCEPT !.tasks = rest] ELSE q[i]]
    BY <1>1 DEF rest, ts
  <2> QED
    BY <2>1, <2>2
<1>6. /\ DOMAIN q2 = 1 .. n
      /\ q2[1] = [tasks |-> rest, post |-> q[1].post]
      /\ \A i \in 1 .. n : i # 1 => q2[i] = q[i]
  BY <1>1, <1>5
<1>7. q2[1].tasks = rest /\ q2[1].post = q[1].post /\ q2[1] \in Batch
  BY <1>2, <1>3, <1>6 DEF Batch
<1>8. q2 \in Seq(Batch)
  <2>1. \A i \in 1 .. n : q2[i] \in Batch
    BY <1>1, <1>6, <1>7
  <2>2. q2 \in [1 .. n -> Batch]
    <3>1. \E body : q2 = [i \in 1 .. n |-> body[i]]
      <4>1. q2 = [i \in 1 .. n |-> q2[i]]
        BY <1>5
      <4> QED
        BY <4>1
    <3> QED
      BY <1>6, <2>1, <3>1
  <2> QED
    BY <1>1, <2>2, SeqDef
<1>9. Within(q2, q)
  <2> DEFINE g == [i \in 1 .. n |-> i]
  <2>1. g \in [DOMAIN q2 -> DOMAIN q] /\ \A i \in DOMAIN q2 : g[i] = i /\ i \in Nat
    BY <1>1, <1>6
  <2>2. \A i, j \in DOMAIN q2 : i < j => g[i] < g[j]
    BY <2>1
  <2> HIDE DEF g
  <2>3. ASSUME NEW i \in DOMAIN q2
        PROVE  \E r \in [DOMAIN q2[i].tasks -> DOMAIN q[g[i]].tasks] :
                 /\ \A k, l \in DOMAIN q2[i].tasks : k # l => r[k] # r[l]
                 /\ \A k \in DOMAIN q2[i].tasks :
                      q2[i].tasks[k] = q[g[i]].tasks[r[k]] /\ (g[i] = 1 => r[k] # 1)
    <3> DEFINE D == DOMAIN q2[i].tasks
               r == [k \in D |-> IF i = 1 THEN k + 1 ELSE k]
    <3>1. g[i] = i
      BY <2>1
    <3>2. /\ r \in [D -> DOMAIN q[i].tasks]
          /\ \A k, l \in D : k # l => r[k] # r[l]
          /\ \A k \in D : q2[i].tasks[k] = q[i].tasks[r[k]] /\ (i = 1 => r[k] # 1)
      <4>1. CASE i = 1
        <5>1. D = 1 .. Len(ts) - 1 /\ DOMAIN q[i].tasks = 1 .. Len(ts)
          BY <1>4, <1>7, <4>1 DEF ts
        <5>2. \A k \in D : r[k] = k + 1 /\ k \in Nat /\ k + 1 # 1
          BY <4>1, <5>1
        <5>3. \A k \in D : q2[i].tasks[k] = q[i].tasks[k + 1]
          BY <1>3, <1>7, <4>1, <5>1 DEF ts
        <5>4. \A k \in D : k + 1 \in DOMAIN q[i].tasks
          BY <1>4, <5>1
        <5>5. r \in [D -> DOMAIN q[i].tasks]
          BY <4>1, <5>4
        <5> HIDE DEF r, D
        <5>6. \A k, l \in D : k # l => r[k] # r[l]
          BY <5>2
        <5>7. \A k \in D : q2[i].tasks[k] = q[i].tasks[r[k]] /\ (i = 1 => r[k] # 1)
          BY <5>2, <5>3
        <5> QED
          BY <5>5, <5>6, <5>7
      <4>2. CASE i # 1
        <5>1. q2[i] = q[i]
          BY <1>6, <4>2
        <5>2. \A k \in D : r[k] = k
          BY <4>2
        <5>3. r \in [D -> DOMAIN q[i].tasks]
          BY <4>2, <5>1
        <5> HIDE DEF r
        <5> QED
          BY <4>2, <5>1, <5>2, <5>3
      <4> QED
        BY <4>1, <4>2
    <3> HIDE DEF r
    <3> QED
      BY <3>1, <3>2
  <2> QED
    BY <2>1, <2>2, <2>3 DEF Within
<1> QED
  BY <1>1, <1>6, <1>7, <1>8, <1>9 DEF rest, ts

----------------------------------------------------------------------------
(* What an append does to the files.                                       *)

LEMMA LongerHas ==
  ASSUME NEW S, NEW s \in Seq(S), NEW new \in Seq(S), NEW x \in S,
         NEW F, F \in {s \o new, Append(s \o new, x)}
  PROVE  ToSet(s) \subseteq ToSet(F) /\ ToSet(new) \subseteq ToSet(F)
<1> DEFINE m == Len(s)
           n == Len(new)
           r == s \o new
<1>1. m \in Nat /\ n \in Nat /\ DOMAIN s = 1 .. m /\ DOMAIN new = 1 .. n
  BY LenProperties
<1>2. r \in Seq(S) /\ Len(r) = m + n
      /\ \A i \in 1 .. m + n : r[i] = IF i <= m THEN s[i] ELSE new[i - m]
  BY ConcatProperties
<1>3. DOMAIN r = 1 .. m + n
  BY <1>2, LenProperties
<1> HIDE DEF m, n, r
<1>4. \A i \in 1 .. m + n : i \in DOMAIN F /\ F[i] = r[i]
  <2>1. CASE F = r
    BY <1>3, <2>1
  <2>2. CASE F = Append(r, x)
    BY <1>1, <1>2, <2>2
  <2> QED
    BY <2>1, <2>2 DEF r
<1>5. \A i \in DOMAIN s : i \in DOMAIN F /\ F[i] = s[i]
  <2> SUFFICES ASSUME NEW i \in 1 .. m PROVE i \in DOMAIN F /\ F[i] = s[i]
    BY <1>1
  <2>1. i \in 1 .. m + n /\ i <= m
    BY <1>1
  <2> QED
    BY <1>2, <1>4, <2>1
<1>6. \A i \in DOMAIN new : m + i \in DOMAIN F /\ F[m + i] = new[i]
  <2> SUFFICES ASSUME NEW i \in 1 .. n PROVE m + i \in DOMAIN F /\ F[m + i] = new[i]
    BY <1>1
  <2>1. m + i \in 1 .. m + n /\ ~(m + i <= m) /\ (m + i) - m = i
    BY <1>1
  <2> QED
    BY <1>2, <1>4, <2>1
<1>7. \A e \in ToSet(s) : e \in ToSet(F)
  BY <1>5 DEF ToSet
<1>8. \A e \in ToSet(new) : e \in ToSet(F)
  BY <1>6 DEF ToSet
<1> QED
  BY <1>7, <1>8

LEMMA TailIs ==
  ASSUME NEW S, NEW s \in Seq(S), s # <<>>
  PROVE  /\ Tail(s) \in Seq(S) /\ Part(Tail(s), s)
         /\ \A e \in ToSet(s) : e \in ToSet(Tail(s)) \/ e = Head(s)
<1> DEFINE n == Len(s)
           t == Tail(s)
<1>1. n \in Nat /\ n # 0 /\ DOMAIN s = 1 .. n
  BY LenProperties, EmptySeq
<1>2. t \in Seq(S) /\ Len(t) = n - 1 /\ \A i \in 1 .. n - 1 : t[i] = s[i + 1]
  BY HeadTailProperties
<1>3. Head(s) = s[1]
  OBVIOUS
<1>4. DOMAIN t = 1 .. n - 1
  BY <1>2, LenProperties
<1> HIDE DEF n, t
<1>5. Part(t, s)
  <2> DEFINE g == [i \in 1 .. n - 1 |-> i + 1]
  <2>1. g \in [DOMAIN t -> DOMAIN s]
    BY <1>1, <1>4
  <2>2. \A i \in DOMAIN t : g[i] = i + 1 /\ i \in Nat /\ t[i] = s[g[i]]
    BY <1>2, <1>4
  <2> HIDE DEF g
  <2>3. \A i, j \in DOMAIN t : i < j => g[i] < g[j]
    BY <2>2
  <2> QED
    BY <2>1, <2>2, <2>3 DEF Part
<1>6. ASSUME NEW i \in 1 .. n, i # 1 PROVE s[i] \in ToSet(t)
  <2>1. i - 1 \in 1 .. n - 1 /\ (i - 1) + 1 = i
    BY <1>1, <1>6
  <2> QED
    BY <1>2, <1>4, <2>1 DEF ToSet
<1> QED
  BY <1>1, <1>2, <1>3, <1>5, <1>6 DEF t, ToSet

LEMMA PartOfPart ==
  ASSUME NEW t, NEW s, NEW r, Part(t, s), Part(s, r)
  PROVE  Part(t, r)
<1>1. PICK g \in [DOMAIN t -> DOMAIN s] :
        /\ \A x, y \in DOMAIN t : x < y => g[x] < g[y]
        /\ \A x \in DOMAIN t : t[x] = s[g[x]]
  BY DEF Part
<1>2. PICK f \in [DOMAIN s -> DOMAIN r] :
        /\ \A x, y \in DOMAIN s : x < y => f[x] < f[y]
        /\ \A x \in DOMAIN s : s[x] = r[f[x]]
  BY DEF Part
<1> DEFINE e == [x \in DOMAIN t |-> f[g[x]]]
<1>3. e \in [DOMAIN t -> DOMAIN r] /\ \A x \in DOMAIN t : e[x] = f[g[x]] /\ g[x] \in DOMAIN s
  BY <1>1, <1>2
<1> HIDE DEF e
<1> QED
  BY <1>1, <1>2, <1>3 DEF Part

(* The first k lines, and new, which are those without the one that is     *)
(* glued to a torn line.                                                   *)
CutInto(lines, k, cut, new) ==
  /\ cut \in Seq(Event)
  /\ new \in Seq(Event) /\ Part(new, lines)
  /\ \A e \in ToSet(cut) : e \in ToSet(new) \/ (cut # <<>> /\ e = Head(cut))
  /\ \A e \in ToSet(lines) : e \in ToSet(cut) \/ e \in ToSet(SubSeq(lines, k + 1, Len(lines)))
  /\ cut # <<>> => lines # <<>> /\ Head(cut) = Head(lines)

LEMMA Cut ==
  ASSUME NEW lines \in Seq(Event), NEW k \in 0 .. Len(lines),
         NEW cut, cut = SubSeq(lines, 1, k), NEW new, new = cut \/ (cut # <<>> /\ new = Tail(cut))
  PROVE  CutInto(lines, k, cut, new)
<1> DEFINE n == Len(lines)
           late == SubSeq(lines, k + 1, n)
<1>1. n \in Nat /\ DOMAIN lines = 1 .. n /\ k \in Nat /\ k <= n /\ \A i \in 1 .. n : lines[i] \in Event
  BY LenProperties
<1>2. cut = [i \in 1 .. k |-> lines[i]]
  <2>1. cut = [i \in 1 .. (1 + k) - 1 |-> lines[(1 + i) - 1]]
    BY <1>1
  <2> QED
    BY <1>1, <2>1
<1>3. late = [i \in 1 .. n - k |-> lines[k + i]]
  <2>1. late = [i \in 1 .. (1 + n) - (k + 1) |-> lines[((k + 1) + i) - 1]]
    BY <1>1
  <2>2. (1 + n) - (k + 1) = n - k /\ \A i \in 1 .. n - k : ((k + 1) + i) - 1 = k + i
    BY <1>1
  <2> QED
    BY <2>1, <2>2
<1> HIDE DEF n, late
<1>4. cut \in Seq(Event) /\ Len(cut) = k /\ DOMAIN cut = 1 .. k /\ \A i \in 1 .. k : cut[i] = lines[i]
  BY <1>1, <1>2
<1>5. \A e \in ToSet(lines) : e \in ToSet(cut) \/ e \in ToSet(late)
  <2> SUFFICES ASSUME NEW i \in 1 .. n PROVE lines[i] \in ToSet(cut) \/ lines[i] \in ToSet(late)
    BY <1>1 DEF ToSet
  <2>1. CASE i <= k
    <3>1. i \in 1 .. k
      BY <1>1, <2>1
    <3> QED
      BY <1>4, <3>1 DEF ToSet
  <2>2. CASE ~(i <= k)
    <3>1. i - k \in 1 .. n - k /\ k + (i - k) = i
      BY <1>1, <2>2
    <3>2. i - k \in DOMAIN late /\ late[i - k] = lines[i]
      BY <1>3, <3>1
    <3> QED
      BY <3>2 DEF ToSet
  <2> QED
    BY <2>1, <2>2
<1>6. Part(cut, lines)
  <2> DEFINE g == [i \in 1 .. k |-> i]
  <2>1. g \in [DOMAIN cut -> DOMAIN lines] /\ \A i \in DOMAIN cut : g[i] = i /\ cut[i] = lines[i]
    BY <1>1, <1>4
  <2> HIDE DEF g
  <2>2. \A i, j \in DOMAIN cut : i < j => g[i] < g[j]
    BY <2>1
  <2>3. \A i \in DOMAIN cut : cut[i] = lines[g[i]]
    BY <2>1
  <2> QED
    BY <2>1, <2>2, <2>3, Zenon DEF Part
<1>7. cut # <<>> => lines # <<>> /\ Head(cut) = Head(lines)
  BY <1>1, <1>4 DEF n
<1>8. CASE new = cut
  BY <1>4, <1>5, <1>6, <1>7, <1>8 DEF late, n, CutInto
<1>9. CASE cut # <<>> /\ new = Tail(cut)
  <2>1. new = Tail(cut)
    BY <1>9
  <2>2. /\ new \in Seq(Event) /\ Part(new, cut)
        /\ \A e \in ToSet(cut) : e \in ToSet(new) \/ e = Head(cut)
    BY <1>4, <1>9, <2>1, TailIs
  <2>3. Part(new, lines)
    BY <2>2, <1>6, PartOfPart
  <2> QED
    BY <1>4, <1>5, <1>9, <1>7, <2>2, <2>3 DEF late, n, CutInto
<1> QED
  BY <1>8, <1>9

LEMMA PrefixIs ==
  ASSUME LogTypes, NEW t \in Task, NEW k \in 0 .. Len(t.lines), NEW torn \in BOOLEAN, Prefix(t, k, torn)
  PROVE  /\ \E F : file' = [file EXCEPT ![t.day] = F] /\ Longer(F, file[t.day], t.lines)
         /\ Filed \subseteq Filed'
         /\ ToSet(SubSeq(t.lines, 1, k)) \subseteq Filed' \cup Glued(t.day, SubSeq(t.lines, 1, k))
<1> DEFINE d == t.day
           lines == t.lines
           cut == SubSeq(lines, 1, k)
           new == IF d \in open /\ cut # <<>> THEN Tail(cut) ELSE cut
           F == IF torn /\ (k > 0 \/ d \notin open) THEN Append(file[d] \o new, Torn) ELSE file[d] \o new
           S == Event \cup {Torn}
<1>1. d \in Days /\ lines \in Seq(Event)
  BY DEF Task
<1>2. file' = [file EXCEPT ![d] = F]
  BY DEF Prefix, AppendTo
<1>3. file[d] \in Seq(S) /\ file \in [Days -> Seq(S)]
  BY <1>1 DEF LogTypes
<1>4. k \in 0 .. Len(lines)
  OBVIOUS
<1> HIDE DEF d, lines
<1>5. new = cut \/ (cut # <<>> /\ new = Tail(cut))
  OBVIOUS
<1>6. d \notin open => new = cut
  OBVIOUS
<1>7. /\ new \in Seq(Event) /\ Part(new, lines)
      /\ \A e \in ToSet(cut) : e \in ToSet(new) \/ (cut # <<>> /\ e = Head(cut))
  <2>1. cut = SubSeq(lines, 1, k)
    OBVIOUS
  <2> HIDE DEF new, cut
  <2>2. CutInto(lines, k, cut, new)
    BY <1>1, <1>4, <1>5, <2>1, Cut
  <2> QED
    BY <2>2 DEF CutInto
<1>8. F \in {file[d] \o new, Append(file[d] \o new, Torn)}
  OBVIOUS
<1> HIDE DEF F, new
<1>9. Longer(F, file[d], lines)
  BY <1>7, <1>8 DEF Longer
<1>10. ToSet(file[d]) \subseteq ToSet(F) /\ ToSet(new) \subseteq ToSet(F)
  <2>1. new \in Seq(S) /\ Torn \in S
    BY <1>7, SeqMonotonic
  <2> HIDE DEF S
  <2> QED
    BY <1>3, <1>8, <2>1, LongerHas
<1>11. file'[d] = F /\ \A c \in Days : c # d => file'[c] = file[c]
  BY <1>1, <1>2, <1>3
<1>0. /\ \A e : e \in Filed <=> e # Torn /\ \E c \in Days : e \in ToSet(file[c])
      /\ \A e : e \in Filed' <=> e # Torn /\ \E c \in Days : e \in ToSet(file'[c])
  <2>1. Filed = (UNION {ToSet(file[c]) : c \in Days}) \ {Torn}
    BY DEF Filed
  <2>2. Filed' = (UNION {ToSet(file'[c]) : c \in Days}) \ {Torn}
    BY DEF Filed
  <2> QED
    BY <2>1, <2>2, Zenon
<1>12. Filed \subseteq Filed'
  <2> SUFFICES ASSUME NEW e, e # Torn, NEW c \in Days, e \in ToSet(file[c])
               PROVE  \E b \in Days : e \in ToSet(file'[b])
    BY <1>0
  <2>1. CASE c = d
    BY <1>1, <1>10, <1>11, <2>1
  <2>2. CASE c # d
    BY <1>11, <2>2
  <2> QED
    BY <2>1, <2>2
<1>13. ASSUME NEW e \in ToSet(cut) PROVE e \in Filed' \cup Glued(d, cut)
  <2>1. CASE e \in ToSet(new)
    <3>1. e \in ToSet(file'[d])
      BY <1>10, <1>11, <2>1
    <3>2. e \in Event
      BY <1>7, <2>1, LenProperties, ElementOfSeq DEF ToSet
    <3>3. e # Torn
      BY <3>2, LogAssumption
    <3> QED
      BY <1>0, <1>1, <3>1, <3>3
  <2>2. CASE e \notin ToSet(new)
    BY <1>6, <1>7, <2>2 DEF Glued
  <2> QED
    BY <2>1, <2>2
<1> QED
  BY <1>2, <1>9, <1>12, <1>13 DEF d, lines

(* The events of a body.                                                   *)
LEMMA ValidIs ==
  ASSUME NEW p \in Posts
  PROVE  Valid(Body[p]) \in Seq(Event)
<1> DEFINE s == Body[p]
           I == {i \in DOMAIN s : s[i] # Invalid}
<1>1. s \in Seq(Event \cup {Invalid}) /\ I \in SUBSET DOMAIN s /\ \A i \in I : s[i] # Invalid
  BY LogAssumption
<1> HIDE DEF I, s
<1> DEFINE E == Event \cup {Invalid}
<1>0. s \in Seq(E)
  BY <1>1
<1> HIDE DEF E
<1>2. PICK g \in [DOMAIN At(s, I) -> I] :
        /\ \A x, y \in DOMAIN At(s, I) : x < y => g[x] < g[y]
        /\ \A x \in DOMAIN At(s, I) : At(s, I)[x] = s[g[x]]
  BY <1>0, <1>1, AtIsPart
<1>3. At(s, I) \in Seq(Event \cup {Invalid})
  BY <1>0, <1>1, AtIsPart DEF E
<1> DEFINE v == At(s, I)
<1>4. Len(v) \in Nat /\ v \in [1 .. Len(v) -> Event \cup {Invalid}] /\ DOMAIN v = 1 .. Len(v)
  BY <1>3, LenProperties
<1>5. \A x \in DOMAIN v : v[x] # Invalid
  BY <1>1, <1>2
<1> HIDE DEF v
<1>6. v \in [1 .. Len(v) -> Event]
  BY <1>4, <1>5
<1>7. v \in Seq(Event)
  BY <1>4, <1>6, SeqDef
<1> QED
  BY <1>7 DEF v, Valid, I, s

----------------------------------------------------------------------------
(* The invariant.                                                          *)

LEMMA InitInv == Init => LogInv
<1> SUFFICES ASSUME Init PROVE LogInv
  OBVIOUS
<1>1. /\ queue = <<>> /\ flushLeft = 0 /\ ingested = <<>>
      /\ file = [d \in Days |-> <<>>] /\ posts = [p \in Posts |-> "idle"]
  BY DEF Init
<1>2. \A S : <<>> \in Seq(S)
  OBVIOUS
<1>3. LogTypes
  <2>1. file \in [Days -> Seq(Event \cup {Torn})]
    BY <1>1, <1>2
  <2>2. posts \in [Posts -> {"idle", "waiting", "answered", "refused", "lost"}]
    BY <1>1
  <2> QED
    BY <1>1, <1>2, <2>1, <2>2 DEF LogTypes
<1>4. \A d \in Days : DOMAIN file[d] = {}
  BY <1>1
<1>5. QueueOK(ingested, file, queue)
  <2>1. DOMAIN queue = {}
    BY <1>1
  <2> QED
    BY <1>4, <2>1 DEF QueueOK, Known, Ordered
<1>6. AwaitedOK /\ AnsweredIsFiled
  <2>1. DOMAIN queue = {} /\ \A p \in Posts : posts[p] # "waiting" /\ posts[p] # "answered"
    BY <1>1
  <2> QED
    BY <2>1 DEF AwaitedOK, AnsweredIsFiled
<1> QED
  BY <1>3, <1>5, <1>6 DEF LogInv

(* The append of the first task.                                           *)
LEMMA Appended ==
  ASSUME LogInv, queue # <<>>, NEW torn \in BOOLEAN, NEW k \in 0 .. Len(TaskAt(1).lines),
         Prefix(TaskAt(1), k, torn)
  PROVE  /\ file' \in [Days -> Seq(Event \cup {Torn})]
         /\ \A q2 : Within(q2, queue) => QueueOK(ingested, file', q2)
         /\ Filed \subseteq Filed'
         /\ ToSet(SubSeq(TaskAt(1).lines, 1, k))
              \subseteq Filed' \cup Glued(TaskAt(1).day, SubSeq(TaskAt(1).lines, 1, k))
         /\ TaskAt(1) = queue[1].tasks[1] /\ TaskAt(1) \in Task
<1>1. queue \in Seq(Batch) /\ 1 \in DOMAIN queue /\ queue[1] \in Batch /\ queue[1].tasks # <<>>
  BY LenProperties, EmptySeq, ElementOfSeq DEF LogInv, LogTypes
<1>2. TaskAt(1) = queue[1].tasks[1] /\ TaskAt(1) \in Task
  <2> DEFINE ts == queue[1].tasks
  <2>1. ts \in Seq(Task) /\ ts # <<>>
    BY <1>1 DEF Batch
  <2>2. TaskAt(1) = Head(ts)
    BY DEF TaskAt
  <2> HIDE DEF ts
  <2>3. Head(ts) = ts[1] /\ ts[1] \in Task
    BY <2>1, LenProperties, EmptySeq, ElementOfSeq
  <2> QED
    BY <2>2, <2>3 DEF ts
<1> DEFINE t == TaskAt(1)
<1> HIDE DEF t
<1>3. t \in Task /\ k \in 0 .. Len(t.lines) /\ Prefix(t, k, torn) /\ LogTypes
  BY <1>2 DEF t, LogInv
<1>4. /\ \E F : file' = [file EXCEPT ![t.day] = F] /\ Longer(F, file[t.day], t.lines)
      /\ Filed \subseteq Filed'
      /\ ToSet(SubSeq(t.lines, 1, k)) \subseteq Filed' \cup Glued(t.day, SubSeq(t.lines, 1, k))
  BY <1>3, PrefixIs
<1>5. PICK F : file' = [file EXCEPT ![t.day] = F] /\ Longer(F, file[t.day], t.lines)
  BY <1>4
<1>6. /\ file \in [Days -> Seq(Event \cup {Torn})]
      /\ QueueOK(ingested, file, queue) /\ t = queue[1].tasks[1]
  BY <1>2 DEF LogInv, LogTypes, t
<1>7. ASSUME NEW q2, Within(q2, queue)
      PROVE  file' \in [Days -> Seq(Event \cup {Torn})] /\ QueueOK(ingested, file', q2)
  BY <1>1, <1>5, <1>6, <1>7, WriteOrder
<1>8. Within(<<>>, queue)
  <2> DEFINE e == <<>>
  <2>1. DOMAIN e = {}
    OBVIOUS
  <2> DEFINE g == [i \in {} |-> i]
  <2>2. g \in [DOMAIN e -> DOMAIN queue]
    BY <2>1
  <2> HIDE DEF e, g
  <2>3. Within(e, queue)
    BY <2>1, <2>2 DEF Within
  <2> QED
    BY <2>3 DEF e
<1> QED
  BY <1>2, <1>4, <1>7, <1>8 DEF t

(* The first batch is over: its events are on disk or damaged.             *)
LEMMA Over ==
  ASSUME LogInv, queue # <<>>, BatchOver(1), Filed \cup damaged \subseteq Filed' \cup damaged',
         \A k \in DOMAIN queue[1].tasks : ToSet(queue[1].tasks[k].lines) \subseteq Filed' \cup damaged'
  PROVE  AwaitedOK' /\ AnsweredIsFiled'
<1> DEFINE first == queue[1].post
           n == Len(queue)
<1>1. /\ queue \in Seq(Batch) /\ queue[1].tasks # <<>>
      /\ posts \in [Posts -> {"idle", "waiting", "answered", "refused", "lost"}]
  BY LenProperties, EmptySeq DEF LogInv, LogTypes
<1>2. /\ n \in Nat /\ 1 \in DOMAIN queue /\ DOMAIN queue = 1 .. n /\ queue' = Tail(queue)
      /\ DOMAIN queue' = 1 .. n - 1 /\ \A i \in 1 .. n - 1 : queue'[i] = queue[i + 1]
      /\ \A i \in DOMAIN queue : queue[i].post \in Posts \cup {Nobody}
  <2>1. RemoveAt(queue, 1) = Tail(queue) /\ 1 \in DOMAIN queue /\ DOMAIN Tail(queue) = 1 .. n - 1
        /\ \A i \in 1 .. n - 1 : Tail(queue)[i] = queue[i + 1]
    BY <1>1, Rests
  <2>2. queue' = RemoveAt(queue, 1)
    BY DEF BatchOver
  <2>3. n \in Nat /\ DOMAIN queue = 1 .. n /\ \A i \in 1 .. n : queue[i] \in Batch
    BY <1>1, LenProperties, ElementOfSeq
  <2>4. \A i \in DOMAIN queue : queue[i].post \in Posts \cup {Nobody}
    BY <2>3 DEF Batch
  <2> QED
    BY <2>1, <2>2, <2>3, <2>4
<1>3. /\ \A i \in DOMAIN queue : queue[i].post # Nobody => posts[queue[i].post] = "waiting"
      /\ \A i, j \in DOMAIN queue : queue[i].post # Nobody /\ i # j => queue[i].post # queue[j].post
      /\ \A p \in Posts : posts[p] = "waiting" =>
           \A e \in ToSet(Valid(Body[p])) : e \in Filed \cup damaged \/ Held(queue, p, e)
      /\ \A p \in Posts : posts[p] = "answered" => ToSet(Valid(Body[p])) \subseteq Filed \cup damaged
  BY DEF LogInv, AwaitedOK, AnsweredIsFiled
<1>4. /\ \A p \in Posts : p # first => posts'[p] = posts[p]
      /\ \A p \in Posts : p = first => posts'[p] = "answered"
  BY <1>1 DEF BatchOver
<1>5. \A i \in 1 .. n - 1 : i + 1 \in DOMAIN queue /\ i + 1 # 1
  BY <1>2
<1>6. \A p \in Posts : p # Nobody
  BY LogAssumption
<1> HIDE DEF n, first
<1>7. ASSUME NEW p \in Posts, NEW e, Held(queue, p, e)
      PROVE  \/ p # first /\ Held(queue', p, e)
             \/ p = first /\ e \in Filed' \cup damaged'
  <2>1. PICK i \in DOMAIN queue : queue[i].post = p /\ \E k \in DOMAIN queue[i].tasks : e \in ToSet(queue[i].tasks[k].lines)
    BY <1>7 DEF Held
  <2>2. CASE i = 1
    BY <2>1, <2>2 DEF first
  <2>3. CASE i # 1
    <3>1. i - 1 \in 1 .. n - 1 /\ (i - 1) + 1 = i
      BY <1>2, <2>3
    <3>2. queue'[i - 1] = queue[i] /\ i - 1 \in DOMAIN queue'
      BY <1>2, <3>1
    <3>3. p # first
      BY <1>2, <1>3, <1>6, <2>1, <2>3 DEF first
    <3> QED
      BY <2>1, <3>2, <3>3 DEF Held
  <2> QED
    BY <2>2, <2>3
<1>8. \A i \in DOMAIN queue' : queue'[i].post # Nobody =>
        posts'[queue'[i].post] = "waiting" /\ queue'[i].post # first
  <2> SUFFICES ASSUME NEW i \in 1 .. n - 1, queue'[i].post # Nobody
               PROVE  posts'[queue'[i].post] = "waiting" /\ queue'[i].post # first
    BY <1>2
  <2>1. queue'[i] = queue[i + 1] /\ queue[i + 1].post # Nobody /\ queue[i + 1].post \in Posts
    BY <1>2, <1>5
  <2>2. queue[i + 1].post # first /\ posts[queue[i + 1].post] = "waiting"
    BY <1>2, <1>3, <1>5, <2>1 DEF first
  <2> QED
    BY <1>4, <2>1, <2>2
<1>9. \A i, j \in DOMAIN queue' : queue'[i].post # Nobody /\ i # j => queue'[i].post # queue'[j].post
  <2> SUFFICES ASSUME NEW i \in 1 .. n - 1, NEW j \in 1 .. n - 1, queue'[i].post # Nobody, i # j
               PROVE  queue'[i].post # queue'[j].post
    BY <1>2
  <2>1. queue'[i] = queue[i + 1] /\ queue'[j] = queue[j + 1] /\ i + 1 # j + 1
    BY <1>2
  <2> QED
    BY <1>3, <1>5, <2>1
<1>10. \A p \in Posts : posts'[p] = "waiting" =>
         \A e \in ToSet(Valid(Body[p])) : e \in Filed' \cup damaged' \/ Held(queue', p, e)
  <2> SUFFICES ASSUME NEW p \in Posts, posts'[p] = "waiting", NEW e \in ToSet(Valid(Body[p]))
               PROVE  e \in Filed' \cup damaged' \/ Held(queue', p, e)
    OBVIOUS
  <2>1. posts[p] = "waiting"
    BY <1>4
  <2>2. e \in Filed \cup damaged \/ Held(queue, p, e)
    BY <1>3, <2>1
  <2> QED
    BY <1>7, <2>2
<1>11. \A p \in Posts : posts'[p] = "answered" => ToSet(Valid(Body[p])) \subseteq Filed' \cup damaged'
  <2> SUFFICES ASSUME NEW p \in Posts, posts'[p] = "answered", NEW e \in ToSet(Valid(Body[p]))
               PROVE  e \in Filed' \cup damaged'
    OBVIOUS
  <2>1. CASE posts[p] = "answered"
    BY <1>3, <2>1
  <2>2. CASE posts[p] # "answered"
    <3>1. p = first
      BY <1>4, <2>2
    <3>2. posts[p] = "waiting"
      BY <1>2, <1>3, <1>6, <3>1 DEF first
    <3>3. e \in Filed \cup damaged \/ Held(queue, p, e)
      BY <1>3, <3>2
    <3> QED
      BY <1>7, <3>1, <3>3
  <2> QED
    BY <2>1, <2>2
<1> QED
  BY <1>8, <1>9, <1>10, <1>11 DEF AwaitedOK, AnsweredIsFiled

LEMMA OverTypes ==
  ASSUME LogInv, queue # <<>>, BatchOver(1), ingested' = ingested,
         file' \in [Days -> Seq(Event \cup {Torn})],
         \A q2 : Within(q2, queue) => QueueOK(ingested, file', q2)
  PROVE  LogTypes' /\ QueueOK(ingested', file', queue')
<1>1. /\ queue \in Seq(Batch) /\ (\A i \in DOMAIN queue : queue[i].tasks # <<>>) /\ flushLeft \in Nat
      /\ posts \in [Posts -> {"idle", "waiting", "answered", "refused", "lost"}]
      /\ ingested \in Seq(Event) /\ queue[1].tasks # <<>>
  BY LenProperties, EmptySeq DEF LogInv, LogTypes
<1>2. queue' = RemoveAt(queue, 1)
  BY DEF BatchOver
<1>3. /\ queue' \in Seq(Batch) /\ Within(queue', queue)
      /\ Len(queue) \in Nat /\ DOMAIN queue = 1 .. Len(queue)
      /\ DOMAIN queue' = 1 .. Len(queue) - 1 /\ \A i \in 1 .. Len(queue) - 1 : queue'[i] = queue[i + 1]
  BY <1>1, <1>2, Rests, LenProperties
<1> DEFINE n == Len(queue)
<1> HIDE DEF n
<1>4. \A i \in DOMAIN queue' : queue'[i].tasks # <<>>
  <2>1. \A i \in 1 .. n - 1 : i + 1 \in 1 .. n
    BY <1>3 DEF n
  <2> QED
    BY <1>1, <1>3, <2>1 DEF n
<1>5. flushLeft' \in Nat
  BY <1>1 DEF BatchOver
<1>6. posts' \in [Posts -> {"idle", "waiting", "answered", "refused", "lost"}]
  BY <1>1 DEF BatchOver
<1> QED
  BY <1>1, <1>3, <1>4, <1>5, <1>6 DEF LogTypes

(* The tasks of the first batch: the one under way, and the rest.          *)
LEMMA FirstTasks ==
  ASSUME LogInv, queue # <<>>
  PROVE  /\ queue[1].tasks \in Seq(Task) /\ queue[1].tasks # <<>> /\ 1 \in DOMAIN queue
         /\ TaskAt(1) = queue[1].tasks[1] /\ RestOf(1) = Tail(queue[1].tasks)
         /\ \A k \in DOMAIN queue[1].tasks :
              k = 1 \/ (k - 1 \in DOMAIN RestOf(1) /\ RestOf(1)[k - 1] = queue[1].tasks[k])
         /\ TaskAt(1).lines \in Seq(Event)
<1> DEFINE ts == queue[1].tasks
           n == Len(ts)
<1>1. queue \in Seq(Batch) /\ 1 \in DOMAIN queue /\ queue[1] \in Batch /\ ts # <<>>
  BY LenProperties, EmptySeq, ElementOfSeq DEF LogInv, LogTypes
<1>2. ts \in Seq(Task)
  BY <1>1 DEF Batch
<1>3. TaskAt(1) = Head(ts) /\ RestOf(1) = Tail(ts)
  BY DEF TaskAt, RestOf
<1> HIDE DEF ts
<1>4. Head(ts) = ts[1] /\ ts[1] \in Task
  BY <1>1, <1>2, LenProperties, EmptySeq, ElementOfSeq
<1>5. /\ n \in Nat /\ DOMAIN ts = 1 .. n /\ DOMAIN Tail(ts) = 1 .. n - 1
      /\ \A i \in 1 .. n - 1 : Tail(ts)[i] = ts[i + 1]
  <2>1. n \in Nat /\ DOMAIN ts = 1 .. n
    BY <1>2, LenProperties
  <2>2. Tail(ts) \in Seq(Task) /\ Len(Tail(ts)) = n - 1 /\ \A i \in 1 .. Len(Tail(ts)) : Tail(ts)[i] = ts[i + 1]
    BY <1>1, <1>2, HeadTailProperties
  <2> HIDE DEF n
  <2> QED
    BY <2>1, <2>2, LenProperties
<1> HIDE DEF n
<1>6. ASSUME NEW k \in 1 .. n, k # 1 PROVE k - 1 \in 1 .. n - 1 /\ Tail(ts)[k - 1] = ts[k]
  <2>1. k - 1 \in 1 .. n - 1 /\ (k - 1) + 1 = k
    BY <1>5, <1>6
  <2> QED
    BY <1>5, <2>1
<1>7. ts[1].lines \in Seq(Event)
  BY <1>4 DEF Task
<1> QED
  BY <1>1, <1>2, <1>3, <1>4, <1>5, <1>6, <1>7 DEF ts

LEMMA WriteInv ==
  ASSUME LogInv, Write
  PROVE  LogInv'
<1> DEFINE t == TaskAt(1)
           lines == t.lines
           n == Len(lines)
<1>1. /\ queue # <<>> /\ Prefix(t, n, FALSE) /\ damaged' = damaged \cup Glued(t.day, lines)
      /\ IF RestOf(1) = <<>> THEN BatchOver(1)
         ELSE queue' = [queue EXCEPT ![1].tasks = RestOf(1)] /\ UNCHANGED <<flushLeft, posts>>
      /\ ingested' = ingested
  <2>1. PICK i \in UnderWay :
          /\ Prefix(TaskAt(i), Len(TaskAt(i).lines), FALSE)
          /\ damaged' = damaged \cup Glued(TaskAt(i).day, TaskAt(i).lines)
          /\ IF RestOf(i) = <<>> THEN BatchOver(i)
             ELSE queue' = [queue EXCEPT ![i].tasks = RestOf(i)] /\ UNCHANGED <<flushLeft, posts>>
          /\ ingested' = ingested
    BY DEF Write
  <2>2. queue # <<>> /\ i = 1
    BY DEF UnderWay
  <2> QED
    BY <2>1, <2>2
<1>2. lines \in Seq(Event)
  BY <1>1, FirstTasks
<1>3. n \in 0 .. n /\ SubSeq(lines, 1, n) = lines
  BY <1>2, LenProperties, SubSeqFull
<1>4. /\ file' \in [Days -> Seq(Event \cup {Torn})]
      /\ \A q2 : Within(q2, queue) => QueueOK(ingested, file', q2)
      /\ Filed \subseteq Filed' /\ ToSet(lines) \subseteq Filed' \cup Glued(t.day, lines)
  <2>1. Prefix(TaskAt(1), Len(TaskAt(1).lines), FALSE)
        /\ FALSE \in BOOLEAN /\ Len(TaskAt(1).lines) \in 0 .. Len(TaskAt(1).lines)
    BY <1>1, <1>3
  <2>2. /\ file' \in [Days -> Seq(Event \cup {Torn})]
        /\ \A q2 : Within(q2, queue) => QueueOK(ingested, file', q2)
        /\ Filed \subseteq Filed'
        /\ ToSet(SubSeq(lines, 1, n)) \subseteq Filed' \cup Glued(t.day, SubSeq(lines, 1, n))
    BY <1>1, <2>1, Appended
  <2> QED
    BY <1>3, <2>2
<1> DEFINE ts == queue[1].tasks
<1>5. /\ ts \in Seq(Task) /\ ts # <<>> /\ 1 \in DOMAIN queue
      /\ t = ts[1] /\ RestOf(1) = Tail(ts)
      /\ \A k \in DOMAIN ts : k = 1 \/ (k - 1 \in DOMAIN RestOf(1) /\ RestOf(1)[k - 1] = ts[k])
  BY <1>1, FirstTasks
<1>6. Filed \cup damaged \subseteq Filed' \cup damaged' /\ ToSet(lines) \subseteq Filed' \cup damaged'
  BY <1>1, <1>4
<1>7. queue \in Seq(Batch) /\ \A i \in DOMAIN queue : queue[i].tasks # <<>>
  BY DEF LogInv, LogTypes
<1> HIDE DEF t, ts, lines, n
<1>8. CASE RestOf(1) = <<>>
  <2>1. BatchOver(1)
    BY <1>1, <1>8
  <2>2. \A k \in DOMAIN ts : ToSet(ts[k].lines) \subseteq Filed' \cup damaged'
    <3>1. DOMAIN RestOf(1) = {}
      BY <1>8
    <3> QED
      BY <1>5, <1>6, <3>1 DEF lines
  <2>3. AwaitedOK' /\ AnsweredIsFiled'
    BY <1>1, <1>6, <2>1, <2>2, Over DEF ts
  <2>4. LogTypes' /\ QueueOK(ingested', file', queue')
    BY <1>1, <1>4, <2>1, OverTypes
  <2> QED
    BY <2>3, <2>4 DEF LogInv
<1>9. CASE RestOf(1) # <<>>
  <2>1. queue' = [queue EXCEPT ![1].tasks = Tail(queue[1].tasks)] /\ flushLeft' = flushLeft /\ posts' = posts
    BY <1>1, <1>5, <1>9 DEF ts
  <2>2. /\ queue' \in Seq(Batch) /\ DOMAIN queue' = DOMAIN queue /\ Within(queue', queue)
        /\ \A i \in DOMAIN queue : i # 1 => queue'[i] = queue[i]
        /\ queue'[1].post = queue[1].post /\ queue'[1].tasks = RestOf(1)
    BY <1>1, <1>5, <1>7, <2>1, RestsOfBatch DEF ts
  <2>3. LogTypes' /\ QueueOK(ingested', file', queue')
    BY <1>1, <1>4, <1>7, <1>9, <2>1, <2>2 DEF LogInv, LogTypes
  <2>4. \A i \in DOMAIN queue : queue'[i].post = queue[i].post
    BY <2>2
  <2>5. ASSUME NEW p, NEW e, Held(queue, p, e)
        PROVE  Held(queue', p, e) \/ e \in Filed' \cup damaged'
    <3>1. PICK i \in DOMAIN queue : queue[i].post = p /\ \E k \in DOMAIN queue[i].tasks : e \in ToSet(queue[i].tasks[k].lines)
      BY <2>5 DEF Held
    <3>2. CASE i # 1
      BY <2>2, <3>1, <3>2 DEF Held
    <3>3. CASE i = 1
      <4>1. PICK k \in DOMAIN ts : e \in ToSet(ts[k].lines)
        BY <3>1, <3>3 DEF ts
      <4>2. CASE k = 1
        BY <1>5, <1>6, <4>1, <4>2 DEF lines
      <4>3. CASE k # 1
        <5>1. k - 1 \in DOMAIN queue'[1].tasks /\ queue'[1].tasks[k - 1] = ts[k]
          BY <1>5, <2>2, <4>3
        <5> QED
          BY <1>5, <2>2, <3>1, <3>3, <4>1, <5>1 DEF Held
      <4> QED
        BY <4>2, <4>3
    <3> QED
      BY <3>2, <3>3
  <2>6. AwaitedOK'
    <3>1. /\ \A i \in DOMAIN queue : queue[i].post # Nobody => posts[queue[i].post] = "waiting"
          /\ \A i, j \in DOMAIN queue : queue[i].post # Nobody /\ i # j => queue[i].post # queue[j].post
          /\ \A p \in Posts : posts[p] = "waiting" =>
               \A e \in ToSet(Valid(Body[p])) : e \in Filed \cup damaged \/ Held(queue, p, e)
      BY DEF LogInv, AwaitedOK
    <3>2. \A i \in DOMAIN queue' : queue'[i].post # Nobody => posts'[queue'[i].post] = "waiting"
      BY <2>1, <2>2, <2>4, <3>1
    <3>3. \A i, j \in DOMAIN queue' : queue'[i].post # Nobody /\ i # j => queue'[i].post # queue'[j].post
      BY <2>2, <2>4, <3>1
    <3>4. \A p \in Posts : posts'[p] = "waiting" =>
            \A e \in ToSet(Valid(Body[p])) : e \in Filed' \cup damaged' \/ Held(queue', p, e)
      BY <1>6, <2>1, <2>5, <3>1
    <3> QED
      BY <3>2, <3>3, <3>4 DEF AwaitedOK
  <2>7. AnsweredIsFiled'
    <3>1. \A p \in Posts : posts[p] = "answered" => ToSet(Valid(Body[p])) \subseteq Filed \cup damaged
      BY DEF LogInv, AnsweredIsFiled
    <3>2. \A p \in Posts : posts'[p] = "answered" => ToSet(Valid(Body[p])) \subseteq Filed' \cup damaged'
      BY <1>6, <2>1, <3>1
    <3> QED
      BY <3>2 DEF AnsweredIsFiled
  <2> QED
    BY <2>3, <2>6, <2>7 DEF LogInv
<1> QED
  BY <1>8, <1>9

LEMMA WriteFailsInv ==
  ASSUME LogInv, WriteFails
  PROVE  LogInv'
<1>1. PICK torn \in BOOLEAN, k \in 0 .. Len(TaskAt(1).lines) - 1 :
        /\ queue # <<>> /\ Prefix(TaskAt(1), k, torn)
        /\ damaged' = damaged \cup Glued(TaskAt(1).day, TaskAt(1).lines)
             \cup ToSet(SubSeq(TaskAt(1).lines, k + 1, Len(TaskAt(1).lines)))
             \cup UNION {ToSet(RestOf(1)[n].lines) : n \in DOMAIN RestOf(1)}
        /\ BatchOver(1) /\ ingested' = ingested
  BY DEF WriteFails, UnderWay
<1> DEFINE t == TaskAt(1)
           lines == t.lines
           cut == SubSeq(lines, 1, k)
           late == SubSeq(lines, k + 1, Len(lines))
           rest == UNION {ToSet(RestOf(1)[n].lines) : n \in DOMAIN RestOf(1)}
           ts == queue[1].tasks
<1>2. /\ ts \in Seq(Task) /\ t = ts[1] /\ lines \in Seq(Event)
      /\ \A n \in DOMAIN ts : n = 1 \/ (n - 1 \in DOMAIN RestOf(1) /\ RestOf(1)[n - 1] = ts[n])
  BY <1>1, FirstTasks
<1>3. k \in 0 .. Len(lines)
  <2>1. Len(lines) \in Nat
    BY <1>2, LenProperties
  <2> QED
    BY <2>1
<1>4. /\ file' \in [Days -> Seq(Event \cup {Torn})]
      /\ \A q2 : Within(q2, queue) => QueueOK(ingested, file', q2)
      /\ Filed \subseteq Filed' /\ ToSet(cut) \subseteq Filed' \cup Glued(t.day, cut)
  BY <1>1, <1>3, Appended
<1>5. damaged' = damaged \cup Glued(t.day, lines) \cup ToSet(late) \cup rest
  BY <1>1
<1>6. CutInto(lines, k, cut, cut)
  BY <1>2, <1>3, Cut
<1>7. ASSUME NEW e \in ToSet(lines) PROVE e \in Filed' \cup damaged'
  <2>1. e \in ToSet(cut) \/ e \in ToSet(late)
    BY <1>6 DEF CutInto
  <2>2. Glued(t.day, cut) \subseteq Glued(t.day, lines)
    <3>1. cut # <<>> => lines # <<>> /\ Head(cut) = Head(lines)
      BY <1>6 DEF CutInto
    <3> HIDE DEF cut, lines
    <3> QED
      BY <3>1 DEF Glued
  <2> HIDE DEF cut, late, rest
  <2> QED
    BY <1>4, <1>5, <2>1, <2>2
<1>8. \A n \in DOMAIN RestOf(1) : ToSet(RestOf(1)[n].lines) \subseteq damaged'
  <2>1. \A n \in DOMAIN RestOf(1) : ToSet(RestOf(1)[n].lines) \subseteq rest
    OBVIOUS
  <2> HIDE DEF rest
  <2> QED
    BY <1>5, <2>1
<1> HIDE DEF lines, cut, late, rest, ts, t
<1>9. \A n \in DOMAIN ts : ToSet(ts[n].lines) \subseteq Filed' \cup damaged'
  <2> SUFFICES ASSUME NEW n \in DOMAIN ts PROVE ToSet(ts[n].lines) \subseteq Filed' \cup damaged'
    OBVIOUS
  <2>1. CASE n = 1
    BY <1>2, <1>7, <2>1 DEF lines
  <2>2. CASE n # 1
    BY <1>2, <1>8, <2>2
  <2> QED
    BY <2>1, <2>2
<1>10. Filed \cup damaged \subseteq Filed' \cup damaged'
  BY <1>4, <1>5
<1>11. AwaitedOK' /\ AnsweredIsFiled'
  BY <1>1, <1>9, <1>10, Over DEF ts
<1>12. LogTypes' /\ QueueOK(ingested', file', queue')
  BY <1>1, <1>4, OverTypes
<1> QED
  BY <1>11, <1>12 DEF LogInv

(* Recording some events adds the batch that holds them.                   *)
LEMMA Recorded ==
  ASSUME LogInv, NEW ev \in Seq(Event), ev # <<>>, NEW p \in Posts \cup {Nobody}, Record(ev, p)
  PROVE  /\ queue' \in Seq(Batch) /\ \A i \in DOMAIN queue' : queue'[i].tasks # <<>>
         /\ QueueOK(ingested', file, queue') /\ ingested' \in Seq(Event)
         /\ Len(queue) \in Nat /\ DOMAIN queue = 1 .. Len(queue) /\ DOMAIN queue' = 1 .. Len(queue) + 1
         /\ \A i \in DOMAIN queue : queue'[i] = queue[i]
         /\ queue'[Len(queue) + 1].post = p
         /\ \A x, e : Held(queue, x, e) => Held(queue', x, e)
         /\ \A e \in ToSet(ev) : Held(queue', p, e)
<1> DEFINE T == Tasks(ev)
           b == [tasks |-> T, post |-> p]
           n == Len(queue)
<1>1. queue' = Append(queue, b) /\ ingested' = ingested \o ev
  BY DEF Record
<1>2. /\ queue \in Seq(Batch) /\ \A i \in DOMAIN queue : queue[i].tasks # <<>>
      /\ ingested \in Seq(Event) /\ QueueOK(ingested, file, queue)
  BY DEF LogInv, LogTypes
<1>3. /\ T \in Seq(Task) /\ T # <<>>
      /\ \A x \in DOMAIN ev : \E k \in DOMAIN T : ev[x] \in ToSet(T[k].lines)
  BY TasksOf
<1>4. QueueOK(ingested', file, queue')
  BY <1>1, <1>2, RecordOrder
<1>5. ingested' \in Seq(Event)
  BY <1>1, <1>2, Grown
<1> HIDE DEF T
<1>6. b \in Batch /\ b.tasks = T /\ b.post = p
  BY <1>3 DEF Batch
<1>7. n \in Nat /\ DOMAIN queue = 1 .. n
  BY <1>2, LenProperties
<1> HIDE DEF b, n
<1>8. /\ queue' \in Seq(Batch) /\ DOMAIN queue' = 1 .. n + 1
      /\ queue'[n + 1] = b /\ \A i \in 1 .. n : queue'[i] = queue[i]
  <2>1. queue' \in Seq(Batch) /\ Len(queue') = n + 1
        /\ queue'[n + 1] = b /\ \A i \in 1 .. n : queue'[i] = queue[i]
    BY <1>1, <1>2, <1>6, <1>7, AppendProperties DEF n
  <2> QED
    BY <2>1, LenProperties
<1>9. \A i \in 1 .. n + 1 : i = n + 1 \/ i \in 1 .. n
  BY <1>7
<1>10. n + 1 \in 1 .. n + 1 /\ 1 .. n \subseteq 1 .. n + 1
  BY <1>7
<1>11. \A i \in DOMAIN queue' : queue'[i].tasks # <<>>
  BY <1>2, <1>3, <1>6, <1>7, <1>8, <1>9
<1>12. ASSUME NEW x, NEW e, Held(queue, x, e) PROVE Held(queue', x, e)
  <2>1. PICK i \in DOMAIN queue : queue[i].post = x /\ \E k \in DOMAIN queue[i].tasks : e \in ToSet(queue[i].tasks[k].lines)
    BY <1>12 DEF Held
  <2>2. i \in DOMAIN queue' /\ queue'[i] = queue[i]
    BY <1>7, <1>8, <1>10
  <2> QED
    BY <2>1, <2>2 DEF Held
<1>13. ASSUME NEW e \in ToSet(ev) PROVE Held(queue', p, e)
  <2>1. PICK k \in DOMAIN T : e \in ToSet(T[k].lines)
    BY <1>3 DEF ToSet
  <2>2. n + 1 \in DOMAIN queue' /\ queue'[n + 1].tasks = T /\ queue'[n + 1].post = p
    BY <1>6, <1>8, <1>10
  <2> QED
    BY <2>1, <2>2 DEF Held
<1> QED
  BY <1>4, <1>5, <1>6, <1>7, <1>8, <1>11, <1>12, <1>13 DEF n

LEMMA IngestInv ==
  ASSUME LogInv, NEW p \in Posts, Ingest(p)
  PROVE  LogInv'
<1> DEFINE ev == Valid(Body[p])
<1>1. /\ LogTypes /\ QueueOK(ingested, file, queue)
      /\ \A i \in DOMAIN queue : queue[i].post # Nobody => posts[queue[i].post] = "waiting"
      /\ \A i, j \in DOMAIN queue : queue[i].post # Nobody /\ i # j => queue[i].post # queue[j].post
      /\ \A x \in Posts : posts[x] = "waiting" =>
           \A e \in ToSet(Valid(Body[x])) : e \in Filed \cup damaged \/ Held(queue, x, e)
      /\ \A x \in Posts : posts[x] = "answered" => ToSet(Valid(Body[x])) \subseteq Filed \cup damaged
  BY DEF LogInv, AwaitedOK, AnsweredIsFiled
<1>2. /\ posts[p] = "idle" /\ file' = file /\ damaged' = damaged /\ flushLeft' = flushLeft
      /\ IF ev = <<>> THEN posts' = [posts EXCEPT ![p] = "refused"] /\ queue' = queue /\ ingested' = ingested
         ELSE posts' = [posts EXCEPT ![p] = "waiting"] /\ Record(ev, p)
  BY DEF Ingest, diskVars
<1>3. Filed' = Filed
  BY <1>2 DEF Filed
<1>4. posts \in [Posts -> {"idle", "waiting", "answered", "refused", "lost"}]
  BY <1>1 DEF LogTypes
<1>5. \A x \in Posts : x # Nobody
  BY LogAssumption
<1>6. \A i \in DOMAIN queue : queue[i].post # p
  BY <1>1, <1>2, <1>5
<1>7. CASE ev = <<>>
  <2>1. /\ posts' = [posts EXCEPT ![p] = "refused"] /\ queue' = queue /\ ingested' = ingested
    BY <1>2, <1>7
  <2>2. /\ \A x \in Posts : posts'[x] = IF x = p THEN "refused" ELSE posts[x]
        /\ posts' \in [Posts -> {"idle", "waiting", "answered", "refused", "lost"}]
    BY <1>4, <2>1
  <2>3. LogTypes'
    BY <1>1, <1>2, <2>1, <2>2 DEF LogTypes
  <2>4. \A i \in DOMAIN queue : queue[i].post \in Posts \cup {Nobody}
    <3>1. \A i \in DOMAIN queue : queue[i] \in Batch
      BY <1>1, LenProperties, ElementOfSeq DEF LogTypes
    <3> QED
      BY <3>1 DEF Batch
  <2>5. AwaitedOK'
    <3>1. \A i \in DOMAIN queue' : queue'[i].post # Nobody => posts'[queue'[i].post] = "waiting"
      BY <1>1, <1>6, <2>1, <2>2, <2>4
    <3>2. \A x \in Posts : posts'[x] = "waiting" =>
            \A e \in ToSet(Valid(Body[x])) : e \in Filed' \cup damaged' \/ Held(queue', x, e)
      BY <1>1, <1>2, <1>3, <2>1, <2>2
    <3> QED
      BY <1>1, <2>1, <3>1, <3>2 DEF AwaitedOK
  <2>6. AnsweredIsFiled'
    <3>1. \A x \in Posts : posts'[x] = "answered" => ToSet(Valid(Body[x])) \subseteq Filed' \cup damaged'
      BY <1>1, <1>2, <1>3, <2>2
    <3> QED
      BY <3>1 DEF AnsweredIsFiled
  <2> QED
    BY <1>1, <1>2, <2>1, <2>3, <2>5, <2>6 DEF LogInv
<1>8. CASE ev # <<>>
  <2>1. posts' = [posts EXCEPT ![p] = "waiting"] /\ Record(ev, p) /\ ev \in Seq(Event)
    BY <1>2, <1>8, ValidIs
  <2>2. /\ \A x \in Posts : posts'[x] = IF x = p THEN "waiting" ELSE posts[x]
        /\ posts' \in [Posts -> {"idle", "waiting", "answered", "refused", "lost"}]
    BY <1>4, <2>1
  <2>3. /\ queue' \in Seq(Batch) /\ \A i \in DOMAIN queue' : queue'[i].tasks # <<>>
        /\ QueueOK(ingested', file, queue') /\ ingested' \in Seq(Event)
        /\ Len(queue) \in Nat /\ DOMAIN queue = 1 .. Len(queue) /\ DOMAIN queue' = 1 .. Len(queue) + 1
        /\ \A i \in DOMAIN queue : queue'[i] = queue[i]
        /\ queue'[Len(queue) + 1].post = p
        /\ \A x, e : Held(queue, x, e) => Held(queue', x, e)
        /\ \A e \in ToSet(ev) : Held(queue', p, e)
    BY <1>8, <2>1, Recorded
  <2>4. LogTypes'
    BY <1>1, <1>2, <2>2, <2>3 DEF LogTypes
  <2>5. \A i \in DOMAIN queue' : i \in DOMAIN queue \/ i = Len(queue) + 1
    BY <2>3
  <2>6. \A i \in DOMAIN queue : queue[i].post \in Posts \cup {Nobody}
    <3>1. \A i \in DOMAIN queue : queue[i] \in Batch
      BY <1>1, LenProperties, ElementOfSeq DEF LogTypes
    <3> QED
      BY <3>1 DEF Batch
  <2>7. AwaitedOK'
    <3>1. \A i \in DOMAIN queue' : queue'[i].post # Nobody => posts'[queue'[i].post] = "waiting"
      BY <1>1, <2>2, <2>3, <2>5, <2>6
    <3>2. \A i, j \in DOMAIN queue' : queue'[i].post # Nobody /\ i # j => queue'[i].post # queue'[j].post
      <4> SUFFICES ASSUME NEW i \in DOMAIN queue', NEW j \in DOMAIN queue', queue'[i].post # Nobody, i # j
                   PROVE  queue'[i].post # queue'[j].post
        OBVIOUS
      <4>1. CASE i \in DOMAIN queue /\ j \in DOMAIN queue
        BY <1>1, <2>3, <4>1
      <4>2. CASE i = Len(queue) + 1 /\ j \in DOMAIN queue
        BY <1>6, <2>3, <4>2
      <4>3. CASE i \in DOMAIN queue /\ j = Len(queue) + 1
        BY <1>6, <2>3, <4>3
      <4> QED
        BY <2>5, <4>1, <4>2, <4>3
    <3>3. \A x \in Posts : posts'[x] = "waiting" =>
            \A e \in ToSet(Valid(Body[x])) : e \in Filed' \cup damaged' \/ Held(queue', x, e)
      <4> SUFFICES ASSUME NEW x \in Posts, posts'[x] = "waiting", NEW e \in ToSet(Valid(Body[x]))
                   PROVE  e \in Filed' \cup damaged' \/ Held(queue', x, e)
        OBVIOUS
      <4>1. CASE x = p
        BY <2>3, <4>1
      <4>2. CASE x # p
        <5>1. e \in Filed \cup damaged \/ Held(queue, x, e)
          BY <1>1, <2>2, <4>2
        <5> QED
          BY <1>2, <1>3, <2>3, <5>1
      <4> QED
        BY <4>1, <4>2
    <3> QED
      BY <3>1, <3>2, <3>3 DEF AwaitedOK
  <2>8. AnsweredIsFiled'
    <3>1. \A x \in Posts : posts'[x] = "answered" => ToSet(Valid(Body[x])) \subseteq Filed' \cup damaged'
      BY <1>1, <1>2, <1>3, <2>2
    <3> QED
      BY <3>1 DEF AnsweredIsFiled
  <2> QED
    BY <1>2, <2>3, <2>4, <2>7, <2>8 DEF LogInv
<1> QED
  BY <1>7, <1>8

LEMMA SameInv ==
  ASSUME LogInv, queue' = queue, flushLeft' \in Nat, file' = file, posts' = posts,
         ingested' = ingested, damaged' = damaged
  PROVE  LogInv'
<1>1. Filed' = Filed
  BY DEF Filed
<1> QED
  BY <1>1 DEF LogInv, LogTypes, AwaitedOK, AnsweredIsFiled

LEMMA IngestLineInv ==
  ASSUME LogInv, NEW e \in Printed \cup Raw, IngestLine(e)
  PROVE  LogInv'
<1>1. /\ file' = file /\ damaged' = damaged /\ flushLeft' = flushLeft /\ posts' = posts
      /\ IF e \in Printed THEN queue' = queue /\ ingested' = ingested ELSE Record(<<e>>, Nobody)
  BY DEF IngestLine, diskVars
<1>2. CASE e \in Printed
  BY <1>1, <1>2, SameInv DEF LogInv, LogTypes
<1>3. CASE e \notin Printed
  <2> DEFINE ev == <<e>>
  <2>1. e \in Event
    BY <1>3, LogAssumption DEF Event
  <2>2. ev \in Seq(Event) /\ ev # <<>>
    BY <2>1
  <2>3. Record(ev, Nobody) /\ Nobody \in Posts \cup {Nobody}
    BY <1>1, <1>3
  <2> HIDE DEF ev
  <2>4. /\ queue' \in Seq(Batch) /\ \A i \in DOMAIN queue' : queue'[i].tasks # <<>>
        /\ QueueOK(ingested', file, queue') /\ ingested' \in Seq(Event)
        /\ Len(queue) \in Nat /\ DOMAIN queue = 1 .. Len(queue) /\ DOMAIN queue' = 1 .. Len(queue) + 1
        /\ \A i \in DOMAIN queue : queue'[i] = queue[i]
        /\ queue'[Len(queue) + 1].post = Nobody
        /\ \A x, c : Held(queue, x, c) => Held(queue', x, c)
    BY <2>2, <2>3, Recorded
  <2>5. LogTypes'
    BY <1>1, <2>4 DEF LogInv, LogTypes
  <2>6. Filed' = Filed
    BY <1>1 DEF Filed
  <2>7. /\ \A i \in DOMAIN queue : queue[i].post # Nobody => posts[queue[i].post] = "waiting"
        /\ \A i, j \in DOMAIN queue : queue[i].post # Nobody /\ i # j => queue[i].post # queue[j].post
        /\ \A x \in Posts : posts[x] = "waiting" =>
             \A c \in ToSet(Valid(Body[x])) : c \in Filed \cup damaged \/ Held(queue, x, c)
        /\ \A x \in Posts : posts[x] = "answered" => ToSet(Valid(Body[x])) \subseteq Filed \cup damaged
    BY DEF LogInv, AwaitedOK, AnsweredIsFiled
  <2>8. \A i \in DOMAIN queue' : i \in DOMAIN queue \/ i = Len(queue) + 1
    BY <2>4
  <2>9. \A i \in DOMAIN queue' : queue'[i].post # Nobody => posts'[queue'[i].post] = "waiting"
    BY <1>1, <2>4, <2>7, <2>8
  <2>10. \A i, j \in DOMAIN queue' : queue'[i].post # Nobody /\ i # j => queue'[i].post # queue'[j].post
    <3> SUFFICES ASSUME NEW i \in DOMAIN queue', NEW j \in DOMAIN queue', queue'[i].post # Nobody, i # j
                 PROVE  queue'[i].post # queue'[j].post
      OBVIOUS
    <3>1. i \in DOMAIN queue
      BY <2>4, <2>8
    <3>2. CASE j \in DOMAIN queue
      BY <2>4, <2>7, <3>1, <3>2
    <3>3. CASE j = Len(queue) + 1
      BY <2>4, <3>1, <3>3
    <3> QED
      BY <2>8, <3>2, <3>3
  <2>11. \A x \in Posts : posts'[x] = "waiting" =>
           \A c \in ToSet(Valid(Body[x])) : c \in Filed' \cup damaged' \/ Held(queue', x, c)
    BY <1>1, <2>4, <2>6, <2>7
  <2>12. \A x \in Posts : posts'[x] = "answered" => ToSet(Valid(Body[x])) \subseteq Filed' \cup damaged'
    BY <1>1, <2>6, <2>7
  <2> QED
    BY <1>1, <2>4, <2>5, <2>9, <2>10, <2>11, <2>12 DEF LogInv, AwaitedOK, AnsweredIsFiled
<1> QED
  BY <1>2, <1>3

LEMMA PostLostInv ==
  ASSUME LogInv, NEW p \in Posts, PostLost(p)
  PROVE  LogInv'
<1>1. /\ posts[p] = "idle" /\ posts' = [posts EXCEPT ![p] = "lost"] /\ queue' = queue
      /\ file' = file /\ damaged' = damaged /\ flushLeft' = flushLeft /\ ingested' = ingested
  BY DEF PostLost, monitorVars, diskVars, historyVars
<1>2. LogTypes /\ posts \in [Posts -> {"idle", "waiting", "answered", "refused", "lost"}]
  BY DEF LogInv, LogTypes
<1>3. /\ \A x \in Posts : posts'[x] = IF x = p THEN "lost" ELSE posts[x]
      /\ posts' \in [Posts -> {"idle", "waiting", "answered", "refused", "lost"}]
  BY <1>1, <1>2
<1>4. LogTypes'
  BY <1>1, <1>2, <1>3 DEF LogTypes
<1>5. \A i \in DOMAIN queue : queue[i].post \in Posts \cup {Nobody}
  <2>1. \A i \in DOMAIN queue : queue[i] \in Batch
    BY <1>2, LenProperties, ElementOfSeq DEF LogTypes
  <2> QED
    BY <2>1 DEF Batch
<1>6. /\ \A i \in DOMAIN queue : queue[i].post # Nobody => posts[queue[i].post] = "waiting"
      /\ \A i, j \in DOMAIN queue : queue[i].post # Nobody /\ i # j => queue[i].post # queue[j].post
      /\ \A x \in Posts : posts[x] = "waiting" =>
           \A c \in ToSet(Valid(Body[x])) : c \in Filed \cup damaged \/ Held(queue, x, c)
      /\ \A x \in Posts : posts[x] = "answered" => ToSet(Valid(Body[x])) \subseteq Filed \cup damaged
  BY DEF LogInv, AwaitedOK, AnsweredIsFiled
<1>7. Filed' = Filed
  BY <1>1 DEF Filed
<1>8. \A i \in DOMAIN queue' : queue'[i].post # Nobody => posts'[queue'[i].post] = "waiting"
  BY <1>1, <1>3, <1>5, <1>6
<1>9. \A x \in Posts : posts'[x] = "waiting" =>
        \A c \in ToSet(Valid(Body[x])) : c \in Filed' \cup damaged' \/ Held(queue', x, c)
  BY <1>1, <1>3, <1>6, <1>7
<1>10. \A x \in Posts : posts'[x] = "answered" => ToSet(Valid(Body[x])) \subseteq Filed' \cup damaged'
  BY <1>1, <1>3, <1>6, <1>7
<1> QED
  BY <1>1, <1>4, <1>6, <1>8, <1>9, <1>10 DEF LogInv, AwaitedOK, AnsweredIsFiled

LEMMA EndInv ==
  ASSUME LogInv, End
  PROVE  LogInv'
<1>1. /\ queue' = <<>> /\ flushLeft' = 0 /\ ingested' = ingested
      /\ posts' = [p \in Posts |-> IF posts[p] = "waiting" THEN "lost" ELSE posts[p]]
      /\ IF queue = <<>> THEN file' = file /\ damaged' = damaged
         ELSE \E k \in 0 .. Len(TaskAt(1).lines), torn \in BOOLEAN :
                /\ Prefix(TaskAt(1), k, torn)
                /\ damaged' = damaged \cup Glued(TaskAt(1).day, SubSeq(TaskAt(1).lines, 1, k))
  BY DEF End, diskVars
<1>2. /\ posts \in [Posts -> {"idle", "waiting", "answered", "refused", "lost"}]
      /\ ingested \in Seq(Event) /\ file \in [Days -> Seq(Event \cup {Torn})]
      /\ QueueOK(ingested, file, queue)
  BY DEF LogInv, LogTypes
<1>3. /\ file' \in [Days -> Seq(Event \cup {Torn})] /\ QueueOK(ingested, file', <<>>)
      /\ Filed \cup damaged \subseteq Filed' \cup damaged'
  <2>0. DOMAIN queue' = {}
    BY <1>1
  <2>1. CASE queue = <<>>
    <3>1. file' = file /\ damaged' = damaged
      BY <1>1, <2>1
    <3>2. Filed' = Filed
      BY <3>1 DEF Filed
    <3> QED
      BY <1>2, <2>1, <3>1, <3>2
  <2>2. CASE queue # <<>>
    <3>1. PICK k \in 0 .. Len(TaskAt(1).lines), torn \in BOOLEAN :
            /\ Prefix(TaskAt(1), k, torn)
            /\ damaged' = damaged \cup Glued(TaskAt(1).day, SubSeq(TaskAt(1).lines, 1, k))
      BY <1>1, <2>2
    <3>2. /\ file' \in [Days -> Seq(Event \cup {Torn})]
          /\ \A q2 : Within(q2, queue) => QueueOK(ingested, file', q2)
          /\ Filed \subseteq Filed'
      BY <2>2, <3>1, Appended
    <3>3. damaged \subseteq damaged'
      BY <3>1
    <3>4. Within(queue', queue)
      <4> DEFINE g == [i \in {} |-> i]
      <4>1. g \in [DOMAIN queue' -> DOMAIN queue]
        BY <2>0
      <4> HIDE DEF g
      <4> QED
        BY <2>0, <4>1 DEF Within
    <3>5. QueueOK(ingested, file', queue')
      BY <3>2, <3>4
    <3> QED
      BY <1>1, <3>2, <3>3, <3>5
  <2> QED
    BY <2>1, <2>2
<1>4. /\ \A x \in Posts : posts'[x] # "waiting" /\ (posts'[x] = "answered" => posts[x] = "answered")
      /\ posts' \in [Posts -> {"idle", "waiting", "answered", "refused", "lost"}]
  BY <1>1, <1>2
<1>5. DOMAIN queue' = {} /\ queue' \in Seq(Batch)
  BY <1>1
<1>6. LogTypes'
  BY <1>1, <1>2, <1>3, <1>4, <1>5 DEF LogTypes
<1>7. AwaitedOK'
  BY <1>4, <1>5 DEF AwaitedOK
<1>8. AnsweredIsFiled'
  <2>1. \A x \in Posts : posts[x] = "answered" => ToSet(Valid(Body[x])) \subseteq Filed \cup damaged
    BY DEF LogInv, AnsweredIsFiled
  <2>2. \A x \in Posts : posts'[x] = "answered" => ToSet(Valid(Body[x])) \subseteq Filed' \cup damaged'
    BY <1>3, <1>4, <2>1
  <2> QED
    BY <2>2 DEF AnsweredIsFiled
<1> QED
  BY <1>1, <1>3, <1>6, <1>7, <1>8 DEF LogInv

LEMMA NextInv == LogInv /\ [Next]_vars => LogInv'
<1> SUFFICES ASSUME LogInv, [Next]_vars PROVE LogInv'
  OBVIOUS
<1>1. ASSUME NEW p \in Posts, Ingest(p) PROVE LogInv'
  BY <1>1, IngestInv
<1>2. ASSUME NEW p \in Posts, PostLost(p) PROVE LogInv'
  BY <1>2, PostLostInv
<1>3. ASSUME NEW e \in Printed \cup Raw, IngestLine(e) PROVE LogInv'
  BY <1>3, IngestLineInv
<1>4. CASE Write
  BY <1>4, WriteInv
<1>5. CASE WriteFails
  BY <1>5, WriteFailsInv
<1>6. CASE Stream \/ StreamCloses \/ Start \/ Close \/ UNCHANGED vars
  <2>1. /\ queue' = queue /\ flushLeft' = flushLeft /\ file' = file /\ posts' = posts
        /\ ingested' = ingested /\ damaged' = damaged
    BY <1>6 DEF Stream, StreamCloses, Start, Close, vars, diskVars, historyVars
  <2> QED
    BY <2>1, SameInv DEF LogInv, LogTypes
<1>7. CASE Stop
  <2>1. /\ queue' = queue /\ flushLeft' = Len(queue) /\ file' = file /\ posts' = posts
        /\ ingested' = ingested /\ damaged' = damaged
    BY <1>7 DEF Stop, diskVars
  <2>2. Len(queue) \in Nat
    BY LenProperties DEF LogInv, LogTypes
  <2> QED
    BY <2>1, <2>2, SameInv
<1>8. CASE Crash \/ Exit
  BY <1>8, EndInv DEF Crash, Exit
<1> QED
  BY <1>1, <1>2, <1>3, <1>4, <1>5, <1>6, <1>7, <1>8 DEF Next

(* Whatever is posted and printed, and whatever fails: the batches still   *)
(* to be written follow, file by file, what is on disk, and a request      *)
(* waits for the one batch that holds its events (NdjsonLogWriter.append,  *)
(* NdjsonLogWriter.ts:61-90).                                              *)
THEOREM LogInvariance == Spec => []LogInv
<1> QED
  BY InitInv, NextInv, PTL DEF Spec

(* An event that a service has its answer for is on disk, or its write is  *)
(* one that failed (the await of the append before the answer).            *)
THEOREM AnsweredOnDisk == Spec => []AnsweredIsFiled
<1>1. LogInv => AnsweredIsFiled
  BY DEF LogInv
<1> QED
  BY <1>1, LogInvariance, PTL

(* Each day's file is in the order in which the events were recorded (the  *)
(* writes are a chain).                                                    *)
THEOREM FilesInOrder == Spec => []FiledInOrder
<1>1. LogInv => FiledInOrder
  BY DEF LogInv, QueueOK, Ordered, Precedes, FiledInOrder
<1> QED
  BY <1>1, LogInvariance, PTL
----------------------------------------------------------------------------
(* What is restored when the monitor starts.                               *)

(* The newest elements of a sequence.                                      *)
NewestOf(s, n, t) ==
  /\ Len(t) = IF n < Len(s) THEN n ELSE Len(s)
  /\ \A i \in 1 .. Len(t) : t[i] = s[(Len(s) - Len(t)) + i]

LEMMA NewestIs ==
  ASSUME NEW X, NEW s \in Seq(X), NEW n \in Nat
  PROVE  Newest(s, n) \in Seq(X) /\ NewestOf(s, n, Newest(s, n))
<1> DEFINE l == Len(s)
           k == IF n < l THEN n ELSE l
           t == SubSeq(s, (l - k) + 1, l)
<1>1. l \in Nat /\ k \in Nat /\ k <= l /\ DOMAIN s = 1 .. l
  OBVIOUS
<1>2. Newest(s, n) = t
  BY DEF Newest
<1> HIDE DEF l, k
<1>3. t \in Seq(X)
  <2>1. \A i \in (l - k) + 1 .. l : s[i] \in X
    BY <1>1
  <2> QED
    BY <1>1, <2>1
<1>4. Len(t) = k
  BY <1>1
<1>5. ASSUME NEW i \in 1 .. k PROVE t[i] = s[(l - k) + i]
  BY <1>1
<1> HIDE DEF t
<1>6. NewestOf(s, n, t)
  BY <1>4, <1>5 DEF NewestOf, k, l
<1> QED
  BY <1>2, <1>3, <1>6, Zenon

LEMMA SameSequence ==
  ASSUME NEW X, NEW s \in Seq(X), NEW t \in Seq(X), Len(s) = Len(t), \A i \in 1 .. Len(s) : s[i] = t[i]
  PROVE  s = t
OBVIOUS

(* The newest of two sequences, one after the other.                       *)
NewestOfBoth(s, t, n) ==
  LET m == n - Len(Newest(t, n))
  IN m \in Nat /\ Newest(s \o t, n) = Newest(s, m) \o Newest(t, n)

LEMMA NewestJoins ==
  ASSUME NEW X, NEW s \in Seq(X), NEW t \in Seq(X), NEW n \in Nat
  PROVE  NewestOfBoth(s, t, n)
<1> DEFINE v == Newest(t, n)
           m == n - Len(v)
           u == Newest(s, m)
           st == s \o t
           w == Newest(st, n)
           uv == u \o v
           a == Len(s)
           b == Len(t)
           c == Len(u)
           d == Len(v)
<1>1. v \in Seq(X) /\ NewestOf(t, n, v)
  BY NewestIs, Zenon
<1>2. /\ st \in Seq(X) /\ Len(st) = a + b
      /\ \A i \in 1 .. a : st[i] = s[i]
      /\ \A i \in 1 .. b : st[a + i] = t[i]
  OBVIOUS
<1>3. w \in Seq(X) /\ NewestOf(st, n, w)
  BY <1>2, NewestIs, Zenon
<1>4. a \in Nat /\ b \in Nat /\ d \in Nat
  BY <1>1
<1>5. d = (IF n < b THEN n ELSE b) /\ \A i \in 1 .. d : v[i] = t[(b - d) + i]
  BY <1>1 DEF NewestOf
<1>6. m = n - d
  OBVIOUS
<1> HIDE DEF v, w, st, a, b, d
<1>7. m \in Nat
  BY <1>4, <1>5, <1>6
<1> HIDE DEF m
<1>8. u \in Seq(X) /\ NewestOf(s, m, u)
  BY <1>7, NewestIs, Zenon
<1>9. c \in Nat /\ c = (IF m < a THEN m ELSE a) /\ \A i \in 1 .. c : u[i] = s[(a - c) + i]
  BY <1>8 DEF NewestOf, a
<1> HIDE DEF u
<1>10. /\ uv \in Seq(X) /\ Len(uv) = c + d
       /\ \A i \in 1 .. c : uv[i] = u[i]
       /\ \A i \in 1 .. d : uv[c + i] = v[i]
  BY <1>1, <1>8 DEF d
<1> HIDE DEF uv, c
<1>11. Len(w) = c + d
  <2>1. Len(w) = IF n < a + b THEN n ELSE a + b
    BY <1>2, <1>3 DEF NewestOf
  <2> QED
    BY <1>4, <1>5, <1>6, <1>9, <2>1
<1>12. ASSUME NEW i \in 1 .. c + d PROVE w[i] = uv[i]
  <2> DEFINE j == ((a + b) - (c + d)) + i
  <2>1. w[i] = st[j]
    BY <1>2, <1>3, <1>11 DEF NewestOf
  <2>2. CASE i <= c
    <3>1. i \in 1 .. c
      BY <1>4, <1>9, <2>2
    <3>2. d = b
      BY <1>4, <1>5, <1>6, <1>9, <3>1
    <3>3. j = (a - c) + i /\ j \in 1 .. a
      BY <1>4, <1>9, <3>1, <3>2
    <3> HIDE DEF j
    <3> QED
      BY <1>2, <1>9, <1>10, <2>1, <3>1, <3>3
  <2>3. CASE i > c
    <3> DEFINE k == i - c
               l == (b - d) + k
    <3>1. i = c + k /\ k \in 1 .. d
      BY <1>4, <1>9, <2>3
    <3>2. d <= b
      BY <1>4, <1>5
    <3>3. CASE d = b
      <4>1. a - c \in Nat
        BY <1>4, <1>9
      <4>2. c = a \/ c < a
        BY <1>4, <1>9
      <4>3. j = (a - c) + (c + k)
        BY <1>4, <1>9, <3>1, <3>3
      <4>4. j = a + k /\ l = k /\ l \in 1 .. b
        BY <1>4, <1>9, <3>1, <3>3, <4>3
      <4> HIDE DEF j, k, l
      <4> QED
        BY <1>2, <1>5, <1>10, <2>1, <3>1, <4>4 DEF l
    <3>4. CASE d < b
      <4>1. c = 0
        BY <1>4, <1>5, <1>6, <1>9, <3>4
      <4>2. j = a + l /\ l \in 1 .. b
        BY <1>4, <1>9, <3>1, <3>2, <4>1
      <4>3. st[j] = t[l]
        BY <1>2, <4>2
      <4>4. v[k] = t[l]
        BY <1>5, <3>1
      <4>5. uv[i] = v[k]
        BY <1>10, <3>1
      <4> QED
        BY <2>1, <4>3, <4>4, <4>5, Zenon
    <3> QED
      BY <1>4, <3>2, <3>3, <3>4
  <2> QED
    BY <1>4, <1>9, <2>2, <2>3
<1>13. w = uv
  BY <1>3, <1>10, <1>11, <1>12, SameSequence
<1> QED
  BY <1>6, <1>7, <1>13, Zenon DEF NewestOfBoth, w, uv, u, m, v, st
(* Without a torn line, all lines are events.                              *)
LEMMA EventsAre ==
  ASSUME NEW X, NEW s \in Seq(X), Torn \notin ToSet(s)
  PROVE  Events(s) = s
<1> DEFINE l == Len(s)
           I == 1 .. l
           t == At(s, I)
<1>1. l \in Nat /\ DOMAIN s = I
  OBVIOUS
<1>2. {i \in DOMAIN s : s[i] # Torn} = I
  BY <1>1 DEF ToSet
<1>3. Events(s) = t
  BY <1>2, Zenon DEF Events
<1> HIDE DEF l
<1>4. ASSUME NEW i \in I PROVE Place(I, i) = i
  <2>1. {j \in I : j <= i} = 1 .. i /\ i \in Nat
    BY <1>1
  <2>2. Cardinality(1 .. i) = i
    BY <2>1, FS_Interval
  <2> QED
    BY <2>1, <2>2 DEF Place
<1>5. Cardinality(I) = l
  BY <1>1, FS_Interval
<1>6. t = [k \in I |-> s[CHOOSE i \in I : Place(I, i) = k]]
  BY <1>5 DEF At
<1> DEFINE Which(k) == CHOOSE i \in I : Place(I, i) = k
<1>7. ASSUME NEW k \in I PROVE Which(k) = k
  <2>1. \E i \in I : Place(I, i) = k
    BY <1>4
  <2>2. Which(k) \in I /\ Place(I, Which(k)) = k
    BY <2>1
  <2> HIDE DEF Which, I
  <2> QED
    BY <1>4, <2>2
<1>8. t = [k \in I |-> s[Which(k)]]
  BY <1>6
<1> HIDE DEF t, Which
<1>9. t = [k \in I |-> s[k]]
  BY <1>7, <1>8
<1>10. t = s
  BY <1>1, <1>9
<1> QED
  BY <1>3, <1>10

LEMMA NewestLines ==
  ASSUME NEW X, NEW s \in Seq(X), NEW n \in Nat
  PROVE  ToSet(Newest(s, n)) \subseteq ToSet(s)
<1> DEFINE t == Newest(s, n)
<1>1. t \in Seq(X) /\ NewestOf(s, n, t)
  BY NewestIs, Zenon
<1> HIDE DEF t
<1>2. \A i \in 1 .. Len(t) : (Len(s) - Len(t)) + i \in 1 .. Len(s)
  BY <1>1 DEF NewestOf
<1>3. \A i \in 1 .. Len(s) : s[i] \in ToSet(s)
  BY DEF ToSet
<1>4. \A i \in 1 .. Len(t) : t[i] \in ToSet(s)
  BY <1>1, <1>2, <1>3 DEF NewestOf
<1>5. ToSet(t) \subseteq ToSet(s)
  BY <1>1, <1>4 DEF ToSet
<1> QED
  BY <1>5 DEF t

(* The files are read from the last to the first.                          *)
Loads(n, f) == f = [k \in 0 .. n |-> IF k = 0 THEN <<>> ELSE Older((LastDay - k) + 1, f[k - 1])]

LEMMA LoadWalks ==
  \E f : /\ f[0] = <<>>
         /\ \A k \in 0 .. LastDay - 1 : f[k + 1] = Older(LastDay - k, f[k])
         /\ LoadRecent = f[LastDay]
<1>0. LastDay \in Nat
  BY LogAssumption
<1> DEFINE N == {n \in Nat : \E f : Loads(n, f)}
<1>1. 0 \in N
  <2> DEFINE f == [k \in 0 .. 0 |-> <<>>]
  <2>1. Loads(0, f)
    BY DEF Loads
  <2> HIDE DEF f
  <2> QED
    BY <2>1
<1>2. ASSUME NEW n \in Nat, n \in N PROVE n + 1 \in N
  <2>1. PICK f : Loads(n, f)
    BY <1>2
  <2> DEFINE g == [k \in 0 .. n + 1 |-> IF k = 0 THEN <<>> ELSE Older((LastDay - k) + 1, f[k - 1])]
  <2>2. ASSUME NEW k \in 0 .. n PROVE g[k] = f[k]
    <3>1. f[k] = IF k = 0 THEN <<>> ELSE Older((LastDay - k) + 1, f[k - 1])
      BY <2>1 DEF Loads
    <3> QED
      BY <3>1
  <2>3. ASSUME NEW k \in 0 .. n + 1, k # 0 PROVE g[k - 1] = f[k - 1]
    <3>1. k - 1 \in 0 .. n
      BY <2>3
    <3> HIDE DEF g
    <3> QED
      BY <2>2, <3>1
  <2>4. \A k \in 0 .. n + 1 : g[k] = IF k = 0 THEN <<>> ELSE Older((LastDay - k) + 1, g[k - 1])
    BY <2>3
  <2>5. g = [k \in 0 .. n + 1 |-> g[k]]
    OBVIOUS
  <2> HIDE DEF g
  <2>6. g = [k \in 0 .. n + 1 |-> IF k = 0 THEN <<>> ELSE Older((LastDay - k) + 1, g[k - 1])]
    BY <2>4, <2>5
  <2>7. Loads(n + 1, g)
    BY <2>6 DEF Loads
  <2> QED
    BY <2>7
<1>3. Nat \subseteq N
  <2> HIDE DEF N
  <2> QED
    BY <1>1, <1>2, UpToAll
<1> DEFINE f == CHOOSE f : Loads(LastDay, f)
<1>4. Loads(LastDay, f)
  BY <1>0, <1>3
<1>5. LoadRecent = f[LastDay]
  BY DEF LoadRecent, Loads
<1> HIDE DEF f
<1>6. \A k \in 0 .. LastDay : f[k] = IF k = 0 THEN <<>> ELSE Older((LastDay - k) + 1, f[k - 1])
  BY <1>4 DEF Loads
<1>7. f[0] = <<>>
  BY <1>0, <1>6
<1>8. ASSUME NEW k \in 0 .. LastDay - 1 PROVE f[k + 1] = Older(LastDay - k, f[k])
  <2>1. k + 1 \in 0 .. LastDay /\ k + 1 # 0 /\ (k + 1) - 1 = k /\ (LastDay - (k + 1)) + 1 = LastDay - k
    BY <1>0
  <2>2. f[k + 1] = Older((LastDay - (k + 1)) + 1, f[(k + 1) - 1])
    BY <1>6, <2>1
  <2> QED
    BY <2>1, <2>2, Zenon
<1> QED
  BY <1>5, <1>7, <1>8
LEMMA Associates ==
  ASSUME NEW X, NEW s \in Seq(X), NEW t \in Seq(X), NEW u \in Seq(X)
  PROVE  /\ (s \o t) \o u = s \o (t \o u)
         /\ t \o u \in Seq(X) /\ s \o <<>> = s /\ <<>> \o s = s /\ <<>> \in Seq(X)
         /\ ToSet(t) \subseteq ToSet((s \o t) \o u)
<1>1. (s \o t) \o u = s \o (t \o u)
  BY SMTT(30)
<1>2. t \o u \in Seq(X) /\ s \o <<>> = s /\ <<>> \o s = s /\ <<>> \in Seq(X)
  OBVIOUS
<1>3. ASSUME NEW i \in 1 .. Len(t) PROVE \E j \in 1 .. Len((s \o t) \o u) : ((s \o t) \o u)[j] = t[i]
  <2> DEFINE st == s \o t
             j == Len(s) + i
  <2>1. st \in Seq(X) /\ j \in 1 .. Len(st) /\ st[j] = t[i]
    OBVIOUS
  <2> HIDE DEF st, j
  <2>2. j \in 1 .. Len(st \o u) /\ (st \o u)[j] = t[i]
    BY <2>1
  <2> QED
    BY <2>2 DEF st
<1>4. (s \o t) \o u \in Seq(X)
  OBVIOUS
<1> DEFINE v == (s \o t) \o u
<1>5. v \in Seq(X) /\ \A i \in 1 .. Len(t) : \E j \in 1 .. Len(v) : v[j] = t[i]
  BY <1>3, <1>4
<1> HIDE DEF v
<1>6. (\A j \in 1 .. Len(v) : v[j] \in ToSet(v)) /\ \A e \in ToSet(t) : \E i \in 1 .. Len(t) : e = t[i]
  BY <1>5 DEF ToSet
<1>7. ToSet(t) \subseteq ToSet(v)
  BY <1>5, <1>6
<1> QED
  BY <1>1, <1>2, <1>7 DEF v

LEMMA LoadIsNewest ==
  ASSUME file \in [Days -> Seq(Event \cup {Torn})], Torn \notin ToSet(FlattenSeq(Tails))
  PROVE  LoadRecent = Newest(FlattenSeq(Tails), logRetentionMax)
<1> DEFINE X == Event \cup {Torn}
           L == LastDay
           R == logRetentionMax
<1>1. L \in Nat /\ R \in Nat
  BY LogAssumption
<1>0. TailLines \in Nat
  BY LogAssumption
<1>2. Tails \in Seq(Seq(X)) /\ Len(Tails) = L /\ \A d \in 1 .. L : Tails[d] = FileTail(d)
  <2>1. ASSUME NEW d \in Days PROVE FileTail(d) \in Seq(X)
    <3>1. file[d] \in Seq(X)
      BY <2>1
    <3> HIDE DEF X
    <3> QED
      BY <1>0, <3>1, NewestIs, Zenon DEF FileTail
  <2>2. Tails \in [Days -> Seq(X)] /\ \A d \in Days : Tails[d] = FileTail(d)
    <3> HIDE DEF X
    <3> QED
      BY <2>1 DEF Tails
  <2> QED
    BY <1>1, <2>2 DEF Days
<1>3. Newest(<<>>, R) = <<>>
  <2>1. <<>> \in Seq(X) /\ Len(<<>>) = 0
    OBVIOUS
  <2>2. Newest(<<>>, R) \in Seq(X) /\ NewestOf(<<>>, R, Newest(<<>>, R))
    BY <1>1, <2>1, NewestIs, Zenon
  <2> DEFINE t == Newest(<<>>, R)
  <2> HIDE DEF t
  <2>3. t \in Seq(X) /\ Len(t) = 0
    BY <1>1, <2>1, <2>2 DEF NewestOf, t
  <2>4. t = <<>>
    BY <2>3
  <2> QED
    BY <2>4 DEF t
<1>4. PICK f : /\ f[0] = <<>>
               /\ \A k \in 0 .. L - 1 : f[k + 1] = Older(L - k, f[k])
               /\ LoadRecent = f[L]
  BY LoadWalks
<1>5. CASE L = 0
  <2>1. Tails = <<>>
    BY <1>2, <1>5
  <2>2. FlattenSeq(Tails) = <<>>
    BY <1>2, <1>5, <2>1 DEF FlattenSeq
  <2>3. LoadRecent = <<>>
    BY <1>4, <1>5
  <2> QED
    BY <1>3, <2>2, <2>3, Zenon
<1>6. CASE L # 0
  <2>1. PICK h : /\ FlattenSeq(Tails) = h[L]
                 /\ h[1] = Tails[1]
                 /\ \A n \in 1 .. L - 1 : h[n + 1] = h[n] \o Tails[n + 1]
    <3> HIDE DEF X, L
    <3> QED
      BY <1>2, <1>6, FlattenSteps
  <2>2. ASSUME NEW n \in 1 .. L PROVE h[n] \in Seq(X)
    <3> HIDE DEF X, L
    <3> QED
      BY <1>2, <2>1, FlattenParts
  <2> DEFINE Unread(k) == IF k = L THEN <<>> ELSE h[L - k]
             Loaded(k, g) == h[L] = Unread(k) \o g /\ f[k] = Newest(g, R)
             S == {k \in 0 .. L : \E g \in Seq(X) : Loaded(k, g)}
  <2>3. ASSUME NEW k \in 0 .. L PROVE Unread(k) \in Seq(X)
    <3>1. <<>> \in Seq(X)
      OBVIOUS
    <3>2. k # L => L - k \in 1 .. L
      BY <1>1
    <3> HIDE DEF X, L
    <3> QED
      BY <2>2, <3>1, <3>2
  <2>4. 0 \in S
    <3>1. h[L] \in Seq(X) /\ Unread(0) = h[L] /\ 0 \in 0 .. L
      BY <1>1, <1>6, <2>2
    <3>2. <<>> \in Seq(X) /\ h[L] = Unread(0) \o <<>>
      BY <3>1
    <3>3. Loaded(0, <<>>)
      BY <1>3, <1>4, <3>2
    <3> HIDE DEF Loaded, X, L
    <3> QED
      BY <3>1, <3>2, <3>3
  <2>5. ASSUME NEW k \in 0 .. L - 1, k \in S PROVE k + 1 \in S
    <3> DEFINE d == L - k
               s == Tails[d]
               a == Unread(k + 1)
    <3>1. k \in Nat /\ d \in 1 .. L /\ k + 1 \in 0 .. L
      BY <1>1
    <3>2. s \in Seq(X) /\ a \in Seq(X)
      BY <1>2, <2>3, <3>1
    <3>3. Unread(k) = a \o s
      <4>1. Unread(k) = h[d]
        BY <1>1, <3>1
      <4>2. CASE d = 1
        <5>1. k + 1 = L /\ a = <<>>
          BY <1>1, <4>2
        <5>2. h[d] = s
          BY <2>1, <4>2
        <5> HIDE DEF a, s
        <5>3. a \o s = s
          BY <3>2, <5>1
        <5> QED
          BY <4>1, <5>2, <5>3, Zenon
      <4>3. CASE d # 1
        <5> DEFINE n == d - 1
        <5>1. n \in 1 .. L - 1 /\ n + 1 = d /\ a = h[n]
          BY <1>1, <3>1, <4>3
        <5> HIDE DEF n, d, a
        <5>2. h[n + 1] = h[n] \o Tails[n + 1]
          BY <2>1, <5>1
        <5> QED
          BY <4>1, <5>1, <5>2, Zenon
      <4> QED
        BY <4>2, <4>3
    <3>4. PICK g \in Seq(X) : Loaded(k, g)
      BY <2>5
    <3> HIDE DEF a, s, X, Unread
    <3>5. h[L] = (a \o s) \o g
      BY <3>3, <3>4, Zenon
    <3>6. /\ h[L] = a \o (s \o g) /\ s \o g \in Seq(X)
          /\ ToSet(s) \subseteq ToSet(h[L])
      <4>1. /\ (a \o s) \o g = a \o (s \o g) /\ s \o g \in Seq(X)
            /\ ToSet(s) \subseteq ToSet((a \o s) \o g)
        BY <3>2, Associates
      <4> QED
        BY <3>5, <4>1, Zenon
    <3>7. Torn \notin ToSet(s)
      BY <2>1, <3>6
    <3> DEFINE m == R - Len(Newest(g, R))
    <3>8. m \in Nat /\ Newest(s \o g, R) = Newest(s, m) \o Newest(g, R)
      <4>1. NewestOfBoth(s, g, R)
        BY <1>1, <3>2, NewestJoins
      <4> QED
        BY <4>1, Zenon DEF NewestOfBoth
    <3> HIDE DEF m
    <3>9. Newest(s, m) \in Seq(X) /\ Torn \notin ToSet(Newest(s, m))
      BY <3>2, <3>7, <3>8, NewestIs, NewestLines
    <3>10. Events(Newest(s, m)) = Newest(s, m)
      BY <3>9, EventsAre, Zenon
    <3>11. f[k + 1] = Older(d, f[k])
      BY <1>4
    <3>12. f[k] = Newest(g, R)
      BY <3>4
    <3>13. f[k + 1] = Events(Newest(s, m)) \o Newest(g, R)
      <4>1. s = FileTail(d)
        BY <1>2, <3>1 DEF s
      <4> QED
        BY <3>11, <3>12, <4>1, Zenon DEF Older, Picked, m
    <3>14. f[k + 1] = Newest(s \o g, R)
      BY <3>8, <3>10, <3>13, Zenon
    <3>15. Loaded(k + 1, s \o g)
      BY <3>6, <3>14, Zenon DEF a
    <3> HIDE DEF Loaded
    <3> QED
      BY <3>1, <3>6, <3>15
  <2>6. L \in S
    <3> DEFINE z == 0
    <3> HIDE DEF S, X
    <3>1. z \in S /\ z \in Int /\ L \in Int /\ \A k \in z .. L - 1 : k \in S => k + 1 \in S
      BY <1>1, <2>4, <2>5
    <3> HIDE DEF z, L
    <3>2. z .. L \subseteq S
      BY <3>1, StepByStep
    <3> QED
      BY <1>1, <3>2 DEF z
  <2>7. PICK g \in Seq(X) : h[L] = <<>> \o g /\ f[L] = Newest(g, R)
    BY <2>6
  <2>8. h[L] = g
    BY <2>7
  <2> QED
    BY <1>4, <2>1, <2>7, <2>8, Zenon
<1> QED
  BY <1>5, <1>6

(* After a restart the memory holds the newest events of the files' tails, *)
(* of however many days, unless a torn line takes the place of one         *)
(* (NdjsonLogWriter.loadRecent and _readFileTailEvents,                    *)
(* NdjsonLogWriter.ts:94-151).                                             *)
THEOREM RestoredNewest == Spec => RestoreIsNewest
<1> DEFINE Restored ==
             LET all == FlattenSeq(Tails)
             IN Torn \notin ToSet(all) => logs' = Newest(all, logRetentionMax)
<1>1. LogInv /\ Start => Restored
  <2> SUFFICES ASSUME LogInv, Start, Torn \notin ToSet(FlattenSeq(Tails))
               PROVE logs' = Newest(FlattenSeq(Tails), logRetentionMax)
    OBVIOUS
  <2>1. logs' = LoadRecent
    BY DEF Start
  <2>2. file \in [Days -> Seq(Event \cup {Torn})]
    BY DEF LogInv, LogTypes
  <2> QED
    BY <2>1, <2>2, LoadIsNewest, Zenon
<1>2. LogInv /\ [Next]_vars => [Start => Restored]_vars
  BY <1>1
<1> QED
  BY <1>2, LogInvariance, PTL DEF Spec, RestoreIsNewest
=============================================================================
