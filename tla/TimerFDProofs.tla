---------------------------- MODULE TimerFDProofs ----------------------------
(***************************************************************************)
(* Proofs about TimerFD for any timers and durations: the timerfd is set   *)
(* for the first timer, every armed timer has one entry in the queue, and  *)
(* timers expire as they were armed.                                       *)
(***************************************************************************)
EXTENDS TimerFD, FiniteSetTheorems, SequenceTheorems, TLAPS

\* More time than a leaf has by default.
USE SMTT(30), ZenonT(30)

Entries == [at : Nat \ {0}, timer : Timers]

Sorted(q) == \A i, j \in 1..Len(q) : i < j => q[i].at <= q[j].at

\* The queue has exactly the armed timers, once each, for when they are due.
Exact(q, a, d) ==
    /\ \A i \in 1..Len(q) : a[q[i].timer] /\ d[q[i].timer] = q[i].at
    /\ \A i, j \in 1..Len(q) : q[i].timer = q[j].timer => i = j
    /\ \A t \in Timers : a[t] => \E i \in 1..Len(q) : q[i].timer = t
    /\ \A t \in Timers : ~a[t] => d[t] = 0

\* The queue, the timerfd, Timer::armed and what the clients expect.
Consistent(q, fd, a, d) ==
    /\ q \in Seq(Entries) /\ fd \in Nat
    /\ a \in [Timers -> BOOLEAN] /\ d \in [Timers -> Nat]
    /\ Sorted(q) /\ Exact(q, a, d)

ForFirst(s) == s.fd = IF s.queue = <<>> THEN 0 ELSE s.queue[1].at

\* What an operation makes of a queue and a timerfd.
Becomes(s, new, a, d) ==
    \E q \in Seq(Entries), fd \in Nat :
        /\ new = State(q, fd) /\ Consistent(q, fd, a, d)
        /\ ForFirst(s) => ForFirst(new)

-----------------------------------------------------------------------------
(* The operations on the queue.                                             *)

\* The members of an entry.
LEMMA EntryTypes ==
    ASSUME NEW q \in Seq(Entries)
    PROVE  /\ Len(q) \in Nat
           /\ \A i \in 1..Len(q) :
                /\ q[i] \in Entries /\ q[i].timer \in Timers
                /\ q[i].at \in Nat /\ q[i].at # 0
<1>1. \A i \in 1..Len(q) : q[i] \in Entries
  OBVIOUS
<1> QED
  BY <1>1 DEF Entries

\* What insert does to each place.
LEMMA Inserted ==
    ASSUME NEW q \in Seq(Entries), NEW e \in Entries, NEW k \in 1..(Len(q) + 1)
    PROVE  /\ insert(q, k, e) \in Seq(Entries)
           /\ Len(insert(q, k, e)) = Len(q) + 1
           /\ \A i \in 1..(Len(q) + 1) : insert(q, k, e)[i] =
                IF i < k THEN q[i] ELSE IF i = k THEN e ELSE q[i - 1]
<1> DEFINE front == SubSeq(q, 1, k - 1)
           back == SubSeq(q, k, Len(q))
           mid == front \o <<e>>
<1>0. Len(q) \in Nat /\ k \in Nat /\ \A i \in 1..Len(q) : q[i] \in Entries
  OBVIOUS
<1>1. /\ front \in Seq(Entries) /\ Len(front) = k - 1
      /\ \A i \in 1..(k - 1) : front[i] = q[i]
  BY <1>0, SubSeqProperties
<1>2. /\ back \in Seq(Entries) /\ Len(back) = Len(q) - k + 1
      /\ \A i \in 1..(Len(q) - k + 1) : back[i] = q[k + i - 1]
  BY <1>0, SubSeqProperties
<1> HIDE DEF front, back
<1>3. /\ mid \in Seq(Entries) /\ Len(mid) = k
      /\ \A i \in 1..k : mid[i] = IF i < k THEN q[i] ELSE e
  <2>1. <<e>> \in Seq(Entries) /\ Len(<<e>>) = 1 /\ <<e>>[1] = e
    OBVIOUS
  <2> HIDE DEF mid
  <2>2. /\ mid \in Seq(Entries) /\ Len(mid) = Len(front) + 1
        /\ \A i \in 1..(Len(front) + 1) :
             mid[i] = IF i <= Len(front) THEN front[i] ELSE <<e>>[i - Len(front)]
    BY ZenonT(30), <1>1, <2>1, ConcatProperties DEF mid
  <2>3. Len(mid) = k
    BY <1>0, <1>1, <2>2
  <2>4. ASSUME NEW i \in 1..k, i < k PROVE mid[i] = q[i]
    BY <1>0, <1>1, <2>2, <2>4
  <2>5. mid[k] = <<e>>[k - (k - 1)] /\ k - (k - 1) = 1
    BY <1>0, <1>1, <2>2
  <2> QED
    BY <1>0, <2>1, <2>2, <2>3, <2>4, <2>5
<1> HIDE DEF mid
<1>4. insert(q, k, e) = mid \o back
  BY DEF insert, mid, front, back
<1>5. /\ mid \o back \in Seq(Entries) /\ Len(mid \o back) = Len(mid) + Len(back)
      /\ \A i \in 1..(Len(mid) + Len(back)) :
           (mid \o back)[i] = IF i <= Len(mid) THEN mid[i] ELSE back[i - Len(mid)]
  BY <1>2, <1>3, ConcatProperties, Zenon
<1> DEFINE r == mid \o back
<1> HIDE DEF r
<1>6. r \in Seq(Entries) /\ Len(r) = Len(q) + 1
  BY <1>0, <1>2, <1>3, <1>5 DEF r
<1>7. ASSUME NEW i \in 1..Len(r)
      PROVE  r[i] = IF i < k THEN q[i] ELSE IF i = k THEN e ELSE q[i - 1]
  <2>1. CASE i <= k
    BY <2>1, <1>0, <1>2, <1>3, <1>5, <1>6 DEF r
  <2>2. CASE i > k
    <3>1. r[i] = back[i - k]
      BY <2>2, <1>0, <1>2, <1>3, <1>5, <1>6 DEF r
    <3> QED
      BY <2>2, <3>1, <1>0, <1>2, <1>6
  <2> QED
    BY <2>1, <2>2, <1>0
<1> QED
  BY <1>4, <1>6, <1>7 DEF r

\* What erase does to each place.
LEMMA Removed ==
    ASSUME NEW q \in Seq(Entries), NEW k \in 1..Len(q)
    PROVE  /\ erase(q, k) \in Seq(Entries)
           /\ Len(erase(q, k)) = Len(q) - 1
           /\ \A i \in 1..(Len(q) - 1) :
                erase(q, k)[i] = IF i < k THEN q[i] ELSE q[i + 1]
<1> DEFINE front == SubSeq(q, 1, k - 1)
           back == SubSeq(q, k + 1, Len(q))
<1>0. Len(q) \in Nat /\ k \in Nat /\ \A i \in 1..Len(q) : q[i] \in Entries
  OBVIOUS
<1>1. /\ front \in Seq(Entries) /\ Len(front) = k - 1
      /\ \A i \in 1..(k - 1) : front[i] = q[i]
  BY <1>0, SubSeqProperties
<1>2. /\ back \in Seq(Entries) /\ Len(back) = Len(q) - k
      /\ \A i \in 1..(Len(q) - k) : back[i] = q[k + i]
  BY <1>0, SubSeqProperties
<1> HIDE DEF front, back
<1>3. /\ front \o back \in Seq(Entries) /\ Len(front \o back) = Len(front) + Len(back)
      /\ \A i \in 1..(Len(front) + Len(back)) :
           (front \o back)[i] = IF i <= Len(front) THEN front[i] ELSE back[i - Len(front)]
  BY <1>1, <1>2, ConcatProperties, Zenon
<1> DEFINE r == front \o back
<1>4. erase(q, k) = r
  BY DEF erase, front, back
<1> HIDE DEF r
<1>5. r \in Seq(Entries) /\ Len(r) = Len(q) - 1
  BY <1>0, <1>1, <1>2, <1>3 DEF r
<1>6. ASSUME NEW i \in 1..Len(r) PROVE r[i] = IF i < k THEN q[i] ELSE q[i + 1]
  <2>1. CASE i < k
    BY <2>1, <1>0, <1>1, <1>2, <1>3, <1>5 DEF r
  <2>2. CASE i >= k
    <3>1. r[i] = back[i - (k - 1)]
      BY <2>2, <1>0, <1>1, <1>2, <1>3, <1>5 DEF r
    <3> QED
      BY <2>2, <3>1, <1>0, <1>2, <1>5
  <2> QED
    BY <2>1, <2>2, <1>0
<1> QED
  BY <1>4, <1>5, <1>6

\* A sorted queue has a place for every entry.
LEMMA PositionExists ==
    ASSUME NEW q \in Seq(Entries), Sorted(q), NEW e \in Entries
    PROVE  /\ Position(q, e) \in 1..(Len(q) + 1)
           /\ \A i \in 1..(Position(q, e) - 1) : q[i].at <= e.at
           /\ \A i \in Position(q, e)..Len(q) : e.at < q[i].at
<1> DEFINE Later == {i \in 1..Len(q) : e.at < q[i].at}
<1>0. \A i \in 1..Len(q) : q[i].at \in Nat
  BY EntryTypes
<1>1. \E k \in 1..(Len(q) + 1) :
        /\ \A i \in 1..(k - 1) : q[i].at <= e.at
        /\ \A i \in k..Len(q) : e.at < q[i].at
  <2>1. CASE Later = {}
    <3>1. \A i \in 1..Len(q) : q[i].at <= e.at
      BY <1>0, <2>1 DEF Entries
    <3> QED
      BY <3>1
  <2>2. CASE Later # {}
    <3>1. PICK k \in Later : \A i \in Later : k <= i
      <4> DEFINE R == OpToRel(<, Nat)
      <4>1. IsWellFoundedOn(R, Nat)
        BY ZenonT(30), NatLessThanWellFounded
      <4>2. Later \subseteq Nat
        OBVIOUS
      <4> HIDE DEF Later, R
      <4>3. \E k \in Later : \A i \in Later : ~(<<i, k>> \in R)
        BY ZenonT(30), <2>2, <4>1, <4>2, WFMin
      <4>4. \A i, k \in Nat : <<i, k>> \in R <=> i < k
        BY DEF R, OpToRel
      <4>5. PICK k \in Later : \A i \in Later : ~(<<i, k>> \in R)
        BY <4>3
      <4>6. k \in Nat /\ \A i \in Later : i \in Nat /\ ~(i < k)
        BY <4>2, <4>4, <4>5, Zenon
      <4>7. \A i \in Later : k <= i
        BY <4>6
      <4> QED
        BY <4>7
    <3>2. \A i \in 1..(k - 1) : q[i].at <= e.at
      BY <1>0, <3>1 DEF Entries
    <3>3. \A i \in k..Len(q) : e.at < q[i].at
      BY <1>0, <3>1 DEF Entries, Sorted
    <3> QED
      BY <3>1, <3>2, <3>3
  <2> QED
    BY <2>1, <2>2
<1> QED
  BY ZenonT(30), <1>1 DEF Position

\* TimerFD::arm, of a timer that is not armed.
LEMMA Armed ==
    ASSUME NEW q, NEW fd, NEW a, NEW d, Consistent(q, fd, a, d),
           NEW t \in Timers, ~a[t], NEW at \in Nat \ {0},
           NEW e, e = [at |-> at, timer |-> t]
    PROVE  Becomes(State(q, fd), arm(State(q, fd), e),
                   [a EXCEPT ![t] = TRUE], [d EXCEPT ![t] = at])
<1>a. /\ q \in Seq(Entries) /\ fd \in Nat
      /\ a \in [Timers -> BOOLEAN] /\ d \in [Timers -> Nat]
      /\ Sorted(q) /\ Exact(q, a, d)
  BY DEF Consistent
<1> USE <1>a
<1> DEFINE k == Position(q, e)
           r == insert(q, k, e)
           f == IF k = 1 THEN at ELSE fd
<1>0. arm(State(q, fd), e) = State(r, f) /\ e \in Entries /\ e.at = at /\ e.timer = t
  BY DEF arm, State, Entries
<1>1. /\ k \in 1..(Len(q) + 1)
      /\ \A i \in 1..(k - 1) : q[i].at <= at
      /\ \A i \in k..Len(q) : at < q[i].at
  BY ZenonT(30), <1>0, PositionExists
<1> HIDE DEF k
<1>2. /\ r \in Seq(Entries) /\ Len(r) = Len(q) + 1
      /\ \A i \in 1..(Len(q) + 1) :
           r[i] = IF i < k THEN q[i] ELSE IF i = k THEN e ELSE q[i - 1]
  BY <1>0, <1>1, Inserted
<1> HIDE DEF r
<1>3. /\ Len(q) \in Nat /\ k \in Nat
      /\ \A i \in 1..Len(q) : q[i].at \in Nat /\ q[i].at # 0 /\ q[i].timer \in Timers
  BY <1>1, EntryTypes
<1> DEFINE old(i) == IF i < k THEN i ELSE i - 1
<1>4. r[k] = e /\ \A i \in 1..Len(r) : i # k => old(i) \in 1..Len(q) /\ r[i] = q[old(i)]
  BY <1>1, <1>2, <1>3
<1>5. Sorted(r)
  <2> SUFFICES ASSUME NEW i \in 1..Len(r), NEW j \in 1..Len(r), i < j
               PROVE  r[i].at <= r[j].at
    BY DEF Sorted
  <2>1. CASE i = k
    <3>1. j - 1 \in k..Len(q) /\ r[j] = q[j - 1] /\ r[i] = e
      BY <1>2, <1>3, <1>4, <2>1
    <3>2. e.at < q[j - 1].at /\ q[j - 1].at \in Nat /\ e.at \in Nat
      BY <1>0, <1>1, <1>3, <3>1
    <3> QED
      BY <3>1, <3>2
  <2>2. CASE j = k
    <3>1. i \in 1..(k - 1) /\ r[i] = q[i] /\ r[j] = e
      BY <1>2, <1>3, <1>4, <2>2
    <3> QED
      BY <1>0, <1>1, <3>1
  <2>3. CASE i # k /\ j # k
    <3>1. old(i) < old(j)
      BY <1>2, <1>3, <2>3
    <3> QED
      BY ZenonT(30), <1>4, <2>3, <3>1 DEF Sorted
  <2> QED
    BY <2>1, <2>2, <2>3
<1>6. Exact(r, [a EXCEPT ![t] = TRUE], [d EXCEPT ![t] = at])
  <2>1. \A i \in 1..Len(q) :
          q[i].timer # t /\ a[q[i].timer] /\ d[q[i].timer] = q[i].at
    BY DEF Exact
  <2>2. \A i \in 1..Len(r) : /\ [a EXCEPT ![t] = TRUE][r[i].timer]
                             /\ [d EXCEPT ![t] = at][r[i].timer] = r[i].at
    <3> SUFFICES ASSUME NEW i \in 1..Len(r)
                 PROVE  /\ [a EXCEPT ![t] = TRUE][r[i].timer]
                        /\ [d EXCEPT ![t] = at][r[i].timer] = r[i].at
      OBVIOUS
    <3>1. CASE i = k
      BY <1>4, <3>1
    <3>2. CASE i # k
      <4>1. PICK j \in 1..Len(q) : r[i] = q[j]
        BY <1>4, <3>2
      <4> QED
        BY <1>3, <2>1, <4>1
    <3> QED
      BY <3>1, <3>2
  <2>3. ASSUME NEW i \in 1..Len(r), NEW j \in 1..Len(r), r[i].timer = r[j].timer
        PROVE  i = j
    <3>1. i = k <=> j = k
      <4>1. r[k].timer = t
        BY <1>4
      <4>2. \A l \in 1..Len(r) : l # k => r[l].timer # t
        <5> HIDE DEF old
        <5> QED
          BY <1>4, <2>1
      <4> QED
        BY <2>3, <4>1, <4>2
    <3>2. CASE i # k /\ j # k
      <4>1. old(i) = old(j)
        <5> HIDE DEF old
        <5>1. /\ old(i) \in 1..Len(q) /\ old(j) \in 1..Len(q)
              /\ q[old(i)].timer = q[old(j)].timer
          BY <1>4, <2>3, <3>2
        <5> QED
          BY <5>1 DEF Exact
      <4> QED
        BY <1>2, <1>3, <3>2, <4>1
    <3> QED
      BY <3>1, <3>2
  <2>4. ASSUME NEW u \in Timers, [a EXCEPT ![t] = TRUE][u]
        PROVE  \E i \in 1..Len(r) : r[i].timer = u
    <3>1. CASE u = t
      BY <1>0, <1>1, <1>2, <1>4, <3>1
    <3>2. CASE u # t
      <4>1. PICK i \in 1..Len(q) : q[i].timer = u
        BY <2>4, <3>2 DEF Exact
      <4>2. CASE i < k
        BY <1>2, <1>3, <4>1, <4>2
      <4>3. CASE ~(i < k)
        <5>1. i + 1 \in 1..Len(r) /\ r[i + 1] = q[i]
          BY <1>2, <1>3, <4>3
        <5> QED
          BY <4>1, <5>1
      <4> QED
        BY <4>2, <4>3
    <3> QED
      BY <3>1, <3>2
  <2>5. \A u \in Timers : ~[a EXCEPT ![t] = TRUE][u] => [d EXCEPT ![t] = at][u] = 0
    BY DEF Exact
  <2> HIDE DEF old
  <2> QED
    BY <2>2, <2>3, <2>4, <2>5 DEF Exact
<1>7. ASSUME ForFirst(State(q, fd)) PROVE ForFirst(State(r, f))
  <2>1. r # <<>>
    BY <1>2, <1>3
  <2>2. CASE k = 1
    BY <1>0, <1>4, <2>1, <2>2 DEF ForFirst, State
  <2>3. CASE k # 1
    <3>1. q # <<>> /\ r[1] = q[1]
      <4>1. 1 < k /\ Len(q) # 0 /\ 1 \in 1..(Len(q) + 1)
        BY <1>1, <1>3, <2>3
      <4> QED
        BY <1>2, <4>1
    <3> QED
      BY <1>7, <2>1, <2>3, <3>1 DEF ForFirst, State
  <2> QED
    BY <2>2, <2>3
<1>8. f \in Nat /\ arm(State(q, fd), e) = State(r, f)
  BY <1>0
<1> HIDE DEF f
<1> QED
  BY ZenonT(30), <1>2, <1>5, <1>6, <1>7, <1>8 DEF Becomes, Consistent

\* A queue without the entry at one place, and its timer not armed.
LEMMA Gone ==
    ASSUME NEW q \in Seq(Entries), NEW k \in 1..Len(q), NEW r \in Seq(Entries),
           Len(r) = Len(q) - 1,
           \A i \in 1..(Len(q) - 1) : r[i] = IF i < k THEN q[i] ELSE q[i + 1],
           NEW a \in [Timers -> BOOLEAN], NEW d \in [Timers -> Nat],
           Sorted(q), Exact(q, a, d)
    PROVE  /\ Sorted(r)
           /\ Exact(r, [a EXCEPT ![q[k].timer] = FALSE], [d EXCEPT ![q[k].timer] = 0])
<1> DEFINE old(i) == IF i < k THEN i ELSE i + 1
           t == q[k].timer
<1>1. /\ Len(q) \in Nat /\ k \in Nat /\ t \in Timers
      /\ \A i \in 1..Len(q) : q[i].at \in Nat /\ q[i].timer \in Timers
  BY EntryTypes
<1>2. \A i \in 1..Len(r) :
        old(i) \in 1..Len(q) /\ old(i) # k /\ r[i] = q[old(i)]
  BY <1>1
<1>3. \A i, j \in 1..Len(r) : /\ i < j => old(i) < old(j)
                              /\ old(i) = old(j) => i = j
  BY <1>1
<1>4. ASSUME NEW l \in 1..Len(q), l # k PROVE \E i \in 1..Len(r) : r[i] = q[l]
  <2>1. CASE l < k
    <3>1. l \in 1..(Len(q) - 1)
      BY <1>1, <2>1
    <3>2. l \in 1..Len(r) /\ r[l] = q[l]
      BY <2>1, <3>1
    <3> QED
      BY <3>2
  <2>2. CASE ~(l < k)
    <3>1. l - 1 \in 1..Len(r) /\ r[l - 1] = q[l]
      BY <1>1, <1>4, <2>2
    <3> QED
      BY <3>1
  <2> QED
    BY <2>1, <2>2
<1> HIDE DEF old
<1>5. Sorted(r)
  BY <1>2, <1>3 DEF Sorted
<1>6. \A i \in 1..Len(r) : r[i].timer # t
  BY <1>2 DEF Exact
<1>7. Exact(r, [a EXCEPT ![t] = FALSE], [d EXCEPT ![t] = 0])
  <2>1. \A i \in 1..Len(r) : /\ [a EXCEPT ![t] = FALSE][r[i].timer]
                             /\ [d EXCEPT ![t] = 0][r[i].timer] = r[i].at
    <3> SUFFICES ASSUME NEW i \in 1..Len(r)
                 PROVE  /\ [a EXCEPT ![t] = FALSE][r[i].timer]
                        /\ [d EXCEPT ![t] = 0][r[i].timer] = r[i].at
      BY ZenonT(30)
    <3>1. PICK j \in 1..Len(q) : r[i] = q[j]
      BY ZenonT(30), <1>2
    <3>2. a[q[j].timer] /\ d[q[j].timer] = q[j].at /\ q[j].timer \in Timers
      BY <1>1 DEF Exact
    <3> QED
      BY ZenonT(30), <1>6, <3>1, <3>2
  <2>2. \A i, j \in 1..Len(r) : r[i].timer = r[j].timer => i = j
    BY <1>2, <1>3 DEF Exact
  <2>3. ASSUME NEW u \in Timers, [a EXCEPT ![t] = FALSE][u]
        PROVE  \E i \in 1..Len(r) : r[i].timer = u
    <3>1. u # t /\ a[u]
      BY <2>3
    <3>2. PICK l \in 1..Len(q) : q[l].timer = u
      BY <3>1 DEF Exact
    <3> QED
      BY ZenonT(30), <1>4, <3>1, <3>2
  <2>4. \A u \in Timers : ~[a EXCEPT ![t] = FALSE][u] => [d EXCEPT ![t] = 0][u] = 0
    BY DEF Exact
  <2> HIDE DEF t
  <2> QED
    BY <2>1, <2>2, <2>3, <2>4 DEF Exact
<1> QED
  BY <1>5, <1>7

\* TimerFD::disarm, of an armed timer.
LEMMA Disarmed ==
    ASSUME NEW q, NEW fd, NEW a, NEW d, Consistent(q, fd, a, d),
           NEW t \in Timers, a[t]
    PROVE  Becomes(State(q, fd), disarm(State(q, fd), t),
                   [a EXCEPT ![t] = FALSE], [d EXCEPT ![t] = 0])
<1>a. /\ q \in Seq(Entries) /\ fd \in Nat
      /\ a \in [Timers -> BOOLEAN] /\ d \in [Timers -> Nat]
      /\ Sorted(q) /\ Exact(q, a, d)
  BY DEF Consistent
<1> USE <1>a
<1> DEFINE k == iterator(q, t)
           r == erase(q, k)
           f == IF r = <<>> THEN 0 ELSE IF k = 1 THEN r[1].at ELSE fd
<1>0. disarm(State(q, fd), t) = State(r, f)
  BY DEF disarm, State
<1>1. k \in 1..Len(q) /\ q[k].timer = t
  BY DEF Exact, iterator
<1> HIDE DEF k
<1>2. /\ r \in Seq(Entries) /\ Len(r) = Len(q) - 1
      /\ \A i \in 1..(Len(q) - 1) : r[i] = IF i < k THEN q[i] ELSE q[i + 1]
  BY ZenonT(30), <1>1, Removed
<1> HIDE DEF r
<1>3. Sorted(r) /\ Exact(r, [a EXCEPT ![t] = FALSE], [d EXCEPT ![t] = 0])
  BY ZenonT(30), <1>1, <1>2, Gone
<1>4. f \in Nat
  BY <1>2, EntryTypes
<1>5. ASSUME ForFirst(State(q, fd)) PROVE ForFirst(State(r, f))
  <2>1. CASE r = <<>> \/ k = 1
    BY <2>1 DEF ForFirst, State
  <2>2. CASE r # <<>> /\ k # 1
    <3>1. q # <<>> /\ r[1] = q[1]
      BY <1>1, <1>2, <2>2
    <3> QED
      BY <1>5, <2>2, <3>1 DEF ForFirst, State
  <2> QED
    BY <2>1, <2>2
<1> HIDE DEF f
<1> QED
  BY <1>0, <1>2, <1>3, <1>4, <1>5 DEF Becomes, Consistent

\* The entry that popAndExecuteFirstTimer takes.
LEMMA Popped ==
    ASSUME NEW q \in Seq(Entries), q # <<>>,
           NEW a \in [Timers -> BOOLEAN], NEW d \in [Timers -> Nat],
           Sorted(q), Exact(q, a, d)
    PROVE  /\ Head(q) = q[1] /\ 1 \in 1..Len(q)
           /\ Tail(q) \in Seq(Entries) /\ Sorted(Tail(q))
           /\ Exact(Tail(q), [a EXCEPT ![Head(q).timer] = FALSE],
                             [d EXCEPT ![Head(q).timer] = 0])
<1>1. /\ Head(q) = q[1] /\ 1 \in 1..Len(q)
      /\ Tail(q) \in Seq(Entries) /\ Len(Tail(q)) = Len(q) - 1
      /\ \A i \in 1..(Len(q) - 1) : Tail(q)[i] = IF i < 1 THEN q[i] ELSE q[i + 1]
  OBVIOUS
<1>2. /\ Sorted(Tail(q))
      /\ Exact(Tail(q), [a EXCEPT ![q[1].timer] = FALSE], [d EXCEPT ![q[1].timer] = 0])
  BY ZenonT(30), <1>1, Gone
<1> QED
  BY <1>1, <1>2

-----------------------------------------------------------------------------
(* The inductive invariant.                                                 *)

TypeOK ==
    /\ clock \in Nat \ {0} /\ queue \in Seq(Entries) /\ settime \in Nat
    /\ armed \in [Timers -> BOOLEAN] /\ due \in [Timers -> Nat]
    /\ now \in Nat /\ current.at \in Nat

IInv ==
    /\ TypeOK
    /\ Sorted(queue)
    /\ Exact(queue, armed, due)
    /\ phase # "callback" => ForFirst(State(queue, settime))
    /\ now <= clock /\ current.at <= clock

\* No timer is armed at first.
LEMMA InitIInv == Init => IInv
<1> SUFFICES ASSUME Init PROVE IInv
  OBVIOUS
<1>1. TypeOK
  BY DEF Init, TypeOK, None
<1>2. Sorted(queue) /\ Exact(queue, armed, due)
  BY DEF Init, Sorted, Exact
<1>3. ForFirst(State(queue, settime)) /\ now <= clock /\ current.at <= clock
  BY DEF Init, ForFirst, State, None
<1> QED
  BY <1>1, <1>2, <1>3 DEF IInv

\* What a call of a client leaves.
LEMMA ApplyIInv ==
    ASSUME IInv, NEW s, Becomes(State(queue, settime), s, armed', due'), Apply(s),
           UNCHANGED <<clock, phase, now, current>>
    PROVE  IInv'
<1>1. PICK q \in Seq(Entries), fd \in Nat :
        /\ s = State(q, fd) /\ Consistent(q, fd, armed', due')
        /\ ForFirst(State(queue, settime)) => ForFirst(s)
  BY DEF Becomes
<1>2. queue' = q /\ settime' = fd
  BY <1>1 DEF Apply, State
<1>3. Consistent(queue, settime, armed, due)'
  BY <1>1, <1>2 DEF Consistent
<1>4. TypeOK'
  BY <1>3 DEF IInv, TypeOK, Consistent
<1> QED
  BY <1>1, <1>2, <1>3, <1>4 DEF IInv, Consistent

\* What popAndExecuteFirstTimer leaves, for an entry that has expired.
LEMMA PopIInv ==
    ASSUME IInv, queue # <<>>, popAndExecuteFirstTimer, Head(queue).at <= clock,
           clock' = clock, settime' \in Nat, now' \in Nat, now' <= clock
    PROVE  IInv'
<1>1. /\ Head(queue) = queue[1] /\ 1 \in 1..Len(queue)
      /\ Tail(queue) \in Seq(Entries) /\ Sorted(Tail(queue))
      /\ Exact(Tail(queue), [armed EXCEPT ![Head(queue).timer] = FALSE],
                            [due EXCEPT ![Head(queue).timer] = 0])
  BY ZenonT(30), Popped DEF IInv, TypeOK
<1>2. Head(queue).at \in Nat
  BY <1>1, EntryTypes DEF IInv, TypeOK
<1>3. TypeOK'
  BY ZenonT(30), <1>1, <1>2 DEF IInv, TypeOK, popAndExecuteFirstTimer
<1>4. Sorted(queue)' /\ Exact(queue, armed, due)'
  BY <1>1 DEF popAndExecuteFirstTimer
<1> QED
  BY <1>2, <1>3, <1>4 DEF IInv, popAndExecuteFirstTimer

\* The first entry has expired when the timerfd has.
LEMMA ExpiredFirst ==
    ASSUME IInv, phase # "callback", Expired
    PROVE  queue # <<>> /\ Head(queue).at <= clock
BY DEF IInv, TypeOK, Expired, ForFirst, State

\* Every step preserves the invariant.
LEMMA NextIInv == IInv /\ [Next]_vars => IInv'
<1> SUFFICES ASSUME IInv, [Next]_vars PROVE IInv'
  OBVIOUS
<1>0. Consistent(queue, settime, armed, due)
  BY DEF IInv, TypeOK, Consistent
<1>1. ASSUME NEW t \in Timers, TimerDisarm(t) PROVE IInv'
  <2> DEFINE s == State(queue, settime)
  <2>1. Becomes(s, disarm(s, t), armed', due')
    <3>1. armed[t]
      BY <1>1 DEF TimerDisarm
    <3>2. Becomes(s, disarm(s, t), [armed EXCEPT ![t] = FALSE], [due EXCEPT ![t] = 0])
      BY <1>0, <3>1, Disarmed
    <3> QED
      BY <1>1, <3>2 DEF TimerDisarm
  <2>2. Apply(disarm(s, t)) /\ UNCHANGED <<clock, phase, now, current>>
    BY <1>1 DEF TimerDisarm
  <2> QED
    BY <2>1, <2>2, ApplyIInv
<1>2. ASSUME NEW t \in Timers, NEW x \in Durations, TimerArm(t, x) PROVE IInv'
  <2> DEFINE s == State(queue, settime)
             cleared == IF armed[t] THEN disarm(s, t) ELSE s
             a == [armed EXCEPT ![t] = FALSE]
             d == [due EXCEPT ![t] = 0]
             at == clock + x
             e == [at |-> at, timer |-> t]
  <2>1. Becomes(s, cleared, a, d)
    <3>1. CASE armed[t]
      <4>1. Becomes(s, disarm(s, t), a, d)
        BY <1>0, <3>1, Disarmed
      <4> QED
        BY <3>1, <4>1
    <3>2. CASE ~armed[t]
      <4>1. a = armed /\ d = due
        BY <3>2 DEF IInv, TypeOK, Exact
      <4> QED
        BY ZenonT(30), <1>0, <3>2, <4>1 DEF Becomes, Consistent
    <3> QED
      BY <3>1, <3>2
  <2>2. /\ ~a[t] /\ at \in Nat \ {0} /\ e = [at |-> at, timer |-> t]
        /\ [a EXCEPT ![t] = TRUE] = armed' /\ [d EXCEPT ![t] = at] = due'
    BY <1>2, TimesNat DEF IInv, TypeOK, TimerArm
  <2>3. Apply(arm(cleared, e)) /\ UNCHANGED <<clock, phase, now, current>>
    BY <1>2 DEF TimerArm
  <2> HIDE DEF s, cleared, a, d, at, e
  <2>4. PICK q \in Seq(Entries), fd \in Nat :
          /\ cleared = State(q, fd) /\ Consistent(q, fd, a, d)
          /\ ForFirst(s) => ForFirst(cleared)
    BY <2>1 DEF Becomes
  <2>5. Becomes(State(q, fd), arm(State(q, fd), e),
                [a EXCEPT ![t] = TRUE], [d EXCEPT ![t] = at])
    <3>1. /\ Consistent(q, fd, a, d) /\ ~a[t] /\ at \in Nat \ {0}
          /\ e = [at |-> at, timer |-> t]
      BY <2>2, <2>4
    <3> QED
      BY ZenonT(30), <3>1, Armed
  <2>6. Becomes(s, arm(cleared, e), armed', due')
    BY ZenonT(30), <2>2, <2>4, <2>5 DEF Becomes
  <2> QED
    BY <2>3, <2>6, ApplyIInv DEF s
<1>3. ASSUME Tick PROVE IInv'
  <2>1. TypeOK' /\ now' <= clock' /\ current'.at <= clock'
    BY <1>3 DEF IInv, TypeOK, Tick
  <2> QED
    BY <1>3, <2>1 DEF IInv, Tick
<1>4. ASSUME epollWait PROVE IInv'
  BY <1>4 DEF IInv, TypeOK, epollWait
<1>5. ASSUME handleEvents PROVE IInv'
  <2>1. CASE Expired
    <3>1. queue # <<>> /\ Head(queue).at <= clock
      BY <1>5, <2>1, ExpiredFirst DEF handleEvents
    <3>2. /\ popAndExecuteFirstTimer /\ clock' = clock
          /\ settime' \in Nat /\ now' \in Nat /\ now' <= clock
      BY <1>5, <2>1 DEF handleEvents, IInv, TypeOK
    <3> QED
      BY <3>1, <3>2, PopIInv
  <2>2. CASE ~Expired
    BY <1>5, <2>2 DEF handleEvents, IInv, TypeOK
  <2> QED
    BY <2>1, <2>2
<1>6. ASSUME handleExpiredTimers PROVE IInv'
  <2>1. CASE FirstExpired
    <3>1. queue # <<>> /\ Head(queue).at <= clock
      <4>1. queue # <<>> /\ Head(queue) = queue[1] /\ 1 \in 1..Len(queue)
        BY <2>1, Popped DEF FirstExpired, IInv, TypeOK
      <4>2. Head(queue).at \in Nat
        BY <4>1, EntryTypes DEF IInv, TypeOK
      <4> QED
        BY <2>1, <4>1, <4>2 DEF FirstExpired, IInv, TypeOK
    <3>2. /\ popAndExecuteFirstTimer /\ clock' = clock
          /\ settime' \in Nat /\ now' \in Nat /\ now' <= clock
      BY <1>6, <2>1 DEF handleExpiredTimers, IInv, TypeOK
    <3> QED
      BY <3>1, <3>2, PopIInv
  <2>2. CASE ~FirstExpired
    <3>1. /\ settime' = IF queue = <<>> THEN 0 ELSE Head(queue).at
          /\ current' = None /\ now' = 0
          /\ UNCHANGED <<clock, queue, armed, due>>
      BY <1>6, <2>2 DEF handleExpiredTimers
    <3>2. settime' \in Nat /\ ForFirst(State(queue, settime'))
      <4>1. CASE queue = <<>>
        BY <3>1, <4>1 DEF ForFirst, State
      <4>2. CASE queue # <<>>
        <5>1. Head(queue) = queue[1] /\ 1 \in 1..Len(queue)
          BY <4>2, Popped DEF IInv, TypeOK
        <5>2. queue[1].at \in Nat
          BY <5>1, EntryTypes DEF IInv, TypeOK
        <5> QED
          BY <3>1, <4>2, <5>1, <5>2 DEF ForFirst, State
      <4> QED
        BY <4>1, <4>2
    <3>3. TypeOK'
      BY <3>1, <3>2 DEF IInv, TypeOK, None
    <3> QED
      BY <3>1, <3>2, <3>3 DEF IInv, TypeOK, None
  <2> QED
    BY <2>1, <2>2
<1>7. ASSUME UNCHANGED vars PROVE IInv'
  BY <1>7 DEF IInv, TypeOK, vars
<1> QED
  BY <1>1, <1>2, <1>3, <1>4, <1>5, <1>6, <1>7 DEF Next

-----------------------------------------------------------------------------
(* What it shows.                                                           *)

\* IInv is an invariant of TimerFD.
THEOREM Invariance == Spec => []IInv
BY InitIInv, NextIInv, PTL DEF Spec

\* Whenever TimerFD's loop waits, the timerfd is set for the first timer.
THEOREM SetForFirstAlways == Spec => []SetForFirst
<1>1. IInv => SetForFirst
  BY DEF IInv, TypeOK, SetForFirst, ForFirst, State
<1> QED
  BY <1>1, Invariance, PTL

\* Timer::armed says at all times whether the timer has its one entry in the
\* queue, the one Timer::iterator refers to.
THEOREM ArmedIffQueuedAlways == Spec => []ArmedIffQueued
<1>1. IInv => ArmedIffQueued
  <2> SUFFICES ASSUME IInv, NEW t \in Timers
               PROVE  Cardinality({i \in 1..Len(queue) : queue[i].timer = t})
                        = IF armed[t] THEN 1 ELSE 0
    BY DEF ArmedIffQueued
  <2>1. CASE armed[t]
    <3>1. PICK k \in 1..Len(queue) : queue[k].timer = t
      BY <2>1 DEF IInv, Exact
    <3>2. {i \in 1..Len(queue) : queue[i].timer = t} = {k}
      BY <3>1 DEF IInv, Exact
    <3> QED
      BY ZenonT(30), <2>1, <3>2, FS_Singleton
  <2>2. CASE ~armed[t]
    <3>1. {i \in 1..Len(queue) : queue[i].timer = t} = {}
      BY <2>2 DEF IInv, Exact
    <3> QED
      BY <2>2, <3>1, FS_EmptySet
  <2> QED
    BY <2>1, <2>2
<1> QED
  BY <1>1, Invariance, PTL

\* A timer's callback is the one of its last arming, does not run early or
\* after a disarm, and timers that are due earlier go first.
THEOREM ExpiresAsArmedAlways == Spec => ExpiresAsArmed
<1>1. IInv /\ [Next]_vars =>
        [queue # <<>> /\ popAndExecuteFirstTimer =>
            /\ due[current'.timer] = current'.at
            /\ current'.at <= clock
            /\ \A t \in Timers : due[t] # 0 => current'.at <= due[t]]_vars
  <2> SUFFICES ASSUME IInv, Next, queue # <<>>, popAndExecuteFirstTimer
               PROVE  /\ due[current'.timer] = current'.at
                      /\ current'.at <= clock
                      /\ \A t \in Timers : due[t] # 0 => current'.at <= due[t]
    OBVIOUS
  <2>1. /\ Head(queue) = queue[1] /\ 1 \in 1..Len(queue) /\ current' = queue[1]
        /\ phase' = "callback"
    BY Popped DEF IInv, TypeOK, popAndExecuteFirstTimer
  <2>2. due[current'.timer] = current'.at
    BY <2>1 DEF IInv, Exact
  <2>3. current'.at <= clock
    <3>1. CASE handleEvents
      <4>1. CASE Expired
        BY <2>1, <3>1, <4>1, ExpiredFirst DEF handleEvents
      <4>2. CASE ~Expired
        BY <2>1, <3>1, <4>2 DEF handleEvents
      <4> QED
        BY <4>1, <4>2
    <3>2. CASE handleExpiredTimers
      <4>1. queue[1].at \in Nat
        BY <2>1, EntryTypes DEF IInv, TypeOK
      <4>2. queue[1].at <= now
        BY <2>1, <3>2 DEF handleExpiredTimers, FirstExpired
      <4> QED
        BY <2>1, <4>1, <4>2 DEF IInv, TypeOK
    <3>3. CASE UNCHANGED current
      BY <3>3 DEF IInv
    <3> QED
      BY ZenonT(30), <3>1, <3>2, <3>3 DEF Next, TimerDisarm, TimerArm, Tick, epollWait
  <2>4. ASSUME NEW t \in Timers, due[t] # 0 PROVE current'.at <= due[t]
    <3>1. PICK i \in 1..Len(queue) : queue[i].timer = t
      BY <2>4 DEF IInv, Exact
    <3>2. due[t] = queue[i].at
      BY <3>1 DEF IInv, Exact
    <3>3. queue[1].at \in Nat /\ queue[i].at \in Nat /\ Len(queue) \in Nat
      BY <2>1, EntryTypes DEF IInv, TypeOK
    <3>4. i = 1 \/ 1 < i
      BY <3>3
    <3> QED
      BY <2>1, <3>2, <3>3, <3>4 DEF IInv, Sorted
  <2> QED
    BY <2>2, <2>3, <2>4
<1> QED
  BY <1>1, Invariance, PTL DEF Spec, ExpiresAsArmed
=============================================================================
