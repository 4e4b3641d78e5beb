------------------------- MODULE RedisStorageProofs -------------------------
(***************************************************************************)
(* Proofs about RedisStorage: it implements SharedData, and publishes what *)
(* it changes, for any applications, namespaces, keys, prefixes and        *)
(* patterns.                                                               *)
(*                                                                         *)
(* First come strings: what a full key consists of, that a search pattern  *)
(* built of a namespace and an escaped prefix matches the keys with that   *)
(* prefix and no others.  From these follows, operation by operation, what *)
(* the database does with a command and what becomes of its reply.  The    *)
(* last part is the refinement, action by action.                          *)
(***************************************************************************)
EXTENDS RedisStorage, FiniteSetTheorems, WellFoundedInduction, TLAPS

\* More time than a leaf has by default.
USE SMTT(30), ZenonT(30)

-----------------------------------------------------------------------------
(* Least numbers, lists of sets, strings.                                   *)

\* A set of natural numbers that is not empty has a least element: the form of induction
\* that is used here.
LEMMA LeastNatural ==
    ASSUME NEW S \in SUBSET Nat, S # {}
    PROVE  \E n \in S : \A m \in S : n <= m
  <1>1. \E n \in S : \A m \in S : ~ (<<m, n>> \in OpToRel(<, Nat))
    BY ZenonT(30), NatLessThanWellFounded, WFMin
  <1>2. \E n \in S : \A m \in S : ~(m < n)
    BY ZenonT(30), <1>1 DEF OpToRel
  <1> QED
    BY <1>2

\* Of a finite set InOrder lists every element once.
LEMMA InOrderLists ==
    ASSUME NEW S, IsFiniteSet(S)
    PROVE  /\ Cardinality(S) \in Nat
           /\ InOrder(S) \in [1..Cardinality(S) -> S]
           /\ \A i, j \in 1..Cardinality(S) : InOrder(S)[i] = InOrder(S)[j] => i = j
           /\ \A x \in S : \E i \in 1..Cardinality(S) : InOrder(S)[i] = x
  <1> DEFINE n == Cardinality(S)
             s == InOrder(S)
  <1>1. n \in Nat /\ ExistsBijection(1..n, S)
    BY FS_CardinalityType
  <1>2. \E f \in [1..n -> S] : IsInjective(f)
    BY <1>1 DEF ExistsBijection, Bijection, Injection
  <1>3. s \in [1..n -> S] /\ IsInjective(s)
    BY <1>2 DEF InOrder
  <1>4. s \in Injection(1..n, S)
    BY <1>3 DEF Injection
  <1>5. Cardinality(1..n) = n
    BY <1>1, FS_Interval
  <1>6. s \in Surjection(1..n, S)
    BY <1>4, <1>5, FS_Injection
  <1> QED
    BY <1>1, <1>3, <1>6 DEF IsInjective, Surjection

\* The same by the domain of the sequence; it is empty only for the empty set.
LEMMA Listed ==
    ASSUME NEW S, IsFiniteSet(S)
    PROVE  /\ \A i \in DOMAIN InOrder(S) : InOrder(S)[i] \in S
           /\ \A i, j \in DOMAIN InOrder(S) : InOrder(S)[i] = InOrder(S)[j] => i = j
           /\ \A x \in S : \E i \in DOMAIN InOrder(S) : InOrder(S)[i] = x
           /\ IsFiniteSet(DOMAIN InOrder(S))
           /\ \E n \in Nat : DOMAIN InOrder(S) = 1..n
  <1>1. DOMAIN InOrder(S) = 1..Cardinality(S)
    BY InOrderLists
  <1>2. Cardinality(S) \in Nat
    BY InOrderLists
  <1>3. IsFiniteSet(1..Cardinality(S))
    BY <1>2, FS_Interval
  <1>4. /\ \A i \in 1..Cardinality(S) : InOrder(S)[i] \in S
        /\ \A i, j \in 1..Cardinality(S) : InOrder(S)[i] = InOrder(S)[j] => i = j
        /\ \A x \in S : \E i \in 1..Cardinality(S) : InOrder(S)[i] = x
    BY InOrderLists
  <1> QED
    BY ONLY ZenonT(30), <1>1, <1>2, <1>3, <1>4

\* Images of finite sets under functions are finite.
LEMMA ImageFinite ==
    ASSUME NEW S, IsFiniteSet(S), NEW f, DOMAIN f = S
    PROVE  IsFiniteSet({f[x] : x \in S})
  <1> DEFINE T == {f[x] : x \in S}
             g == [x \in S |-> f[x]]
  <1>1. g \in Surjection(S, T)
    BY DEF Surjection
  <1> QED
    BY <1>1, FS_Surjection

-----------------------------------------------------------------------------
(* Full keys.                                                               *)

\* The characters with a meaning are different ones.
LEMMA CharactersDiffer ==
    /\ OpenBrace # Separator /\ CloseBrace # Separator
    /\ OpenBrace \notin PatternCharacters /\ CloseBrace \notin PatternCharacters
    /\ Separator \notin PatternCharacters
    /\ AnyString # AnyCharacter /\ AnyString # Backslash /\ AnyCharacter # Backslash
    /\ {AnyString, AnyCharacter, Backslash} \subseteq PatternCharacters
  BY Zenon DEF OpenBrace, CloseBrace, Separator, AnyString, AnyCharacter, Backslash,
               PatternCharacters

\* The characters of a full key.
LEMMA FullKey ==
    ASSUME NEW ns, NEW key, IsString(key)
    PROVE  /\ Len(key) \in Nat /\ DOMAIN key = 1..Len(key)
           /\ IsString(addKey(ns, key))
           /\ Len(addKey(ns, key)) = Len(key) + 4
           /\ DOMAIN addKey(ns, key) = 1..(Len(key) + 4)
           /\ addKey(ns, key)[1] = OpenBrace /\ addKey(ns, key)[2] = ns
           /\ addKey(ns, key)[3] = CloseBrace /\ addKey(ns, key)[4] = Separator
           /\ \A i \in 1..Len(key) : addKey(ns, key)[i + 4] = key[i]
           /\ \A i \in 5..(Len(key) + 4) : addKey(ns, key)[i] = key[i - 4]
  <1> DEFINE head == <<OpenBrace, ns, CloseBrace, Separator>>
             U == {OpenBrace, ns, CloseBrace, Separator} \cup {key[i] : i \in DOMAIN key}
             full == head \o key
  <1>1. head \in Seq(U) /\ Len(head) = 4
    OBVIOUS
  <1>2. key \in Seq(U) /\ Len(key) \in Nat /\ DOMAIN key = 1..Len(key)
    <2>1. key \in Seq({key[i] : i \in DOMAIN key})
      BY DEF IsString
    <2> QED
      BY <2>1
  <1>3. /\ full \in Seq(U) /\ Len(full) = Len(key) + 4
        /\ \A i \in 1..4 : full[i] = head[i]
        /\ \A i \in 5..(Len(key) + 4) : full[i] = key[i - 4]
    BY <1>1, <1>2
  <1>4. full = addKey(ns, key)
    BY DEF addKey
  <1> HIDE DEF full
  <1>5. full \in Seq({full[i] : i \in DOMAIN full})
    BY <1>3
  <1>6. full[1] = OpenBrace /\ full[2] = ns /\ full[3] = CloseBrace /\ full[4] = Separator
    BY <1>3
  <1>7. \A i \in 1..Len(key) : full[i + 4] = key[i]
    BY <1>2, <1>3
  <1>8. DOMAIN full = 1..(Len(key) + 4)
    BY <1>2, <1>3
  <1> QED
    BY <1>2, <1>3, <1>4, <1>5, <1>6, <1>7, <1>8 DEF IsString

\* A full key tells its namespace and its key.
LEMMA FullKeysDiffer ==
    ASSUME NEW ns, NEW key, IsString(key), NEW ms, NEW other, IsString(other),
           addKey(ns, key) = addKey(ms, other)
    PROVE  ns = ms /\ key = other
  <1>1. ns = ms
    BY FullKey
  <1>2. Len(key) = Len(other)
    BY FullKey
  <1>3. \A i \in 1..Len(key) : key[i] = other[i]
    BY <1>2, FullKey
  <1>4. key \in Seq({key[i] : i \in DOMAIN key}) /\ other \in Seq({other[i] : i \in DOMAIN other})
    BY DEF IsString
  <1>5. key = other
    BY <1>2, <1>3, <1>4
  <1> QED
    BY <1>1, <1>5

\* getKey finds the separator after the namespace, whatever the key contains.
LEMMA GetKeyInverts ==
    ASSUME NEW ns, ns # Separator, NEW key, IsString(key), NEW item, item.str = addKey(ns, key)
    PROVE  getKey(item) = key
  <1> DEFINE s == addKey(ns, key)
             I == {i \in 1..Len(s) : s[i] = Separator}
  <1>1. 4 \in I /\ \A i \in I : 4 <= i
    BY FullKey, CharactersDiffer
  <1>2. I \subseteq Int
    BY FullKey
  <1>3. Min(I) = 4
    <2> HIDE DEF I
    <2>1. \E i \in I : \A j \in I : i <= j
      BY <1>1
    <2>2. Min(I) \in I /\ \A j \in I : Min(I) <= j
      BY <2>1 DEF Min
    <2>3. ASSUME NEW m \in I, \A j \in I : m <= j PROVE m = 4
      BY <1>1, <1>2, <2>3
    <2> QED
      BY Zenon, <2>2, <2>3
  <1>4. I # {}
    BY <1>1
  <1>5. getKey(item) = SubSeq(s, 4 + 1, Len(s))
    BY ZenonT(30), <1>3, <1>4 DEF getKey
  <1> HIDE DEF s
  <1>6. s \in Seq({s[i] : i \in DOMAIN s}) /\ Len(s) = Len(key) + 4 /\ Len(key) \in Nat
    BY FullKey DEF IsString, s
  <1>7. \A i \in 1..Len(key) : s[i + 4] = key[i]
    BY FullKey DEF s
  <1>8. key \in Seq({key[i] : i \in DOMAIN key})
    BY DEF IsString
  <1>9. SubSeq(s, 5, Len(s)) = key
    BY <1>6, <1>7, <1>8
  <1> QED
    BY <1>5, <1>9

-----------------------------------------------------------------------------
(* Search patterns.                                                         *)

\* Where the string s may go on with the pattern p from i on, given the same for what
\* follows ...
GoesOn(f, i, p, s) ==
    CASE i > Len(p) -> {Len(s) + 1}
      [] i <= Len(p) /\ p[i] = AnyString ->
            {j \in 1..Len(s) + 1 : \E k \in f[i + 1] : j <= k}
      [] i < Len(p) /\ p[i] = Backslash ->
            {j \in 1..Len(s) : s[j] = p[i + 1] /\ j + 1 \in f[i + 2]}
      [] OTHER ->
            {j \in 1..Len(s) : p[i] \in {AnyCharacter, s[j]} /\ j + 1 \in f[i + 1]}

\* ... and that for all positions from b on.
Matching(f, b, p, s) == f = [i \in b..Len(p) + 1 |-> GoesOn(f, i, p, s)]

\* The positions exist; the definition of MatchFrom chooses them.
LEMMA MatchingExists ==
    ASSUME NEW p, NEW s, Len(p) \in Nat
    PROVE  \E f : Matching(f, 1, p, s)
  <1> DEFINE L == Len(p) + 1
             B == {n \in Nat : n < L /\ ~\E f : Matching(f, L - n, p, s)}
  <1> SUFFICES ASSUME L - 1 \in B PROVE FALSE
    BY DEF B
  <1>1. B \in SUBSET Nat /\ B # {}
    OBVIOUS
  <1> HIDE DEF B
  <1>2. PICK n \in B : \A m \in B : n <= m
    BY <1>1, LeastNatural
  <1>3. n \in Nat /\ n < L /\ n - 1 \notin B
    BY <1>1, <1>2 DEF B
  <1>4. n # 0
    <2> DEFINE g == [i \in L..L |-> {Len(s) + 1}]
    <2>1. \A i \in L..L : GoesOn(g, i, p, s) = {Len(s) + 1}
      BY DEF GoesOn
    <2>2. Matching(g, L, p, s)
      BY Zenon, <2>1 DEF Matching
    <2>3. L - 0 = L
      OBVIOUS
    <2> QED
      BY ZenonT(30), <1>2, <2>2, <2>3 DEF B
  <1>5. PICK f : Matching(f, L - (n - 1), p, s)
    BY <1>3, <1>4 DEF B
  <1> DEFINE b == L - n
             g == [i \in b..L |-> GoesOn(f, i, p, s)]
  <1>6. \A i \in (b + 1)..L : g[i] = f[i]
    BY <1>3, <1>4, <1>5 DEF Matching
  <1>7. \A i \in b..L : i <= Len(p) => i + 1 \in (b + 1)..L
    BY <1>3
  <1>8. \A i \in b..L : i < Len(p) => i + 2 \in (b + 1)..L
    BY <1>3
  <1>9. ASSUME NEW i \in b..L PROVE GoesOn(g, i, p, s) = GoesOn(f, i, p, s)
    <2> HIDE DEF g
    <2>1. CASE i > Len(p)
      BY <2>1 DEF GoesOn
    <2>2. CASE i <= Len(p)
      <3>1. g[i + 1] = f[i + 1]
        BY <1>6, <1>7, <2>2
      <3>2. i < Len(p) => g[i + 2] = f[i + 2]
        BY <1>6, <1>8, <2>2
      <3> QED
        BY <2>2, <3>1, <3>2 DEF GoesOn
    <2> QED
      BY <1>3, <2>1, <2>2
  <1>10. Matching(g, b, p, s)
    BY Zenon, <1>9 DEF Matching
  <1> QED
    BY ZenonT(30), <1>2, <1>10 DEF B

\* What MatchFrom is at each position.
LEMMA MatchFromGoesOn ==
    ASSUME NEW p, NEW s, Len(p) \in Nat
    PROVE  \A i \in 1..Len(p) + 1 : MatchFrom(p, s)[i] = GoesOn(MatchFrom(p, s), i, p, s)
  <1>1. MatchFrom(p, s) = CHOOSE f : Matching(f, 1, p, s)
    BY DEF MatchFrom, Matching, GoesOn
  <1>2. Matching(MatchFrom(p, s), 1, p, s)
    BY Zenon, <1>1, MatchingExists
  <1> QED
    BY <1>2 DEF Matching

\* Strings and their concatenation.
LEMMA StringShape ==
    ASSUME NEW s, IsString(s)
    PROVE  Len(s) \in Nat /\ DOMAIN s = 1..Len(s) /\ s \in Seq({s[i] : i \in DOMAIN s})
  BY DEF IsString

\* The characters of two strings in a row.
LEMMA Joined ==
    ASSUME NEW h, IsString(h), NEW q, IsString(q)
    PROVE  /\ IsString(h \o q) /\ Len(h \o q) = Len(h) + Len(q)
           /\ \A i \in 1..Len(h) : (h \o q)[i] = h[i]
           /\ \A i \in 1..Len(q) : (h \o q)[i + Len(h)] = q[i]
  <1> DEFINE U == {h[i] : i \in DOMAIN h} \cup {q[i] : i \in DOMAIN q}
             j == h \o q
  <1>1. h \in Seq(U) /\ q \in Seq(U) /\ Len(h) \in Nat /\ Len(q) \in Nat
    <2>1. h \in Seq({h[i] : i \in DOMAIN h}) /\ q \in Seq({q[i] : i \in DOMAIN q})
      BY StringShape
    <2>2. h \in Seq(U)
      BY <2>1
    <2>3. q \in Seq(U)
      BY <2>1
    <2> QED
      BY <2>2, <2>3
  <1> HIDE DEF U
  <1>2. /\ j \in Seq(U) /\ Len(j) = Len(h) + Len(q)
        /\ \A i \in 1..Len(h) : j[i] = h[i]
        /\ \A i \in 1..Len(q) : j[i + Len(h)] = q[i]
    BY <1>1
  <1> HIDE DEF j
  <1>3. j \in Seq({j[i] : i \in DOMAIN j})
    BY <1>2
  <1>4. IsString(j)
    BY <1>3 DEF IsString
  <1> QED
    BY <1>2, <1>4 DEF j

\* The cases of GoesOn.
LEMMA GoesOnEnd ==
    ASSUME NEW f, NEW p, NEW s, Len(p) \in Nat, NEW i, i = Len(p) + 1
    PROVE  GoesOn(f, i, p, s) = {Len(s) + 1}
  BY DEF GoesOn

\* ... at a "*" ...
LEMMA GoesOnAny ==
    ASSUME NEW f, NEW p, NEW s, Len(p) \in Nat, NEW i \in Nat, i <= Len(p), p[i] = AnyString
    PROVE  GoesOn(f, i, p, s) = {j \in 1..Len(s) + 1 : \E k \in f[i + 1] : j <= k}
  <1>1. ~(i > Len(p)) /\ AnyString # Backslash
    BY CharactersDiffer
  <1> QED
    BY Zenon, <1>1 DEF GoesOn

\* ... at a quoted character ...
LEMMA GoesOnQuoted ==
    ASSUME NEW f, NEW p, NEW s, Len(p) \in Nat, NEW i \in Nat, i < Len(p), p[i] = Backslash
    PROVE  \A j : j \in GoesOn(f, i, p, s) <=>
              j \in 1..Len(s) /\ s[j] = p[i + 1] /\ j + 1 \in f[i + 2]
  <1>1. ~(i > Len(p)) /\ AnyString # Backslash
    BY CharactersDiffer
  <1> QED
    BY ZenonT(30), <1>1 DEF GoesOn

\* ... and at any other.
LEMMA GoesOnPlain ==
    ASSUME NEW f, NEW p, NEW s, Len(p) \in Nat, NEW i \in Nat, i <= Len(p),
           p[i] # AnyString, ~(p[i] = Backslash /\ i < Len(p))
    PROVE  \A j : j \in GoesOn(f, i, p, s) <=>
              j \in 1..Len(s) /\ p[i] \in {AnyCharacter, s[j]} /\ j + 1 \in f[i + 1]
  <1>1. ~(i > Len(p))
    OBVIOUS
  <1> QED
    BY Zenon, <1>1 DEF GoesOn

\* The positions are positions of the string or its end.
LEMMA MatchFromType ==
    ASSUME NEW p, IsString(p), NEW s, IsString(s), NEW i \in 1..Len(p) + 1
    PROVE  MatchFrom(p, s)[i] \subseteq 1..Len(s) + 1
  <1> DEFINE f == MatchFrom(p, s)
  <1>1. Len(p) \in Nat /\ Len(s) \in Nat
    BY StringShape
  <1>2. f[i] = GoesOn(f, i, p, s)
    BY <1>1, MatchFromGoesOn
  <1> HIDE DEF f
  <1>3. GoesOn(f, i, p, s) \subseteq 1..Len(s) + 1
    BY <1>1 DEF GoesOn
  <1> QED
    BY <1>2, <1>3 DEF f

\* What is to the left in the pattern and in the string makes no difference.
LEMMA MatchFromShift ==
    ASSUME NEW h, IsString(h), NEW q, IsString(q), NEW t, IsString(t), NEW s, IsString(s)
    PROVE  \A i \in 1..Len(q) + 1, j \in 1..Len(s) + 1 :
              j + Len(t) \in MatchFrom(h \o q, t \o s)[i + Len(h)] <=> j \in MatchFrom(q, s)[i]
  <1> DEFINE p == h \o q
             u == t \o s
             f == MatchFrom(p, u)
             g == MatchFrom(q, s)
             H == Len(h)
             T == Len(t)
             Q == Len(q)
             S == Len(s)
             B == {n \in Nat : \E i \in 1..Q + 1, j \in 1..S + 1 :
                        n = Q + 1 - i /\ ~(j + T \in f[i + H] <=> j \in g[i])}
  <1>1. H \in Nat /\ T \in Nat /\ Q \in Nat /\ S \in Nat
    BY StringShape
  <1>2. /\ IsString(p) /\ Len(p) = H + Q
        /\ \A i \in 1..Q : p[i + H] = q[i]
    BY Joined
  <1>3. /\ IsString(u) /\ Len(u) = T + S
        /\ \A i \in 1..S : u[i + T] = s[i]
    BY Joined
  <1>4. \A i \in 1..Q + 1 : g[i] = GoesOn(g, i, q, s) /\ g[i] \subseteq 1..S + 1
    BY <1>1, MatchFromGoesOn, MatchFromType
  <1>5. \A i \in 1..Q + 1 : f[i + H] = GoesOn(f, i + H, p, u) /\ f[i + H] \subseteq 1..T + S + 1
    <2>0. Len(p) \in Nat
      BY <1>1, <1>2
    <2>1. \A i \in 1..Len(p) + 1 : f[i] = GoesOn(f, i, p, u)
      BY Zenon, <2>0, MatchFromGoesOn
    <2>2. \A i \in 1..Len(p) + 1 : f[i] \subseteq 1..Len(u) + 1
      BY ZenonT(30), <1>2, <1>3, MatchFromType
    <2> HIDE DEF f
    <2>3. \A i \in 1..Q + 1 : i + H \in 1..Len(p) + 1
      BY <1>1, <1>2
    <2> QED
      BY <1>3, <2>1, <2>2, <2>3
  <1>6. B \in SUBSET Nat
    OBVIOUS
  <1> HIDE DEF B, f, g
  <1> SUFFICES ASSUME NEW a \in 1..Q + 1, NEW b \in 1..S + 1,
                      ~(b + T \in f[a + H] <=> b \in g[a])
               PROVE  FALSE
    BY DEF f, g
  <1>0. B # {}
    <2>1. Q + 1 - a \in Nat
      BY <1>1
    <2> QED
      BY Zenon, <2>1 DEF B
  <1>7. PICK n \in B : \A m \in B : n <= m
    BY Zenon, <1>0, <1>6, LeastNatural
  <1>8. PICK i \in 1..Q + 1, j \in 1..S + 1 :
           n = Q + 1 - i /\ ~(j + T \in f[i + H] <=> j \in g[i])
    BY <1>7 DEF B
  <1>9. ASSUME NEW e \in 1..Q + 1, e > i, NEW k \in 1..S + 1
        PROVE  k + T \in f[e + H] <=> k \in g[e]
    <2>1. Q + 1 - e \in Nat /\ Q + 1 - e < n
      BY <1>1, <1>8, <1>9
    <2>2. Q + 1 - e \notin B
      BY <1>6, <1>7, <2>1
    <2> QED
      BY Zenon, <2>1, <2>2 DEF B
  <1> HIDE DEF p, u, H, T, Q, S
  <1>10. Len(p) = H + Q /\ Len(u) = T + S /\ Len(q) = Q /\ Len(s) = S
    BY <1>2, <1>3 DEF Q, S
  <1>e. /\ g[i] = GoesOn(g, i, q, s) /\ Len(q) \in Nat /\ i \in Nat
        /\ f[i + H] = GoesOn(f, i + H, p, u) /\ Len(p) \in Nat /\ i + H \in Nat
    BY <1>1, <1>4, <1>5, <1>10
  <1>11. CASE i = Q + 1
    <2>0. i = Len(q) + 1 /\ i + H = Len(p) + 1
      BY <1>1, <1>10, <1>11
    <2>1. g[i] = {S + 1}
      <3>a. GoesOn(g, i, q, s) = {Len(s) + 1}
        BY ONLY SMTT(30), ZenonT(30), <1>e, <2>0, GoesOnEnd
      <3> QED
        BY <1>10, <1>e, <3>a
    <2>2. f[i + H] = {T + S + 1}
      <3>a. GoesOn(f, i + H, p, u) = {Len(u) + 1}
        BY ONLY SMTT(30), ZenonT(30), <1>e, <2>0, GoesOnEnd
      <3> QED
        BY <1>10, <1>e, <3>a
    <2> QED
      BY <1>1, <1>8, <2>1, <2>2
  <1>12. CASE i <= Q
    <2>0. i \in 1..Q
      BY <1>1, <1>8, <1>12
    <2>1. p[i + H] = q[i] /\ i <= Len(q) /\ i + H <= Len(p)
      BY <1>1, <1>2, <1>10, <2>0
    <2>2. i + 1 \in 1..Q + 1 /\ (i + H) + 1 = (i + 1) + H
      BY <1>1, <1>8, <1>12
    <2>3. \A k \in 1..S + 1 : k + T \in f[(i + H) + 1] <=> k \in g[i + 1]
      BY <1>1, <1>9, <2>2
    <2>4. CASE q[i] = AnyString
      <3>1. g[i] = {l \in 1..S + 1 : \E k \in g[i + 1] : l <= k}
        <4>a. GoesOn(g, i, q, s) = {l \in 1..Len(s) + 1 : \E k \in g[i + 1] : l <= k}
          BY ONLY SMTT(30), ZenonT(30), <1>e, <2>1, <2>4, GoesOnAny
        <4> QED
          BY <1>10, <1>e, <2>1, <4>a
      <3>2. f[i + H] = {l \in 1..T + S + 1 : \E k \in f[(i + H) + 1] : l <= k}
        <4>a. GoesOn(f, i + H, p, u) = {l \in 1..Len(u) + 1 : \E k \in f[(i + H) + 1] : l <= k}
          BY ONLY SMTT(30), ZenonT(30), <1>e, <2>1, <2>4, GoesOnAny
        <4> QED
          BY <1>10, <1>e, <2>1, <4>a
      <3>3. g[i + 1] \subseteq 1..S + 1 /\ f[(i + H) + 1] \subseteq 1..T + S + 1
        BY <1>4, <1>5, <2>2
      <3>4. ASSUME j \in g[i] PROVE j + T \in f[i + H]
        <4>1. PICK k \in g[i + 1] : j <= k
          BY <3>1, <3>4
        <4>2. k + T \in f[(i + H) + 1] /\ j + T <= k + T /\ j + T \in 1..T + S + 1
          BY <1>1, <2>3, <3>3, <4>1
        <4> QED
          BY <3>2, <4>2
      <3>5. ASSUME j + T \in f[i + H] PROVE j \in g[i]
        <4>1. PICK k \in f[(i + H) + 1] : j + T <= k
          BY <3>2, <3>5
        <4>2. k - T \in 1..S + 1 /\ (k - T) + T = k /\ j <= k - T
          BY <1>1, <3>3, <4>1
        <4>3. k - T \in g[i + 1]
          BY <2>3, <4>1, <4>2
        <4> QED
          BY <3>1, <4>2, <4>3
      <3> QED
        BY <1>8, <3>4, <3>5
    <2>5. CASE q[i] # AnyString /\ q[i] = Backslash /\ i < Q
      <3>0. i < Len(q) /\ i + H < Len(p)
        BY <1>1, <1>10, <2>5
      <3>1. \A l : l \in g[i] <=> l \in 1..S /\ s[l] = q[i + 1] /\ l + 1 \in g[i + 2]
        <4>a. \A l : l \in GoesOn(g, i, q, s) <=>
                 l \in 1..Len(s) /\ s[l] = q[i + 1] /\ l + 1 \in g[i + 2]
          BY ONLY ZenonT(30), <1>e, <2>1, <2>5, <3>0, GoesOnQuoted
        <4> QED
          BY <1>10, <1>e, <2>1, <4>a
      <3>2. \A l : l \in f[i + H] <=>
               l \in 1..T + S /\ u[l] = p[(i + H) + 1] /\ l + 1 \in f[(i + H) + 2]
        <4>a. \A l : l \in GoesOn(f, i + H, p, u) <=>
                 l \in 1..Len(u) /\ u[l] = p[(i + H) + 1] /\ l + 1 \in f[(i + H) + 2]
          BY ONLY Zenon, <1>e, <2>1, <2>5, <3>0, GoesOnQuoted
        <4> QED
          BY <1>10, <1>e, <2>1, <4>a
      <3>3. i + 2 \in 1..Q + 1 /\ (i + H) + 2 = (i + 2) + H
        BY <1>1, <1>8, <2>5
      <3>4. \A k \in 1..S + 1 : k + T \in f[(i + H) + 2] <=> k \in g[i + 2]
        BY <1>1, <1>9, <3>3
      <3>5. p[(i + H) + 1] = q[i + 1]
        BY <1>1, <1>2, <1>8, <2>2, <2>5
      <3>6. j \in 1..S <=> j + T \in 1..T + S
        BY <1>1
      <3>7. ASSUME j \in 1..S
            PROVE  /\ u[j + T] = s[j]
                   /\ (j + T) + 1 \in f[(i + H) + 2] <=> j + 1 \in g[i + 2]
        <4>1. j + 1 \in 1..S + 1 /\ (j + T) + 1 = (j + 1) + T
          BY <1>1, <3>7
        <4> QED
          BY <1>3, <3>4, <3>7, <4>1
      <3> QED
        BY <1>8, <3>1, <3>2, <3>5, <3>6, <3>7
    <2>6. CASE q[i] # AnyString /\ ~(q[i] = Backslash /\ i < Q)
      <3>0. ~(q[i] = Backslash /\ i < Len(q)) /\ ~(q[i] = Backslash /\ i + H < Len(p))
        BY <1>1, <1>10, <2>6
      <3>1. \A l : l \in g[i] <=> l \in 1..S /\ q[i] \in {AnyCharacter, s[l]} /\ l + 1 \in g[i + 1]
        <4>a. \A l : l \in GoesOn(g, i, q, s) <=>
                 l \in 1..Len(s) /\ q[i] \in {AnyCharacter, s[l]} /\ l + 1 \in g[i + 1]
          BY ONLY Zenon, <1>e, <2>1, <2>6, <3>0, GoesOnPlain
        <4> QED
          BY <1>10, <1>e, <2>1, <4>a
      <3>2. \A l : l \in f[i + H] <=>
               l \in 1..T + S /\ q[i] \in {AnyCharacter, u[l]} /\ l + 1 \in f[(i + H) + 1]
        <4>a. \A l : l \in GoesOn(f, i + H, p, u) <=>
                 l \in 1..Len(u) /\ p[i + H] \in {AnyCharacter, u[l]} /\ l + 1 \in f[(i + H) + 1]
          BY ONLY Zenon, <1>e, <2>1, <2>6, <3>0, GoesOnPlain
        <4> QED
          BY <1>10, <1>e, <2>1, <4>a
      <3>3. j \in 1..S <=> j + T \in 1..T + S
        BY <1>1
      <3>4. ASSUME j \in 1..S
            PROVE  /\ u[j + T] = s[j]
                   /\ (j + T) + 1 \in f[(i + H) + 1] <=> j + 1 \in g[i + 1]
        <4>1. j + 1 \in 1..S + 1 /\ (j + T) + 1 = (j + 1) + T
          BY <1>1, <3>4
        <4> QED
          BY <1>3, <2>3, <3>4, <4>1
      <3> QED
        BY <1>8, <3>1, <3>2, <3>3, <3>4
    <2> QED
      BY <2>4, <2>5, <2>6
  <1> QED
    BY <1>1, <1>8, <1>11, <1>12

\* A pattern in a namespace matches the full keys of that namespace that it matches there.
LEMMA NamespacePattern ==
    ASSUME NEW ns, ns \notin PatternCharacters, NEW q, IsString(q), NEW ms, NEW s, IsString(s)
    PROVE  Matches(addKey(ns, q), addKey(ms, s)) <=> ns = ms /\ Matches(q, s)
  <1> DEFINE h == <<OpenBrace, ns, CloseBrace, Separator>>
             t == <<OpenBrace, ms, CloseBrace, Separator>>
             p == addKey(ns, q)
             u == addKey(ms, s)
             f == MatchFrom(p, u)
  <1>1. IsString(h) /\ Len(h) = 4 /\ IsString(t) /\ Len(t) = 4
    BY DEF IsString
  <1>2. p = h \o q /\ u = t \o s
    BY DEF addKey
  <1>3. /\ Len(q) \in Nat /\ Len(p) = Len(q) + 4 /\ p[1] = OpenBrace /\ p[2] = ns
        /\ p[3] = CloseBrace /\ p[4] = Separator
    BY FullKey
  <1>4. /\ Len(s) \in Nat /\ Len(u) = Len(s) + 4 /\ u[1] = OpenBrace /\ u[2] = ms
        /\ u[3] = CloseBrace /\ u[4] = Separator
    BY FullKey
  <1> HIDE DEF h, t, p, u
  <1>5. 5 \in f[5] <=> 1 \in MatchFrom(q, s)[1]
    <2>1. 1 \in 1..Len(q) + 1 /\ 1 \in 1..Len(s) + 1
      BY <1>3, <1>4
    <2>2. 1 + Len(t) \in MatchFrom(h \o q, t \o s)[1 + Len(h)] <=> 1 \in MatchFrom(q, s)[1]
      BY Zenon, <1>1, <2>1, MatchFromShift
    <2>3. 1 + Len(t) = 5 /\ 1 + Len(h) = 5
      BY <1>1
    <2> QED
      BY Zenon, <1>2, <2>2, <2>3
  <1> HIDE DEF f
  <1>6. ASSUME NEW i \in 1..4
        PROVE  i \in f[i] <=> p[i] = u[i] /\ i + 1 \in f[i + 1]
    <2>1. p[i] \notin PatternCharacters
      BY <1>3, CharactersDiffer
    <2>2. p[i] # AnyString /\ p[i] # Backslash /\ p[i] # AnyCharacter
      BY <2>1, CharactersDiffer
    <2>3. i \in 1..Len(p) + 1 /\ Len(p) \in Nat /\ i \in Nat /\ i <= Len(p) /\ i \in 1..Len(u)
      BY <1>3, <1>4
    <2>4. f[i] = GoesOn(f, i, p, u)
      BY ZenonT(30), <2>3, MatchFromGoesOn DEF f
    <2>5. \A j : j \in GoesOn(f, i, p, u) <=>
             j \in 1..Len(u) /\ p[i] \in {AnyCharacter, u[j]} /\ j + 1 \in f[i + 1]
      BY ONLY Zenon, <2>2, <2>3, GoesOnPlain
    <2> QED
      BY Zenon, <2>2, <2>3, <2>4, <2>5
  <1>7. /\ 1 \in f[1] <=> p[1] = u[1] /\ 2 \in f[2]
        /\ 2 \in f[2] <=> p[2] = u[2] /\ 3 \in f[3]
        /\ 3 \in f[3] <=> p[3] = u[3] /\ 4 \in f[4]
        /\ 4 \in f[4] <=> p[4] = u[4] /\ 5 \in f[5]
    BY <1>6
  <1>8. 1 \in f[1] <=> ns = ms /\ 1 \in MatchFrom(q, s)[1]
    BY <1>3, <1>4, <1>5, <1>7
  <1> QED
    BY <1>8 DEF Matches, p, u, f

-----------------------------------------------------------------------------
(* Escaping.                                                                *)

\* The patterns of the first characters of x.
Escaping(f, n, x) == f = [i \in 0..n |-> IF i = 0 THEN <<>> ELSE f[i - 1] \o Quoted(x[i])]

\* They exist; the definition of escapeRedisSearchPatternCharacters chooses them.
LEMMA EscapingExists ==
    ASSUME NEW x, NEW k \in Nat
    PROVE  \E f : Escaping(f, k, x)
  <1> DEFINE B == {n \in Nat : ~\E f : Escaping(f, n, x)}
  <1> SUFFICES ASSUME k \in B PROVE FALSE
    OBVIOUS
  <1>1. B \in SUBSET Nat /\ B # {}
    OBVIOUS
  <1> HIDE DEF B
  <1>2. PICK n \in B : \A m \in B : n <= m
    BY <1>1, LeastNatural
  <1>3. n \in Nat /\ n - 1 \notin B
    BY <1>1, <1>2 DEF B
  <1>4. n # 0
    <2> DEFINE g == [i \in 0..0 |-> <<>>]
    <2>1. Escaping(g, 0, x)
      BY DEF Escaping
    <2> QED
      BY Zenon, <1>2, <2>1 DEF B
  <1>5. PICK f : Escaping(f, n - 1, x)
    BY <1>3, <1>4 DEF B
  <1> DEFINE g == [i \in 0..n |-> IF i = 0 THEN <<>> ELSE f[i - 1] \o Quoted(x[i])]
  <1>6. \A i \in 0..(n - 1) : g[i] = f[i]
    <2>1. \A i \in 0..(n - 1) : f[i] = IF i = 0 THEN <<>> ELSE f[i - 1] \o Quoted(x[i])
      BY Zenon, <1>5 DEF Escaping
    <2>2. \A i \in 0..(n - 1) : i \in 0..n
      BY <1>3
    <2> QED
      BY Zenon, <2>1, <2>2
  <1>7. \A i \in 0..n : i # 0 => i - 1 \in 0..(n - 1)
    BY <1>3
  <1>8. Escaping(g, n, x)
    BY Zenon, <1>6, <1>7 DEF Escaping
  <1> QED
    BY Zenon, <1>2, <1>8 DEF B

\* A character in a pattern is one or two.
LEMMA QuotedString == \A c : IsString(Quoted(c)) /\ Len(Quoted(c)) \in {1, 2}
  <1>1. ASSUME NEW c PROVE IsString(<<Backslash, c>>) /\ Len(<<Backslash, c>>) = 2
    BY DEF IsString
  <1>2. ASSUME NEW c PROVE IsString(<<c>>) /\ Len(<<c>>) = 1
    BY DEF IsString
  <1> QED
    BY Zenon, <1>1, <1>2 DEF Quoted

\* The empty string.
LEMMA EmptyString == IsString(<<>>) /\ Len(<<>>) = 0 /\ \A s : IsString(s) => <<>> \o s = s
  <1>1. IsString(<<>>) /\ Len(<<>>) = 0
    BY DEF IsString
  <1>2. ASSUME NEW s, IsString(s) PROVE <<>> \o s = s
    BY <1>2, StringShape
  <1> QED
    BY <1>1, <1>2

\* It matches that character and nothing else.
LEMMA QuotedMatches ==
    ASSUME NEW c, NEW q, IsString(q), NEW s, IsString(s), NEW j \in 1..Len(s) + 1
    PROVE  j \in MatchFrom(Quoted(c) \o q, s)[1] <=>
              j \in 1..Len(s) /\ s[j] = c /\ j + 1 \in MatchFrom(q, s)[1]
  <1> DEFINE h == Quoted(c)
             p == h \o q
             f == MatchFrom(p, s)
             e == <<>>
  <1>1. IsString(h) /\ Len(h) \in {1, 2} /\ IsString(e) /\ Len(e) = 0
    BY Zenon, QuotedString, EmptyString
  <1>2. Len(q) \in Nat /\ Len(s) \in Nat /\ e \o s = s
    BY Zenon, StringShape, EmptyString
  <1>3. IsString(p) /\ Len(p) = Len(h) + Len(q) /\ \A i \in 1..Len(h) : p[i] = h[i]
    BY <1>1, Joined
  <1>4. \A k \in 1..Len(s) + 1 : k \in f[1 + Len(h)] <=> k \in MatchFrom(q, s)[1]
    <2>1. 1 \in 1..Len(q) + 1
      BY <1>2
    <2>2. \A k \in 1..Len(s) + 1 :
             k + Len(e) \in MatchFrom(h \o q, e \o s)[1 + Len(h)] <=> k \in MatchFrom(q, s)[1]
      BY ZenonT(30), <1>1, <2>1, MatchFromShift
    <2>3. \A k \in 1..Len(s) + 1 : k + Len(e) = k
      BY <1>1
    <2> QED
      BY Zenon, <1>2, <2>2, <2>3
  <1>5. Len(p) \in Nat /\ 1 \in 1..Len(p) + 1 /\ 1 \in Nat /\ 1 <= Len(p)
    <2> HIDE DEF p, h
    <2> QED
      BY <1>1, <1>2, <1>3
  <1>6. f[1] = GoesOn(f, 1, p, s)
    BY ZenonT(30), <1>5, MatchFromGoesOn
  <1>7. j \in 1..Len(s) => j + 1 \in 1..Len(s) + 1
    BY <1>2
  <1> HIDE DEF f, p, h
  <1>8. CASE c \in PatternCharacters
    <2>1. h = <<Backslash, c>>
      BY <1>8 DEF h, Quoted
    <2>2. Len(h) = 2 /\ h[1] = Backslash /\ h[2] = c
      BY <2>1
    <2>3. p[1] = Backslash /\ p[1 + 1] = c /\ 1 < Len(p) /\ 1 + Len(h) = 1 + 2
      BY <1>2, <1>3, <2>2
    <2>4. \A k : k \in GoesOn(f, 1, p, s) <=>
             k \in 1..Len(s) /\ s[k] = p[1 + 1] /\ k + 1 \in f[1 + 2]
      BY ONLY ZenonT(30), <1>5, <2>3, GoesOnQuoted
    <2> QED
      BY Zenon, <1>4, <1>6, <1>7, <2>3, <2>4 DEF f, p, h
  <1>9. CASE c \notin PatternCharacters
    <2>1. h = <<c>>
      BY <1>9 DEF h, Quoted
    <2>2. Len(h) = 1 /\ h[1] = c
      BY <2>1
    <2>3. /\ p[1] = c /\ 1 + Len(h) = 1 + 1
          /\ p[1] # AnyString /\ p[1] # Backslash /\ p[1] # AnyCharacter
      BY <1>3, <1>9, <2>2, CharactersDiffer
    <2>4. \A k : k \in GoesOn(f, 1, p, s) <=>
             k \in 1..Len(s) /\ p[1] \in {AnyCharacter, s[k]} /\ k + 1 \in f[1 + 1]
      BY ONLY SMTT(30), ZenonT(30), <1>5, <2>3, GoesOnPlain
    <2> QED
      BY Zenon, <1>4, <1>6, <1>7, <2>3, <2>4 DEF f, p, h
  <1> QED
    BY <1>8, <1>9

\* Concatenation of strings is associative.
LEMMA JoinedTwice ==
    ASSUME NEW a, IsString(a), NEW b, IsString(b), NEW c, IsString(c)
    PROVE  (a \o b) \o c = a \o (b \o c)
  <1> DEFINE U == {a[i] : i \in DOMAIN a} \cup {b[i] : i \in DOMAIN b} \cup {c[i] : i \in DOMAIN c}
  <1>1. /\ a \in Seq({a[i] : i \in DOMAIN a}) /\ b \in Seq({b[i] : i \in DOMAIN b})
        /\ c \in Seq({c[i] : i \in DOMAIN c})
    BY StringShape
  <1>2. a \in Seq(U)
    BY <1>1
  <1>3. b \in Seq(U)
    BY <1>1
  <1>4. c \in Seq(U)
    BY <1>1
  <1> HIDE DEF U
  <1> QED
    BY <1>2, <1>3, <1>4

\* A prefix, character by character.
Begins(x, n, s) == \A k \in 1..n : k \in 1..Len(s) /\ s[k] = x[k]

\* That is what it means to have a prefix.
LEMMA PrefixBegins ==
    ASSUME NEW x, IsString(x), NEW s, IsString(s)
    PROVE  API!IsPrefix(x, s) <=> Begins(x, Len(x), s)
  <1>1. /\ x \in Seq({x[i] : i \in DOMAIN x}) /\ s \in Seq({s[i] : i \in DOMAIN s})
        /\ Len(x) \in Nat /\ Len(s) \in Nat
    BY StringShape
  <1>2. ASSUME API!IsPrefix(x, s) PROVE Begins(x, Len(x), s)
    <2>1. Len(x) <= Len(s) /\ SubSeq(s, 1, Len(x)) = x
      BY <1>2 DEF API!IsPrefix
    <2>2. ASSUME NEW k \in 1..Len(x) PROVE k \in 1..Len(s) /\ s[k] = x[k]
      <3>1. k \in 1..Len(s)
        BY <1>1, <2>1
      <3>2. SubSeq(x, 1, Len(x))[k] = x[k] /\ SubSeq(s, 1, Len(x))[k] = s[k]
        BY <1>1, <2>1
      <3> QED
        BY <2>1, <3>1, <3>2
    <2> QED
      BY <2>2 DEF Begins
  <1>3. ASSUME Begins(x, Len(x), s) PROVE API!IsPrefix(x, s)
    <2>1. Len(x) <= Len(s)
      <3>1. CASE Len(x) = 0
        BY <1>1, <3>1
      <3>2. CASE Len(x) # 0
        <4>1. Len(x) \in 1..Len(x)
          BY <1>1, <3>2
        <4> QED
          BY <1>1, <1>3, <4>1 DEF Begins
      <3> QED
        BY <3>1, <3>2
    <2>2. \A k \in 1..Len(x) : s[k] = x[k]
      BY <1>3 DEF Begins
    <2>3. SubSeq(s, 1, Len(x)) = x
      BY <1>1, <2>1, <2>2
    <2> QED
      BY <2>1, <2>3 DEF API!IsPrefix
  <1> QED
    BY <1>2, <1>3

\* The pattern of the first k characters of x matches these characters and nothing else, whatever
\* pattern follows.
LEMMA EscapedMatches ==
    ASSUME NEW x, IsString(x), NEW s, IsString(s),
           NEW f, Escaping(f, Len(x), x), NEW k \in 0..Len(x)
    PROVE  /\ IsString(f[k])
           /\ \A q : IsString(q) =>
                (1 \in MatchFrom(f[k] \o q, s)[1] <=>
                    Begins(x, k, s) /\ k + 1 \in MatchFrom(q, s)[1])
  <1> DEFINE G(n) == /\ IsString(f[n])
                     /\ \A q : IsString(q) =>
                          (1 \in MatchFrom(f[n] \o q, s)[1] <=>
                              Begins(x, n, s) /\ n + 1 \in MatchFrom(q, s)[1])
             B == {n \in Nat : n \in 0..Len(x) /\ ~G(n)}
  <1>1. Len(x) \in Nat /\ Len(s) \in Nat
    BY StringShape
  <1> HIDE DEF G
  <1> SUFFICES ASSUME ~G(k) PROVE FALSE
    BY DEF G
  <1>2. B \in SUBSET Nat /\ B # {}
    BY <1>1
  <1> HIDE DEF B
  <1>3. PICK n \in B : \A m \in B : n <= m
    BY <1>2, LeastNatural
  <1>4. n \in Nat /\ n <= Len(x) /\ ~G(n)
    BY <1>1, <1>3 DEF B
  <1>5. n # 0
    <2>1. 0 \in 0..Len(x) /\ Begins(x, 0, s) /\ 0 + 1 = 1
      BY <1>1 DEF Begins
    <2>3. f[0] = <<>>
      BY Zenon, <2>1 DEF Escaping
    <2>2. G(0)
      BY Zenon, <2>1, <2>3, EmptyString DEF G
    <2> QED
      BY <1>4, <2>2
  <1> DEFINE m == n - 1
             c == x[n]
             h == f[m]
  <1>6. m \in Nat /\ m \in 0..Len(x) /\ m + 1 = n /\ n \in 1..Len(x) /\ m < n /\ n \in 0..Len(x)
    BY <1>1, <1>4, <1>5
  <1> HIDE DEF m
  <1>7. G(m)
    BY <1>2, <1>3, <1>4, <1>6 DEF B
  <1>8. f[n] = h \o Quoted(c)
    <2>1. f[n] = IF n = 0 THEN <<>> ELSE f[n - 1] \o Quoted(x[n])
      BY ZenonT(30), <1>6 DEF Escaping
    <2> QED
      BY Zenon, <1>5, <2>1 DEF m
  <1>9. IsString(h) /\ IsString(Quoted(c))
    BY Zenon, <1>7, QuotedString DEF G
  <1>10. IsString(f[n])
    BY <1>8, <1>9, Joined
  <1>11. Begins(x, n, s) <=> Begins(x, m, s) /\ n \in 1..Len(s) /\ s[n] = c
    <2>1. 1..n = 1..m \cup {n}
      BY <1>6
    <2> QED
      BY ZenonT(30), <2>1 DEF Begins
  <1> HIDE DEF h, c
  <1>12. ASSUME NEW q, IsString(q)
         PROVE  1 \in MatchFrom(f[n] \o q, s)[1] <=>
                    Begins(x, n, s) /\ n + 1 \in MatchFrom(q, s)[1]
    <2> DEFINE r == Quoted(c) \o q
    <2>1. IsString(r)
      BY <1>9, <1>12, Joined
    <2>2. f[n] \o q = h \o r
      <3>1. (h \o Quoted(c)) \o q = h \o (Quoted(c) \o q)
        BY ONLY SMTT(30), ZenonT(30), <1>9, <1>12, JoinedTwice
      <3> QED
        BY Zenon, <1>8, <3>1
    <2>3. 1 \in MatchFrom(h \o r, s)[1] <=> Begins(x, m, s) /\ n \in MatchFrom(r, s)[1]
      BY Zenon, <1>6, <1>7, <2>1 DEF G, h
    <2>4. n \in 1..Len(s) + 1 => (n \in MatchFrom(r, s)[1] <=>
             n \in 1..Len(s) /\ s[n] = c /\ n + 1 \in MatchFrom(q, s)[1])
      BY Zenon, <1>12, QuotedMatches
    <2>5. n \in MatchFrom(r, s)[1] => n \in 1..Len(s) + 1
      <3>1. 1 \in 1..Len(r) + 1
        BY <2>1, StringShape
      <3> QED
        BY <2>1, <3>1, MatchFromType
    <2>6. n \in 1..Len(s) => n \in 1..Len(s) + 1
      BY <1>1
    <2> QED
      BY Zenon, <1>11, <2>2, <2>3, <2>4, <2>5, <2>6
  <1>13. G(n)
    BY Zenon, <1>10, <1>12 DEF G
  <1> QED
    BY <1>4, <1>13

\* "*" at the end of a pattern.
LEMMA AnythingMatches ==
    ASSUME NEW s, IsString(s)
    PROVE  IsString(<<AnyString>>) /\ MatchFrom(<<AnyString>>, s)[1] = 1..Len(s) + 1
  <1> DEFINE p == <<AnyString>>
             f == MatchFrom(p, s)
  <1>1. IsString(p) /\ Len(p) = 1 /\ p[1] = AnyString
    BY DEF IsString
  <1>2. Len(s) \in Nat
    BY StringShape
  <1> HIDE DEF p
  <1>3. f[1] = GoesOn(f, 1, p, s) /\ f[2] = GoesOn(f, 2, p, s)
    <2>1. Len(p) \in Nat /\ 1 \in 1..Len(p) + 1 /\ 2 \in 1..Len(p) + 1
      BY <1>1
    <2> QED
      BY Zenon, <2>1, MatchFromGoesOn
  <1> HIDE DEF f
  <1>4. Len(p) \in Nat /\ 1 \in Nat /\ 1 <= Len(p) /\ 2 = Len(p) + 1 /\ 1 + 1 = 2
    BY <1>1
  <1>5. GoesOn(f, 2, p, s) = {Len(s) + 1}
    BY ONLY SMTT(30), ZenonT(30), <1>4, GoesOnEnd
  <1>6. GoesOn(f, 1, p, s) = {j \in 1..Len(s) + 1 : \E k \in f[1 + 1] : j <= k}
    BY ONLY <1>1, <1>4, GoesOnAny
  <1>7. f[1] = 1..Len(s) + 1
    <2>1. f[1 + 1] = {Len(s) + 1}
      BY Zenon, <1>3, <1>4, <1>5
    <2>2. \A j \in 1..Len(s) + 1 : j <= Len(s) + 1
      BY <1>2
    <2>3. f[1] = {j \in 1..Len(s) + 1 : \E k \in f[1 + 1] : j <= k}
      BY ZenonT(30), <1>3, <1>6
    <2>4. \A j : j \in f[1] <=> j \in 1..Len(s) + 1
      BY Zenon, <2>1, <2>2, <2>3
    <2> QED
      BY Zenon, <2>3, <2>4
  <1> QED
    BY <1>1, <1>7 DEF f, p

\* The pattern of a prefix matches the keys with that prefix, whatever characters it has.
LEMMA PrefixPattern ==
    ASSUME NEW x, IsString(x), NEW s, IsString(s)
    PROVE  /\ IsString(escapeRedisSearchPatternCharacters(x))
           /\ (Matches(escapeRedisSearchPatternCharacters(x) \o <<AnyString>>, s) <=>
                 API!IsPrefix(x, s))
  <1> DEFINE n == Len(x)
             e == escapeRedisSearchPatternCharacters(x)
             f == CHOOSE f : Escaping(f, n, x)
  <1>1. n \in Nat /\ DOMAIN x = 1..n /\ Len(s) \in Nat
    BY StringShape
  <1>2. Escaping(f, n, x)
    BY Zenon, <1>1, EscapingExists
  <1>3. e = f[n]
    BY Zenon DEF escapeRedisSearchPatternCharacters, Escaping
  <1> HIDE DEF e, f
  <1>7. n \in 0..Len(x)
    BY <1>1
  <1>8. /\ IsString(e)
        /\ 1 \in MatchFrom(e \o <<AnyString>>, s)[1] <=>
              Begins(x, n, s) /\ n + 1 \in MatchFrom(<<AnyString>>, s)[1]
    BY Zenon, <1>2, <1>3, <1>7, EscapedMatches, AnythingMatches
  <1>9. Begins(x, n, s) => n + 1 \in 1..Len(s) + 1
    <2>1. API!IsPrefix(x, s) => Len(x) <= Len(s)
      BY DEF API!IsPrefix
    <2> QED
      BY <1>1, <2>1, PrefixBegins
  <1> QED
    BY Zenon, <1>8, <1>9, AnythingMatches, PrefixBegins DEF Matches, e

-----------------------------------------------------------------------------
(* What a command does.                                                     *)

\* The data that the full keys hold.
Shared(d) == [n \in Namespaces |-> [k \in Keys |-> d[addKey(n, k)]]]

\* A database: finitely many of the full keys have a value.
Database(d) == DOMAIN d = FullKeys /\ IsFiniteSet(Stored(d))

\* Requests that become commands.
Valid(r) == WellFormed(r) /\ r.ns \in Namespaces /\ ~noKeysGiven(r)

\* Every full key is one of a namespace and a key, and of these only.
LEMMA FullKeysOf ==
    /\ \A f \in FullKeys : \E n \in Namespaces, k \in Keys : f = addKey(n, k)
    /\ \A n \in Namespaces, k \in Keys : addKey(n, k) \in FullKeys
    /\ \A n, m \in Namespaces, k, l \in Keys : addKey(n, k) = addKey(m, l) => n = m /\ k = l
  <1>1. \A k \in Keys : IsString(k)
    BY ApplicationsKnown
  <1>2. ASSUME NEW n \in Namespaces, NEW m \in Namespaces, NEW k \in Keys, NEW l \in Keys,
               addKey(n, k) = addKey(m, l)
        PROVE  n = m /\ k = l
    BY <1>1, <1>2, FullKeysDiffer
  <1>3. /\ \A f \in FullKeys : \E n \in Namespaces, k \in Keys : f = addKey(n, k)
        /\ \A n \in Namespaces, k \in Keys : addKey(n, k) \in FullKeys
    BY DEF FullKeys
  <1> QED
    BY Zenon, <1>2, <1>3

\* The value that a request leaves at a key when it assigns map.
Assigned(d, ns, holds, map, n, k) ==
    IF holds /\ n = ns /\ k \in DOMAIN map THEN map[k] ELSE d[addKey(n, k)]

\* The database c results from d by assigning map in the namespace if the condition holds.
Alters(d, c, ns, holds, map) ==
    /\ DOMAIN c = FullKeys
    /\ \A n \in Namespaces, k \in Keys : c[addKey(n, k)] = Assigned(d, ns, holds, map, n, k)

\* Then it is a database again, and what is changed is in that namespace ...
LEMMA AlteredDatabase ==
    ASSUME NEW d, Database(d), NEW c, NEW ns \in Namespaces, NEW holds, NEW map,
           IsFiniteSet(DOMAIN map), DOMAIN map \subseteq Keys, Alters(d, c, ns, holds, map)
    PROVE  /\ Database(c)
           /\ \A n \in Namespaces, k \in Keys :
                c[addKey(n, k)] # d[addKey(n, k)] =>
                    holds /\ n = ns /\ k \in DOMAIN map /\ map[k] # d[addKey(n, k)]
  <1> DEFINE g == [k \in DOMAIN map |-> addKey(ns, k)]
             G == {g[k] : k \in DOMAIN map}
  <1>1. IsFiniteSet(G)
    BY Zenon, ImageFinite
  <1>2. IsFiniteSet(Stored(d) \cup G)
    BY Zenon, <1>1, FS_Union DEF Database
  <1>3. Stored(c) \subseteq Stored(d) \cup G
    <2>1. SUFFICES ASSUME NEW f \in FullKeys, c[f] # Absent, f \notin G PROVE d[f] # Absent
      BY Zenon DEF Stored
    <2>2. PICK n \in Namespaces, k \in Keys : f = addKey(n, k)
      BY Zenon, FullKeysOf
    <2>3. ~(n = ns /\ k \in DOMAIN map)
      BY Zenon, <2>1, <2>2
    <2>4. c[f] = d[f]
      BY Zenon, <2>2, <2>3 DEF Alters, Assigned
    <2> QED
      BY <2>1, <2>4
  <1>4. IsFiniteSet(Stored(c))
    BY <1>2, <1>3, FS_Subset
  <1> QED
    BY Zenon, <1>4 DEF Alters, Assigned, Database

\* ... and it holds the effect of the request.
LEMMA AlteredEffect ==
    ASSUME NEW d, NEW c, NEW r, r.ns \in Namespaces, NEW holds, NEW map,
           Alters(d, c, r.ns, holds, map),
           API!Holds(r, Shared(d)) <=> holds, API!Assigns(r) = map
    PROVE  Shared(c) = API!Effect(r, Shared(d))
  <1>1. CASE ~holds
    <2>1. API!Effect(r, Shared(d)) = Shared(d)
      BY Zenon, <1>1 DEF API!Effect
    <2>2. Shared(c) = Shared(d)
      BY Zenon, <1>1 DEF Alters, Assigned, Shared
    <2> QED
      BY <2>1, <2>2
  <1>2. CASE holds
    <2> DEFINE s == Shared(d)
               row == [k \in Keys |-> IF k \in DOMAIN map THEN map[k] ELSE s[r.ns][k]]
    <2>1. API!Effect(r, s) = [s EXCEPT ![r.ns] = row]
      BY Zenon, <1>2 DEF API!Effect
    <2>2. DOMAIN s = Namespaces /\ \A n \in Namespaces : s[n] = [k \in Keys |-> d[addKey(n, k)]]
      BY Zenon DEF Shared
    <2>3. Shared(c)[r.ns] = row
      BY Zenon, <1>2, <2>2 DEF Alters, Assigned, Shared
    <2>4. \A n \in Namespaces : n # r.ns => Shared(c)[n] = s[n]
      BY Zenon, <2>2 DEF Alters, Assigned, Shared
    <2>5. Shared(c) = [n \in Namespaces |-> Shared(c)[n]] /\ s = [n \in Namespaces |-> s[n]]
      BY Zenon DEF Shared
    <2> HIDE DEF s, row
    <2>6. [s EXCEPT ![r.ns] = row] = [n \in Namespaces |-> IF n = r.ns THEN row ELSE s[n]]
      BY <2>5
    <2>7. \A n \in Namespaces : Shared(c)[n] = IF n = r.ns THEN row ELSE s[n]
      BY Zenon, <2>3, <2>4
    <2> QED
      BY ZenonT(30), <2>1, <2>5, <2>6, <2>7 DEF s
  <1> QED
    BY <1>1, <1>2

\* The reply to the command of the request r carries the result that the API promises when
\* a search finds these keys; of removeAll it carries the keys, which are to be removed.
Tells(r, reply, found) ==
    /\ r.op # "removeAll" => Result(r, reply) = API!Result(r, Shared(db), found)
    /\ r.op = "removeAll" =>
          /\ getKeys(reply.array) = found /\ IsFiniteSet(found)
          /\ reply.array = <<>> <=> found = {}

Answers(r, reply) ==
    /\ "type" \in DOMAIN reply /\ reply.type # "ERROR"
    /\ \E found \in API!Finds(r, Shared(db)) : Tells(r, reply, found)

\* The operations that do not search.
LEMMA AnswersWithoutSearch ==
    ASSUME NEW r, r.op # "removeAll", NEW reply, "type" \in DOMAIN reply, reply.type # "ERROR",
           \A found : Result(r, reply) = API!Result(r, Shared(db), found)
    PROVE  Answers(r, reply)
  <1>1. PICK found : found \in API!Finds(r, Shared(db))
    <2>1. CASE r.ns \in PatternCharacters
      <3>1. API!PatternCharacters = PatternCharacters
        BY DEF API!PatternCharacters, PatternCharacters, API!AnyString, AnyString,
               API!AnyCharacter, AnyCharacter, API!Backslash, Backslash
      <3>2. {} \in API!Finds(r, Shared(db))
        BY ZenonT(30), <2>1, <3>1 DEF API!Finds
      <3> QED
        BY <3>2
    <2>2. CASE r.ns \notin PatternCharacters
      BY ZenonT(30), <2>2 DEF API!Finds
    <2> QED
      BY <2>1, <2>2
  <1> QED
    BY ZenonT(30), <1>1 DEF Answers, Tells

\* The outcome e of a command is what the API promises of the request r: the effect on the
\* data, the notification, and the result.
Performs(r, e) ==
    /\ Database(e.db) /\ Shared(e.db) = API!Effect(r, Shared(db))
    /\ \A n \in Namespaces, k \in Keys : e.db[addKey(n, k)] # db[addKey(n, k)] =>
          e.publishes = (n \in NotificationsEnabled)
    /\ Answers(r, e.reply)

\* A command performs a request if it assigns map under the condition holds, publishes that
\* when it makes a difference, and has the right result.
LEMMA AlteringPerforms ==
    ASSUME Database(db), NEW r, r.ns \in Namespaces,
           NEW holds, NEW map, IsFiniteSet(DOMAIN map), DOMAIN map \subseteq Keys,
           API!Holds(r, Shared(db)) <=> holds, API!Assigns(r) = map,
           NEW e, Alters(db, e.db, r.ns, holds, map),
           holds => \A k \in DOMAIN map : map[k] # db[addKey(r.ns, k)] =>
                       e.publishes = (r.ns \in NotificationsEnabled),
           Answers(r, e.reply)
    PROVE  Performs(r, e)
  <1> DEFINE c == e.db
  <1> HIDE DEF c
  <1>1. Alters(db, c, r.ns, holds, map) /\ e.db = c
    BY DEF c
  <1>2. /\ Database(c)
        /\ \A n \in Namespaces, k \in Keys : c[addKey(n, k)] # db[addKey(n, k)] =>
              holds /\ n = r.ns /\ k \in DOMAIN map /\ map[k] # db[addKey(n, k)]
    BY ONLY Database(db), r.ns \in Namespaces, IsFiniteSet(DOMAIN map),
            DOMAIN map \subseteq Keys, <1>1, AlteredDatabase
  <1>3. Shared(c) = API!Effect(r, Shared(db))
    BY ONLY SMTT(30), ZenonT(30), r.ns \in Namespaces, API!Holds(r, Shared(db)) <=> holds,
       API!Assigns(r) = map,
            <1>1, AlteredEffect
  <1> QED
    BY ZenonT(30), <1>1, <1>2, <1>3 DEF Performs

\* MSET performs set.
LEMMA SetPerforms ==
    ASSUME Database(db), NEW r, Valid(r), r.op = "set"
    PROVE  Performs(r, Execute(build(r)))
  <1> DEFINE K == DOMAIN r.map
             sorted == InOrder(K)
             a == addDataMap(r.ns, r.map)
             c == [f \in FullKeys |->
                     IF \E i \in DOMAIN a : a[i][1] = f
                     THEN a[CHOOSE i \in DOMAIN a : a[i][1] = f][2] ELSE db[f]]
             e == Executed(c, Status, r.ns \in NotificationsEnabled)
  <1>1. r.ns \in Namespaces /\ K \subseteq Keys /\ IsFiniteSet(K)
    BY DEF Valid, WellFormed
  <1>2. build(r) = Modifying(r.ns, "MSET", a)
    BY DEF build
  <1>3. Execute(build(r)) = e
    <2> DEFINE m == build(r)
    <2>1. m.name = "MSET" /\ m.args = a /\ m.pub = (r.ns \in NotificationsEnabled)
      BY <1>2 DEF Modifying
    <2> HIDE DEF m, a
    <2>2. Execute(m) = e
      BY Zenon, <2>1 DEF Execute
    <2> QED
      BY <2>2 DEF m
  <1>4. /\ DOMAIN a = DOMAIN sorted
        /\ \A i \in DOMAIN sorted : a[i][1] = addKey(r.ns, sorted[i]) /\ a[i][2] = r.map[sorted[i]]
    BY DEF addDataMap
  <1>5. /\ \A i \in DOMAIN sorted : sorted[i] \in K
        /\ \A i, j \in DOMAIN sorted : sorted[i] = sorted[j] => i = j
        /\ \A x \in K : \E i \in DOMAIN sorted : sorted[i] = x
    BY <1>1, Listed
  <1> HIDE DEF sorted, a, K
  <1>6. ASSUME NEW n \in Namespaces, NEW k \in Keys
        PROVE  c[addKey(n, k)] = Assigned(db, r.ns, TRUE, r.map, n, k)
    <2> DEFINE f == addKey(n, k)
    <2>1. f \in FullKeys
      BY FullKeysOf
    <2>2. ASSUME NEW i \in DOMAIN a PROVE a[i][1] = f <=> n = r.ns /\ sorted[i] = k
      <3>1. sorted[i] \in Keys /\ a[i][1] = addKey(r.ns, sorted[i])
        BY <1>1, <1>4, <1>5
      <3> QED
        BY <1>1, <3>1, FullKeysOf
    <2> HIDE DEF f
    <2>3. CASE n = r.ns /\ k \in K
      <3>1. PICK i \in DOMAIN a : sorted[i] = k
        BY Zenon, <1>4, <1>5, <2>3
      <3>2. a[i][1] = f
        BY Zenon, <2>2, <2>3, <3>1
      <3> DEFINE j == CHOOSE j \in DOMAIN a : a[j][1] = f
      <3>3. j \in DOMAIN a /\ a[j][1] = f
        BY Zenon, <3>2
      <3>4. c[f] = a[j][2]
        BY Zenon, <2>1, <3>2
      <3> HIDE DEF j, c
      <3>5. sorted[j] = k
        BY ZenonT(30), <2>2, <3>3
      <3>6. a[j][2] = r.map[k]
        BY <1>4, <3>3, <3>5
      <3> QED
        BY Zenon, <2>3, <3>4, <3>6 DEF Assigned, K, f
    <2>4. CASE ~(n = r.ns /\ k \in K)
      <3>1. ASSUME NEW i \in DOMAIN a, a[i][1] = f PROVE FALSE
        BY <1>4, <1>5, <2>2, <2>4, <3>1
      <3> QED
        BY Zenon, <2>1, <2>4, <3>1 DEF Assigned, K, f
    <2> QED
      BY ZenonT(30), <2>3, <2>4
  <1>7. DOMAIN c = FullKeys
    OBVIOUS
  <1> HIDE DEF c
  <1>8. Alters(db, c, r.ns, TRUE, r.map)
    BY Zenon, <1>6, <1>7 DEF Alters
  <1>9. API!Holds(r, Shared(db)) /\ API!Assigns(r) = r.map
    BY DEF API!Holds, API!Assigns
  <1>10. e.db = c /\ e.reply = Status /\ e.publishes = (r.ns \in NotificationsEnabled)
    BY DEF Executed
  <1>11. "type" \in DOMAIN Status /\ Status.type # "ERROR"
    BY DEF Status
  <1>12. /\ Result(r, Status) = Nothing /\ r.op # "removeAll"
         /\ \A found : API!Result(r, Shared(db), found) = Nothing
    BY DEF Result, IsConditional, API!Result
  <1> HIDE DEF e
  <1>13. Performs(r, e)
    <2>1. Alters(db, e.db, r.ns, TRUE, r.map) /\ Answers(r, e.reply)
      BY ZenonT(30), <1>8, <1>10, <1>11, <1>12, AnswersWithoutSearch
    <2>2. /\ IsFiniteSet(DOMAIN r.map) /\ DOMAIN r.map \subseteq Keys
          /\ API!Holds(r, Shared(db)) <=> TRUE
          /\ TRUE => \A k \in DOMAIN r.map : r.map[k] # db[addKey(r.ns, k)] =>
                        e.publishes = (r.ns \in NotificationsEnabled)
      BY Zenon, <1>1, <1>9, <1>10 DEF K
    <2> QED
      BY ONLY Zenon, Database(db), <1>1, <1>9, <2>1, <2>2, AlteringPerforms
  <1> QED
    BY Zenon, <1>3, <1>13

\* Assigning the value at one full key.
LEMMA OneAltered ==
    ASSUME Database(db), NEW ns \in Namespaces, NEW key \in Keys, NEW holds, NEW value
    PROVE  Alters(db, IF holds THEN [db EXCEPT ![addKey(ns, key)] = value] ELSE db,
                  ns, holds, [k \in {key} |-> value])
  <1> DEFINE full == addKey(ns, key)
             c == IF holds THEN [db EXCEPT ![full] = value] ELSE db
             map == [k \in {key} |-> value]
  <1>1. DOMAIN db = FullKeys /\ DOMAIN c = FullKeys
    BY DEF Database
  <1>2. ASSUME NEW n \in Namespaces, NEW k \in Keys
        PROVE  c[addKey(n, k)] = Assigned(db, ns, holds, map, n, k)
    <2> DEFINE f == addKey(n, k)
    <2>1. f \in FullKeys /\ (f = full <=> n = ns /\ k = key)
      BY FullKeysOf
    <2>2. Assigned(db, ns, holds, map, n, k) =
             IF holds /\ n = ns /\ k = key THEN value ELSE db[f]
      BY DEF Assigned
    <2> HIDE DEF f, full
    <2>3. c[f] = IF holds /\ f = full THEN value ELSE db[f]
      BY <1>1, <2>1
    <2>4. c[f] = Assigned(db, ns, holds, map, n, k)
      BY Zenon, <2>1, <2>2, <2>3
    <2> QED
      BY <2>4 DEF f, full
  <1> HIDE DEF c, map
  <1>3. Alters(db, c, ns, holds, map)
    BY Zenon, <1>1, <1>2 DEF Alters
  <1> QED
    BY Zenon, <1>3 DEF c, map, full

\* A conditional command performs its request if the reply tells whether its condition held.
LEMMA ConditionalPerforms ==
    ASSUME Database(db), NEW r, Valid(r), IsConditional(r), NEW holds, NEW value,
           API!Holds(r, Shared(db)) <=> holds, API!Assigns(r) = [k \in {r.key} |-> value],
           NEW m, m.pub = (r.ns \in NotificationsEnabled),
           NEW reply, "type" \in DOMAIN reply, reply.type # "ERROR",
           conditionalStatus(reply) = API!Holds(r, Shared(db))
    PROVE  Performs(r, Conditional(m, holds, [db EXCEPT ![addKey(r.ns, r.key)] = value], reply))
  <1> DEFINE e == Conditional(m, holds, [db EXCEPT ![addKey(r.ns, r.key)] = value], reply)
             map == [k \in {r.key} |-> value]
             c == IF holds THEN [db EXCEPT ![addKey(r.ns, r.key)] = value] ELSE db
  <1>1. r.ns \in Namespaces /\ r.key \in Keys
    BY DEF Valid, WellFormed, IsConditional
  <1>2. Alters(db, e.db, r.ns, holds, map)
    <2>1. Alters(db, c, r.ns, holds, map)
      BY ONLY Zenon, Database(db), <1>1, OneAltered
    <2>2. e.db = c
      BY Zenon DEF Conditional, Executed
    <2> QED
      BY Zenon, <2>1, <2>2
  <1>3. e.reply = reply /\ (holds => e.publishes = (r.ns \in NotificationsEnabled))
    <2>1. e.reply = reply /\ e.publishes = (m.pub /\ holds)
      BY Zenon DEF Conditional, Executed
    <2>2. holds => ((m.pub /\ holds) = (r.ns \in NotificationsEnabled))
      <3> DEFINE pub == m.pub
      <3>1. pub = (r.ns \in NotificationsEnabled)
        OBVIOUS
      <3> HIDE DEF pub
      <3>2. pub \in BOOLEAN
        BY ONLY SMTT(30), ZenonT(30), <3>1
      <3>3. holds => (pub /\ holds) = pub
        BY ONLY SMTT(30), ZenonT(30), <3>2
      <3> QED
        BY Zenon, <3>1, <3>3 DEF pub
    <2> QED
      BY Zenon, <2>1, <2>2
  <1>4. Answers(r, reply)
    <2>1. r.op \in {"setIf", "setIfNotExists", "removeIf"}
      BY DEF IsConditional
    <2>2. Result(r, reply) = [status |-> conditionalStatus(reply)]
      BY <2>1 DEF Result, IsConditional
    <2>3. \A found : API!Result(r, Shared(db), found) = [status |-> API!Holds(r, Shared(db))]
      BY Zenon, <2>1 DEF API!Result
    <2>4. r.op # "removeAll"
      BY <2>1
    <2> QED
      BY ZenonT(30), <2>2, <2>3, <2>4, AnswersWithoutSearch
  <1>5. IsFiniteSet(DOMAIN map) /\ DOMAIN map \subseteq Keys
    BY Zenon, <1>1, FS_Singleton
  <1> HIDE DEF e, map
  <1>6. /\ Answers(r, e.reply) /\ API!Assigns(r) = map
        /\ holds => \A k \in DOMAIN map : map[k] # db[addKey(r.ns, k)] =>
                       e.publishes = (r.ns \in NotificationsEnabled)
    BY Zenon, <1>3, <1>4 DEF map
  <1>7. Performs(r, e)
    BY ONLY ZenonT(30), Database(db), <1>1, <1>2, <1>5, <1>6, API!Holds(r, Shared(db)) <=> holds,
            AlteringPerforms
  <1> QED
    BY Zenon, <1>7 DEF e

\* SETIE performs setIf.
LEMMA SetIfPerforms ==
    ASSUME Database(db), NEW r, Valid(r), r.op = "setIf"
    PROVE  Performs(r, Execute(build(r)))
  <1> DEFINE full == addKey(r.ns, r.key)
             m == Modifying(r.ns, "SETIE", <<full, r.new, r.old>>)
             holds == db[full] = r.old
             reply == IF holds THEN Status ELSE Nil
  <1>1. r.ns \in Namespaces /\ r.key \in Keys /\ IsConditional(r)
    BY DEF Valid, WellFormed, IsConditional
  <1>2. build(r) = m
    BY DEF build
  <1>3. Shared(db)[r.ns][r.key] = db[full]
    BY Zenon, <1>1 DEF Shared
  <1>4. API!Holds(r, Shared(db)) = holds /\ API!Assigns(r) = [k \in {r.key} |-> r.new]
    BY <1>3 DEF API!Holds, API!Assigns
  <1>5. /\ "type" \in DOMAIN reply /\ reply.type # "ERROR"
        /\ conditionalStatus(reply) = holds
    BY DEF Status, Nil, conditionalStatus
  <1>6. /\ m.name = "SETIE" /\ m.pub = (r.ns \in NotificationsEnabled)
        /\ m.args[1] = full /\ m.args[2] = r.new /\ m.args[3] = r.old
    BY DEF Modifying
  <1> HIDE DEF m, full
  <1>7. Execute(m) = Conditional(m, holds, [db EXCEPT ![full] = r.new], reply)
    BY ZenonT(30), <1>6 DEF Execute
  <1> HIDE DEF holds, reply
  <1>8. /\ API!Holds(r, Shared(db)) <=> holds
        /\ conditionalStatus(reply) = API!Holds(r, Shared(db))
    BY Zenon, <1>4, <1>5
  <1>9. Performs(r, Conditional(m, holds, [db EXCEPT ![addKey(r.ns, r.key)] = r.new], reply))
    BY ONLY Zenon, Database(db), Valid(r), <1>1, <1>4, <1>5, <1>6, <1>8, ConditionalPerforms
  <1> QED
    BY Zenon, <1>2, <1>7, <1>9 DEF full

\* SETNX performs setIfNotExists.
LEMMA SetIfNotExistsPerforms ==
    ASSUME Database(db), NEW r, Valid(r), r.op = "setIfNotExists"
    PROVE  Performs(r, Execute(build(r)))
  <1> DEFINE full == addKey(r.ns, r.key)
             m == Modifying(r.ns, "SETNX", <<full, r.new>>)
             holds == db[full] = Absent
             reply == Integer(holds)
  <1>1. r.ns \in Namespaces /\ r.key \in Keys /\ IsConditional(r)
    BY DEF Valid, WellFormed, IsConditional
  <1>2. build(r) = m
    BY DEF build
  <1>3. Shared(db)[r.ns][r.key] = db[full]
    BY Zenon, <1>1 DEF Shared
  <1>4. API!Holds(r, Shared(db)) = holds /\ API!Assigns(r) = [k \in {r.key} |-> r.new]
    BY <1>3 DEF API!Holds, API!Assigns
  <1>5. /\ "type" \in DOMAIN reply /\ reply.type # "ERROR"
        /\ conditionalStatus(reply) = holds
    BY DEF Integer, conditionalStatus
  <1>6. /\ m.name = "SETNX" /\ m.pub = (r.ns \in NotificationsEnabled)
        /\ m.args[1] = full /\ m.args[2] = r.new
    BY DEF Modifying
  <1> HIDE DEF m, full
  <1>7. Execute(m) = Conditional(m, holds, [db EXCEPT ![full] = r.new], reply)
    BY Zenon, <1>6 DEF Execute
  <1> HIDE DEF holds, reply
  <1>8. /\ API!Holds(r, Shared(db)) <=> holds
        /\ conditionalStatus(reply) = API!Holds(r, Shared(db))
    BY Zenon, <1>4, <1>5
  <1>9. Performs(r, Conditional(m, holds, [db EXCEPT ![addKey(r.ns, r.key)] = r.new], reply))
    BY ONLY ZenonT(30), Database(db), Valid(r), <1>1, <1>4, <1>5, <1>6, <1>8, ConditionalPerforms
  <1> QED
    BY Zenon, <1>2, <1>7, <1>9 DEF full

\* DELIE performs removeIf.
LEMMA RemoveIfPerforms ==
    ASSUME Database(db), NEW r, Valid(r), r.op = "removeIf"
    PROVE  Performs(r, Execute(build(r)))
  <1> DEFINE full == addKey(r.ns, r.key)
             m == Modifying(r.ns, "DELIE", <<full, r.old>>)
             holds == db[full] = r.old
             reply == Integer(holds)
  <1>1. r.ns \in Namespaces /\ r.key \in Keys /\ IsConditional(r)
    BY DEF Valid, WellFormed, IsConditional
  <1>2. build(r) = m
    BY DEF build
  <1>3. Shared(db)[r.ns][r.key] = db[full]
    BY Zenon, <1>1 DEF Shared
  <1>4. API!Holds(r, Shared(db)) = holds /\ API!Assigns(r) = [k \in {r.key} |-> Absent]
    BY <1>3 DEF API!Holds, API!Assigns
  <1>5. /\ "type" \in DOMAIN reply /\ reply.type # "ERROR"
        /\ conditionalStatus(reply) = holds
    BY DEF Integer, conditionalStatus
  <1>6. /\ m.name = "DELIE" /\ m.pub = (r.ns \in NotificationsEnabled)
        /\ m.args[1] = full /\ m.args[2] = r.old
    BY DEF Modifying
  <1> HIDE DEF m, full
  <1>7. Execute(m) = Conditional(m, holds, [db EXCEPT ![full] = Absent], reply)
    BY ZenonT(30), <1>6 DEF Execute
  <1> HIDE DEF holds, reply
  <1>8. /\ API!Holds(r, Shared(db)) <=> holds
        /\ conditionalStatus(reply) = API!Holds(r, Shared(db))
    BY ZenonT(30), <1>4, <1>5
  <1>9. Performs(r, Conditional(m, holds, [db EXCEPT ![addKey(r.ns, r.key)] = Absent], reply))
    BY ONLY SMTT(30), ZenonT(30), Database(db), Valid(r), <1>1, <1>4, <1>5, <1>6, <1>8,
       ConditionalPerforms
  <1> QED
    BY Zenon, <1>2, <1>7, <1>9 DEF full

\* addKeys lists the full keys of the keys and no others.
LEMMA KeysAdded ==
    ASSUME NEW ns \in Namespaces, NEW keys, keys \subseteq Keys, IsFiniteSet(keys)
    PROVE  \A n \in Namespaces, k \in Keys :
              addKey(n, k) \in Range(addKeys(ns, keys)) <=> n = ns /\ k \in keys
  <1> DEFINE sorted == InOrder(keys)
             a == addKeys(ns, keys)
  <1>1. DOMAIN a = DOMAIN sorted /\ \A i \in DOMAIN sorted : a[i] = addKey(ns, sorted[i])
    BY DEF addKeys
  <1>2. /\ \A i \in DOMAIN sorted : sorted[i] \in keys
        /\ \A x \in keys : \E i \in DOMAIN sorted : sorted[i] = x
    BY Listed
  <1>3. Range(a) = {a[i] : i \in DOMAIN a}
    BY Zenon DEF Range
  <1> HIDE DEF sorted, a
  <1>4. ASSUME NEW n \in Namespaces, NEW k \in Keys
        PROVE  addKey(n, k) \in Range(a) <=> n = ns /\ k \in keys
    <2>1. ASSUME addKey(n, k) \in Range(a) PROVE n = ns /\ k \in keys
      <3>1. PICK i \in DOMAIN sorted : addKey(n, k) = addKey(ns, sorted[i])
        BY ZenonT(30), <1>1, <1>3, <2>1
      <3>2. sorted[i] \in keys /\ sorted[i] \in Keys
        BY <1>2
      <3> QED
        BY <3>1, <3>2, FullKeysOf
    <2>2. ASSUME n = ns, k \in keys PROVE addKey(n, k) \in Range(a)
      BY Zenon, <1>1, <1>2, <1>3, <2>2
    <2> QED
      BY <2>1, <2>2
  <1> QED
    BY Zenon, <1>4 DEF a

\* DEL performs remove.
LEMMA RemovePerforms ==
    ASSUME Database(db), NEW r, Valid(r), r.op = "remove"
    PROVE  Performs(r, Execute(build(r)))
  <1> DEFINE a == addKeys(r.ns, r.keys)
             m == Modifying(r.ns, "DEL", a)
             gone == Range(a) \cap Stored(db)
             some == gone # {}
             d == [f \in FullKeys |-> IF f \in gone THEN Absent ELSE db[f]]
             reply == [type |-> "INTEGER", integer |-> Cardinality(gone)]
             e == Conditional(m, some, d, reply)
             map == [k \in r.keys |-> Absent]
  <1>1. r.ns \in Namespaces /\ r.keys \subseteq Keys /\ IsFiniteSet(r.keys)
    BY DEF Valid, WellFormed
  <1>2. build(r) = m
    BY DEF build
  <1>3. m.name = "DEL" /\ m.args = a /\ m.pub = (r.ns \in NotificationsEnabled)
    BY DEF Modifying
  <1>4. \A n \in Namespaces, k \in Keys :
           addKey(n, k) \in Range(a) <=> n = r.ns /\ k \in r.keys
    BY <1>1, KeysAdded
  <1> HIDE DEF a, m
  <1>5. Execute(m) = e
    BY Zenon, <1>3 DEF Execute
  <1>6. /\ e.db = IF some THEN d ELSE db
        /\ e.reply = reply /\ e.publishes = (m.pub /\ some)
    BY Zenon DEF Conditional, Executed
  <1>7. some => e.publishes = (r.ns \in NotificationsEnabled)
    <2> DEFINE pub == m.pub
    <2>1. pub = (r.ns \in NotificationsEnabled)
      BY <1>3
    <2> HIDE DEF pub, some
    <2>2. pub \in BOOLEAN
      BY ONLY <2>1
    <2>3. some => (pub /\ some) = pub
      BY ONLY SMTT(30), ZenonT(30), <2>2
    <2> QED
      BY Zenon, <1>6, <2>1, <2>3 DEF pub
  <1>8. ASSUME NEW n \in Namespaces, NEW k \in Keys
        PROVE  /\ e.db[addKey(n, k)] = Assigned(db, r.ns, TRUE, map, n, k)
               /\ n = r.ns /\ k \in r.keys /\ db[addKey(n, k)] # Absent => some
    <2> DEFINE f == addKey(n, k)
    <2>1. f \in FullKeys
      BY FullKeysOf
    <2>2. f \in Range(a) <=> n = r.ns /\ k \in r.keys
      BY Zenon, <1>4
    <2>3. Assigned(db, r.ns, TRUE, map, n, k) =
             IF n = r.ns /\ k \in r.keys THEN Absent ELSE db[f]
      BY DEF Assigned
    <2> HIDE DEF f, e
    <2>4. f \in gone <=> f \in Range(a) /\ db[f] # Absent
      BY Zenon, <2>1 DEF Stored
    <2>5. d[f] = IF f \in gone THEN Absent ELSE db[f]
      BY Zenon, <2>1
    <2> HIDE DEF d
    <2>6. f \in gone => some
      BY Zenon
    <2> HIDE DEF gone, some
    <2>7. e.db[f] = IF n = r.ns /\ k \in r.keys THEN Absent ELSE db[f]
      <3>1. CASE some
        BY Zenon, <1>6, <2>2, <2>4, <2>5, <3>1
      <3>2. CASE ~some
        BY Zenon, <1>6, <2>2, <2>4, <2>6, <3>2
      <3> QED
        BY <3>1, <3>2
    <2>8. e.db[f] = Assigned(db, r.ns, TRUE, map, n, k)
      BY ZenonT(30), <2>3, <2>7
    <2> QED
      BY Zenon, <2>2, <2>4, <2>6, <2>8 DEF f
  <1>9. DOMAIN e.db = FullKeys
    <2>1. DOMAIN d = FullKeys /\ DOMAIN db = FullKeys
      BY Zenon DEF Database
    <2> QED
      BY Zenon, <1>6, <2>1
  <1>10. Answers(r, e.reply)
    <2>1. "type" \in DOMAIN reply /\ reply.type # "ERROR"
      OBVIOUS
    <2>2. /\ Result(r, reply) = Nothing /\ r.op # "removeAll"
          /\ \A found : API!Result(r, Shared(db), found) = Nothing
      BY DEF Result, IsConditional, API!Result
    <2> QED
      BY ZenonT(30), <1>6, <2>1, <2>2, AnswersWithoutSearch
  <1>11. API!Holds(r, Shared(db)) /\ API!Assigns(r) = map
    BY DEF API!Holds, API!Assigns
  <1>12. IsFiniteSet(DOMAIN map) /\ DOMAIN map \subseteq Keys
    BY <1>1
  <1> HIDE DEF e, some
  <1>13. Alters(db, e.db, r.ns, TRUE, map)
    BY Zenon, <1>8, <1>9 DEF Alters
  <1>14. /\ API!Holds(r, Shared(db)) <=> TRUE
         /\ TRUE => \A k \in DOMAIN map : map[k] # db[addKey(r.ns, k)] =>
                       e.publishes = (r.ns \in NotificationsEnabled)
    BY ZenonT(30), <1>1, <1>7, <1>8, <1>11
  <1> HIDE DEF map
  <1>15. Performs(r, e)
    BY ONLY Zenon, Database(db), <1>1, <1>10, <1>11, <1>12, <1>13, <1>14, AlteringPerforms
  <1> QED
    BY Zenon, <1>2, <1>5, <1>15

\* A command that leaves the database alone performs a request that does if it answers it.
LEMMA ReadingPerforms ==
    ASSUME Database(db), NEW r, r.ns \in Namespaces,
           r.op \in {"get", "findKeys", "listKeys", "removeAll"},
           NEW reply, Answers(r, reply)
    PROVE  Performs(r, Executed(db, reply, FALSE))
  <1> DEFINE e == Executed(db, reply, FALSE)
             map == [k \in {} |-> Absent]
  <1>1. e.db = db /\ e.reply = reply
    BY DEF Executed
  <1>2. API!Holds(r, Shared(db)) /\ API!Assigns(r) = map
    BY DEF API!Holds, API!Assigns
  <1>3. IsFiniteSet(DOMAIN map) /\ DOMAIN map \subseteq Keys
    BY FS_EmptySet
  <1> HIDE DEF e
  <1>4. Alters(db, e.db, r.ns, TRUE, map)
    BY Zenon, <1>1 DEF Alters, Assigned, Database
  <1>5. /\ API!Holds(r, Shared(db)) <=> TRUE
        /\ TRUE => \A k \in DOMAIN map : map[k] # db[addKey(r.ns, k)] =>
                      e.publishes = (r.ns \in NotificationsEnabled)
        /\ Answers(r, e.reply)
    BY Zenon, <1>1, <1>2
  <1> HIDE DEF map
  <1>6. Performs(r, e)
    BY ONLY ZenonT(30), Database(db), r.ns \in Namespaces, <1>2, <1>3, <1>4, <1>5, AlteringPerforms
  <1> QED
    BY Zenon, <1>6 DEF e

\* MGET performs get.
LEMMA GetPerforms ==
    ASSUME Database(db), NEW r, Valid(r), r.op = "get"
    PROVE  Performs(r, Execute(build(r)))
  <1> DEFINE sorted == InOrder(r.keys)
             a == addKeys(r.ns, r.keys)
             m == Plain("MGET", a)
             array == [i \in DOMAIN a |->
                         IF db[a[i]] = Absent THEN Nil
                         ELSE [type |-> "STRING", str |-> db[a[i]]]]
             reply == Array(array)
             found == {i \in DOMAIN sorted : array[i].type = "STRING"}
             s == Shared(db)
             present == r.keys \cap API!Present(s, r.ns)
             value == [k \in Keys |-> db[addKey(r.ns, k)]]
  <1>1. r.ns \in Namespaces /\ r.keys \subseteq Keys /\ IsFiniteSet(r.keys)
    BY DEF Valid, WellFormed
  <1>2. build(r) = m /\ m.name = "MGET" /\ m.args = a
    BY DEF build, Plain
  <1>3. DOMAIN a = DOMAIN sorted /\ \A i \in DOMAIN sorted : a[i] = addKey(r.ns, sorted[i])
    BY DEF addKeys
  <1>4. /\ \A i \in DOMAIN sorted : sorted[i] \in r.keys
        /\ \A i, j \in DOMAIN sorted : sorted[i] = sorted[j] => i = j
        /\ \A x \in r.keys : \E i \in DOMAIN sorted : sorted[i] = x
    BY <1>1, Listed
  <1>5. buildDataMap(r.keys, array) =
           [k \in {sorted[i] : i \in found} |-> array[CHOOSE i \in found : sorted[i] = k].str]
    BY Zenon DEF buildDataMap
  <1>6. s[r.ns] = value
    BY Zenon, <1>1 DEF Shared
  <1> HIDE DEF a, m, sorted
  <1>7. Execute(m) = Executed(db, reply, FALSE)
    BY ZenonT(30), <1>2 DEF Execute
  <1>8. \A i \in DOMAIN sorted :
           /\ db[a[i]] = value[sorted[i]]
           /\ array[i] = IF db[a[i]] = Absent THEN Nil
                         ELSE [type |-> "STRING", str |-> db[a[i]]]
    BY Zenon, <1>1, <1>3, <1>4
  <1> HIDE DEF array, value
  <1>9. \A i \in DOMAIN sorted :
           /\ i \in found <=> value[sorted[i]] # Absent
           /\ i \in found => array[i].str = value[sorted[i]]
    <2> SUFFICES ASSUME NEW i \in DOMAIN sorted
                 PROVE  /\ i \in found <=> value[sorted[i]] # Absent
                        /\ i \in found => array[i].str = value[sorted[i]]
      OBVIOUS
    <2>1. CASE value[sorted[i]] = Absent
      <3>1. array[i] = Nil
        BY ZenonT(30), <1>8, <2>1
      <3>2. array[i].type # "STRING"
        BY <3>1 DEF Nil
      <3> QED
        BY Zenon, <2>1, <3>2
    <2>2. CASE value[sorted[i]] # Absent
      <3>1. array[i] = [type |-> "STRING", str |-> value[sorted[i]]]
        BY ZenonT(30), <1>8, <2>2
      <3>2. array[i].type = "STRING" /\ array[i].str = value[sorted[i]]
        BY <3>1
      <3> QED
        BY Zenon, <2>2, <3>2
    <2> QED
      BY <2>1, <2>2
  <1>10. \A k : k \in present <=> k \in r.keys /\ value[k] # Absent
    BY Zenon, <1>1, <1>6 DEF API!Present
  <1> HIDE DEF present
  <1>11. {sorted[i] : i \in found} = present
    <2>1. ASSUME NEW i \in found PROVE sorted[i] \in present
      BY Zenon, <1>4, <1>9, <1>10
    <2>2. ASSUME NEW k \in present PROVE \E i \in found : sorted[i] = k
      <3>1. PICK i \in DOMAIN sorted : sorted[i] = k
        BY Zenon, <1>4, <1>10
      <3> QED
        BY Zenon, <1>9, <1>10, <3>1
    <2> QED
      BY ZenonT(30), <2>1, <2>2
  <1>12. ASSUME NEW k \in present
         PROVE  array[CHOOSE i \in found : sorted[i] = k].str = value[k]
    <2> DEFINE i == CHOOSE i \in found : sorted[i] = k
    <2>1. i \in found /\ sorted[i] = k
      BY ZenonT(30), <1>11
    <2> HIDE DEF i
    <2>2. array[i].str = value[k]
      BY Zenon, <1>9, <2>1
    <2> QED
      BY Zenon, <2>2 DEF i
  <1>13. buildDataMap(r.keys, array) = [k \in present |-> value[k]]
    <2> HIDE DEF found
    <2>1. buildDataMap(r.keys, array) =
             [k \in present |-> array[CHOOSE i \in found : sorted[i] = k].str]
      BY ZenonT(30), <1>5, <1>11
    <2>2. [k \in present |-> array[CHOOSE i \in found : sorted[i] = k].str] =
             [k \in present |-> value[k]]
      <3> DEFINE h(k) == array[CHOOSE i \in found : sorted[i] = k].str
      <3>1. \A k \in present : h(k) = value[k]
        BY Zenon, <1>12
      <3> HIDE DEF h
      <3>2. [k \in present |-> h(k)] = [k \in present |-> value[k]]
        BY ONLY SMTT(30), ZenonT(30), <3>1
      <3> QED
        BY Zenon, <3>2 DEF h
    <2> QED
      BY Zenon, <2>1, <2>2
  <1>14. \A keys : API!Result(r, s, keys) = [dataMap |-> [k \in present |-> value[k]]]
    <2>1. \A keys : API!Result(r, s, keys) = [dataMap |-> [k \in present |-> s[r.ns][k]]]
      <3> HIDE DEF s
      <3> QED
        BY DEF API!Result, present
    <2> QED
      BY Zenon, <1>6, <2>1
  <1>15. Answers(r, reply)
    <2>1. "type" \in DOMAIN reply /\ reply.type # "ERROR" /\ reply.array = array
      BY DEF Array
    <2>2. Result(r, reply) = [dataMap |-> buildDataMap(r.keys, reply.array)]
      <3> HIDE DEF reply
      <3> QED
        BY DEF Result, IsConditional
    <2>3. r.op # "removeAll"
      OBVIOUS
    <2> HIDE DEF reply, s
    <2>4. \A keys : Result(r, reply) = API!Result(r, s, keys)
      BY ZenonT(30), <1>13, <1>14, <2>1, <2>2
    <2> QED
      BY ZenonT(30), <2>1, <2>3, <2>4, AnswersWithoutSearch DEF s
  <1> HIDE DEF reply
  <1>16. Performs(r, Executed(db, reply, FALSE))
    BY Zenon, <1>1, <1>15, ReadingPerforms
  <1> QED
    BY Zenon, <1>2, <1>7, <1>16

\* The reply to KEYS with the pattern q after the namespace.
Listing(ns, q) ==
    LET found == InOrder({f \in Stored(db) : Matches(addKey(ns, q), f)})
    IN [i \in DOMAIN found |-> [type |-> "STRING", str |-> found[i]]]

\* getKeys gets from it the keys of the namespace that match, for every pattern; if the
\* namespace is part of the pattern itself, keys of some namespaces.
LEMMA ListingKeys ==
    ASSUME Database(db), NEW ns \in Namespaces, NEW q, IsString(q)
    PROVE  /\ ns \notin PatternCharacters =>
                \A k : k \in getKeys(Listing(ns, q)) <=>
                   k \in Keys /\ db[addKey(ns, k)] # Absent /\ Matches(q, k)
           /\ \A k \in getKeys(Listing(ns, q)) :
                k \in Keys /\ \E n \in Namespaces : db[addKey(n, k)] # Absent
           /\ IsFiniteSet(getKeys(Listing(ns, q)))
           /\ Listing(ns, q) = <<>> <=> getKeys(Listing(ns, q)) = {}
  <1> DEFINE F == {f \in Stored(db) : Matches(addKey(ns, q), f)}
             found == InOrder(F)
             array == Listing(ns, q)
             D == DOMAIN found
  <1>1. IsFiniteSet(F)
    BY FS_Subset DEF Database
  <1>2. /\ \A i \in D : found[i] \in F
        /\ \A x \in F : \E i \in D : found[i] = x
        /\ IsFiniteSet(D) /\ \E n \in Nat : D = 1..n
    BY Zenon, <1>1, Listed
  <1>3. /\ DOMAIN array = D
        /\ array = [i \in D |-> [type |-> "STRING", str |-> found[i]]]
    BY ZenonT(30) DEF Listing
  <1>4. Separator \notin Namespaces /\ \A k \in Keys : IsString(k)
    BY ApplicationsKnown
  <1>5. ASSUME ns \notin PatternCharacters
        PROVE  \A f : f \in F <=> \E k \in Keys :
                  f = addKey(ns, k) /\ db[f] # Absent /\ Matches(q, k)
    <2> SUFFICES ASSUME NEW f
                 PROVE  f \in F <=> \E k \in Keys :
                           f = addKey(ns, k) /\ db[f] # Absent /\ Matches(q, k)
      OBVIOUS
    <2>1. ASSUME NEW n \in Namespaces, NEW k \in Keys, f = addKey(n, k)
          PROVE  Matches(addKey(ns, q), f) <=> ns = n /\ Matches(q, k)
      <3>1. IsString(k)
        BY <1>4
      <3>2. Matches(addKey(ns, q), addKey(n, k)) <=> ns = n /\ Matches(q, k)
        BY ONLY SMTT(30), ZenonT(30), <1>5, <3>1, IsString(q), NamespacePattern
      <3> QED
        BY Zenon, <2>1, <3>2
    <2>2. ASSUME f \in F PROVE \E k \in Keys :
                    f = addKey(ns, k) /\ db[f] # Absent /\ Matches(q, k)
      <3>1. f \in FullKeys /\ db[f] # Absent /\ Matches(addKey(ns, q), f)
        BY Zenon, <2>2 DEF Stored
      <3>2. PICK n \in Namespaces, k \in Keys : f = addKey(n, k)
        BY ZenonT(30), <3>1, FullKeysOf
      <3> QED
        BY Zenon, <2>1, <3>1, <3>2
    <2>3. ASSUME NEW k \in Keys, f = addKey(ns, k), db[f] # Absent, Matches(q, k)
          PROVE  f \in F
      <3>1. f \in FullKeys
        BY Zenon, <2>3, FullKeysOf
      <3> QED
        BY Zenon, <2>1, <2>3, <3>1 DEF Stored
    <2> QED
      BY Zenon, <2>2, <2>3
  <1>12. \A f \in F : \E n \in Namespaces, k \in Keys : f = addKey(n, k) /\ db[f] # Absent
    BY ZenonT(30), FullKeysOf DEF Stored
  <1> HIDE DEF F, found, D, array
  <1>6. \A i \in D : array[i].type = "STRING" /\ array[i].str = found[i]
    <2> SUFFICES ASSUME NEW i \in D PROVE array[i].type = "STRING" /\ array[i].str = found[i]
      OBVIOUS
    <2>1. array[i] = [type |-> "STRING", str |-> found[i]]
      BY Zenon, <1>3
    <2> QED
      BY <2>1
  <1>7. ASSUME NEW i \in D, NEW n \in Namespaces, NEW k \in Keys, found[i] = addKey(n, k)
        PROVE  getKey(array[i]) = k
    <2>1. array[i].str = addKey(n, k) /\ IsString(k) /\ n # Separator
      BY Zenon, <1>4, <1>6, <1>7
    <2> QED
      BY ONLY SMTT(30), ZenonT(30), <2>1, GetKeyInverts
  <1>8. getKeys(array) = {getKey(array[i]) : i \in D}
    <2>1. {j \in DOMAIN array : array[j].type = "STRING"} = D
      BY ZenonT(30), <1>3, <1>6
    <2> QED
      BY Zenon, <2>1 DEF getKeys
  <1>9. IsFiniteSet(getKeys(array))
    <2> DEFINE g == [i \in D |-> getKey(array[i])]
    <2>0. IsFiniteSet(D) /\ DOMAIN g = D
      BY <1>2
    <2> HIDE DEF g
    <2>1. IsFiniteSet({g[i] : i \in D})
      BY ONLY SMTT(30), ZenonT(30), <2>0, ImageFinite
    <2> USE DEF g
    <2>2. {g[i] : i \in D} = {getKey(array[i]) : i \in D}
      BY Zenon
    <2> QED
      BY Zenon, <1>8, <2>1, <2>2
  <1>10. array = <<>> <=> getKeys(array) = {}
    <2>1. getKeys(array) = {} <=> D = {}
      BY ZenonT(30), <1>8
    <2>2. array = <<>> <=> D = {}
      BY <1>3
    <2> QED
      BY Zenon, <2>1, <2>2
  <1>11. ASSUME ns \notin PatternCharacters
         PROVE  \A k : k \in getKeys(array) <=>
                   k \in Keys /\ db[addKey(ns, k)] # Absent /\ Matches(q, k)
    <2>1. ASSUME NEW k, k \in getKeys(array)
          PROVE  k \in Keys /\ db[addKey(ns, k)] # Absent /\ Matches(q, k)
      <3>1. PICK i \in D : k = getKey(array[i])
        BY Zenon, <1>8, <2>1
      <3>2. PICK l \in Keys : found[i] = addKey(ns, l) /\ db[found[i]] # Absent /\ Matches(q, l)
        BY Zenon, <1>2, <1>5, <1>11
      <3>3. k = l
        BY ZenonT(30), <1>7, <3>1, <3>2
      <3> QED
        BY ZenonT(30), <3>2, <3>3
    <2>2. ASSUME NEW k \in Keys, db[addKey(ns, k)] # Absent, Matches(q, k)
          PROVE  k \in getKeys(array)
      <3>1. addKey(ns, k) \in F
        BY ZenonT(30), <1>5, <1>11, <2>2
      <3>2. PICK i \in D : found[i] = addKey(ns, k)
        BY Zenon, <1>2, <3>1
      <3> QED
        BY Zenon, <1>7, <1>8, <3>2
    <2> QED
      BY Zenon, <2>1, <2>2
  <1>13. ASSUME NEW k \in getKeys(array)
         PROVE  k \in Keys /\ \E n \in Namespaces : db[addKey(n, k)] # Absent
    <2>1. PICK i \in D : k = getKey(array[i])
      BY Zenon, <1>8, <1>13
    <2>2. PICK n \in Namespaces, l \in Keys : found[i] = addKey(n, l) /\ db[found[i]] # Absent
      BY Zenon, <1>2, <1>12
    <2>3. k = l
      BY ZenonT(30), <1>7, <2>1, <2>2
    <2> QED
      BY ZenonT(30), <2>2, <2>3
  <1> QED
    BY ZenonT(30), <1>9, <1>10, <1>11, <1>13 DEF array

\* The patterns that the operations send KEYS with select what the API promises.
LEMMA SearchPatterns ==
    ASSUME NEW r, Valid(r), r.op \in {"findKeys", "listKeys", "removeAll"}
    PROVE  \E q :
             /\ IsString(q) /\ searchPattern(r) = addKey(r.ns, q)
             /\ \A k \in Keys : Matches(q, k) <=>
                  CASE r.op = "findKeys" -> API!IsPrefix(r.prefix, k)
                    [] r.op = "listKeys" -> Matches(r.pattern, k)
                    [] OTHER -> TRUE
  <1> DEFINE head == <<OpenBrace, r.ns, CloseBrace, Separator>>
             star == <<AnyString>>
             esc(x) == escapeRedisSearchPatternCharacters(x)
  <1>1. \A k \in Keys : IsString(k)
    BY ApplicationsKnown
  <1>2. ASSUME NEW x, IsString(x)
        PROVE  /\ IsString(esc(x) \o star)
               /\ buildKeyPrefixSearchPattern(r.ns, x) = addKey(r.ns, esc(x) \o star)
               /\ \A k \in Keys : Matches(esc(x) \o star, k) <=> API!IsPrefix(x, k)
    <2>1. IsString(<<>>)
      BY EmptyString
    <2>2. IsString(esc(x))
      BY ONLY SMTT(30), ZenonT(30), <1>2, <2>1, PrefixPattern
    <2>3. IsString(star) /\ IsString(head)
      <3>1. IsString(star)
        BY ONLY <2>1, AnythingMatches
      <3>2. IsString(head)
        BY DEF IsString
      <3> QED
        BY <3>1, <3>2
    <2>4. IsString(esc(x) \o star)
      BY ONLY SMTT(30), ZenonT(30), <2>2, <2>3, Joined
    <2>5. (head \o esc(x)) \o star = head \o (esc(x) \o star)
      BY ONLY SMTT(30), ZenonT(30), <2>2, <2>3, JoinedTwice
    <2>6. \A k \in Keys : Matches(esc(x) \o star, k) <=> API!IsPrefix(x, k)
      BY ONLY SMTT(30), ZenonT(30), <1>1, <1>2, PrefixPattern
    <2> QED
      BY Zenon, <2>4, <2>5, <2>6 DEF buildKeyPrefixSearchPattern, addKey
  <1> HIDE DEF esc, star
  <1>3. CASE r.op = "findKeys"
    <2>1. IsString(r.prefix)
      BY <1>3 DEF Valid, WellFormed
    <2>2. searchPattern(r) = buildKeyPrefixSearchPattern(r.ns, r.prefix)
      BY <1>3 DEF searchPattern
    <2> DEFINE q == esc(r.prefix) \o star
    <2>3. /\ IsString(q) /\ searchPattern(r) = addKey(r.ns, q)
          /\ \A k \in Keys : Matches(q, k) <=> API!IsPrefix(r.prefix, k)
      BY Zenon, <1>2, <2>1, <2>2
    <2> HIDE DEF q
    <2> QED
      BY <1>3, <2>3
  <1>4. CASE r.op = "listKeys"
    <2>1. IsString(r.pattern)
      BY <1>4 DEF Valid, WellFormed
    <2>2. searchPattern(r) = addKey(r.ns, r.pattern)
      BY <1>4 DEF searchPattern, buildNamespaceKeySearchPattern
    <2> QED
      BY <1>4, <2>1, <2>2
  <1>5. CASE r.op = "removeAll"
    <2>1. IsString(<<>>) /\ Len(<<>>) = 0
      BY EmptyString
    <2>2. searchPattern(r) = buildKeyPrefixSearchPattern(r.ns, <<>>)
      BY <1>5 DEF searchPattern
    <2> DEFINE q == esc(<<>>) \o star
    <2>3. /\ IsString(q) /\ searchPattern(r) = addKey(r.ns, q)
          /\ \A k \in Keys : Matches(q, k) <=> API!IsPrefix(<<>>, k)
      BY Zenon, <1>2, <2>1, <2>2
    <2>4. ASSUME NEW k \in Keys PROVE API!IsPrefix(<<>>, k)
      <3>1. API!IsPrefix(<<>>, k) <=> Begins(<<>>, Len(<<>>), k)
        BY ONLY SMTT(30), ZenonT(30), <1>1, <2>1, PrefixBegins, k \in Keys
      <3>2. Begins(<<>>, 0, k)
        BY DEF Begins
      <3> QED
        BY ZenonT(30), <2>1, <3>1, <3>2
    <2> HIDE DEF q
    <2> QED
      BY <1>5, <2>3, <2>4
  <1> QED
    BY <1>3, <1>4, <1>5

\* The API matches strings as the database does.
LEMMA SameMatching == \A p, s : API!Matches(p, s) <=> Matches(p, s)
  <1>1. \A p, s : API!MatchFrom(p, s) = MatchFrom(p, s)
    BY Zenon DEF API!MatchFrom, MatchFrom, API!AnyString, AnyString, API!AnyCharacter,
                 AnyCharacter, API!Backslash, Backslash
  <1> QED
    BY Zenon, <1>1 DEF API!Matches, Matches

\* KEYS performs the operations that send it.
LEMMA KeysPerforms ==
    ASSUME Database(db), NEW r, Valid(r), r.op \in {"findKeys", "listKeys", "removeAll"}
    PROVE  Performs(r, Execute(build(r)))
  <1> DEFINE s == Shared(db)
  <1>1. r.ns \in Namespaces
    BY ZenonT(30) DEF Valid
  <1>2. PICK q :
           /\ IsString(q) /\ searchPattern(r) = addKey(r.ns, q)
           /\ \A k \in Keys : Matches(q, k) <=>
                CASE r.op = "findKeys" -> API!IsPrefix(r.prefix, k)
                  [] r.op = "listKeys" -> Matches(r.pattern, k)
                  [] OTHER -> TRUE
    BY SearchPatterns
  <1> DEFINE m == Plain("KEYS", addKey(r.ns, q))
             array == Listing(r.ns, q)
             reply == Array(array)
             keys == getKeys(array)
  <1>3. build(r) = m
    <2>1. build(r) = Plain("KEYS", searchPattern(r))
      BY DEF build
    <2> QED
      BY Zenon, <1>2, <2>1
  <1>4. m.name = "KEYS" /\ m.args = addKey(r.ns, q)
    BY DEF Plain
  <1> HIDE DEF m
  <1>5. Execute(m) = Executed(db, reply, FALSE)
    BY ZenonT(30), <1>4 DEF Execute, Listing
  <1>6. /\ r.ns \notin PatternCharacters => \A k :
              k \in keys <=> k \in Keys /\ db[addKey(r.ns, k)] # Absent /\ Matches(q, k)
        /\ \A k \in keys : k \in Keys /\ \E n \in Namespaces : db[addKey(n, k)] # Absent
        /\ IsFiniteSet(keys) /\ (array = <<>> <=> keys = {})
    BY ONLY ZenonT(30), Database(db), <1>1, <1>2, ListingKeys
  <1>7. \A n \in Namespaces : \A k :
           k \in API!Present(s, n) <=> k \in Keys /\ db[addKey(n, k)] # Absent
    BY Zenon DEF API!Present, Shared
  <1>8. "type" \in DOMAIN reply /\ reply.type # "ERROR" /\ reply.array = array
    BY DEF Array
  <1>9. API!PatternCharacters = PatternCharacters
    BY DEF API!PatternCharacters, PatternCharacters, API!AnyString, AnyString,
           API!AnyCharacter, AnyCharacter, API!Backslash, Backslash
  <1> HIDE DEF reply, array, keys, s
  <1>10. keys \in API!Finds(r, s)
    <2>1. CASE r.ns \in PatternCharacters
      <3>1. keys \subseteq UNION {API!Present(s, n) : n \in Namespaces}
        BY ZenonT(30), <1>6, <1>7
      <3> QED
        BY ZenonT(30), <1>9, <2>1, <3>1 DEF API!Finds
    <2>2. CASE r.ns \notin PatternCharacters
      <3>1. \A k : k \in API!Found(r, s) <=> k \in API!Present(s, r.ns) /\
               CASE r.op = "findKeys" -> API!IsPrefix(r.prefix, k)
                 [] r.op = "listKeys" -> Matches(r.pattern, k)
                 [] OTHER -> TRUE
        BY ZenonT(30), SameMatching DEF API!Found
      <3>2. \A k : k \in API!Found(r, s) <=> k \in keys
        BY ZenonT(30), <1>1, <1>2, <1>6, <1>7, <2>2, <3>1
      <3>3. API!Found(r, s) = keys
        BY Zenon, <3>2
      <3> QED
        BY ZenonT(30), <1>9, <2>2, <3>3 DEF API!Finds
    <2> QED
      BY <2>1, <2>2
  <1>11. Answers(r, reply)
    <2>1. r.op # "removeAll" => Result(r, reply) = API!Result(r, s, keys)
      BY <1>8 DEF Result, IsConditional, API!Result, keys
    <2>2. getKeys(reply.array) = keys /\ IsFiniteSet(keys) /\ (reply.array = <<>> <=> keys = {})
      BY ZenonT(30), <1>6, <1>8 DEF keys
    <2> QED
      BY ZenonT(30), <1>8, <1>10, <2>1, <2>2 DEF Answers, Tells, s
  <1>12. Performs(r, Executed(db, reply, FALSE))
    <2>1. r.op \in {"get", "findKeys", "listKeys", "removeAll"}
      OBVIOUS
    <2> QED
      BY ONLY ZenonT(30), Database(db), <1>1, <1>11, <2>1, ReadingPerforms
  <1> QED
    BY Zenon, <1>3, <1>5, <1>12

\* What the database does with the command of a valid request is what the API promises.
LEMMA CommandPerforms ==
    ASSUME Database(db), NEW r, Valid(r)
    PROVE  Performs(r, Execute(build(r)))
  <1>1. r.op \in {"set", "setIf", "setIfNotExists", "get", "remove", "removeIf",
                 "findKeys", "listKeys", "removeAll"}
    BY DEF Valid, WellFormed
  <1> QED
    BY <1>1, SetPerforms, SetIfPerforms, SetIfNotExistsPerforms, RemoveIfPerforms,
       RemovePerforms, GetPerforms, KeysPerforms

-----------------------------------------------------------------------------
(* Error codes.                                                             *)

\* The condition is equivalent to the Error and to no other.
Only(condition, error) == {e \in DOMAIN equivalent : condition \in equivalent[e]} = {error}

\* There is one for each InternalError.
LEMMA Conditions ==
    /\ Only("SUCCESS", "SUCCESS")
    /\ Only("SDL_NOT_CONNECTED_TO_BACKEND", "NOT_CONNECTED")
    /\ Only("BACKEND_NOT_READY", "NOT_CONNECTED")
    /\ Only("SDL_NOT_READY", "NOT_CONNECTED")
    /\ Only("BACKEND_CONNECTION_LOST", "OPERATION_INTERRUPTED")
    /\ Only("BACKEND_ERROR", "BACKEND_FAILURE")
    /\ Only("BACKEND_REJECTED_REQUEST", "REJECTED_BY_BACKEND")
    /\ Only("SDL_RECEIVED_INVALID_PARAMETER", "REJECTED_BY_SDL")
  <1>1. DOMAIN equivalent = {"SUCCESS", "NOT_CONNECTED", "OPERATION_INTERRUPTED",
                             "BACKEND_FAILURE", "REJECTED_BY_BACKEND", "REJECTED_BY_SDL"}
    BY DEF equivalent
  <1>2. /\ equivalent["SUCCESS"] = {"SUCCESS"}
        /\ equivalent["NOT_CONNECTED"] =
             {"SDL_NOT_CONNECTED_TO_BACKEND", "BACKEND_NOT_READY", "SDL_NOT_READY"}
        /\ equivalent["OPERATION_INTERRUPTED"] = {"BACKEND_CONNECTION_LOST"}
        /\ equivalent["BACKEND_FAILURE"] = {"BACKEND_ERROR", "SDL_ERROR_CODE_LOGIC_ERROR"}
        /\ equivalent["REJECTED_BY_BACKEND"] = {"BACKEND_REJECTED_REQUEST"}
        /\ equivalent["REJECTED_BY_SDL"] = {"SDL_RECEIVED_INVALID_PARAMETER"}
    BY DEF equivalent
  <1> QED
    BY <1>1, <1>2 DEF Only

\* So every error code compares equal to exactly one Error.
LEMMA CodesCompare ==
    /\ Equals("SUCCESS") = {"SUCCESS"}
    /\ Equals("INVALID_NAMESPACE") = {"REJECTED_BY_SDL"}
    /\ Equals("REDIS_NOT_YET_DISCOVERED") = {"NOT_CONNECTED"}
    /\ Equals("NOT_CONNECTED") = {"NOT_CONNECTED"}
    /\ Equals("DATASET_LOADING") = {"NOT_CONNECTED"}
    /\ Equals("CONNECTION_LOST") = {"OPERATION_INTERRUPTED"}
    /\ Equals("PROTOCOL_ERROR") = {"REJECTED_BY_BACKEND"}
    /\ Equals("OUT_OF_MEMORY") = {"BACKEND_FAILURE"}
    /\ Equals("UNKNOWN_ERROR") = {"BACKEND_FAILURE"}
    /\ Equals("IO_ERROR") = {"BACKEND_FAILURE"}
    /\ Equals("WRITING_TO_SLAVE") = {"BACKEND_FAILURE"}
  <1>1. DOMAIN StorageCondition = {"REDIS_NOT_YET_DISCOVERED", "INVALID_NAMESPACE"}
    BY DEF StorageCondition
  <1>2. /\ default_error_condition("SUCCESS") = "SUCCESS"
        /\ default_error_condition("INVALID_NAMESPACE") = "SDL_RECEIVED_INVALID_PARAMETER"
        /\ default_error_condition("REDIS_NOT_YET_DISCOVERED") = "SDL_NOT_READY"
        /\ default_error_condition("NOT_CONNECTED") = "SDL_NOT_CONNECTED_TO_BACKEND"
    BY <1>1 DEF default_error_condition, StorageCondition, DispatcherCondition
  <1>3. /\ default_error_condition("DATASET_LOADING") = "BACKEND_NOT_READY"
        /\ default_error_condition("CONNECTION_LOST") = "BACKEND_CONNECTION_LOST"
        /\ default_error_condition("PROTOCOL_ERROR") = "BACKEND_REJECTED_REQUEST"
        /\ default_error_condition("OUT_OF_MEMORY") = "BACKEND_ERROR"
        /\ default_error_condition("UNKNOWN_ERROR") = "BACKEND_ERROR"
        /\ default_error_condition("IO_ERROR") = "BACKEND_ERROR"
        /\ default_error_condition("WRITING_TO_SLAVE") = "BACKEND_ERROR"
    BY <1>1 DEF default_error_condition, DispatcherCondition
  <1>4. ASSUME NEW code, NEW condition, NEW error,
               default_error_condition(code) = condition, Only(condition, error)
        PROVE  Equals(code) = {error}
    BY Zenon, <1>4 DEF Equals, Only
  <1> QED
    BY <1>2, <1>3, <1>4, Conditions

\* Errors of the storage, ...
StorageCodes == {"INVALID_NAMESPACE", "SUCCESS", "REDIS_NOT_YET_DISCOVERED", "NOT_CONNECTED"}

\* They tell truly that nothing was altered, and SUCCESS that nothing was to be done.
LEMMA StorageErrors ==
    ASSUME NEW code \in StorageCodes
    PROVE  \E error \in API!Unaltered \cup {"SUCCESS"} :
              Equals(code) = {error} /\ (error = "SUCCESS" => code = "SUCCESS")
  <1>1. \E error \in {"NOT_CONNECTED", "REJECTED_BY_SDL", "SUCCESS"} :
           Equals(code) = {error} /\ (error = "SUCCESS" => code = "SUCCESS")
    BY CodesCompare DEF StorageCodes
  <1> QED
    BY <1>1 DEF API!Unaltered

\* ... of error replies ...
LEMMA ReplyErrors ==
    ASSUME NEW text \in DOMAIN mapRedisReplyErrorToSdlError
    PROVE  \E error \in API!Unaltered \cup API!MaybeAltered :
              Equals(mapRedisReplyErrorToSdlError[text]) = {error}
  <1>1. mapRedisReplyErrorToSdlError[text] \in
           {"DATASET_LOADING", "NOT_CONNECTED", "PROTOCOL_ERROR", "WRITING_TO_SLAVE",
            "UNKNOWN_ERROR"}
    BY DEF mapRedisReplyErrorToSdlError
  <1> QED
    BY <1>1, CodesCompare DEF API!Unaltered, API!MaybeAltered

\* ... and of lost connections.
LEMMA ContextErrors ==
    ASSUME NEW err \in DOMAIN mapRedisContextErrorToSdlError
    PROVE  /\ err # "CLUSTER_ERROR_NOT_CONNECTED" => \E error \in API!MaybeAltered :
                Equals(mapRedisContextErrorToSdlError[err]) = {error}
           /\ err = "CLUSTER_ERROR_NOT_CONNECTED" =>
                Equals(mapRedisContextErrorToSdlError[err]) = {"NOT_CONNECTED"}
  <1>1. /\ err # "CLUSTER_ERROR_NOT_CONNECTED" => mapRedisContextErrorToSdlError[err] \in
              {"CONNECTION_LOST", "IO_ERROR", "PROTOCOL_ERROR", "OUT_OF_MEMORY", "UNKNOWN_ERROR"}
        /\ err = "CLUSTER_ERROR_NOT_CONNECTED" =>
              mapRedisContextErrorToSdlError[err] = "NOT_CONNECTED"
    BY DEF mapRedisContextErrorToSdlError
  <1> QED
    BY <1>1, CodesCompare DEF API!MaybeAltered

-----------------------------------------------------------------------------
(* The invariant.                                                           *)

\* A reply that is no error carries what the callback of the request needs.
Replied(r, reply) ==
    \/ reply = Nothing
    \/ \E text \in DOMAIN mapRedisReplyErrorToSdlError : reply = Error(text)
    \/ /\ "type" \in DOMAIN reply /\ reply.type # "ERROR"
       /\ r.op = "removeAll" =>
            /\ getKeys(reply.array) \subseteq Keys /\ IsFiniteSet(getKeys(reply.array))
            /\ reply.array = <<>> <=> getKeys(reply.array) = {}

\* A request whose command was sent.
Sent(p) ==
    /\ p = [request |-> p.request, command |-> p.command, reply |-> p.reply]
    /\ Valid(p.request) /\ p.command = build(p.request)
    /\ Replied(p.request, p.reply)

\* A request that was not performed.
Refused(q) ==
    /\ q = [request |-> q.request, code |-> q.code]
    /\ q.code \in StorageCodes
    /\ q.code = "SUCCESS" => noKeysGiven(q.request)

\* What one client waits for.
Waiting(state, p, q) ==
    /\ state \in {"none", "DISCONNECTED", "CONNECTED"}
    /\ p # Nothing => q = Nothing /\ Sent(p)
    /\ q # Nothing => Refused(q)

Orphaned(s) == s \in Seq({s[i] : i \in DOMAIN s}) /\ \A i \in DOMAIN s : Sent(s[i])

Inv ==
    /\ application \in Applications
    /\ Database(db)
    /\ DOMAIN dispatcher = Clients /\ DOMAIN pending = Clients
    /\ DOMAIN posted = Clients /\ DOMAIN answers = Clients
    /\ \A c \in Clients : Waiting(dispatcher[c], pending[c], posted[c])
    /\ Orphaned(orphans)

\* Records of requests and replies are not Nothing.
LEMMA NotNothing ==
    /\ \A r, m, x : [request |-> r, command |-> m, reply |-> x] # Nothing
    /\ \A r, x : [request |-> r, code |-> x] # Nothing
    /\ \A x : "type" \in DOMAIN x => x # Nothing
    /\ \A text : Error(text) # Nothing
  <1>1. "request" \notin DOMAIN Nothing /\ "type" \notin DOMAIN Nothing
    BY NothingKnown
  <1>2. \A r, m, x : "request" \in DOMAIN [request |-> r, command |-> m, reply |-> x]
    OBVIOUS
  <1>3. \A r, x : "request" \in DOMAIN [request |-> r, code |-> x]
    OBVIOUS
  <1>4. \A text : "type" \in DOMAIN Error(text)
    BY DEF Error
  <1> QED
    BY Zenon, <1>1, <1>2, <1>3, <1>4

\* An operation is refused, or its command is sent.
LEMMA Started ==
    ASSUME Inv, NEW c \in Clients, NEW r, WellFormed(r), operationAsync(c, r)
    PROVE  /\ DOMAIN pending' = Clients /\ DOMAIN posted' = Clients
           /\ \A x \in Clients \ {c} : pending'[x] = pending[x] /\ posted'[x] = posted[x]
           /\ \/ /\ pending'[c] = Nothing /\ posted'[c] # Nothing
                 /\ Refused(posted'[c]) /\ posted'[c].request = r
              \/ /\ pending'[c] # Nothing /\ posted'[c] = posted[c]
                 /\ Sent(pending'[c]) /\ pending'[c].request = r /\ pending'[c].reply = Nothing
  <1> DEFINE code == cannotBePerformed(c, r)
             q == [request |-> r, code |-> code]
             p == [request |-> r, command |-> build(r), reply |-> Nothing]
  <1>1. DOMAIN pending = Clients /\ DOMAIN posted = Clients
    BY Zenon DEF Inv
  <1>2. dispatcher[c] \in {"none", "DISCONNECTED", "CONNECTED"}
    BY Zenon DEF Inv, Waiting
  <1>3. code \in StorageCodes \cup {"NONE"}
    BY <1>2 DEF cannotBePerformed, StorageCodes
  <1>4. code = "SUCCESS" => noKeysGiven(r)
    BY <1>2 DEF cannotBePerformed
  <1>5. code = "NONE" => r.ns \in Namespaces /\ ~noKeysGiven(r)
    BY <1>2 DEF cannotBePerformed
  <1> HIDE DEF code
  <1>6. CASE code # "NONE"
    <2>1. pending' = [pending EXCEPT ![c] = Nothing] /\ posted' = [posted EXCEPT ![c] = q]
      BY Zenon, <1>6 DEF operationAsync, code
    <2>2. q # Nothing /\ q.request = r /\ q.code = code
      BY NotNothing
    <2>3. Refused(q)
      <3>1. q.code \in StorageCodes
        BY <1>3, <1>6, <2>2
      <3>2. q = [request |-> q.request, code |-> q.code]
        OBVIOUS
      <3> QED
        BY ZenonT(30), <1>4, <2>2, <3>1, <3>2 DEF Refused
    <2> HIDE DEF q
    <2>4. posted'[c] = q /\ pending'[c] = Nothing
      BY <1>1, <2>1
    <2>5. /\ DOMAIN pending' = Clients /\ DOMAIN posted' = Clients
          /\ \A x \in Clients \ {c} : pending'[x] = pending[x] /\ posted'[x] = posted[x]
      BY <1>1, <2>1
    <2> QED
      BY ZenonT(30), <2>2, <2>3, <2>4, <2>5
  <1>7. CASE code = "NONE"
    <2>1. pending' = [pending EXCEPT ![c] = p] /\ posted' = posted
      BY ZenonT(30), <1>7 DEF operationAsync, code
    <2>2. /\ p # Nothing /\ p.request = r /\ p.command = build(r) /\ p.reply = Nothing
          /\ p = [request |-> p.request, command |-> p.command, reply |-> p.reply]
      BY NotNothing
    <2> HIDE DEF p
    <2>3. Sent(p)
      <3>1. Valid(r)
        BY <1>5, <1>7 DEF Valid
      <3> QED
        BY Zenon, <2>2, <3>1 DEF Sent, Replied
    <2>4. pending'[c] = p /\ posted'[c] = posted[c]
      BY <1>1, <2>1
    <2>5. /\ DOMAIN pending' = Clients /\ DOMAIN posted' = Clients
          /\ \A x \in Clients \ {c} : pending'[x] = pending[x] /\ posted'[x] = posted[x]
      BY <1>1, <2>1
    <2> QED
      BY Zenon, <2>2, <2>3, <2>4, <2>5
  <1> QED
    BY <1>6, <1>7

\* A step of one client keeps the invariant if it leaves that client waiting for something.
LEMMA ClientKeepsInv ==
    ASSUME Inv, NEW c \in Clients, application' = application, Database(db'),
           DOMAIN dispatcher' = Clients, DOMAIN pending' = Clients,
           DOMAIN posted' = Clients, DOMAIN answers' = Clients,
           \A x \in Clients \ {c} : /\ dispatcher'[x] = dispatcher[x]
                                    /\ pending'[x] = pending[x] /\ posted'[x] = posted[x],
           Waiting(dispatcher'[c], pending'[c], posted'[c]), Orphaned(orphans')
    PROVE  Inv'
  <1>1. \A x \in Clients : Waiting(dispatcher'[x], pending'[x], posted'[x])
    BY Zenon DEF Inv
  <1> QED
    BY Zenon, <1>1 DEF Inv

-----------------------------------------------------------------------------
(* The abstract state.                                                      *)

AbstractCalls == [c \in Clients |-> AbstractCall(c)]

Unresolved == [i \in DOMAIN orphans |-> orphans[i].request]

\* The keys in the reply p.reply to a removeAll are removed next.
Removal(p) == [op |-> "remove", ns |-> p.request.ns, keys |-> getKeys(p.reply.array)]

Removes(p) == p.request.op = "removeAll" /\ p.reply.array # <<>>

\* What AbstractCall makes of pending and posted.
CallOf(p, q) ==
    CASE p = Nothing /\ q = Nothing -> [stage |-> "idle"]
      [] p = Nothing /\ q # Nothing -> [stage |-> "called", request |-> q.request]
      [] p # Nothing /\ (p.reply = Nothing \/ p.reply.type = "ERROR") ->
            [stage |-> "called", request |-> p.request]
      [] OTHER ->
            IF Removes(p) THEN [stage |-> "called", request |-> Removal(p)]
            ELSE [stage |-> "performed", request |-> p.request,
                  result |-> Result(p.request, p.reply)]

\* It is the abstract call, before and after a step.
LEMMA CallOfIs ==
    /\ \A c \in Clients : AbstractCall(c) = CallOf(pending[c], posted[c])
    /\ \A c \in Clients : AbstractCall(c)' = CallOf(pending'[c], posted'[c])
  BY Zenon DEF AbstractCall, CallOf, Removes, Removal, RemovesFound

\* The stages of a call.
LEMMA CallOfStages ==
    /\ CallOf(Nothing, Nothing) = API!IdleCall
    /\ \A q : q # Nothing => CallOf(Nothing, q) = [stage |-> "called", request |-> q.request]
    /\ \A p, q : p # Nothing => CallOf(p, q) =
         IF p.reply = Nothing \/ p.reply.type = "ERROR"
         THEN [stage |-> "called", request |-> p.request]
         ELSE IF Removes(p) THEN [stage |-> "called", request |-> Removal(p)]
         ELSE [stage |-> "performed", request |-> p.request,
               result |-> Result(p.request, p.reply)]
  <1>1. CallOf(Nothing, Nothing) = API!IdleCall
    BY Zenon DEF CallOf, API!IdleCall
  <1>2. ASSUME NEW q, q # Nothing
        PROVE  CallOf(Nothing, q) = [stage |-> "called", request |-> q.request]
    BY ZenonT(30), <1>2 DEF CallOf
  <1>3. ASSUME NEW p, NEW q, p # Nothing
        PROVE  CallOf(p, q) =
                 IF p.reply = Nothing \/ p.reply.type = "ERROR"
                 THEN [stage |-> "called", request |-> p.request]
                 ELSE IF Removes(p) THEN [stage |-> "called", request |-> Removal(p)]
                 ELSE [stage |-> "performed", request |-> p.request,
                       result |-> Result(p.request, p.reply)]
    BY <1>3 DEF CallOf
  <1> QED
    BY ZenonT(30), <1>1, <1>2, <1>3

\* A step of one client changes its call only.
LEMMA CallsChange ==
    ASSUME NEW c \in Clients,
           \A x \in Clients \ {c} : pending'[x] = pending[x] /\ posted'[x] = posted[x]
    PROVE  /\ AbstractCalls' = [AbstractCalls EXCEPT ![c] = CallOf(pending'[c], posted'[c])]
           /\ AbstractCalls[c] = CallOf(pending[c], posted[c])
  <1> DEFINE f == [x \in Clients |-> CallOf(pending[x], posted[x])]
             g == [x \in Clients |-> CallOf(pending'[x], posted'[x])]
  <1>1. AbstractCalls = f
    BY ZenonT(30), CallOfIs DEF AbstractCalls
  <1>2. AbstractCalls' = g
    BY Zenon, CallOfIs DEF AbstractCalls
  <1>3. \A x \in Clients : g[x] = IF x = c THEN CallOf(pending'[c], posted'[c]) ELSE f[x]
    BY Zenon
  <1>4. /\ f = [x \in Clients |-> f[x]] /\ g = [x \in Clients |-> g[x]]
        /\ f[c] = CallOf(pending[c], posted[c])
    BY ZenonT(30)
  <1> HIDE DEF f, g
  <1>5. g = [f EXCEPT ![c] = CallOf(pending'[c], posted'[c])]
    BY <1>3, <1>4
  <1> QED
    BY Zenon, <1>1, <1>2, <1>4, <1>5

\* The state functions of the API.
LEMMA APIState ==
    /\ API!vars = <<Shared(db), AbstractCalls, answers, Unresolved>>
    /\ API!vars' = <<Shared(db)', AbstractCalls', answers', Unresolved'>>
  BY ZenonT(30) DEF API!vars, Shared, AbstractCalls, Unresolved

\* Errors come with the empty result, and the API knows the same requests without keys.
LEMMA SameResults ==
    /\ \A r : EmptyResult(r) = API!ErrorResult(r)
    /\ \A r : noKeysGiven(r) <=> API!NoKeys(r)
  BY Zenon DEF EmptyResult, IsConditional, API!ErrorResult, noKeysGiven, API!NoKeys

\* Where ack answers a call, and nothing is left pending or posted, the API answers it.
LEMMA Answering ==
    ASSUME NEW c \in Clients, NEW code, NEW result, ack(c, code, result),
           \A x \in Clients \ {c} : pending'[x] = pending[x] /\ posted'[x] = posted[x],
           pending'[c] = Nothing, posted'[c] = Nothing, NEW error, Equals(code) = {error}
    PROVE  API!Answer(c, error, result)
  <1>1. AbstractCalls' = [AbstractCalls EXCEPT ![c] = CallOf(pending'[c], posted'[c])]
    BY CallsChange
  <1>2. CallOf(pending'[c], posted'[c]) = API!IdleCall
    BY Zenon, CallOfStages
  <1>3. AbstractCalls' = [AbstractCalls EXCEPT ![c] = API!IdleCall]
    BY ZenonT(30), <1>1, <1>2
  <1>4. answers' = [answers EXCEPT ![c] = [error |-> {error}, result |-> result]]
    BY Zenon DEF ack
  <1> QED
    BY Zenon, <1>3, <1>4 DEF API!Answer, AbstractCalls

-----------------------------------------------------------------------------
(* Every action keeps the invariant, and is a step of the API or none.      *)

\* What stays as it is for the API if the database and the orphans do.
LEMMA APIUnchanged ==
    ASSUME db' = db, orphans' = orphans
    PROVE  /\ Shared(db)' = Shared(db) /\ Unresolved' = Unresolved
           /\ UNCHANGED <<[n \in Namespaces |-> [k \in Keys |-> db[addKey(n, k)]]],
                          [i \in DOMAIN orphans |-> orphans[i].request]>>
  BY ZenonT(30) DEF Shared, Unresolved

\* A call.
LEMMA CallStep ==
    ASSUME Inv, NEW c \in Clients, NEW r \in application.requests[c], Call(c, r)
    PROVE  Inv' /\ r \in Requests /\ API!Call(c, r)
  <1>1. r \in Requests
    <2>1. application \in Applications
      BY Zenon DEF Inv
    <2> QED
      BY <2>1 DEF Requests
  <1>2. WellFormed(r)
    BY Zenon, <1>1, ApplicationsKnown
  <1>3. /\ operationAsync(c, r) /\ pending[c] = Nothing /\ posted[c] = Nothing
        /\ answers' = [answers EXCEPT ![c] = Nothing] /\ application' = application
        /\ db' = db /\ dispatcher' = dispatcher /\ orphans' = orphans
    BY ZenonT(30) DEF Call
  <1>4. /\ DOMAIN pending' = Clients /\ DOMAIN posted' = Clients
        /\ \A x \in Clients \ {c} : pending'[x] = pending[x] /\ posted'[x] = posted[x]
    BY ONLY Zenon, Inv, c \in Clients, <1>2, <1>3, Started
  <1>5. \/ /\ pending'[c] = Nothing /\ posted'[c] # Nothing
           /\ Refused(posted'[c]) /\ posted'[c].request = r
        \/ /\ pending'[c] # Nothing /\ posted'[c] = posted[c]
           /\ Sent(pending'[c]) /\ pending'[c].request = r /\ pending'[c].reply = Nothing
    BY ONLY ZenonT(30), Inv, c \in Clients, <1>2, <1>3, Started
  <1>6. Inv'
    <2>1. Waiting(dispatcher'[c], pending'[c], posted'[c])
      BY ZenonT(30), <1>3, <1>5 DEF Inv, Waiting
    <2>2. /\ Database(db') /\ DOMAIN dispatcher' = Clients /\ Orphaned(orphans')
          /\ DOMAIN answers' = Clients
      BY Zenon, <1>3 DEF Inv
    <2>3. \A x \in Clients \ {c} : /\ dispatcher'[x] = dispatcher[x]
                                   /\ pending'[x] = pending[x] /\ posted'[x] = posted[x]
      BY ZenonT(30), <1>3, <1>4
    <2> QED
      BY ONLY ZenonT(30), Inv, c \in Clients, <1>3, <1>4, <2>1, <2>2, <2>3, ClientKeepsInv
  <1>7. API!Call(c, r)
    <2>1. CallOf(pending'[c], posted'[c]) = [stage |-> "called", request |-> r]
      BY ZenonT(30), <1>5, CallOfStages
    <2>2. /\ AbstractCalls' = [AbstractCalls EXCEPT ![c] = CallOf(pending'[c], posted'[c])]
          /\ AbstractCalls[c] = CallOf(pending[c], posted[c])
      BY Zenon, <1>4, CallsChange
    <2>3. AbstractCalls[c] = API!IdleCall
      BY ZenonT(30), <1>3, <2>2, CallOfStages
    <2>4. AbstractCalls' =
             [AbstractCalls EXCEPT ![c] = [stage |-> "called", request |-> r]]
      BY Zenon, <2>1, <2>2
    <2>5. UNCHANGED <<[n \in Namespaces |-> [k \in Keys |-> db[addKey(n, k)]]],
                      [i \in DOMAIN orphans |-> orphans[i].request]>>
      BY ZenonT(30), <1>3, APIUnchanged
    <2> QED
      BY Zenon, <1>3, <2>3, <2>4, <2>5 DEF API!Call, AbstractCalls
  <1> QED
    BY <1>1, <1>6, <1>7

\* A step that answers a request that is pending or posted.
Answered(c, code, result) ==
    /\ ack(c, code, result)
    /\ \/ /\ pending[c] = Nothing /\ pending' = pending
          /\ posted' = [posted EXCEPT ![c] = Nothing]
       \/ /\ pending[c] # Nothing /\ posted' = posted
          /\ pending' = [pending EXCEPT ![c] = Nothing]
    /\ application' = application /\ db' = db
    /\ \/ dispatcher' = dispatcher
       \/ dispatcher' = [dispatcher EXCEPT ![c] = "DISCONNECTED"]

\* It keeps the invariant and the API answers as well.
LEMMA AnsweredStep ==
    ASSUME Inv, NEW c \in Clients, NEW code, NEW result, Answered(c, code, result),
           Orphaned(orphans')
    PROVE  /\ Inv' /\ AbstractCalls[c] = CallOf(pending[c], posted[c])
           /\ \A error : Equals(code) = {error} => API!Answer(c, error, result)
  <1>1. /\ DOMAIN pending = Clients /\ DOMAIN posted = Clients /\ DOMAIN answers = Clients
        /\ DOMAIN dispatcher = Clients
        /\ Waiting(dispatcher[c], pending[c], posted[c])
    BY Zenon DEF Inv
  <1>2. /\ DOMAIN pending' = Clients /\ DOMAIN posted' = Clients
        /\ \A x \in Clients \ {c} : pending'[x] = pending[x] /\ posted'[x] = posted[x]
        /\ pending'[c] = Nothing /\ posted'[c] = Nothing
    <2>1. CASE /\ pending[c] = Nothing /\ pending' = pending
               /\ posted' = [posted EXCEPT ![c] = Nothing]
      BY Zenon, <1>1, <2>1
    <2>2. CASE /\ pending[c] # Nothing /\ posted' = posted
               /\ pending' = [pending EXCEPT ![c] = Nothing]
      <3>1. posted[c] = Nothing
        BY Zenon, <1>1, <2>2 DEF Waiting
      <3> QED
        BY ZenonT(30), <1>1, <2>2, <3>1
    <2> QED
      BY ZenonT(30), <2>1, <2>2 DEF Answered
  <1>3. /\ DOMAIN dispatcher' = Clients
        /\ dispatcher'[c] \in {"none", "DISCONNECTED", "CONNECTED"}
        /\ \A x \in Clients \ {c} : dispatcher'[x] = dispatcher[x]
    <2>1. CASE dispatcher' = dispatcher
      BY Zenon, <1>1, <2>1 DEF Waiting
    <2>2. CASE dispatcher' = [dispatcher EXCEPT ![c] = "DISCONNECTED"]
      BY ZenonT(30), <1>1, <2>2
    <2> QED
      BY ZenonT(30), <2>1, <2>2 DEF Answered
  <1>4. ack(c, code, result) /\ application' = application /\ db' = db
    BY Zenon DEF Answered
  <1>5. DOMAIN answers' = Clients
    BY ZenonT(30), <1>1, <1>4 DEF ack
  <1>6. Inv'
    <2>1. Waiting(dispatcher'[c], pending'[c], posted'[c])
      BY ZenonT(30), <1>2, <1>3 DEF Waiting
    <2>2. Database(db')
      BY Zenon, <1>4 DEF Inv
    <2>3. \A x \in Clients \ {c} : /\ dispatcher'[x] = dispatcher[x]
                                   /\ pending'[x] = pending[x] /\ posted'[x] = posted[x]
      BY ZenonT(30), <1>2, <1>3
    <2> QED
      BY ONLY ZenonT(30), Inv, c \in Clients, Orphaned(orphans'), <1>2, <1>3, <1>4, <1>5, <2>1,
         <2>2,
              <2>3, ClientKeepsInv
  <1>7. AbstractCalls[c] = CallOf(pending[c], posted[c])
    BY Zenon, <1>2, CallsChange
  <1>8. ASSUME NEW error, Equals(code) = {error} PROVE API!Answer(c, error, result)
    BY ONLY ZenonT(30), c \in Clients, <1>2, <1>4, <1>8, Answering
  <1> QED
    BY <1>6, <1>7, <1>8

\* An answer is a failure for the API if the data is as it was, ...
LEMMA APIFails ==
    ASSUME NEW c \in Clients, db' = db, orphans' = orphans,
           NEW r, AbstractCalls[c] = [stage |-> "called", request |-> r],
           NEW error \in API!Unaltered \cup {"SUCCESS"},
           error = "SUCCESS" => noKeysGiven(r), API!Answer(c, error, EmptyResult(r))
    PROVE  API!Fail(c, error)
  <1>1. AbstractCalls[c].stage = "called" /\ AbstractCalls[c].request = r
    OBVIOUS
  <1>2. /\ API!Answer(c, error, API!ErrorResult(AbstractCalls[c].request))
        /\ error = "SUCCESS" => API!NoKeys(AbstractCalls[c].request)
    BY Zenon, <1>1, SameResults
  <1>3. UNCHANGED <<[n \in Namespaces |-> [k \in Keys |-> db[addKey(n, k)]]],
                    [i \in DOMAIN orphans |-> orphans[i].request]>>
    BY Zenon, APIUnchanged
  <1> QED
    BY ZenonT(30), <1>1, <1>2, <1>3 DEF API!Fail, AbstractCalls

\* ... and otherwise an interruption.
LEMMA APIInterrupts ==
    ASSUME NEW c \in Clients, db' = db, NEW call, AbstractCalls[c] = call,
           call.stage \in {"called", "performed"},
           \/ orphans' = orphans
           \/ call.stage = "called" /\ Unresolved' = Append(Unresolved, call.request),
           NEW error \in API!MaybeAltered, API!Answer(c, error, EmptyResult(call.request))
    PROVE  API!Interrupt(c, error)
  <1>1. API!Answer(c, error, API!ErrorResult(AbstractCalls[c].request))
    BY Zenon, SameResults
  <1>2. UNCHANGED [n \in Namespaces |-> [k \in Keys |-> db[addKey(n, k)]]]
    BY ZenonT(30)
  <1>3. \/ UNCHANGED Unresolved
        \/ /\ AbstractCalls[c].stage = "called"
           /\ Unresolved' = Append(Unresolved, AbstractCalls[c].request)
    BY Zenon DEF Unresolved
  <1> QED
    BY ZenonT(30), <1>1, <1>2, <1>3 DEF API!Interrupt, AbstractCalls, Unresolved

\* A request that was refused fails.
LEMMA PostedStep ==
    ASSUME Inv, NEW c \in Clients, executePosted(c)
    PROVE  Inv' /\ \E error \in API!Unaltered \cup {"SUCCESS"} : API!Fail(c, error)
  <1> DEFINE q == posted[c]
             r == q.request
  <1>1. pending[c] = Nothing /\ q # Nothing /\ Refused(q)
    BY ZenonT(30) DEF Inv, Waiting, executePosted
  <1>2. Answered(c, q.code, EmptyResult(r)) /\ orphans' = orphans /\ db' = db
    BY Zenon, <1>1 DEF Answered, executePosted
  <1>3. Orphaned(orphans')
    BY ZenonT(30), <1>2 DEF Inv
  <1>4. /\ Inv' /\ AbstractCalls[c] = CallOf(pending[c], posted[c])
        /\ \A error : Equals(q.code) = {error} => API!Answer(c, error, EmptyResult(r))
    BY ONLY Zenon, Inv, c \in Clients, <1>2, <1>3, AnsweredStep
  <1>5. AbstractCalls[c] = [stage |-> "called", request |-> r]
    BY ZenonT(30), <1>1, <1>4, CallOfStages
  <1>6. PICK error \in API!Unaltered \cup {"SUCCESS"} :
           Equals(q.code) = {error} /\ (error = "SUCCESS" => q.code = "SUCCESS")
    BY Zenon, <1>1, StorageErrors DEF Refused
  <1>7. error = "SUCCESS" => noKeysGiven(r)
    BY ZenonT(30), <1>1, <1>6 DEF Refused
  <1>8. API!Answer(c, error, EmptyResult(r))
    BY Zenon, <1>4, <1>6
  <1>9. API!Fail(c, error)
    BY ONLY ZenonT(30), c \in Clients, <1>2, <1>5, <1>6, <1>7, <1>8, APIFails
  <1> QED
    BY Zenon, <1>4, <1>6, <1>9

\* Orphans are added ...
LEMMA OrphanAdded ==
    ASSUME Orphaned(orphans), NEW p, Sent(p), orphans' = Append(orphans, p)
    PROVE  Orphaned(orphans') /\ Unresolved' = Append(Unresolved, p.request)
  <1> DEFINE S == {orphans[i] : i \in DOMAIN orphans} \cup {p}
             n == Len(orphans)
             T == {orphans'[i] : i \in DOMAIN orphans'}
  <1>1. orphans \in Seq(S) /\ n \in Nat /\ DOMAIN orphans = 1..n
    BY DEF Orphaned
  <1> HIDE DEF S
  <1>2. /\ orphans' \in Seq(S) /\ Len(orphans') = n + 1 /\ DOMAIN orphans' = 1..n + 1
        /\ orphans'[n + 1] = p /\ \A i \in 1..n : orphans'[i] = orphans[i]
    BY <1>1 DEF S
  <1>3. orphans' \in Seq(T)
    BY <1>2
  <1>4. \A i \in DOMAIN orphans' : Sent(orphans'[i])
    <2> SUFFICES ASSUME NEW i \in 1..n + 1 PROVE Sent(orphans'[i])
      BY ZenonT(30), <1>2
    <2>1. i = n + 1 \/ i \in 1..n
      BY <1>1
    <2> QED
      BY Zenon, <1>1, <1>2, <2>1 DEF Orphaned
  <1>5. Unresolved' = Append(Unresolved, p.request)
    <2> DEFINE R == {orphans[i].request : i \in DOMAIN orphans} \cup {p.request}
               u == Unresolved
               w == [i \in 1..n + 1 |-> IF i = n + 1 THEN p.request ELSE orphans[i].request]
    <2>1. u = [i \in 1..n |-> orphans[i].request]
      BY ZenonT(30), <1>1 DEF Unresolved
    <2>2. u \in Seq(R) /\ Len(u) = n
      <3>1. u \in [1..n -> R]
        BY ZenonT(30), <1>1, <2>1
      <3> HIDE DEF u, R
      <3> QED
        BY <1>1, <3>1
    <2>3. Unresolved' = [i \in 1..n + 1 |-> orphans'[i].request]
      BY Zenon, <1>2 DEF Unresolved
    <2>4. \A i \in 1..n + 1 : orphans'[i].request = w[i]
      <3> SUFFICES ASSUME NEW i \in 1..n + 1 PROVE orphans'[i].request = w[i]
        BY Zenon
      <3>1. i = n + 1 \/ (i \in 1..n /\ i # n + 1)
        BY <1>1
      <3> QED
        BY ZenonT(30), <1>2, <3>1
    <2>5. Unresolved' = w
      BY Zenon, <2>3, <2>4
    <2> HIDE DEF u, R
    <2>6. Append(u, p.request) = w
      BY <1>1, <2>1, <2>2 DEF R
    <2> QED
      BY Zenon, <2>5, <2>6 DEF u
  <1> QED
    BY ZenonT(30), <1>3, <1>4, <1>5 DEF Orphaned

\* ... and removed.
LEMMA OrphanGone ==
    ASSUME Orphaned(orphans), NEW i \in DOMAIN orphans, orphans' = RemoveAt(orphans, i)
    PROVE  /\ Orphaned(orphans') /\ i \in DOMAIN Unresolved
           /\ Unresolved' = API!RemoveAt(Unresolved, i)
  <1> DEFINE S == {orphans[j] : j \in DOMAIN orphans}
             n == Len(orphans)
             T == {orphans'[j] : j \in DOMAIN orphans'}
             u == Unresolved
             R == {orphans[j].request : j \in DOMAIN orphans}
             v == RemoveAt(u, i)
  <1>1. orphans \in Seq(S) /\ n \in Nat /\ DOMAIN orphans = 1..n /\ i \in 1..n
    BY DEF Orphaned
  <1>2. u = [j \in 1..n |-> orphans[j].request] /\ i \in DOMAIN u
    BY Zenon, <1>1 DEF Unresolved
  <1>3. u \in Seq(R) /\ Len(u) = n
    <2>1. u \in [1..n -> R]
      BY ZenonT(30), <1>1, <1>2
    <2> HIDE DEF u, R
    <2> QED
      BY <1>1, <2>1
  <1>4. \A j \in 1..n : u[j] = orphans[j].request
    BY Zenon, <1>2
  <1> HIDE DEF S, R, u
  <1>5. ASSUME NEW B, NEW s \in Seq(B), Len(s) = n
        PROVE  /\ RemoveAt(s, i) \in Seq(B)
               /\ DOMAIN RemoveAt(s, i) = 1..n - 1
               /\ \A j \in 1..n - 1 : RemoveAt(s, i)[j] = IF j < i THEN s[j] ELSE s[j + 1]
    <2> DEFINE a == SubSeq(s, 1, i - 1)
               b == SubSeq(s, i + 1, n)
    <2>1. /\ a \in Seq(B) /\ Len(a) = i - 1 /\ \A j \in 1..i - 1 : a[j] = s[j]
          /\ b \in Seq(B) /\ Len(b) = n - i /\ \A j \in 1..n - i : b[j] = s[j + i]
      BY <1>1, <1>5
    <2>2. RemoveAt(s, i) = a \o b
      BY Zenon, <1>5 DEF RemoveAt
    <2> HIDE DEF a, b
    <2>3. /\ a \o b \in Seq(B) /\ DOMAIN (a \o b) = 1..n - 1
          /\ \A j \in 1..n - 1 : (a \o b)[j] = IF j < i THEN a[j] ELSE b[j - (i - 1)]
      <3>1. a \in Seq(B) /\ b \in Seq(B) /\ Len(a) = i - 1 /\ Len(b) = n - i
        BY ZenonT(30), <2>1
      <3>a. a \o b \in Seq(B) /\ Len(a \o b) = Len(a) + Len(b)
        BY ONLY SMTT(30), ZenonT(30), <3>1
      <3>2. a \o b \in Seq(B) /\ Len(a \o b) = n - 1
        BY ONLY SMTT(30), ZenonT(30), <1>1, <3>1, <3>a
      <3>3. \A j \in 1..n - 1 : (a \o b)[j] = IF j <= Len(a) THEN a[j] ELSE b[j - Len(a)]
        BY ONLY SMTT(30), ZenonT(30), <1>1, <3>1
      <3>4. \A j \in 1..n - 1 : j <= Len(a) <=> j < i
        BY ONLY SMTT(30), ZenonT(30), <1>1, <3>1
      <3>5. DOMAIN (a \o b) = 1..n - 1
        BY ONLY SMTT(30), ZenonT(30), <3>2
      <3> QED
        BY ZenonT(30), <3>1, <3>2, <3>3, <3>4, <3>5
    <2>4. ASSUME NEW j \in 1..n - 1, ~(j < i) PROVE b[j - (i - 1)] = s[j + 1]
      <3> DEFINE l == j - (i - 1)
      <3>1. l \in 1..n - i /\ l + i = j + 1
        BY <1>1, <2>4
      <3> HIDE DEF l
      <3>2. b[l] = s[j + 1]
        BY Zenon, <2>1, <3>1
      <3> QED
        BY Zenon, <3>2 DEF l
    <2>5. ASSUME NEW j \in 1..n - 1, j < i PROVE a[j] = s[j]
      <3>1. j \in 1..i - 1
        BY <1>1, <2>5
      <3> QED
        BY ZenonT(30), <2>1, <3>1
    <2> QED
      BY ZenonT(30), <2>2, <2>3, <2>4, <2>5
  <1>6. /\ orphans' \in Seq(S) /\ DOMAIN orphans' = 1..n - 1
        /\ \A j \in 1..n - 1 : orphans'[j] = IF j < i THEN orphans[j] ELSE orphans[j + 1]
    BY ZenonT(30), <1>1, <1>5
  <1>7. /\ DOMAIN v = 1..n - 1 /\ v \in Seq(R)
        /\ \A j \in 1..n - 1 : v[j] = IF j < i THEN u[j] ELSE u[j + 1]
    BY Zenon, <1>3, <1>5
  <1>8. \A j \in 1..n - 1 : j \in 1..n /\ j + 1 \in 1..n
    BY <1>1
  <1>9. orphans' \in Seq(T)
    BY <1>6
  <1>10. \A j \in DOMAIN orphans' : Sent(orphans'[j])
    BY ZenonT(30), <1>1, <1>6, <1>8 DEF Orphaned
  <1>11. Unresolved' = [j \in 1..n - 1 |-> orphans'[j].request]
    BY Zenon, <1>6 DEF Unresolved
  <1>12. v = [j \in 1..n - 1 |-> v[j]]
    <2> HIDE DEF v
    <2> QED
      BY <1>7
  <1>13. \A j \in 1..n - 1 : v[j] = orphans'[j].request
    BY Zenon, <1>4, <1>6, <1>7, <1>8
  <1> HIDE DEF v
  <1>14. Unresolved' = v
    BY ZenonT(30), <1>11, <1>12, <1>13
  <1>15. \A s, j : API!RemoveAt(s, j) = RemoveAt(s, j)
    BY Zenon DEF API!RemoveAt, RemoveAt
  <1> QED
    BY Zenon, <1>2, <1>9, <1>10, <1>14, <1>15 DEF Orphaned, u, v

\* An error reply fails or interrupts the request.
LEMMA ErrorStep ==
    ASSUME Inv, NEW c \in Clients, errorReply(c)
    PROVE  /\ Inv'
           /\ \/ \E error \in API!Unaltered \cup {"SUCCESS"} : API!Fail(c, error)
              \/ \E error \in API!MaybeAltered : API!Interrupt(c, error)
  <1> DEFINE p == pending[c]
             r == p.request
             code == getRedisError(Nothing, p.reply)
  <1>1. p # Nothing /\ p.reply # Nothing /\ p.reply.type = "ERROR"
    BY ZenonT(30) DEF errorReply, HasReply
  <1>2. Sent(p)
    BY Zenon, <1>1 DEF Inv, Waiting
  <1>3. PICK text \in DOMAIN mapRedisReplyErrorToSdlError : p.reply = Error(text)
    BY Zenon, <1>1, <1>2 DEF Sent, Replied
  <1>4. code = mapRedisReplyErrorToSdlError[text]
    <2>1. p.reply.type = "ERROR" /\ p.reply.text = text
      BY <1>3 DEF Error
    <2> HIDE DEF p
    <2> QED
      BY <2>1 DEF getRedisError
  <1> HIDE DEF code
  <1>5. PICK error \in API!Unaltered \cup API!MaybeAltered : Equals(code) = {error}
    BY Zenon, <1>4, ReplyErrors
  <1>6. Answered(c, code, EmptyResult(r)) /\ orphans' = orphans /\ db' = db
    BY ZenonT(30), <1>1 DEF Answered, errorReply, code
  <1>7. Orphaned(orphans')
    BY Zenon, <1>6 DEF Inv
  <1>8. /\ Inv' /\ AbstractCalls[c] = CallOf(pending[c], posted[c])
        /\ \A e : Equals(code) = {e} => API!Answer(c, e, EmptyResult(r))
    BY ONLY Zenon, Inv, c \in Clients, <1>6, <1>7, AnsweredStep
  <1>9. AbstractCalls[c] = [stage |-> "called", request |-> r]
    BY ZenonT(30), <1>1, <1>8, CallOfStages
  <1>10. API!Answer(c, error, EmptyResult(r))
    BY Zenon, <1>5, <1>8
  <1>11. CASE error \in API!Unaltered
    <2>1. error \in API!Unaltered \cup {"SUCCESS"} /\ (error = "SUCCESS" => noKeysGiven(r))
      BY <1>11 DEF API!Unaltered
    <2>2. API!Fail(c, error)
      BY ONLY ZenonT(30), c \in Clients, <1>6, <1>9, <1>10, <2>1, APIFails
    <2> QED
      BY ZenonT(30), <1>8, <2>1, <2>2
  <1>12. CASE error \in API!MaybeAltered
    <2> DEFINE call == AbstractCalls[c]
    <2>1. call.stage \in {"called", "performed"} /\ call.request = r
      BY <1>9
    <2> HIDE DEF call
    <2>2. API!Answer(c, error, EmptyResult(call.request)) /\ AbstractCalls[c] = call
      BY ZenonT(30), <1>10, <2>1 DEF call
    <2>3. API!Interrupt(c, error)
      BY ONLY Zenon, c \in Clients, <1>6, <1>12, <2>1, <2>2, APIInterrupts
    <2> QED
      BY ZenonT(30), <1>8, <1>12, <2>3
  <1> QED
    BY Zenon, <1>5, <1>11, <1>12

\* A reply answers the request with what it was performed with.
LEMMA CallbackStep ==
    ASSUME Inv, NEW c \in Clients, commandCallback(c)
    PROVE  Inv' /\ API!Return(c)
  <1> DEFINE p == pending[c]
             r == p.request
             result == Result(r, p.reply)
  <1>1. p # Nothing /\ p.reply # Nothing /\ p.reply.type # "ERROR" /\ ~Removes(p)
    BY Zenon DEF commandCallback, HasReply, RemovesFound, Removes
  <1>2. Answered(c, "SUCCESS", result) /\ orphans' = orphans /\ db' = db
    BY ZenonT(30), <1>1 DEF Answered, commandCallback
  <1>3. Orphaned(orphans')
    BY Zenon, <1>2 DEF Inv
  <1>4. /\ Inv' /\ AbstractCalls[c] = CallOf(pending[c], posted[c])
        /\ \A e : Equals("SUCCESS") = {e} => API!Answer(c, e, result)
    BY ONLY Zenon, Inv, c \in Clients, <1>2, <1>3, AnsweredStep
  <1>5. AbstractCalls[c] = [stage |-> "performed", request |-> r, result |-> result]
    BY ZenonT(30), <1>1, <1>4, CallOfStages
  <1>6. AbstractCalls[c].stage = "performed" /\ AbstractCalls[c].result = result
    BY <1>5
  <1>7. API!Answer(c, "SUCCESS", AbstractCalls[c].result)
    <2>1. Equals("SUCCESS") = {"SUCCESS"}
      BY CodesCompare
    <2>2. API!Answer(c, "SUCCESS", result)
      BY ONLY ZenonT(30), <1>4, <2>1
    <2> HIDE DEF result
    <2> QED
      BY Zenon, <1>6, <2>2
  <1>8. UNCHANGED <<[n \in Namespaces |-> [k \in Keys |-> db[addKey(n, k)]]],
                    [i \in DOMAIN orphans |-> orphans[i].request]>>
    BY Zenon, <1>2, APIUnchanged
  <1> QED
    BY ZenonT(30), <1>4, <1>6, <1>7, <1>8 DEF API!Return, AbstractCalls

\* The second half of removeAll starts, which is no step of the API.
LEMMA RemoveAllStep ==
    ASSUME Inv, NEW c \in Clients, removeAllCallback(c)
    PROVE  Inv' /\ UNCHANGED API!vars
  <1> DEFINE p == pending[c]
             r == Removal(p)
  <1>1. /\ p # Nothing /\ p.reply # Nothing /\ p.reply.type # "ERROR" /\ Removes(p)
        /\ operationAsync(c, r) /\ application' = application /\ db' = db
        /\ dispatcher' = dispatcher /\ answers' = answers /\ orphans' = orphans
    BY Zenon DEF removeAllCallback, HasReply, RemovesFound, Removes, Removal
  <1>2. Sent(p) /\ posted[c] = Nothing
    BY Zenon, <1>1 DEF Inv, Waiting
  <1>3. /\ p.request.op = "removeAll" /\ getKeys(p.reply.array) \subseteq Keys
        /\ IsFiniteSet(getKeys(p.reply.array))
    <2>1. \A text : Error(text).type = "ERROR"
      BY DEF Error
    <2> QED
      BY ZenonT(30), <1>1, <1>2, <2>1 DEF Removes, Sent, Replied
  <1>4. WellFormed(r)
    <2>1. r.op = "remove" /\ r.keys = getKeys(p.reply.array)
      BY DEF Removal
    <2> HIDE DEF r
    <2> QED
      BY <1>3, <2>1 DEF WellFormed
  <1> HIDE DEF r
  <1>5. /\ DOMAIN pending' = Clients /\ DOMAIN posted' = Clients
        /\ \A x \in Clients \ {c} : pending'[x] = pending[x] /\ posted'[x] = posted[x]
    BY ONLY Zenon, Inv, c \in Clients, <1>1, <1>4, Started
  <1>6. \/ /\ pending'[c] = Nothing /\ posted'[c] # Nothing
           /\ Refused(posted'[c]) /\ posted'[c].request = r
        \/ /\ pending'[c] # Nothing /\ posted'[c] = posted[c]
           /\ Sent(pending'[c]) /\ pending'[c].request = r /\ pending'[c].reply = Nothing
    BY ONLY ZenonT(30), Inv, c \in Clients, <1>1, <1>4, Started
  <1>7. Inv'
    <2>1. Waiting(dispatcher'[c], pending'[c], posted'[c])
      BY ZenonT(30), <1>1, <1>2, <1>6 DEF Inv, Waiting
    <2>2. /\ Database(db') /\ DOMAIN dispatcher' = Clients /\ Orphaned(orphans')
          /\ DOMAIN answers' = Clients
      BY Zenon, <1>1 DEF Inv
    <2>3. \A x \in Clients \ {c} : /\ dispatcher'[x] = dispatcher[x]
                                   /\ pending'[x] = pending[x] /\ posted'[x] = posted[x]
      BY ZenonT(30), <1>1, <1>5
    <2> QED
      BY ONLY Zenon, Inv, c \in Clients, <1>1, <1>5, <2>1, <2>2, <2>3, ClientKeepsInv
  <1>8. UNCHANGED API!vars
    <2> DEFINE call == [stage |-> "called", request |-> r]
    <2>1. CallOf(pending'[c], posted'[c]) = call
      BY ZenonT(30), <1>6, CallOfStages
    <2>2. CallOf(pending[c], posted[c]) = call
      BY Zenon, <1>1, CallOfStages DEF r
    <2>3. /\ AbstractCalls' = [AbstractCalls EXCEPT ![c] = CallOf(pending'[c], posted'[c])]
          /\ AbstractCalls[c] = CallOf(pending[c], posted[c])
      BY ZenonT(30), <1>5, CallsChange
    <2> HIDE DEF call
    <2>4. AbstractCalls' = [AbstractCalls EXCEPT ![c] = AbstractCalls[c]]
      BY Zenon, <2>1, <2>2, <2>3
    <2>5. AbstractCalls = [x \in Clients |-> AbstractCalls[x]]
      BY ZenonT(30) DEF AbstractCalls
    <2>6. AbstractCalls' = AbstractCalls
      BY <2>4, <2>5
    <2>7. Shared(db)' = Shared(db) /\ Unresolved' = Unresolved
      BY Zenon, <1>1, APIUnchanged
    <2> QED
      BY Zenon, <1>1, <2>6, <2>7, APIState
  <1> QED
    BY <1>7, <1>8

\* A step of one client that only sends it a reply.
LEMMA ReplyStep ==
    ASSUME Inv, NEW c \in Clients, pending[c] # Nothing, NEW reply,
           pending' = [pending EXCEPT ![c].reply = reply],
           Replied(pending[c].request, reply), Database(db'),
           UNCHANGED <<application, dispatcher, posted, answers, orphans>>
    PROVE  /\ Inv'
           /\ \A x \in Clients \ {c} : pending'[x] = pending[x] /\ posted'[x] = posted[x]
           /\ pending'[c] # Nothing /\ pending'[c].request = pending[c].request
           /\ pending'[c].reply = reply
  <1> DEFINE p == pending[c]
             w == [request |-> p.request, command |-> p.command, reply |-> reply]
  <1>1. DOMAIN pending = Clients /\ posted[c] = Nothing /\ Sent(p)
    BY Zenon DEF Inv, Waiting
  <1>2. w # Nothing /\ w.request = p.request /\ w.command = p.command /\ w.reply = reply
    BY NotNothing
  <1>3. pending'[c] = w /\ DOMAIN pending' = Clients
    <2>1. p = [request |-> p.request, command |-> p.command, reply |-> p.reply]
      BY Zenon, <1>1 DEF Sent
    <2>2. pending' = [pending EXCEPT ![c] = [p EXCEPT !.reply = reply]]
      OBVIOUS
    <2>3. [p EXCEPT !.reply = reply] = w
      <3> HIDE DEF p
      <3> QED
        BY ONLY SMTT(30), ZenonT(30), <2>1
    <2> HIDE DEF w
    <2>4. pending' = [pending EXCEPT ![c] = w]
      BY Zenon, <2>2, <2>3
    <2> QED
      BY Zenon, <1>1, <2>4
  <1>4. \A x \in Clients \ {c} : pending'[x] = pending[x] /\ posted'[x] = posted[x]
    BY ZenonT(30), <1>1
  <1>5. w = [request |-> w.request, command |-> w.command, reply |-> w.reply]
    OBVIOUS
  <1> HIDE DEF w
  <1>6. Sent(w)
    BY Zenon, <1>1, <1>2, <1>5 DEF Sent
  <1>7. Inv'
    <2>1. Waiting(dispatcher'[c], pending'[c], posted'[c])
      BY ZenonT(30), <1>1, <1>3, <1>6 DEF Inv, Waiting
    <2>2. /\ application' = application /\ DOMAIN dispatcher' = Clients
          /\ DOMAIN posted' = Clients /\ DOMAIN answers' = Clients /\ Orphaned(orphans')
          /\ \A x \in Clients \ {c} : /\ dispatcher'[x] = dispatcher[x]
                                      /\ pending'[x] = pending[x] /\ posted'[x] = posted[x]
      BY Zenon, <1>4 DEF Inv
    <2> QED
      BY ONLY ZenonT(30), Inv, c \in Clients, Database(db'), <1>3, <2>1, <2>2, ClientKeepsInv
  <1> QED
    BY ZenonT(30), <1>2, <1>3, <1>4, <1>7

\* The database executes the command of a request, which performs it, or leaves it to fail.
LEMMA RedisStep ==
    ASSUME Inv, NEW c \in Clients, Redis(c)
    PROVE  /\ Inv' /\ (API!Perform(c) \/ UNCHANGED API!vars)
           /\ \A n \in Namespaces, k \in Keys : db'[addKey(n, k)] # db[addKey(n, k)] =>
                 published' = (n \in NotificationsEnabled)
  <1> DEFINE p == pending[c]
             r == p.request
             called == [stage |-> "called", request |-> r]
  <1>1. /\ p # Nothing /\ p.reply = Nothing
        /\ UNCHANGED <<application, dispatcher, posted, answers, orphans, faults>>
    BY Zenon DEF Redis
  <1>2. Sent(p) /\ Database(db)
    BY Zenon, <1>1 DEF Inv, Waiting
  <1>3. CallOf(pending[c], posted[c]) = called
    BY ZenonT(30), <1>1, CallOfStages
  <1>4. CASE \E text \in application.errors \cap DOMAIN mapRedisReplyErrorToSdlError :
                /\ pending' = [pending EXCEPT ![c].reply = Error(text)]
                /\ UNCHANGED <<db, published>>
    <2>1. PICK text \in DOMAIN mapRedisReplyErrorToSdlError :
             pending' = [pending EXCEPT ![c].reply = Error(text)] /\ db' = db
      BY ZenonT(30), <1>4
    <2> DEFINE reply == Error(text)
    <2>2. Replied(r, reply) /\ Database(db')
      BY Zenon, <1>2, <2>1 DEF Replied
    <2>3. /\ Inv'
          /\ \A x \in Clients \ {c} : pending'[x] = pending[x] /\ posted'[x] = posted[x]
          /\ pending'[c] # Nothing /\ pending'[c].request = r /\ pending'[c].reply = reply
      BY ONLY ZenonT(30), Inv, c \in Clients, <1>1, <2>1, <2>2, ReplyStep
    <2>4. reply.type = "ERROR"
      BY DEF Error
    <2> HIDE DEF reply
    <2>5. CallOf(pending'[c], posted'[c]) = called
      BY Zenon, <2>3, <2>4, CallOfStages
    <2>6. /\ AbstractCalls' = [AbstractCalls EXCEPT ![c] = CallOf(pending'[c], posted'[c])]
          /\ AbstractCalls[c] = CallOf(pending[c], posted[c])
      BY ZenonT(30), <2>3, CallsChange
    <2>7. AbstractCalls' = [AbstractCalls EXCEPT ![c] = AbstractCalls[c]]
      BY Zenon, <1>3, <2>5, <2>6
    <2>8. AbstractCalls = [x \in Clients |-> AbstractCalls[x]]
      BY ZenonT(30) DEF AbstractCalls
    <2>9. AbstractCalls' = AbstractCalls
      BY <2>7, <2>8
    <2>10. Shared(db)' = Shared(db) /\ Unresolved' = Unresolved
      BY ZenonT(30), <1>1, <2>1, APIUnchanged
    <2>11. UNCHANGED API!vars
      BY ZenonT(30), <1>1, <2>9, <2>10, APIState
    <2> QED
      BY Zenon, <2>1, <2>3, <2>11
  <1>5. CASE LET e == Execute(pending[c].command)
             IN /\ db' = e.db /\ published' = e.publishes
                /\ pending' = [pending EXCEPT ![c].reply = e.reply]
    <2> DEFINE e == Execute(build(r))
               reply == e.reply
               s == Shared(db)
    <2>1. /\ db' = e.db /\ published' = e.publishes
          /\ pending' = [pending EXCEPT ![c].reply = reply]
      BY ZenonT(30), <1>2, <1>5 DEF Sent
    <2>2. Valid(r)
      BY Zenon, <1>2 DEF Sent
    <2>3. Performs(r, e)
      BY ONLY ZenonT(30), <1>2, <2>2, CommandPerforms
    <2> HIDE DEF e
    <2>4. /\ Database(db') /\ Shared(db)' = API!Effect(r, s) /\ Answers(r, reply)
          /\ \A n \in Namespaces, k \in Keys : db'[addKey(n, k)] # db[addKey(n, k)] =>
                published' = (n \in NotificationsEnabled)
      <3>1. Shared(db)' = Shared(db')
        BY ZenonT(30) DEF Shared
      <3> QED
        BY Zenon, <2>1, <2>3, <3>1 DEF Performs
    <2>5. r.ns \in Namespaces
      BY Zenon, <2>2 DEF Valid
    <2>0. PICK found \in API!Finds(r, s) : Tells(r, reply, found)
      BY ZenonT(30), <2>4 DEF Answers
    <2>6. Replied(r, reply)
      <3>1. found \subseteq Keys
        BY ZenonT(30) DEF API!Finds, API!Found, API!Present
      <3> QED
        BY ZenonT(30), <2>0, <2>4, <3>1 DEF Replied, Answers, Tells
    <2>7. /\ Inv'
          /\ \A x \in Clients \ {c} : pending'[x] = pending[x] /\ posted'[x] = posted[x]
          /\ pending'[c] # Nothing /\ pending'[c].request = r /\ pending'[c].reply = reply
      BY ONLY Zenon, Inv, c \in Clients, <1>1, <2>1, <2>4, <2>6, ReplyStep
    <2>8. reply # Nothing /\ reply.type # "ERROR"
      BY ZenonT(30), <2>4, NotNothing DEF Answers
    <2>9. /\ AbstractCalls' = [AbstractCalls EXCEPT ![c] = CallOf(pending'[c], posted'[c])]
          /\ AbstractCalls[c] = called
      BY Zenon, <1>3, <2>7, CallsChange
    <2> HIDE DEF reply, s
    <2> DEFINE w == pending'[c]
    <2>10. CallOf(pending'[c], posted'[c]) =
              IF Removes(w) THEN [stage |-> "called", request |-> Removal(w)]
              ELSE [stage |-> "performed", request |-> r, result |-> Result(r, reply)]
      BY ZenonT(30), <2>7, <2>8, CallOfStages
    <2>11. Removes(w) <=> r.op = "removeAll" /\ reply.array # <<>>
      BY Zenon, <2>7 DEF Removes
    <2>12. Removal(w) = [op |-> "remove", ns |-> r.ns, keys |-> getKeys(reply.array)]
      BY ZenonT(30), <2>7 DEF Removal
    <2> HIDE DEF w
    <2>13. AbstractCalls[c].stage = "called" /\ AbstractCalls[c].request = r
      BY <2>9
    <2>14. API!Perform(c)
      <3>1. CASE r.op = "removeAll" /\ reply.array # <<>>
        <4>1. found # {} /\ getKeys(reply.array) = found
          BY ZenonT(30), <2>0, <3>1 DEF Tells
        <4> DEFINE removal == [op |-> "remove", ns |-> r.ns, keys |-> found]
        <4>2. AbstractCalls' = [AbstractCalls EXCEPT ![c] =
                 [stage |-> "called", request |-> removal]]
          BY Zenon, <2>9, <2>10, <2>11, <2>12, <3>1, <4>1
        <4> HIDE DEF removal
        <4>3. AbstractCalls' = [AbstractCalls EXCEPT ![c].request = removal]
          <5>1. [AbstractCalls[c] EXCEPT !.request = removal] =
                   [stage |-> "called", request |-> removal]
            BY <2>9
          <5> QED
            BY ZenonT(30), <4>2, <5>1
        <4>4. API!Effect(r, s) = s
          <5>1. API!Holds(r, s) /\ API!Assigns(r) = [k \in {} |-> Absent]
            BY <3>1 DEF API!Holds, API!Assigns
          <5>2. s = [n \in Namespaces |-> [k \in Keys |-> s[n][k]]]
            BY Zenon DEF s, Shared
          <5>3. API!Effect(r, s) = [s EXCEPT ![r.ns] = [k \in Keys |-> s[r.ns][k]]]
            BY Zenon, <5>1 DEF API!Effect
          <5>4. [k \in Keys |-> s[r.ns][k]] = s[r.ns]
            BY ZenonT(30), <2>5, <5>2
          <5>5. s = [n \in Namespaces |-> s[n]]
            BY Zenon DEF s, Shared
          <5> QED
            BY Zenon, <5>3, <5>4, <5>5
        <4>5. Shared(db)' = Shared(db)
          BY ZenonT(30), <2>4, <4>4 DEF s
        <4> QED
          BY Zenon, <1>1, <2>0, <2>5, <2>13, <3>1, <4>1, <4>3, <4>5
             DEF API!Perform, AbstractCalls, Shared, removal, s
      <3>2. CASE ~(r.op = "removeAll" /\ reply.array # <<>>)
        <4>1. r.op # "removeAll" \/ found = {}
          BY ZenonT(30), <2>0, <3>2 DEF Tells
        <4>2. Result(r, reply) = API!Result(r, s, found)
          <5>1. CASE r.op # "removeAll"
            BY Zenon, <2>0, <5>1 DEF Tells, s
          <5>2. CASE r.op = "removeAll"
            BY <5>2 DEF Result, IsConditional, API!Result
          <5> QED
            BY <5>1, <5>2
        <4>3. AbstractCalls' = [AbstractCalls EXCEPT ![c] =
                 [stage |-> "performed", request |-> r, result |-> API!Result(r, s, found)]]
          BY Zenon, <2>9, <2>10, <2>11, <3>2, <4>2
        <4> DEFINE q == AbstractCalls[c].request
        <4>4. /\ AbstractCalls[c].stage = "called" /\ q.ns \in Namespaces
              /\ q.op # "removeAll" \/ found = {}
          BY ZenonT(30), <2>5, <2>13, <4>1
        <4>8. found \in API!Finds(q, s)
          <5>1. q = r
            BY Zenon, <2>13
          <5> QED
            BY ZenonT(30), <5>1
        <4>5. Shared(db)' = API!Effect(q, s)
          BY ZenonT(30), <2>4, <2>13
        <4>6. AbstractCalls' = [AbstractCalls EXCEPT ![c] =
                 [stage |-> "performed", request |-> q, result |-> API!Result(q, s, found)]]
          BY Zenon, <2>13, <4>3
        <4>7. UNCHANGED <<answers, Unresolved>>
          BY ZenonT(30), <1>1 DEF Unresolved
        <4> QED
          BY ZenonT(30), <4>4, <4>5, <4>6, <4>7, <4>8
             DEF API!Perform, AbstractCalls, Shared, Unresolved, s
      <3> QED
        BY <3>1, <3>2
    <2> QED
      BY ZenonT(30), <2>4, <2>7, <2>14
  <1> QED
    BY ZenonT(30), <1>4, <1>5 DEF Redis

\* A lost connection interrupts the request that is pending.
LEMMA DisconnectStep ==
    ASSUME Inv, NEW c \in Clients, NEW contextErr \in ConnectionErrors, Disconnect(c, contextErr)
    PROVE  /\ Inv'
           /\ (\E error \in API!MaybeAltered : API!Interrupt(c, error)) \/ UNCHANGED API!vars
  <1> DEFINE p == pending[c]
             r == p.request
             code == getRedisError(contextErr, None)
             call == AbstractCalls[c]
  <1>1. /\ dispatcher' = [dispatcher EXCEPT ![c] = "DISCONNECTED"]
        /\ UNCHANGED <<application, db, posted>>
    BY ZenonT(30) DEF Disconnect
  <1>2. CASE pending[c] = Nothing /\ UNCHANGED <<pending, answers, orphans>>
    <2>1. DOMAIN dispatcher = Clients /\ Waiting(dispatcher[c], pending[c], posted[c])
      BY ZenonT(30) DEF Inv
    <2>2. /\ DOMAIN dispatcher' = Clients /\ dispatcher'[c] = "DISCONNECTED"
          /\ \A x \in Clients \ {c} : /\ dispatcher'[x] = dispatcher[x]
                                      /\ pending'[x] = pending[x] /\ posted'[x] = posted[x]
      BY Zenon, <1>1, <1>2, <2>1
    <2>3. Waiting(dispatcher'[c], pending'[c], posted'[c])
      BY ZenonT(30), <1>1, <1>2, <2>1, <2>2 DEF Waiting
    <2>4. /\ application' = application /\ Database(db') /\ DOMAIN pending' = Clients
          /\ DOMAIN posted' = Clients /\ DOMAIN answers' = Clients /\ Orphaned(orphans')
      BY Zenon, <1>1, <1>2 DEF Inv
    <2>5. Inv'
      BY ONLY ZenonT(30), Inv, c \in Clients, <2>2, <2>3, <2>4, ClientKeepsInv
    <2>6. AbstractCalls' = AbstractCalls
      BY ZenonT(30), <1>1, <1>2, CallOfIs DEF AbstractCalls
    <2>7. Shared(db)' = Shared(db) /\ Unresolved' = Unresolved
      BY Zenon, <1>1, <1>2, APIUnchanged
    <2> QED
      BY Zenon, <1>2, <2>5, <2>6, <2>7, APIState
  <1>3. CASE /\ pending[c] # Nothing /\ ack(c, code, EmptyResult(r))
             /\ pending' = [pending EXCEPT ![c] = Nothing]
             /\ orphans' = IF pending[c].reply = Nothing /\ pending[c].command.name # "KEYS"
                           THEN Append(orphans, pending[c]) ELSE orphans
    <2>1. Sent(p) /\ Orphaned(orphans)
      BY ZenonT(30), <1>3 DEF Inv, Waiting
    <2>2. /\ contextErr \in DOMAIN mapRedisContextErrorToSdlError
          /\ contextErr # "CLUSTER_ERROR_NOT_CONNECTED"
      BY Zenon DEF ConnectionErrors
    <2>3. code = mapRedisContextErrorToSdlError[contextErr]
      BY DEF getRedisError, None
    <2>4. PICK error \in API!MaybeAltered : Equals(code) = {error}
      BY Zenon, <2>2, <2>3, ContextErrors
    <2>5. Answered(c, code, EmptyResult(r)) /\ db' = db
      BY Zenon, <1>1, <1>3 DEF Answered
    <2> HIDE DEF code
    <2>6. /\ Orphaned(orphans')
          /\ \/ orphans' = orphans
             \/ p.reply = Nothing /\ Unresolved' = Append(Unresolved, r)
      <3>1. CASE orphans' = orphans
        BY Zenon, <2>1, <3>1
      <3>2. CASE orphans' = Append(orphans, p) /\ p.reply = Nothing
        BY ZenonT(30), <2>1, <3>2, OrphanAdded
      <3> QED
        BY ZenonT(30), <1>3, <3>1, <3>2
    <2>7. /\ Inv' /\ AbstractCalls[c] = CallOf(pending[c], posted[c])
          /\ \A e : Equals(code) = {e} => API!Answer(c, e, EmptyResult(r))
      BY ONLY Zenon, Inv, c \in Clients, <2>5, <2>6, AnsweredStep
    <2>8. call = IF p.reply = Nothing \/ p.reply.type = "ERROR"
                 THEN [stage |-> "called", request |-> r]
                 ELSE IF Removes(p) THEN [stage |-> "called", request |-> Removal(p)]
                 ELSE [stage |-> "performed", request |-> r, result |-> Result(r, p.reply)]
      BY ZenonT(30), <1>3, <2>7, CallOfStages
    <2> HIDE DEF call, p
    <2>9. /\ call.stage \in {"called", "performed"}
          /\ call.request = r \/ (Removes(p) /\ call.request = Removal(p))
          /\ p.reply = Nothing => call.stage = "called" /\ call.request = r
      BY <2>8
    <2>10. EmptyResult(call.request) = EmptyResult(r)
      <3>1. CASE call.request = r
        BY Zenon, <3>1
      <3>2. CASE Removes(p) /\ call.request = Removal(p)
        <4>1. r.op = "removeAll" /\ Removal(p).op = "remove"
          BY <3>2 DEF Removes, Removal
        <4>2. EmptyResult(r) = Nothing
          BY <4>1 DEF EmptyResult, IsConditional
        <4>3. EmptyResult(Removal(p)) = Nothing
          BY <4>1 DEF EmptyResult, IsConditional
        <4> QED
          BY ZenonT(30), <3>2, <4>2, <4>3
      <3> QED
        BY Zenon, <2>9, <3>1, <3>2
    <2>11. /\ API!Answer(c, error, EmptyResult(call.request)) /\ AbstractCalls[c] = call
           /\ \/ orphans' = orphans
              \/ call.stage = "called" /\ Unresolved' = Append(Unresolved, call.request)
      BY ZenonT(30), <2>4, <2>6, <2>7, <2>9, <2>10 DEF call
    <2>12. API!Interrupt(c, error)
      BY ONLY ZenonT(30), c \in Clients, <2>4, <2>5, <2>9, <2>11, APIInterrupts
    <2> QED
      BY ZenonT(30), <2>4, <2>7, <2>12
  <1> QED
    BY Zenon, <1>2, <1>3 DEF Disconnect

\* A command that could not be sent fails.
LEMMA NotConnectedStep ==
    ASSUME Inv, NEW c \in Clients, nodeNotConnected(c)
    PROVE  Inv' /\ \E error \in API!Unaltered \cup {"SUCCESS"} : API!Fail(c, error)
  <1> DEFINE p == pending[c]
             r == p.request
             code == getRedisError("CLUSTER_ERROR_NOT_CONNECTED", None)
  <1>1. p # Nothing /\ p.reply = Nothing
    BY Zenon DEF nodeNotConnected
  <1>2. code = mapRedisContextErrorToSdlError["CLUSTER_ERROR_NOT_CONNECTED"]
    BY DEF getRedisError, None
  <1>3. code = "NOT_CONNECTED"
    BY <1>2 DEF mapRedisContextErrorToSdlError
  <1>4. Equals(code) = {"NOT_CONNECTED"}
    BY <1>3, CodesCompare
  <1>5. Answered(c, code, EmptyResult(r)) /\ orphans' = orphans /\ db' = db
    BY ZenonT(30), <1>1 DEF Answered, nodeNotConnected
  <1> HIDE DEF code
  <1>6. Orphaned(orphans')
    BY Zenon, <1>5 DEF Inv
  <1>7. /\ Inv' /\ AbstractCalls[c] = CallOf(pending[c], posted[c])
        /\ \A e : Equals(code) = {e} => API!Answer(c, e, EmptyResult(r))
    BY ONLY Zenon, Inv, c \in Clients, <1>5, <1>6, AnsweredStep
  <1>8. AbstractCalls[c] = [stage |-> "called", request |-> r]
    BY ZenonT(30), <1>1, <1>7, CallOfStages
  <1> DEFINE error == "NOT_CONNECTED"
  <1>9. error \in API!Unaltered \cup {"SUCCESS"} /\ (error = "SUCCESS" => noKeysGiven(r))
    BY DEF API!Unaltered
  <1>10. API!Answer(c, error, EmptyResult(r))
    BY ONLY Zenon, <1>4, <1>7
  <1> HIDE DEF error
  <1>11. API!Fail(c, error)
    BY ONLY ZenonT(30), c \in Clients, <1>5, <1>8, <1>9, <1>10, APIFails
  <1> QED
    BY ZenonT(30), <1>7, <1>9, <1>11

\* Dispatchers are created and connect without the API noticing.
LEMMA DispatcherStep ==
    ASSUME Inv, NEW c \in Clients, serviceStateChanged(c) \/ Connect(c)
    PROVE  Inv' /\ UNCHANGED API!vars /\ db' = db
  <1>1. PICK state \in {"DISCONNECTED", "CONNECTED"} :
           dispatcher' = [dispatcher EXCEPT ![c] = state]
    BY Zenon DEF serviceStateChanged, Connect
  <1>2. UNCHANGED <<application, db, pending, posted, answers, orphans>>
    BY Zenon DEF serviceStateChanged, Connect
  <1>3. DOMAIN dispatcher = Clients /\ Waiting(dispatcher[c], pending[c], posted[c])
    BY Zenon DEF Inv
  <1>4. /\ DOMAIN dispatcher' = Clients /\ dispatcher'[c] = state
        /\ \A x \in Clients \ {c} : /\ dispatcher'[x] = dispatcher[x]
                                    /\ pending'[x] = pending[x] /\ posted'[x] = posted[x]
    BY ZenonT(30), <1>1, <1>2, <1>3
  <1>5. Waiting(dispatcher'[c], pending'[c], posted'[c])
    BY Zenon, <1>1, <1>2, <1>3, <1>4 DEF Waiting
  <1>6. /\ application' = application /\ Database(db') /\ DOMAIN pending' = Clients
        /\ DOMAIN posted' = Clients /\ DOMAIN answers' = Clients /\ Orphaned(orphans')
    BY ZenonT(30), <1>2 DEF Inv
  <1>7. Inv'
    BY ONLY Zenon, Inv, c \in Clients, <1>4, <1>5, <1>6, ClientKeepsInv
  <1>8. AbstractCalls' = AbstractCalls
    BY ZenonT(30), <1>2, CallOfIs DEF AbstractCalls
  <1>9. Shared(db)' = Shared(db) /\ Unresolved' = Unresolved
    BY Zenon, <1>2, APIUnchanged
  <1> QED
    BY ZenonT(30), <1>2, <1>7, <1>8, <1>9, APIState

\* An orphan is resolved.
LEMMA OrphanStep ==
    ASSUME Inv, NEW i \in DOMAIN orphans, RedisOrphan(i)
    PROVE  /\ Inv' /\ i \in DOMAIN Unresolved /\ API!Resolve(i)
           /\ \A n \in Namespaces, k \in Keys : db'[addKey(n, k)] # db[addKey(n, k)] =>
                 published' = (n \in NotificationsEnabled)
  <1> DEFINE p == orphans[i]
             r == p.request
             e == Execute(build(r))
             s == Shared(db)
  <1>1. Sent(p) /\ Database(db) /\ Orphaned(orphans)
    BY Zenon DEF Inv, Orphaned
  <1>2. /\ orphans' = RemoveAt(orphans, i)
        /\ UNCHANGED <<application, dispatcher, pending, posted, answers>>
    BY ZenonT(30) DEF RedisOrphan
  <1>3. Orphaned(orphans') /\ i \in DOMAIN Unresolved /\ Unresolved' = API!RemoveAt(Unresolved, i)
    BY ONLY Zenon, i \in DOMAIN orphans, <1>1, <1>2, OrphanGone
  <1>4. Unresolved[i] = r
    BY ZenonT(30) DEF Unresolved
  <1>5. Performs(r, e)
    <2>1. Valid(r)
      BY ZenonT(30), <1>1 DEF Sent
    <2> QED
      BY ONLY Zenon, <1>1, <2>1, CommandPerforms
  <1>6. (db' = e.db /\ published' = e.publishes) \/ db' = db
    BY Zenon, <1>1 DEF RedisOrphan, Sent
  <1> HIDE DEF e
  <1>7. Shared(db)' = Shared(db')
    BY ZenonT(30) DEF Shared
  <1>8. /\ Database(db') /\ Shared(db)' \in {s, API!Effect(r, s)}
        /\ \A n \in Namespaces, k \in Keys : db'[addKey(n, k)] # db[addKey(n, k)] =>
              published' = (n \in NotificationsEnabled)
    <2>1. CASE db' = e.db /\ published' = e.publishes
      BY ZenonT(30), <1>5, <1>7, <2>1 DEF Performs
    <2>2. CASE db' = db
      BY Zenon, <1>1, <1>7, <2>2
    <2> QED
      BY Zenon, <1>6, <2>1, <2>2
  <1>9. Inv'
    BY ZenonT(30), <1>2, <1>3, <1>8 DEF Inv
  <1>10. AbstractCalls' = AbstractCalls
    BY ZenonT(30), <1>2, CallOfIs DEF AbstractCalls
  <1>11. API!Resolve(i)
    <2>1. Shared(db)' \in {s, API!Effect(Unresolved[i], s)}
      BY ZenonT(30), <1>4, <1>8
    <2> QED
      BY Zenon, <1>2, <1>3, <1>10, <2>1 DEF API!Resolve, AbstractCalls, Shared, Unresolved
  <1> QED
    BY ZenonT(30), <1>3, <1>8, <1>9, <1>11

-----------------------------------------------------------------------------
(* Theorems.                                                                *)

\* Applications that have not called anything find an empty database.
LEMMA InitSteps == Init => Inv /\ API!Init
  <1> SUFFICES ASSUME Init PROVE Inv /\ API!Init
    OBVIOUS
  <1>1. Database(db)
    <2>1. Stored(db) = {}
      BY ZenonT(30) DEF Init, Stored
    <2> QED
      BY Zenon, <2>1, FS_EmptySet DEF Init, Database
  <1>2. Orphaned(orphans) /\ Unresolved = <<>>
    BY DEF Init, Orphaned, Unresolved
  <1>3. \A c \in Clients : Waiting(dispatcher[c], pending[c], posted[c])
    BY Zenon DEF Init, Waiting
  <1>4. Inv
    BY ZenonT(30), <1>1, <1>2, <1>3 DEF Init, Inv
  <1>5. AbstractCalls = [c \in Clients |-> API!IdleCall]
    <2>1. \A c \in Clients : AbstractCall(c) = API!IdleCall
      BY Zenon, CallOfIs, CallOfStages DEF Init
    <2> QED
      BY ZenonT(30), <2>1 DEF AbstractCalls
  <1>6. Shared(db) = [n \in Namespaces |-> [k \in Keys |-> Absent]]
    <2>1. \A n \in Namespaces, k \in Keys : db[addKey(n, k)] = Absent
      <3>1. \A f \in FullKeys : db[f] = Absent
        BY ZenonT(30) DEF Init
      <3> QED
        BY Zenon, <3>1, FullKeysOf
    <2> QED
      BY ZenonT(30), <2>1 DEF Shared
  <1>7. API!Init
    BY Zenon, <1>2, <1>5, <1>6 DEF Init, API!Init, AbstractCalls, Shared, Unresolved
  <1> QED
    BY <1>4, <1>7

\* Every step keeps the invariant, is one of the API, and publishes what it changes.
LEMMA NextSteps ==
    ASSUME Inv, [Next]_vars
    PROVE  /\ Inv' /\ [API!Next]_API!vars
           /\ \A n \in Namespaces, k \in Keys : db'[addKey(n, k)] # db[addKey(n, k)] =>
                 published' = (n \in NotificationsEnabled)
  <1>1. ASSUME NEW c \in Clients, NEW r \in application.requests[c], Call(c, r)
        PROVE  Inv' /\ API!Next /\ db' = db
    <2>1. Inv' /\ r \in Requests /\ API!Call(c, r)
      BY ONLY ZenonT(30), Inv, <1>1, CallStep
    <2> QED
      BY Zenon, <1>1, <2>1 DEF API!Next, Call
  <1>2. ASSUME NEW c \in Clients, executePosted(c) PROVE Inv' /\ API!Next /\ db' = db
    <2>1. Inv' /\ \E error \in API!Unaltered \cup {"SUCCESS"} : API!Fail(c, error)
      BY ONLY Zenon, Inv, <1>2, PostedStep
    <2> QED
      BY ZenonT(30), <1>2, <2>1 DEF API!Next, executePosted
  <1>3. ASSUME NEW c \in Clients, errorReply(c) PROVE Inv' /\ API!Next /\ db' = db
    <2>1. /\ Inv'
          /\ \/ \E error \in API!Unaltered \cup {"SUCCESS"} : API!Fail(c, error)
             \/ \E error \in API!MaybeAltered : API!Interrupt(c, error)
      BY ONLY ZenonT(30), Inv, <1>3, ErrorStep
    <2> QED
      BY ZenonT(30), <1>3, <2>1 DEF API!Next, errorReply
  <1>4. ASSUME NEW c \in Clients, commandCallback(c) PROVE Inv' /\ API!Next /\ db' = db
    <2>1. Inv' /\ API!Return(c)
      BY ONLY Zenon, Inv, <1>4, CallbackStep
    <2> QED
      BY ZenonT(30), <1>4, <2>1 DEF API!Next, commandCallback
  <1>5. ASSUME NEW c \in Clients, removeAllCallback(c)
        PROVE  Inv' /\ UNCHANGED API!vars /\ db' = db
    <2>1. Inv' /\ UNCHANGED API!vars
      BY ONLY Zenon, Inv, <1>5, RemoveAllStep
    <2> QED
      BY ZenonT(30), <1>5, <2>1 DEF removeAllCallback
  <1>6. ASSUME NEW c \in Clients, Redis(c)
        PROVE  /\ Inv' /\ (API!Next \/ UNCHANGED API!vars)
               /\ \A n \in Namespaces, k \in Keys : db'[addKey(n, k)] # db[addKey(n, k)] =>
                     published' = (n \in NotificationsEnabled)
    <2>1. /\ Inv' /\ (API!Perform(c) \/ UNCHANGED API!vars)
          /\ \A n \in Namespaces, k \in Keys : db'[addKey(n, k)] # db[addKey(n, k)] =>
                published' = (n \in NotificationsEnabled)
      BY ONLY Zenon, Inv, <1>6, RedisStep
    <2>2. API!Perform(c) => API!Next
      BY ZenonT(30) DEF API!Next
    <2> QED
      BY ZenonT(30), <2>1, <2>2
  <1>7. ASSUME NEW c \in Clients, nodeNotConnected(c) PROVE Inv' /\ API!Next /\ db' = db
    <2>1. Inv' /\ \E error \in API!Unaltered \cup {"SUCCESS"} : API!Fail(c, error)
      BY ONLY Zenon, Inv, <1>7, NotConnectedStep
    <2> QED
      BY Zenon, <1>7, <2>1 DEF API!Next, nodeNotConnected
  <1>8. ASSUME NEW c \in Clients, serviceStateChanged(c) \/ Connect(c)
        PROVE  Inv' /\ UNCHANGED API!vars /\ db' = db
    BY ONLY ZenonT(30), Inv, <1>8, DispatcherStep
  <1>9. ASSUME NEW c \in Clients, NEW e \in ConnectionErrors, Disconnect(c, e)
        PROVE  Inv' /\ (API!Next \/ UNCHANGED API!vars) /\ db' = db
    <2>1. /\ Inv'
          /\ (\E error \in API!MaybeAltered : API!Interrupt(c, error)) \/ UNCHANGED API!vars
      BY ONLY Zenon, Inv, <1>9, DisconnectStep
    <2>2. (\E error \in API!MaybeAltered : API!Interrupt(c, error)) => API!Next
      BY ZenonT(30) DEF API!Next
    <2> QED
      BY ZenonT(30), <1>9, <2>1, <2>2 DEF Disconnect
  <1>10. ASSUME NEW i \in DOMAIN orphans, RedisOrphan(i)
         PROVE  /\ Inv' /\ API!Next
                /\ \A n \in Namespaces, k \in Keys : db'[addKey(n, k)] # db[addKey(n, k)] =>
                      published' = (n \in NotificationsEnabled)
    <2>1. /\ Inv' /\ i \in DOMAIN Unresolved /\ API!Resolve(i)
          /\ \A n \in Namespaces, k \in Keys : db'[addKey(n, k)] # db[addKey(n, k)] =>
                published' = (n \in NotificationsEnabled)
      BY ONLY ZenonT(30), Inv, <1>10, OrphanStep
    <2>2. API!Next
      BY Zenon, <2>1 DEF API!Next, Unresolved
    <2> QED
      BY Zenon, <2>1, <2>2
  <1>11. CASE UNCHANGED vars
    <2>1. UNCHANGED <<application, db, dispatcher, pending, posted, answers, orphans>>
      BY ZenonT(30), <1>11 DEF vars
    <2>2. Inv'
      BY Zenon, <2>1 DEF Inv
    <2>3. AbstractCalls' = AbstractCalls
      BY ZenonT(30), <2>1, CallOfIs DEF AbstractCalls
    <2>4. Shared(db)' = Shared(db) /\ Unresolved' = Unresolved
      BY Zenon, <2>1, APIUnchanged
    <2>5. UNCHANGED API!vars
      BY ZenonT(30), <2>1, <2>3, <2>4, APIState
    <2> QED
      BY ZenonT(30), <2>1, <2>2, <2>5
  <1>12. CASE Next
    <2>1. ASSUME NEW c \in Clients,
                 \/ \E r \in application.requests[c] : Call(c, r)
                 \/ Storage(c) \/ Redis(c) \/ nodeNotConnected(c)
                 \/ serviceStateChanged(c) \/ Connect(c)
                 \/ \E e \in ConnectionErrors : Disconnect(c, e)
          PROVE  /\ Inv' /\ (API!Next \/ UNCHANGED API!vars)
                 /\ \A n \in Namespaces, k \in Keys : db'[addKey(n, k)] # db[addKey(n, k)] =>
                       published' = (n \in NotificationsEnabled)
      BY ZenonT(30), <1>1, <1>2, <1>3, <1>4, <1>5, <1>6, <1>7, <1>8, <1>9, <2>1 DEF Storage
    <2> QED
      BY ZenonT(30), <1>10, <1>12, <2>1 DEF Next
  <1> QED
    BY ZenonT(30), <1>11, <1>12

\* The shape of what is sent, posted and orphaned, which the callbacks rely on.
THEOREM StorageInvariance == Spec => []Inv
  <1>1. Init => Inv
    BY InitSteps
  <1>2. Inv /\ [Next]_vars => Inv'
    BY NextSteps
  <1> QED
    BY <1>1, <1>2, PTL DEF Spec

\* In a namespace with notifications every change of the data is published, in others none is:
\* the PUB variant of a command is chosen by the namespace, and publishes if it has an effect.
THEOREM ChangesPublished == Spec => EveryChangePublished
  <1> DEFINE Published == \A ns \in Namespaces, key \in Keys :
                 db'[addKey(ns, key)] # db[addKey(ns, key)] =>
                     (published' = (ns \in NotificationsEnabled))
  <1>1. Inv /\ [Next]_vars => [Published]_vars
    BY NextSteps
  <1>2. EveryChangePublished <=> [][Published]_vars
    BY PTL DEF EveryChangePublished
  <1> HIDE DEF Published
  <1> QED
    BY <1>1, <1>2, StorageInvariance, PTL DEF Spec

\* AsyncRedisStorage implements the API on shared data: for any number of applications, any keys,
\* prefixes and patterns, every operation takes effect at one moment.
THEOREM StorageImplementsAPI == Spec => AtomicOperations
  <1>1. Init => API!Init
    BY InitSteps
  <1>2. Inv /\ [Next]_vars => [API!Next]_API!vars
    BY NextSteps
  <1> QED
    BY <1>1, <1>2, StorageInvariance, PTL DEF Spec, AtomicOperations, API!Spec

=============================================================================
