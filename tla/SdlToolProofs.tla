---------------------------- MODULE SdlToolProofs ----------------------------
(***************************************************************************)
(* Proofs about Configuration, StorageRouting and SdlTool.  First, what    *)
(* the operators compute, for every source: the configuration of a         *)
(* namespace is that of the longest matching prefix, and the server of a   *)
(* namespace is the one that the environment or the files name.  Then,     *)
(* with these, that every request is served where the configuration says,  *)
(* and that a command that exits with success found its namespace ready    *)
(* as often as it was to be executed.                                      *)
(*                                                                         *)
(* The loops of the code are recursive functions.  The inductions over     *)
(* their rounds look at the least counterexample, a natural number.        *)
(***************************************************************************)
EXTENDS SdlTool, FiniteSetTheorems, SequenceTheorems, WellFoundedInduction, TLAPS

\* More time than a leaf has by default.
USE SMTT(30), ZenonT(30)

-----------------------------------------------------------------------------
(* Least and largest numbers.                                               *)

\* A set of naturals has a least element: the principle behind each induction
\* below, which looks at the least counterexample.
LEMMA LeastNatural ==
    ASSUME NEW S \in SUBSET Nat, S # {}
    PROVE  \E n \in S : \A m \in S : n <= m
  <1>1. \E n \in S : \A m \in S : ~ (<<m, n>> \in OpToRel(<, Nat))
    BY ZenonT(30), NatLessThanWellFounded, WFMin
  <1>2. \E n \in S : \A m \in S : ~(m < n)
    BY ZenonT(30), <1>1 DEF OpToRel
  <1> QED
    BY <1>2

\* Finitely many naturals have a largest one.
LEMMA BoundedList ==
    ASSUME NEW k \in Nat, NEW g \in [1..k -> Nat]
    PROVE  \E b \in Nat : \A i \in 1..k : g[i] <= b
  <1> DEFINE Bounded(n, f) == \E b \in Nat : \A i \in 1..n : f[i] <= b
             B == {n \in Nat : \E f \in [1..n -> Nat] : ~Bounded(n, f)}
  <1> SUFFICES ASSUME ~Bounded(k, g) PROVE FALSE
    OBVIOUS
  <1> HIDE DEF Bounded
  <1>1. k \in B /\ B \in SUBSET Nat
    OBVIOUS
  <1> HIDE DEF B
  <1>2. PICK n \in B : \A m \in B : n <= m
    BY ZenonT(30), <1>1, LeastNatural
  <1>3. n \in Nat /\ n - 1 \notin B
    BY <1>1, <1>2
  <1>4. PICK f \in [1..n -> Nat] : ~Bounded(n, f)
    BY ZenonT(30), <1>2 DEF B
  <1>5. n # 0
    BY <1>4 DEF Bounded
  <1> DEFINE h == [i \in 1..n - 1 |-> f[i]]
  <1>6. n - 1 \in Nat /\ (\A i \in 1..n - 1 : i \in 1..n) /\ f[n] \in Nat
    BY <1>3, <1>5
  <1>7. h \in [1..n - 1 -> Nat]
    BY <1>6
  <1>8. Bounded(n - 1, h)
    BY <1>3, <1>6, <1>7 DEF B
  <1> HIDE DEF h
  <1>9. PICK b \in Nat : \A i \in 1..n - 1 : h[i] <= b
    BY ZenonT(30), <1>8 DEF Bounded
  <1>10. b + f[n] \in Nat /\ b <= b + f[n] /\ f[n] <= b + f[n]
    BY <1>6
  <1>11. \A i \in 1..n - 1 : f[i] <= b /\ f[i] \in Nat
    BY <1>6, <1>9 DEF h
  <1>12. \A i \in 1..n : i = n \/ i \in 1..n - 1
    BY <1>3
  <1>13. \A i \in 1..n : f[i] <= b + f[n]
    BY <1>6, <1>10, <1>11, <1>12
  <1> QED
    BY ZenonT(30), <1>4, <1>10, <1>13 DEF Bounded

\* What Max of FiniteSetsExt chooses.
LEMMA MaxOfFinite ==
    ASSUME NEW S \in SUBSET Nat, IsFiniteSet(S), S # {}
    PROVE  Max(S) \in S /\ \A m \in S : m <= Max(S)
  <1>1. PICK n \in Nat : ExistsSurjection(1..n, S)
    BY FS_NatSurjection
  <1>2. PICK f \in [1..n -> S] : \A s \in S : \E i \in 1..n : f[i] = s
    BY <1>1 DEF ExistsSurjection, Surjection
  <1>3. f \in [1..n -> Nat]
    BY ZenonT(30), <1>2
  <1>4. PICK b \in Nat : \A i \in 1..n : f[i] <= b
    BY ZenonT(30), <1>3, BoundedList
  <1> DEFINE U == {u \in Nat : \A s \in S : s <= u}
  <1>5. b \in U /\ U \in SUBSET Nat
    BY <1>2, <1>4
  <1>6. PICK u \in U : \A v \in U : u <= v
    BY ZenonT(30), <1>5, LeastNatural
  <1>7. u \in S
    <2> SUFFICES ASSUME u \notin S PROVE FALSE
      OBVIOUS
    <2>1. \A s \in S : s <= u - 1
      BY <1>6
    <2>2. u - 1 \in Nat
      <3>1. PICK s \in S : TRUE
        BY ZenonT(30)
      <3> QED
        BY <1>6, <2>1, <3>1
    <2> QED
      BY <1>6, <2>1, <2>2
  <1>8. \E x \in S : \A y \in S : x >= y
    BY <1>6, <1>7
  <1> QED
    BY ZenonT(30), <1>8 DEF Max

-----------------------------------------------------------------------------
(* The search for the configuration of a namespace.                         *)

\* The function that the loop of findConfigurationForNamespace computes.
Loop(f, n, list, ns) ==
    f = [i \in 1..n |-> IF i = 1 THEN 1 ELSE LongestMatching(list, ns, f[i - 1], i)]

\* There is such a function for every number of rounds.
LEMMA LoopExists ==
    ASSUME NEW list, NEW ns, NEW k \in Nat
    PROVE  \E f : Loop(f, k, list, ns)
  <1> DEFINE B == {n \in Nat : ~\E f : Loop(f, n, list, ns)}
  <1> SUFFICES ASSUME k \in B PROVE FALSE
    OBVIOUS
  <1>1. B \in SUBSET Nat /\ B # {}
    OBVIOUS
  <1> HIDE DEF B
  <1>2. PICK n \in B : \A m \in B : n <= m
    BY <1>1, LeastNatural
  <1>3. n \in Nat /\ n - 1 \notin B
    BY <1>1, <1>2
  <1>4. n # 0
    <2>1. Loop(<<>>, 0, list, ns)
      BY DEF Loop
    <2> QED
      BY <1>2, <2>1 DEF B
  <1>5. PICK f : Loop(f, n - 1, list, ns)
    BY <1>3, <1>4 DEF B
  <1> DEFINE g == [i \in 1..n |-> IF i = 1 THEN 1 ELSE LongestMatching(list, ns, f[i - 1], i)]
  <1>6. \A i \in 1..n - 1 : g[i] = f[i]
    BY <1>3, <1>4, <1>5 DEF Loop
  <1>7. \A i \in 1..n : i # 1 => i - 1 \in 1..n - 1
    BY <1>3
  <1>8. Loop(g, n, list, ns)
    BY ZenonT(30), <1>6, <1>7 DEF Loop
  <1> QED
    BY <1>2, <1>8 DEF B

\* findConfigurationForNamespace is its last value.
LEMMA FoundIsLoop ==
    ASSUME NEW list, Len(list) \in Nat, NEW ns
    PROVE  \E f : /\ Loop(f, Len(list), list, ns)
                 /\ findConfigurationForNamespace(list, ns) = f[Len(list)]
  <1>1. \E f : Loop(f, Len(list), list, ns)
    BY ZenonT(30), LoopExists
  <1> QED
    BY ZenonT(30), <1>1 DEF Loop, findConfigurationForNamespace

\* What the loop has found after round k.
Found(m, k, list, ns) ==
    /\ m \in 1..k
    /\ m = 1 \/ Matching(list[m].prefix, ns)
    /\ \A j \in 2..k : Matching(list[j].prefix, ns) =>
          m # 1 /\ Len(list[j].prefix) <= Len(list[m].prefix)

\* A round of the loop keeps what has been found, or finds a prefix as long.
LEMMA FoundRound ==
    ASSUME NEW ns, NEW list \in Seq(Entries), Len(list[1].prefix) = 0,
           NEW k \in 1..Len(list), k # 1, NEW m, Found(m, k - 1, list, ns)
    PROVE  Found(LongestMatching(list, ns, m, k), k, list, ns)
  <1>1. m \in 1..Len(list) /\ m \in 1..k /\ m \in 1..k - 1
    BY DEF Found
  <1>2. \A j \in 1..Len(list) : Len(list[j].prefix) \in Nat
    BY DEF Entries
  <1>3. \A j \in 2..k : j \in 2..k - 1 \/ j = k
    OBVIOUS
  <1>4. \A j \in 2..k - 1 : j \in 1..Len(list)
    OBVIOUS
  <1>5. m = 1 \/ Matching(list[m].prefix, ns)
    BY DEF Found
  <1>6. \A j \in 2..k - 1 : Matching(list[j].prefix, ns) =>
          m # 1 /\ Len(list[j].prefix) <= Len(list[m].prefix)
    BY DEF Found
  <1>7. CASE Matching(list[k].prefix, ns) /\ Len(list[k].prefix) >= Len(list[m].prefix)
    <2>1. LongestMatching(list, ns, m, k) = k /\ k \in 1..k
      BY <1>7 DEF LongestMatching
    <2>2. \A j \in 2..k : Matching(list[j].prefix, ns)
                           => Len(list[j].prefix) <= Len(list[k].prefix)
      BY <1>1, <1>2, <1>3, <1>4, <1>6, <1>7
    <2> QED
      BY <1>7, <2>1, <2>2 DEF Found
  <1>8. CASE ~(Matching(list[k].prefix, ns) /\ Len(list[k].prefix) >= Len(list[m].prefix))
    <2>1. LongestMatching(list, ns, m, k) = m
      BY <1>8 DEF LongestMatching
    <2>2. Matching(list[k].prefix, ns) => m # 1 /\ Len(list[k].prefix) <= Len(list[m].prefix)
      BY <1>1, <1>2, <1>8
    <2> QED
      BY <1>1, <1>3, <1>5, <1>6, <2>1, <2>2 DEF Found
  <1> QED
    BY <1>7, <1>8

\* findConfigurationForNamespace finds the default configuration if no prefix
\* matches, and one with the longest matching prefix otherwise.
LEMMA FindsLongest ==
    ASSUME NEW ns, NEW list \in Seq(Entries), list # <<>>, Len(list[1].prefix) = 0
    PROVE  Found(findConfigurationForNamespace(list, ns), Len(list), list, ns)
  <1>1. PICK f : /\ Loop(f, Len(list), list, ns)
                 /\ findConfigurationForNamespace(list, ns) = f[Len(list)]
    BY FoundIsLoop
  <1> DEFINE B == {n \in 1..Len(list) : ~Found(f[n], n, list, ns)}
  <1>0. Len(list) \in 1..Len(list)
    OBVIOUS
  <1> SUFFICES ASSUME B # {} PROVE FALSE
    BY <1>0, <1>1
  <1>2. B \in SUBSET Nat
    OBVIOUS
  <1> HIDE DEF B
  <1>3. PICK n \in B : \A m \in B : n <= m
    BY <1>2, LeastNatural
  <1>4. n \in 1..Len(list) /\ n - 1 \notin B /\ ~Found(f[n], n, list, ns)
    BY <1>3 DEF B
  <1>5. n # 1
    <2>1. f[1] = 1
      BY <1>0, <1>1 DEF Loop
    <2>2. Found(1, 1, list, ns)
      BY DEF Found
    <2> QED
      BY <1>4, <2>1, <2>2
  <1>6. n - 1 \in 1..Len(list)
    BY <1>4, <1>5
  <1>7. Found(f[n - 1], n - 1, list, ns)
    BY <1>4, <1>6 DEF B
  <1>8. f[n] = LongestMatching(list, ns, f[n - 1], n)
    BY <1>1, <1>4, <1>5 DEF Loop
  <1> QED
    BY <1>4, <1>5, <1>7, <1>8, FoundRound

-----------------------------------------------------------------------------
(* The namespaces of the files.                                             *)

\* A prefix is configured by an entry that names it.
LEMMA JsonEntry ==
    ASSUME NEW s, IsSource(s), Readable(s), NEW p \in DOMAIN jsonNamespaceConfigurations(s)
    PROVE  /\ jsonNamespaceConfigurations(s)[p] \in Entries
           /\ jsonNamespaceConfigurations(s)[p].prefix = p
  <1> DEFINE files == findConfigurationFiles(s)
             F == {file \in files : Naming(s, file, p) # {}}
             N == Naming(s, Max(F), p)
  <1>1. p \in UNION {{entry.prefix : entry \in Range(s.cwd[file].namespaces)} : file \in files}
    BY DEF jsonNamespaceConfigurations
  <1>2. jsonNamespaceConfigurations(s)[p] = s.cwd[Max(F)].namespaces[Max(N)]
    BY DEF jsonNamespaceConfigurations
  <1>3. F # {}
    BY <1>1 DEF Range, Naming
  <1>4. F \in SUBSET Nat /\ IsFiniteSet(F)
    <2>1. files \subseteq Nat /\ IsFiniteSet(files) /\ F \in SUBSET files
      BY DEF IsSource, findConfigurationFiles
    <2> QED
      BY <2>1, FS_Subset
  <1>5. Max(F) \in F
    BY ZenonT(30), <1>3, <1>4, MaxOfFinite
  <1> DEFINE q == s.cwd[Max(F)].namespaces
  <1>6. Max(F) \in files /\ N # {}
    BY <1>5
  <1>7. q \in Seq(Entries)
    BY <1>6 DEF IsSource, Readable
  <1>8. N = {i \in DOMAIN q : q[i].prefix = p}
    BY DEF Naming
  <1> HIDE DEF q, N, F
  <1>9. N \in SUBSET Nat /\ N \in SUBSET (1..Len(q)) /\ Len(q) \in Nat
    BY <1>7, <1>8
  <1>10. IsFiniteSet(1..Len(q))
    BY <1>9, FS_Interval
  <1>11. IsFiniteSet(N)
    BY ZenonT(30), <1>9, <1>10, FS_Subset
  <1>12. Max(N) \in N
    BY <1>6, <1>9, <1>11, MaxOfFinite
  <1>13. q[Max(N)] \in Entries /\ q[Max(N)].prefix = p
    BY <1>7, <1>8, <1>12
  <1> QED
    BY <1>2, <1>13 DEF q

\* Finitely many prefixes are configured.
LEMMA JsonFinite ==
    ASSUME NEW s, IsSource(s), Readable(s)
    PROVE  IsFiniteSet(DOMAIN jsonNamespaceConfigurations(s))
  <1> DEFINE files == findConfigurationFiles(s)
             Named(file) == {entry.prefix : entry \in Range(s.cwd[file].namespaces)}
             all == {Named(file) : file \in files}
  <1>1. DOMAIN jsonNamespaceConfigurations(s) = UNION all
    BY DEF jsonNamespaceConfigurations
  <1>2. IsFiniteSet(all)
    <2> DEFINE f == [file \in files |-> Named(file)]
    <2>1. f \in Surjection(files, all) /\ IsFiniteSet(files)
      BY ZenonT(30) DEF Surjection, IsSource, findConfigurationFiles
    <2> QED
      BY <2>1, FS_Surjection
  <1>3. ASSUME NEW file \in files PROVE IsFiniteSet(Named(file))
    <2> DEFINE q == s.cwd[file].namespaces
               f == [i \in 1..Len(q) |-> q[i].prefix]
    <2>1. q \in Seq(Entries)
      BY DEF IsSource, Readable
    <2> HIDE DEF q
    <2>2. f \in Surjection(1..Len(q), {entry.prefix : entry \in Range(q)})
      <3>1. DOMAIN q = 1..Len(q)
        BY <2>1
      <3>2. \A i \in 1..Len(q) : f[i] \in {entry.prefix : entry \in Range(q)}
        BY <3>1 DEF Range
      <3>3. \A t \in {entry.prefix : entry \in Range(q)} : \E i \in 1..Len(q) : f[i] = t
        BY <3>1 DEF Range
      <3> HIDE DEF f
      <3>4. f \in [1..Len(q) -> {entry.prefix : entry \in Range(q)}]
        BY <3>2 DEF f
      <3> QED
        BY ZenonT(30), <3>3, <3>4 DEF Surjection
    <2>3. IsFiniteSet(1..Len(q))
      BY <2>1, FS_Interval
    <2>4. IsFiniteSet({entry.prefix : entry \in Range(q)})
      BY <2>2, <2>3, FS_Surjection
    <2> QED
      BY <2>4 DEF q
  <1>4. \A T \in all : IsFiniteSet(T)
    BY <1>3
  <1> QED
    BY ZenonT(30), <1>1, <1>2, <1>4, FS_UNION

\* The container has the default configuration first, and then every entry.
LEMMA ListShape ==
    ASSUME NEW s, IsSource(s), Readable(s), NEW list \in readNamespaceConfigurations(s)
    PROVE  /\ list \in Seq(Entries) /\ list # <<>> /\ list[1] = DefaultConfiguration
           /\ \A j \in 2..Len(list) : \E p \in DOMAIN jsonNamespaceConfigurations(s) :
                 list[j] = jsonNamespaceConfigurations(s)[p]
           /\ \A p \in DOMAIN jsonNamespaceConfigurations(s) : \E j \in 2..Len(list) :
                 list[j] = jsonNamespaceConfigurations(s)[p]
  <1> DEFINE json == jsonNamespaceConfigurations(s)
             entries == {json[p] : p \in DOMAIN json}
  <1>1. PICK g \in Bijection(1..Cardinality(entries), entries) :
           list = <<DefaultConfiguration>> \o g
    BY ZenonT(30) DEF readNamespaceConfigurations
  <1>2. entries \subseteq Entries
    BY JsonEntry
  <1>3. IsFiniteSet(entries)
    <2>1. json \in Surjection(DOMAIN json, entries)
      BY ZenonT(30) DEF Surjection, jsonNamespaceConfigurations
    <2>2. IsFiniteSet(DOMAIN json)
      BY JsonFinite
    <2> QED
      BY <2>1, <2>2, FS_Surjection
  <1> HIDE DEF entries
  <1> DEFINE n == Cardinality(entries)
  <1>4. n \in Nat /\ g \in [1..n -> entries]
    BY <1>3, FS_CardinalityType DEF Bijection, Injection
  <1>6. \A e \in entries : \E i \in 1..n : g[i] = e
    BY DEF Bijection, Surjection
  <1> HIDE DEF n
  <1>7. g \in Seq(Entries) /\ Len(g) = n /\ DefaultConfiguration \in Entries
    <2>1. DefaultConfiguration \in Entries
      BY DEF DefaultConfiguration, Entries
    <2>2. g \in [1..n -> Entries]
      BY <1>2, <1>4
    <2> QED
      BY <1>4, <2>1, <2>2
  <1>8. /\ list \in Seq(Entries) /\ Len(list) = 1 + n /\ list[1] = DefaultConfiguration
        /\ \A j \in 2..1 + n : list[j] = g[j - 1] /\ j - 1 \in 1..n
        /\ \A i \in 1..n : i + 1 \in 2..1 + n /\ (i + 1) - 1 = i
    <2> DEFINE d == DefaultConfiguration
    <2> HIDE DEF d
    <2>1. <<d>> \in Seq(Entries) /\ Len(<<d>>) = 1 /\ <<d>>[1] = d
      BY <1>7 DEF d
    <2>2. list = <<d>> \o g
      BY <1>1 DEF d
    <2>3. list \in Seq(Entries) /\ Len(list) = 1 + n
      BY <1>7, <2>1, <2>2
    <2>4. list[1] = d /\ \A j \in 2..1 + n : list[j] = g[j - 1] /\ j - 1 \in 1..n
      BY <1>4, <1>7, <2>1, <2>2
    <2> QED
      BY <1>4, <2>3, <2>4 DEF d
  <1>9. \A j \in 2..Len(list) : list[j] \in entries
    BY <1>4, <1>8
  <1>10. ASSUME NEW e \in entries PROVE \E j \in 2..Len(list) : list[j] = e
    <2>1. PICK i \in 1..n : g[i] = e
      BY <1>6
    <2>2. list[i + 1] = e /\ i + 1 \in 2..Len(list)
      BY <1>8, <2>1
    <2> QED
      BY <2>2
  <1>11. list # <<>>
    BY <1>4, <1>8
  <1>12. \A p \in DOMAIN json : json[p] \in entries
    BY DEF entries
  <1>13. \A e \in entries : \E p \in DOMAIN json : e = json[p]
    BY DEF entries
  <1> HIDE DEF json
  <1>14. /\ \A j \in 2..Len(list) : \E p \in DOMAIN json : list[j] = json[p]
         /\ \A p \in DOMAIN json : \E j \in 2..Len(list) : list[j] = json[p]
    BY <1>9, <1>10, <1>12, <1>13
  <1> QED
    BY <1>8, <1>11, <1>14 DEF json

\* Prefixes of one namespace that are equally long are equal.
LEMMA EqualPrefixes ==
    ASSUME NEW ns \in Seq(STRING), NEW p \in Seq(STRING), NEW q \in Seq(STRING),
           Matching(p, ns), Matching(q, ns), Len(p) = Len(q)
    PROVE  p = q
  BY DEF Matching

\* The backend of a namespace is the one that the longest matching prefix of
\* the files says, whatever the order of the container.
LEMMA BackendAsConfigured ==
    ASSUME NEW s, IsSource(s), Readable(s), NEW list \in readNamespaceConfigurations(s),
           NEW ns \in Seq(STRING)
    PROVE  UsesDatabase(s, ns) <=> list[findConfigurationForNamespace(list, ns)].useDbBackend
  <1> DEFINE json == jsonNamespaceConfigurations(s)
             matching == {p \in DOMAIN json : Matching(p, ns)}
             m == findConfigurationForNamespace(list, ns)
  <1>1. /\ list \in Seq(Entries) /\ list # <<>> /\ list[1] = DefaultConfiguration
        /\ \A j \in 2..Len(list) : \E p \in DOMAIN json : list[j] = json[p]
        /\ \A p \in DOMAIN json : \E j \in 2..Len(list) : list[j] = json[p]
    BY ListShape
  <1>2. \A p \in DOMAIN json : json[p] \in Entries /\ json[p].prefix = p /\ p \in Seq(STRING)
                               /\ Len(p) \in Nat
    BY JsonEntry DEF Entries
  <1>3. Len(list[1].prefix) = 0
    BY <1>1 DEF DefaultConfiguration
  <1>4. Found(m, Len(list), list, ns)
    BY <1>1, <1>3, FindsLongest
  <1>5. UsesDatabase(s, ns) <=> \A p \in matching :
           (\A other \in matching : Len(other) <= Len(p)) => json[p].useDbBackend
    BY DEF UsesDatabase
  <1> HIDE DEF json, m
  <1>6. CASE matching = {}
    <2>1. m = 1
      <3> SUFFICES ASSUME m # 1 PROVE FALSE
        OBVIOUS
      <3>1. m \in 2..Len(list) /\ Matching(list[m].prefix, ns)
        BY <1>1, <1>4 DEF Found
      <3> QED
        BY <1>1, <1>2, <1>6, <3>1
    <2> QED
      BY <1>1, <1>5, <1>6, <2>1 DEF DefaultConfiguration, m
  <1>7. CASE matching # {}
    <2>1. m \in 2..Len(list) /\ Matching(list[m].prefix, ns)
      BY <1>1, <1>2, <1>4, <1>7 DEF Found
    <2>2. PICK p \in DOMAIN json : list[m] = json[p]
      BY <1>1, <2>1
    <2>3. p \in matching
      BY <1>2, <2>1, <2>2
    <2>4. ASSUME NEW other \in matching PROVE Len(other) <= Len(p)
      <3>1. PICK j \in 2..Len(list) : list[j] = json[other]
        BY <1>1
      <3>2. list[j].prefix = other /\ list[m].prefix = p
        BY <1>2, <2>2, <3>1
      <3>3. Len(list[j].prefix) <= Len(list[m].prefix)
        BY <1>4, <3>2 DEF Found
      <3> QED
        BY <3>2, <3>3
    <2>5. \A other \in matching : (\A q \in matching : Len(q) <= Len(other)) => other = p
      BY <1>2, <2>3, <2>4, EqualPrefixes
    <2>6. UsesDatabase(s, ns) <=> json[p].useDbBackend
      BY <1>5, <2>3, <2>4, <2>5
    <2> QED
      BY <2>2, <2>6 DEF m
  <1> QED
    BY <1>6, <1>7

-----------------------------------------------------------------------------
(* The database.                                                            *)

\* The function that the loop of checkAndApplySentinelPorts computes.
PortLoop(f, n, items) ==
    f = [i \in 0..n |-> IF i = 0 THEN <<>> ELSE AppendPort(f[i - 1], items[i])]

\* There is such a function for every number of items.
LEMMA PortLoopExists ==
    ASSUME NEW items, NEW k \in Nat
    PROVE  \E f : PortLoop(f, k, items)
  <1> DEFINE B == {n \in Nat : ~\E f : PortLoop(f, n, items)}
  <1> SUFFICES ASSUME k \in B PROVE FALSE
    OBVIOUS
  <1>1. B \in SUBSET Nat /\ B # {}
    OBVIOUS
  <1> HIDE DEF B
  <1>2. PICK n \in B : \A m \in B : n <= m
    BY <1>1, LeastNatural
  <1>3. n \in Nat /\ n - 1 \notin B
    BY <1>1, <1>2
  <1>4. n # 0
    <2>1. PortLoop([i \in 0..0 |-> <<>>], 0, items)
      BY DEF PortLoop
    <2> QED
      BY <1>2, <2>1 DEF B
  <1>5. PICK f : PortLoop(f, n - 1, items)
    BY <1>3, <1>4 DEF B
  <1> DEFINE g == [i \in 0..n |-> IF i = 0 THEN <<>> ELSE AppendPort(f[i - 1], items[i])]
  <1>6. \A i \in 0..n - 1 : g[i] = f[i]
    BY <1>3, <1>4, <1>5 DEF PortLoop
  <1>7. \A i \in 0..n : i # 0 => i - 1 \in 0..n - 1
    BY <1>3
  <1>8. PortLoop(g, n, items)
    BY ZenonT(30), <1>6, <1>7 DEF PortLoop
  <1> QED
    BY <1>2, <1>8 DEF B

\* The ports so far.
PortsUpTo(ports, k, items) ==
    /\ ports \in Seq(STRING) /\ Len(ports) = k
    /\ \A i \in 1..k : ports[i] = items[i][1]

\* If all items are numbers, each server has its own port.
LEMMA AllPortsTaken ==
    ASSUME NEW items \in Strings, \A i \in 1..Len(items) : IsNumber(items[i])
    PROVE  PortsUpTo(checkAndApplySentinelPorts(items), Len(items), items)
  <1>0. Len(items) \in Nat
    BY DEF Strings
  <1>1. PICK f : /\ PortLoop(f, Len(items), items)
                 /\ checkAndApplySentinelPorts(items) = f[Len(items)]
    <2>1. \E f : PortLoop(f, Len(items), items)
      BY ZenonT(30), <1>0, PortLoopExists
    <2> QED
      BY ZenonT(30), <2>1 DEF PortLoop, checkAndApplySentinelPorts
  <1> DEFINE B == {n \in 0..Len(items) : ~PortsUpTo(f[n], n, items)}
  <1> SUFFICES ASSUME B # {} PROVE FALSE
    BY <1>0, <1>1
  <1>2. B \in SUBSET Nat
    BY <1>0
  <1> HIDE DEF B
  <1>3. PICK n \in B : \A m \in B : n <= m
    BY <1>2, LeastNatural
  <1>4. n \in 0..Len(items) /\ n - 1 \notin B /\ ~PortsUpTo(f[n], n, items)
    BY <1>0, <1>3 DEF B
  <1>5. n # 0
    <2>1. f[0] = <<>>
      BY <1>0, <1>1 DEF PortLoop
    <2>2. PortsUpTo(<<>>, 0, items)
      BY DEF PortsUpTo
    <2> QED
      BY <1>4, <2>1, <2>2
  <1>6. n - 1 \in 0..Len(items) /\ n \in 1..Len(items) /\ n \in Nat
    BY <1>0, <1>4, <1>5
  <1>7. PortsUpTo(f[n - 1], n - 1, items)
    BY <1>4, <1>6 DEF B
  <1>8. items[n] \in Seq(STRING) /\ Len(items[n]) = 1
    BY <1>6 DEF Strings, IsNumber
  <1>9. f[n] = Append(f[n - 1], items[n][1]) /\ items[n][1] \in STRING
    <2>1. f[n] = AppendPort(f[n - 1], items[n])
      BY <1>1, <1>4, <1>5 DEF PortLoop
    <2> QED
      BY <1>6, <1>8, <2>1 DEF AppendPort
  <1>10. f[n] \in Seq(STRING) /\ Len(f[n]) = n
    BY <1>6, <1>7, <1>9 DEF PortsUpTo
  <1>11. \A i \in 1..n : f[n][i] = items[i][1]
    BY <1>6, <1>7, <1>9 DEF PortsUpTo
  <1> QED
    BY <1>4, <1>10, <1>11 DEF PortsUpTo

\* One port is given, for all servers.
SinglePort(s) == \A item \in Range(Setting(s, "port")) : item = Setting(s, "port")[1]

\* The addresses are those of the servers; the port is that of the first server,
\* or of all.
AddressesShape(addresses, s) ==
    /\ Len(Servers(s)) \in Nat /\ Len(addresses) = Len(Servers(s))
    /\ DOMAIN Servers(s) = 1..Len(Servers(s)) /\ DOMAIN addresses = 1..Len(Servers(s))
    /\ addresses = [i \in 1..Len(Servers(s)) |-> addresses[i]]
    /\ addresses = <<>> <=> Len(Servers(s)) = 0
    /\ Servers(s) = <<>> <=> Len(Servers(s)) = 0
    /\ PortsFollowHosts(s) => \A i \in 1..Len(Servers(s)) :
          /\ addresses[i].host = Address(s, i).host
          /\ i = 1 \/ SinglePort(s) => addresses[i] = Address(s, i)

\* The type is that of the environment's variables or of the files.
TypeShape(type, s) ==
    /\ type \in SdlCluster <=> Sharded(s)
    /\ type \in Sentinel <=> Watched(s)
    /\ type = "redis-cluster" <=> JsonDatabase(s).type = "redis-cluster"

\* The sentinel ports and master names, which only the environment gives.
SentinelShape(db, s) ==
    LET ports == Setting(s, "sentinelPort")
        names == Setting(s, "masterName")
    IN  /\ ports \in Strings /\ names \in Strings
        /\ ports = <<>> => db.sentinelPorts = <<>> /\ db.masterNames = <<>> /\ names = <<>>
        /\ ports # <<>> => /\ db.sentinelPorts = checkAndApplySentinelPorts(ports)
                           /\ names # <<>> => db.masterNames = names

\* The database configuration of a source.
DatabaseShape(db, s) ==
    /\ AddressesShape(db.addresses, s) /\ TypeShape(db.type, s)
    /\ db.type \in Sentinel => SentinelShape(db, s)

\* The settings of a source, beside the strings that the code reads.
LEMMA SettingShape ==
    ASSUME NEW s, NEW variable, NEW x, x = s.env[variable], x \in Strings
    PROVE  /\ Setting(s, variable) \in Strings
           /\ s.env.host = Unset => Setting(s, variable) = <<>>
           /\ s.env.host # Unset /\ Setting(s, variable) = <<>> => Value(x) = Empty
           /\ Setting(s, variable) # <<>> => Setting(s, variable) = x /\ Value(x) = x
                                             /\ x # Empty
  <1>1. <<>> \in Strings /\ Empty # <<>>
    BY DEF Strings, Empty
  <1> QED
    BY ZenonT(30), <1>1 DEF Setting, Value, Unset

\* The settings of an environment.
LEMMA EnvironmentSettings ==
    ASSUME NEW s, IsSource(s),
           NEW v \in {"port", "sentinelPort", "masterName", "clusterAddrList"}
    PROVE  /\ Setting(s, v) \in Strings
           /\ s.env.host = Unset => Setting(s, v) = <<>>
           /\ s.env.host # Unset /\ Setting(s, v) = <<>> => Value(s.env[v]) = Empty
           /\ Setting(s, v) # <<>> => Setting(s, v) = s.env[v] /\ Value(s.env[v]) = s.env[v]
                                      /\ s.env[v] # Empty
  <1>1. s.env[v] \in Strings
    BY DEF IsSource
  <1> QED
    BY ONLY ZenonT(30), <1>1, SettingShape

\* checkAndApply fills in the type and the addresses only.
LEMMA Applied ==
    ASSUME NEW type, NEW items, NEW n \in Nat, DOMAIN items = 1..n,
           checkAndApply(type, items).type # "Exception"
    PROVE  /\ checkAndApply(type, items) =
                [type |-> type, addresses |-> [i \in 1..n |-> HostAndPort(items[i], "6379")],
                 sentinelPorts |-> <<>>, masterNames |-> <<>>]
           /\ type \in DbTypes
  <1>1. Exception.type = "Exception"
    BY DEF Exception, NoDatabase
  <1> QED
    BY ZenonT(30), <1>1 DEF checkAndApply, NoDatabase

\* A port that is appended to the name of a host is its port.
LEMMA AppendedPort ==
    ASSUME NEW item \in Seq(STRING), NEW port \in Seq(STRING), Len(item) = 1, Len(port) = 1
    PROVE  /\ HostAndPort(item \o port, "6379") = [host |-> item, port |-> stringToPort(port[1])]
           /\ \A p : HostAndPort(item, p) = [host |-> item, port |-> p]
  <1> DEFINE both == item \o port
  <1>1. /\ both \in Seq(STRING) /\ Len(both) = Len(item) + Len(port)
        /\ \A i \in 1..Len(item) + Len(port) :
              both[i] = IF i <= Len(item) THEN item[i] ELSE port[i - Len(item)]
    BY ConcatProperties
  <1> HIDE DEF both
  <1>2. Len(both) = 2 /\ both[1] = item[1] /\ both[2] = port[1]
    BY <1>1
  <1>3. both \notin LiteralIPv6
    <2>1. \A address \in LiteralIPv6 : Len(address) > 2
      BY ONLY Zenon, LiteralIPv6Parts
    <2>2. ~(Len(both) > 2)
      BY ONLY SMTT(30), <1>2
    <2> QED
      BY ONLY ZenonT(30), <2>1, <2>2
  <1>4. SubSeq(both, 1, 1) = item
    <2>1. SubSeq(both, 1, 1) \in Seq(STRING) /\ Len(SubSeq(both, 1, 1)) = 1
      BY <1>1, <1>2
    <2>2. SubSeq(both, 1, 1)[1] = item[1]
      BY <1>1, <1>2
    <2> QED
      BY <2>1, <2>2
  <1>5. HostAndPort(both, "6379") =
          [host |-> SubSeq(both, 1, 1), port |-> stringToPort(both[2])]
    BY <1>2, <1>3 DEF HostAndPort
  <1> QED
    BY ZenonT(30), <1>2, <1>4, <1>5 DEF HostAndPort, both

\* The addresses that the environment gives.
LEMMA EnvironmentAddresses ==
    ASSUME NEW s, IsSource(s), s.env.host # Unset, NEW items,
           items = (IF Value(s.env.port) = Empty THEN Servers(s)
                    ELSE appendDBPortToAddrList(Servers(s), s.env.port)),
           Servers(s) \in Strings
    PROVE  LET n == Len(Servers(s))
           IN  /\ DOMAIN items = 1..n
               /\ AddressesShape([i \in 1..n |-> HostAndPort(items[i], "6379")], s)
  <1> DEFINE hosts == Servers(s)
             n == Len(hosts)
             ports == Setting(s, "port")
             a == [i \in 1..n |-> HostAndPort(items[i], "6379")]
  <1>1. n \in Nat /\ DOMAIN hosts = 1..n /\ (hosts = <<>> <=> n = 0)
        /\ \A i \in 1..n : hosts[i] \in Seq(STRING) /\ hosts[i] \in Range(hosts)
    BY DEF Strings, Range
  <1>2. Len(a) = n /\ DOMAIN a = 1..n /\ (a = <<>> <=> n = 0) /\ a = [i \in 1..n |-> a[i]]
    BY <1>1
  <1>3. \A i \in 1..n : a[i] = HostAndPort(items[i], "6379")
    OBVIOUS
  <1>4. /\ ports \in Strings
        /\ ports = <<>> => Value(s.env.port) = Empty
        /\ ports # <<>> => ports = s.env.port /\ Value(s.env.port) # Empty
    <2>1. Value(s.env["port"]) = Value(s.env.port) /\ s.env["port"] = s.env.port
      OBVIOUS
    <2> QED
      BY ZenonT(30), <2>1, EnvironmentSettings
  <1> HIDE DEF a, n
  <1>5. CASE ports = <<>>
    <2>1. items = hosts
      BY ZenonT(30), <1>4, <1>5
    <2>2. \A i \in 1..n : Address(s, i) = HostAndPort(hosts[i], "6379")
      BY ZenonT(30), <1>5 DEF Address, PortOf
    <2>3. \A i \in 1..n : a[i] = Address(s, i)
      BY ZenonT(30), <1>3, <2>1, <2>2
    <2> HIDE DEF hosts
    <2> QED
      BY ZenonT(30), <1>1, <1>2, <2>1, <2>3 DEF AddressesShape, a, n, hosts
  <1>6. CASE ports # <<>>
    <2>1. items = [i \in 1..n |-> hosts[i] \o ports[1]]
      BY ZenonT(30), <1>1, <1>4, <1>6 DEF appendDBPortToAddrList
    <2>2. ASSUME PortsFollowHosts(s), NEW i \in 1..n
          PROVE  /\ a[i].host = Address(s, i).host
                 /\ i = 1 \/ SinglePort(s) => a[i] = Address(s, i)
      <3>1. 1 \in DOMAIN ports /\ ports[1] \in Seq(STRING) /\ ports[1] \in Range(ports)
        BY <1>4, <1>6 DEF Strings, Range
      <3>2. Len(hosts[i]) = 1 /\ Len(ports[1]) = 1
        BY ZenonT(30), <1>1, <1>6, <2>2, <3>1 DEF PortsFollowHosts
      <3> DEFINE p == Nth(ports, i, ports[1])
      <3>3. a[i] = [host |-> hosts[i], port |-> stringToPort(ports[1][1])]
        <4>1. a[i] = HostAndPort(hosts[i] \o ports[1], "6379")
          BY ZenonT(30), <1>3, <2>1
        <4> QED
          BY ZenonT(30), <1>1, <3>1, <3>2, <4>1, AppendedPort
      <3>4. Address(s, i) = [host |-> hosts[i], port |-> stringToPort(p[1])]
        <4>1. Address(s, i) = HostAndPort(hosts[i], stringToPort(p[1]))
          BY ZenonT(30), <1>6 DEF Address, PortOf
        <4> QED
          BY ZenonT(30), <1>1, <3>1, <3>2, <4>1, AppendedPort
      <3>5. i = 1 \/ SinglePort(s) => p = ports[1]
        BY ZenonT(30), <3>1 DEF Nth, SinglePort, Range
      <3> HIDE DEF p, hosts, ports
      <3> QED
        BY <3>3, <3>4, <3>5
    <2>3. DOMAIN items = 1..n
      BY <2>1
    <2> HIDE DEF hosts
    <2> QED
      BY ZenonT(30), <1>1, <1>2, <2>2, <2>3 DEF AddressesShape, a, n, hosts
  <1> QED
    BY ZenonT(30), <1>5, <1>6 DEF a, n

\* The configuration that the environment gives.
LEMMA EnvironmentShape ==
    ASSUME NEW s, IsSource(s), s.env.host # Unset, readEnvironment(s.env).type # "Exception"
    PROVE  DatabaseShape(readEnvironment(s.env), s)
  <1> DEFINE env == s.env
             sentinelPort == Value(env.sentinelPort)
             clusterAddrList == Value(env.clusterAddrList)
             type == EnvironmentType(env.host, sentinelPort, clusterAddrList)
             hosts == IF type \in SdlCluster THEN clusterAddrList ELSE env.host
             items == IF Value(env.port) = Empty THEN hosts
                      ELSE appendDBPortToAddrList(hosts, env.port)
             applied == checkAndApply(type, items)
             db == readEnvironment(env)
             n == Len(Servers(s))
  <1>1. db = IF applied.type \in Sentinel
             THEN [applied EXCEPT !.sentinelPorts = checkAndApplySentinelPorts(sentinelPort),
                                  !.masterNames = Value(env.masterName)]
             ELSE applied
    BY ZenonT(30) DEF readEnvironment
  <1>2. /\ Setting(s, "clusterAddrList") \in Strings
        /\ Setting(s, "clusterAddrList") = <<>> <=> clusterAddrList = Empty
        /\ Setting(s, "clusterAddrList") # <<>> =>
              clusterAddrList = Setting(s, "clusterAddrList")
              /\ env.clusterAddrList = Setting(s, "clusterAddrList")
    <2>1. env["clusterAddrList"] = env.clusterAddrList
      OBVIOUS
    <2> QED
      BY ZenonT(30), <2>1, EnvironmentSettings
  <1>3. /\ Setting(s, "sentinelPort") \in Strings
        /\ Setting(s, "sentinelPort") = <<>> <=> sentinelPort = Empty
        /\ Setting(s, "sentinelPort") # <<>> => sentinelPort = Setting(s, "sentinelPort")
    <2>1. env["sentinelPort"] = env.sentinelPort
      OBVIOUS
    <2> QED
      BY ZenonT(30), <2>1, EnvironmentSettings
  <1>4. /\ Setting(s, "masterName") \in Strings
        /\ Setting(s, "masterName") # <<>> => Value(env.masterName) = Setting(s, "masterName")
    <2>1. env["masterName"] = env.masterName
      OBVIOUS
    <2> QED
      BY ZenonT(30), <2>1, EnvironmentSettings
  <1>5. /\ type \in {"missing", "redis-standalone", "redis-sentinel"} \cup SdlCluster
        /\ type \in SdlCluster <=> clusterAddrList # Empty
        /\ type # "missing" => (type \in Sentinel <=> sentinelPort # Empty)
    BY DEF EnvironmentType, SdlCluster, Sentinel
  <1>6. JsonDatabase(s) = [type |-> "none", servers |-> <<>>]
    BY ZenonT(30) DEF JsonDatabase
  <1> HIDE DEF type
  <1>7. hosts = Servers(s) /\ Servers(s) \in Strings
    <2>1. env.host \in Strings
      BY DEF IsSource
    <2> HIDE DEF clusterAddrList
    <2> QED
      BY ZenonT(30), <1>2, <1>5, <2>1 DEF Servers
  <1>8. items = IF Value(env.port) = Empty THEN Servers(s)
                ELSE appendDBPortToAddrList(Servers(s), env.port)
    BY ZenonT(30), <1>7
  <1> HIDE DEF items, hosts
  <1>9. /\ DOMAIN items = 1..n /\ n \in Nat
        /\ AddressesShape([i \in 1..n |-> HostAndPort(items[i], "6379")], s)
    <2>1. n \in Nat
      BY <1>7 DEF Strings
    <2> QED
      BY ZenonT(30), <1>7, <1>8, <2>1, EnvironmentAddresses
  <1> HIDE DEF n
  <1>10. applied.type # "Exception"
    <2> SUFFICES ASSUME applied.type = "Exception" PROVE FALSE
      OBVIOUS
    <2>1. applied.type \notin Sentinel
      BY DEF Sentinel
    <2> QED
      BY ZenonT(30), <1>1, <2>1
  <1>11. /\ applied = [type |-> type,
                       addresses |-> [i \in 1..n |-> HostAndPort(items[i], "6379")],
                       sentinelPorts |-> <<>>, masterNames |-> <<>>]
         /\ type \in DbTypes
    BY ZenonT(30), <1>9, <1>10, Applied
  <1> HIDE DEF applied
  <1>12. TypeShape(type, s)
    <2>1. type # "missing" /\ "none" \notin SdlCluster \cup Sentinel
      BY <1>11 DEF DbTypes, SdlCluster, Sentinel
    <2>2. type # "redis-cluster"
      BY <1>5 DEF SdlCluster
    <2>3. JsonDatabase(s).type = "none"
      BY <1>6
    <2> HIDE DEF clusterAddrList, sentinelPort
    <2> QED
      BY ZenonT(30), <1>2, <1>3, <1>5, <2>1, <2>2, <2>3 DEF TypeShape, Sharded, Watched
  <1> DEFINE addresses == [i \in 1..n |-> HostAndPort(items[i], "6379")]
  <1> HIDE DEF addresses
  <1>13. applied = [type |-> type, addresses |-> addresses, sentinelPorts |-> <<>>,
                    masterNames |-> <<>>] /\ AddressesShape(addresses, s)
    BY ZenonT(30), <1>9, <1>11 DEF addresses
  <1> HIDE DEF db
  <1>14. CASE type \in Sentinel
    <2>1. /\ db.type = type /\ db.addresses = addresses
          /\ db.sentinelPorts = checkAndApplySentinelPorts(sentinelPort)
          /\ db.masterNames = Value(env.masterName)
      BY <1>1, <1>13, <1>14
    <2>2. Setting(s, "sentinelPort") # <<>>
      BY ZenonT(30), <1>12, <1>14, <1>6, <1>5, <1>3 DEF Sentinel
    <2>3. SentinelShape(db, s)
      BY ZenonT(30), <1>3, <1>4, <2>1, <2>2 DEF SentinelShape
    <2> QED
      BY ZenonT(30), <1>12, <1>13, <2>1, <2>3 DEF DatabaseShape, db
  <1>15. CASE type \notin Sentinel
    <2>1. db.type = type /\ db.addresses = addresses
      BY <1>1, <1>13, <1>15
    <2> QED
      BY ZenonT(30), <1>12, <1>13, <1>15, <2>1 DEF DatabaseShape, db
  <1> QED
    BY ZenonT(30), <1>14, <1>15

\* Whatever readDatabaseConfiguration reads has this shape, unless it throws.
LEMMA ReadShape ==
    ASSUME NEW s, IsSource(s), Readable(s), readDatabaseConfiguration(s).type # "Exception"
    PROVE  DatabaseShape(readDatabaseConfiguration(s), s)
  <1> DEFINE json == {file \in s.directories : s.cwd[file].database # Unset}
  <1>1. CASE s.env.host # Unset
    <2>1. readDatabaseConfiguration(s) = readEnvironment(s.env)
      BY ZenonT(30), <1>1 DEF readDatabaseConfiguration
    <2> QED
      BY ZenonT(30), <1>1, <2>1, EnvironmentShape
  <1>2. ASSUME s.env.host = Unset
        PROVE  \A v \in {"port", "sentinelPort", "masterName", "clusterAddrList"} :
                  Setting(s, v) = <<>>
    BY ZenonT(30), <1>2, EnvironmentSettings
  <1>3. CASE s.env.host = Unset /\ json = {}
    <2>1. readDatabaseConfiguration(s) = NoDatabase
      BY ZenonT(30), <1>3 DEF readDatabaseConfiguration, findConfigurationFiles
    <2>2. JsonDatabase(s) = [type |-> "none", servers |-> <<>>]
      BY ZenonT(30), <1>3 DEF JsonDatabase
    <2>3. Servers(s) = <<>>
      BY <1>3, <2>2 DEF Servers
    <2>4. AddressesShape(<<>>, s)
      <3>1. Len(<<>>) = 0 /\ DOMAIN <<>> = 1..0 /\ \A i \in 1..0 : FALSE
        OBVIOUS
      <3>2. <<>> = [i \in 1..0 |-> <<>>[i]]
        BY <3>1
      <3> QED
        BY ONLY SMTT(30), <2>3, <3>1, <3>2 DEF AddressesShape
    <2>5. TypeShape("UNKNOWN", s)
      <3>1. ~Sharded(s) /\ ~Watched(s)
        BY <1>2, <1>3, <2>2 DEF Sharded, Watched, SdlCluster, Sentinel
      <3> QED
        BY <2>2, <3>1 DEF TypeShape, SdlCluster, Sentinel
    <2>6. "UNKNOWN" \notin Sentinel
      BY DEF Sentinel
    <2>7. NoDatabase.type = "UNKNOWN" /\ NoDatabase.addresses = <<>>
      BY DEF NoDatabase
    <2> QED
      BY ZenonT(30), <2>1, <2>4, <2>5, <2>6, <2>7 DEF DatabaseShape
  <1>4. CASE s.env.host = Unset /\ json # {}
    <2>1. json \in SUBSET Nat /\ IsFiniteSet(json)
      <3>1. s.directories \subseteq Nat /\ IsFiniteSet(s.directories)
        BY DEF IsSource
      <3> QED
        BY <3>1, FS_Subset
    <2>2. Max(json) \in json
      BY ZenonT(30), <1>4, <2>1, MaxOfFinite
    <2> DEFINE q == s.cwd[Max(json)].database
               database == q[1]
               servers == database.servers
               db == checkAndApply(database.type, servers)
               n == Len(servers)
               a == [i \in 1..n |-> HostAndPort(servers[i], "6379")]
    <2>3. q \in Seq([type : STRING, servers : Strings]) /\ q # <<>>
      BY ZenonT(30), <2>2 DEF IsSource, Readable, Unset, findConfigurationFiles
    <2>4. readDatabaseConfiguration(s) = db
      BY ZenonT(30), <1>4 DEF readDatabaseConfiguration, findConfigurationFiles
    <2>5. JsonDatabase(s) = database
      BY ZenonT(30), <1>4 DEF JsonDatabase
    <2> HIDE DEF q
    <2>6. servers \in Strings
      <3> DEFINE R == [type : STRING, servers : Strings]
      <3>1. q \in Seq(R) /\ q # <<>>
        BY <2>3
      <3> HIDE DEF R
      <3>2. q[1] \in R
        BY <3>1
      <3> QED
        BY <3>2 DEF R
    <2> HIDE DEF database
    <2>7. Servers(s) = servers
      BY ZenonT(30), <1>4, <2>5 DEF Servers
    <2>8. n \in Nat /\ DOMAIN servers = 1..n /\ (servers = <<>> <=> n = 0)
      BY <2>6 DEF Strings
    <2>9. /\ db = [type |-> database.type, addresses |-> a, sentinelPorts |-> <<>>,
                   masterNames |-> <<>>]
          /\ database.type \in DbTypes
      BY ZenonT(30), <2>4, <2>8, Applied
    <2>10. Len(a) = n /\ DOMAIN a = 1..n /\ (a = <<>> <=> n = 0) /\ a = [i \in 1..n |-> a[i]]
      BY <2>8
    <2>11. \A i \in 1..n : a[i] = Address(s, i)
      <3>1. \A i \in 1..n : Address(s, i) = HostAndPort(servers[i], "6379")
        BY ZenonT(30), <1>2, <1>4, <2>7 DEF Address, PortOf
      <3> QED
        BY ZenonT(30), <3>1
    <2> HIDE DEF a, db, servers, n
    <2>12. AddressesShape(a, s)
      BY ZenonT(30), <2>7, <2>8, <2>10, <2>11 DEF AddressesShape, n
    <2>13. TypeShape(database.type, s)
      BY ZenonT(30), <1>2, <1>4, <2>5 DEF TypeShape, Sharded, Watched
    <2>14. SentinelShape(db, s)
      <3>1. <<>> \in Strings
        BY DEF Strings
      <3>2. db.sentinelPorts = <<>> /\ db.masterNames = <<>>
        BY <2>9
      <3> QED
        BY ZenonT(30), <1>2, <1>4, <3>1, <3>2 DEF SentinelShape
    <2>15. db.type = database.type /\ db.addresses = a
      BY <2>9
    <2> QED
      BY ZenonT(30), <2>4, <2>12, <2>13, <2>14, <2>15 DEF DatabaseShape
  <1> QED
    BY ZenonT(30), <1>1, <1>3, <1>4

\* Index 0 stands for the first server.
LEMMA MaxOfOne ==
    ASSUME NEW i \in Nat
    PROVE  Max({1, i}) = IF i = 0 THEN 1 ELSE i
  <1>1. \E x \in {1, i} : \A y \in {1, i} : x >= y
    BY i = 0 \/ i >= 1
  <1>2. Max({1, i}) \in {1, i} /\ \A y \in {1, i} : Max({1, i}) >= y
    BY <1>1 DEF Max
  <1> QED
    BY <1>2

\* What Min of FiniteSetsExt chooses from two numbers.
LEMMA MinOfTwo ==
    ASSUME NEW m \in Nat, NEW n \in Nat
    PROVE  Min({m, n}) = IF m <= n THEN m ELSE n
  <1>1. \E x \in {m, n} : \A y \in {m, n} : x <= y
    BY m <= n \/ n <= m
  <1>2. Min({m, n}) \in {m, n} /\ \A y \in {m, n} : Min({m, n}) <= y
    BY <1>1 DEF Min
  <1> QED
    BY <1>2

\* A database that needs a server and has none.
Unserved(db) == db.addresses = <<>> /\ db.type \in Sentinel \cup SdlCluster

\* The place of a namespace among the servers, as DatabaseOf has it.
Place(s, ns) == IF Sharded(s) THEN 1 + (CRC32[ns] % Len(Servers(s))) ELSE 1

\* The place of a namespace among the servers.
LEMMA IndexInRange ==
    ASSUME NEW s, NEW db, DatabaseShape(db, s), ~Unserved(db), NEW ns \in Namespaces
    PROVE  /\ getHandlerIndex(db, ns) = Place(s, ns) /\ Place(s, ns) \in Nat \ {0}
           /\ Servers(s) # <<>> => Place(s, ns) \in 1..Len(Servers(s))
           /\ db.type \notin SdlCluster => Place(s, ns) = 1
           /\ Sharded(s) \/ Watched(s) => Servers(s) # <<>>
  <1>1. /\ db.type \in SdlCluster <=> Sharded(s)
        /\ db.type \in Sentinel <=> Watched(s)
        /\ Len(Servers(s)) \in Nat /\ Len(db.addresses) = Len(Servers(s))
        /\ Servers(s) = <<>> <=> Len(Servers(s)) = 0
        /\ db.addresses = <<>> <=> Len(Servers(s)) = 0
    BY ZenonT(30) DEF DatabaseShape, TypeShape, AddressesShape
  <1>2. Sharded(s) \/ Watched(s) => Servers(s) # <<>>
    BY ZenonT(30), <1>1 DEF Unserved
  <1>3. CASE Sharded(s)
    <2>1. Len(Servers(s)) \in Nat /\ Len(Servers(s)) > 0 /\ CRC32[ns] \in Nat
      BY <1>1, <1>2, <1>3, ChecksumsNat
    <2>2. CRC32[ns] % Len(Servers(s)) \in 0..Len(Servers(s)) - 1
      BY <2>1
    <2> QED
      BY <1>1, <1>2, <1>3, <2>1, <2>2 DEF getHandlerIndex, Place
  <1>4. CASE ~Sharded(s)
    BY <1>1, <1>2, <1>4 DEF getHandlerIndex, Place
  <1> QED
    BY ZenonT(30), <1>3, <1>4

\* The address at the place of a namespace.
LEMMA AddressAtPlace ==
    ASSUME NEW s, NEW db, DatabaseShape(db, s), ~Unserved(db), NEW ns \in Namespaces,
           Servers(s) # <<>>, PortsFollowHosts(s)
    PROVE  LET place == Place(s, ns)
           IN  /\ db.addresses[place].host = Address(s, place).host
               /\ OnePort(s) /\ ~Watched(s) => db.addresses[place] = Address(s, place)
  <1>1. Place(s, ns) \in 1..Len(Servers(s)) /\ (~Sharded(s) => Place(s, ns) = 1)
    BY ZenonT(30), IndexInRange DEF Place
  <1>2. /\ db.addresses[Place(s, ns)].host = Address(s, Place(s, ns)).host
        /\ Place(s, ns) = 1 \/ SinglePort(s) =>
              db.addresses[Place(s, ns)] = Address(s, Place(s, ns))
    BY ZenonT(30), <1>1 DEF DatabaseShape, AddressesShape
  <1>3. OnePort(s) /\ ~Watched(s) /\ Sharded(s) => SinglePort(s)
    BY ZenonT(30) DEF OnePort, SinglePort
  <1> QED
    BY ZenonT(30), <1>1, <1>2, <1>3

\* Databases of one host.
LEMMA OneHost ==
    ASSUME NEW d, NEW e, NEW a, NEW b, d.hosts = <<a>>, e.hosts = <<b>>, a.host = b.host
    PROVE  Hosts(d) = Hosts(e)
  <1>1. Hosts(d) = [i \in 1..1 |-> a.host]
    BY DEF Hosts
  <1>2. Hosts(e) = [i \in 1..1 |-> b.host]
    BY DEF Hosts
  <1> QED
    BY ZenonT(30), <1>1, <1>2

\* Databases with the same hosts, and no master.
LEMMA SameHosts ==
    ASSUME NEW d, NEW s, NEW ns, NEW right, right = DatabaseOf(s, ns), d.type = right.type,
           PortsFollowHosts(s) => d.hosts = right.hosts, d.master = right.master
    PROVE  Serves(d, s, ns)
  <1>1. d.hosts = right.hosts => Hosts(d) = Hosts(right)
    BY ZenonT(30) DEF Hosts
  <1> QED
    BY ZenonT(30), <1>1 DEF Serves

\* The handler of a Redis cluster.
LEMMA ClusterAsConfigured ==
    ASSUME NEW s, IsSource(s), NEW db, DatabaseShape(db, s), NEW ns \in Namespaces,
           db.type = "redis-cluster"
    PROVE  Serves(dispatcher(discovery(db, 0)), s, ns)
  <1>1. /\ JsonDatabase(s).type = "redis-cluster" /\ ~Sharded(s) /\ ~Watched(s)
        /\ db.type \notin Sentinel
    BY DEF DatabaseShape, TypeShape, SdlCluster, Sentinel
  <1> DEFINE hosts == IF db.addresses = <<>> THEN DefaultServerAddresses ELSE db.addresses
             configured == [i \in DOMAIN Servers(s) |-> Address(s, i)]
             right == DatabaseOf(s, ns)
  <1>2. discovery(db, 0) = [type |-> "CLUSTER", hosts |-> hosts, master |-> <<>>]
    BY <1>1 DEF discovery
  <1> HIDE DEF hosts
  <1>3. dispatcher(discovery(db, 0)) = [type |-> "CLUSTER", hosts |-> hosts, master |-> <<>>]
    BY <1>2 DEF dispatcher
  <1>4. SinglePort(s)
    <2>1. s.env.host = Unset
      <3> SUFFICES ASSUME s.env.host # Unset PROVE FALSE
        OBVIOUS
      <3>1. JsonDatabase(s) = [type |-> "none", servers |-> <<>>]
        BY ZenonT(30) DEF JsonDatabase
      <3> QED
        BY <1>1, <3>1
    <2>2. Setting(s, "port") = <<>>
      BY ZenonT(30), <2>1, EnvironmentSettings
    <2>3. Range(<<>>) = {}
      BY DEF Range
    <2> QED
      BY ZenonT(30), <2>2, <2>3 DEF SinglePort
  <1>5. /\ Servers(s) = <<>> <=> db.addresses = <<>>
        /\ DOMAIN Servers(s) = 1..Len(Servers(s))
        /\ db.addresses = [i \in 1..Len(Servers(s)) |-> db.addresses[i]]
        /\ PortsFollowHosts(s) =>
              \A i \in 1..Len(Servers(s)) : db.addresses[i] = Address(s, i)
    BY ZenonT(30), <1>4 DEF DatabaseShape, AddressesShape
  <1>6. CASE Servers(s) # <<>>
    <2>1. right = [type |-> "CLUSTER", hosts |-> configured, master |-> <<>>]
      BY ZenonT(30), <1>1, <1>6 DEF DatabaseOf
    <2>2. hosts = db.addresses
      BY ZenonT(30), <1>5, <1>6 DEF hosts
    <2>3. PortsFollowHosts(s) => hosts = configured
      BY ZenonT(30), <1>5, <2>2
    <2> HIDE DEF configured, right
    <2> QED
      BY <1>3, <2>1, <2>3, SameHosts DEF right
  <1>7. CASE Servers(s) = <<>>
    <2>1. right = [type |-> "CLUSTER", hosts |-> DefaultServerAddresses, master |-> <<>>]
      BY ZenonT(30), <1>1, <1>7 DEF DatabaseOf
    <2>2. hosts = DefaultServerAddresses
      BY ZenonT(30), <1>5, <1>7 DEF hosts
    <2> HIDE DEF right
    <2> QED
      BY <1>3, <2>1, <2>2, SameHosts DEF right
  <1> QED
    BY <1>6, <1>7

\* The handler of a sentinel.
LEMMA SentinelAsConfigured ==
    ASSUME NEW s, NEW db, DatabaseShape(db, s), ~Unserved(db), NEW ns \in Namespaces,
           db.type \in Sentinel, NEW index, Max({1, index}) = Place(s, ns)
    PROVE  Serves(dispatcher(discovery(db, index)), s, ns)
  <1> DEFINE place == Place(s, ns)
             ports == Setting(s, "sentinelPort")
             names == Setting(s, "masterName")
             host == db.addresses[place].host
             port == IF place <= Len(db.sentinelPorts) THEN db.sentinelPorts[place] ELSE "26379"
             master == IF place <= Len(db.masterNames) THEN db.masterNames[place]
                       ELSE <<"dbaasmaster">>
             portOf == Nth(ports, place, <<"26379">>)[1]
             masterOf == Nth(names, place, <<"dbaasmaster">>)
             d == dispatcher(discovery(db, index))
             right == DatabaseOf(s, ns)
  <1>1. Watched(s) /\ db.type # "redis-cluster" /\ SentinelShape(db, s)
    BY DEF DatabaseShape, TypeShape, Sentinel
  <1>2. place \in Nat \ {0} /\ Servers(s) # <<>>
    BY ZenonT(30), <1>1, IndexInRange
  <1>3. right = [type |-> "SENTINEL", hosts |-> <<[host |-> Address(s, place).host,
                                                   port |-> portOf]>>,
                 master |-> masterOf]
    BY ZenonT(30), <1>1 DEF DatabaseOf, Place
  <1>4. discovery(db, index) = [type |-> "SENTINEL", hosts |-> <<[host |-> host, port |-> port]>>,
                                master |-> master]
    BY ZenonT(30), <1>1 DEF discovery, getSentinelAddress, getSentinelMasterName
  <1>5. PortsFollowHosts(s) => host = Address(s, place).host
    BY ZenonT(30), <1>2, AddressAtPlace
  <1> HIDE DEF place
  <1>6. PortsAreNumbers(s) => port = portOf
    <2>1. CASE ports = <<>>
      <3>1. db.sentinelPorts = <<>>
        BY ZenonT(30), <1>1, <2>1 DEF SentinelShape
      <3>2. Len(<<>>) = 0 /\ DOMAIN <<>> = {} /\ <<"26379">>[1] = "26379" /\ ~(place <= 0)
        BY <1>2
      <3> QED
        BY ZenonT(30), <2>1, <3>1, <3>2 DEF Nth
    <2>2. CASE ports # <<>>
      <3>1. ports \in Strings /\ db.sentinelPorts = checkAndApplySentinelPorts(ports)
        BY ZenonT(30), <1>1, <2>2 DEF SentinelShape
      <3> SUFFICES ASSUME PortsAreNumbers(s) PROVE port = portOf
        OBVIOUS
      <3>2. \A i \in 1..Len(ports) : IsNumber(ports[i])
        BY <3>1 DEF PortsAreNumbers, Strings, Range
      <3> HIDE DEF ports
      <3>3. PortsUpTo(db.sentinelPorts, Len(ports), ports)
        BY ZenonT(30), <3>1, <3>2, AllPortsTaken
      <3>4. Len(ports) \in Nat /\ DOMAIN ports = 1..Len(ports)
        BY <3>1 DEF Strings
      <3>5. <<"26379">>[1] = "26379"
        OBVIOUS
      <3> QED
        BY <1>2, <3>3, <3>4, <3>5 DEF PortsUpTo, Nth
    <2> QED
      BY ZenonT(30), <2>1, <2>2
  <1>7. MasterNamed(s) => master = masterOf
    <2>1. CASE ports = <<>>
      <3>1. db.masterNames = <<>> /\ names = <<>>
        BY ZenonT(30), <1>1, <2>1 DEF SentinelShape
      <3>2. Len(<<>>) = 0 /\ DOMAIN <<>> = {} /\ ~(place <= 0)
        BY <1>2
      <3> QED
        BY ZenonT(30), <3>1, <3>2 DEF Nth
    <2>2. CASE ports # <<>>
      <3>1. names \in Strings /\ (names # <<>> => db.masterNames = names)
        BY ZenonT(30), <1>1, <2>2 DEF SentinelShape
      <3>2. MasterNamed(s) => names # <<>>
        BY ZenonT(30), <2>2 DEF MasterNamed
      <3> HIDE DEF names
      <3>3. Len(names) \in Nat /\ DOMAIN names = 1..Len(names)
        BY <3>1 DEF Strings
      <3>4. place \in DOMAIN names <=> place <= Len(names)
        BY <1>2, <3>3
      <3> QED
        BY ZenonT(30), <3>1, <3>2, <3>4 DEF Nth
    <2> QED
      BY ZenonT(30), <2>1, <2>2
  <1> HIDE DEF host, port, master, portOf, masterOf
  <1>8. d = [type |-> "SENTINEL", hosts |-> <<[host |-> host, port |-> port]>>, master |-> master]
    BY <1>4 DEF dispatcher
  <1> HIDE DEF d, right
  <1> DEFINE x == [host |-> host, port |-> port]
             y == [host |-> Address(s, place).host, port |-> portOf]
  <1>9. /\ d.type = right.type /\ d.hosts = <<x>> /\ right.hosts = <<y>>
        /\ d.master = master /\ right.master = masterOf
        /\ x.host = host /\ y.host = Address(s, place).host
    BY <1>3, <1>8
  <1>10. PortsFollowHosts(s) /\ PortsAreNumbers(s) => x = y
    BY ZenonT(30), <1>5, <1>6
  <1> HIDE DEF x, y
  <1>11. PortsFollowHosts(s) => Hosts(d) = Hosts(right)
    BY ZenonT(30), <1>5, <1>9, OneHost
  <1>12. PortsFollowHosts(s) /\ PortsAreNumbers(s) => d.hosts = right.hosts
    BY ZenonT(30), <1>9, <1>10
  <1>13. MasterNamed(s) => d.master = right.master
    BY ZenonT(30), <1>7, <1>9
  <1> QED
    BY ZenonT(30), <1>9, <1>11, <1>12, <1>13 DEF Serves, d, right

\* The handler of a single server.
LEMMA SingleAsConfigured ==
    ASSUME NEW s, NEW db, DatabaseShape(db, s), ~Unserved(db), NEW ns \in Namespaces,
           db.type \notin Sentinel, db.type # "redis-cluster",
           NEW index, index = (IF db.type \in SdlCluster THEN Place(s, ns) ELSE 0)
    PROVE  Serves(dispatcher(discovery(db, index)), s, ns)
  <1> DEFINE place == Place(s, ns)
             configured == IF index = 0 THEN db.addresses ELSE <<db.addresses[index]>>
             hosts == IF configured = <<>> THEN DefaultServerAddresses ELSE configured
             d == dispatcher(discovery(db, index))
             right == DatabaseOf(s, ns)
  <1>1. ~Watched(s) /\ JsonDatabase(s).type # "redis-cluster"
    BY ZenonT(30) DEF DatabaseShape, TypeShape
  <1>2. /\ place \in Nat \ {0} /\ (db.type \notin SdlCluster => place = 1)
        /\ Sharded(s) => Servers(s) # <<>>
        /\ db.addresses = <<>> <=> Servers(s) = <<>>
        /\ db.type \in SdlCluster <=> Sharded(s)
    BY ZenonT(30), IndexInRange DEF DatabaseShape, TypeShape, AddressesShape
  <1>3. d = [type |-> "SINGLE", hosts |-> <<hosts[1]>>, master |-> <<>>]
    <2>1. discovery(db, index) = [type |-> "SINGLE", hosts |-> hosts, master |-> <<>>]
      BY ZenonT(30) DEF discovery
    <2> HIDE DEF hosts
    <2> QED
      BY <2>1 DEF dispatcher
  <1>4. right = [type |-> "SINGLE",
                 hosts |-> IF Servers(s) = <<>> THEN DefaultServerAddresses
                           ELSE <<Address(s, place)>>,
                 master |-> <<>>]
    BY ZenonT(30), <1>1 DEF DatabaseOf, Place
  <1> HIDE DEF place
  <1>5. CASE Servers(s) = <<>>
    <2>1. hosts = DefaultServerAddresses
      BY ZenonT(30), <1>2, <1>5
    <2>2. <<DefaultServerAddresses[1]>> = DefaultServerAddresses
      BY DEF DefaultServerAddresses
    <2> HIDE DEF hosts, d, right
    <2> QED
      BY <1>3, <1>4, <1>5, <2>1, <2>2, SameHosts DEF d, right
  <1>6. CASE Servers(s) # <<>>
    <2>1. <<hosts[1]>> = <<db.addresses[place]>>
      <3>1. CASE db.type \in SdlCluster
        BY <1>2, <3>1 DEF place
      <3>2. CASE db.type \notin SdlCluster
        BY ZenonT(30), <1>2, <1>6, <3>2
      <3> QED
        BY ZenonT(30), <3>1, <3>2
    <2> HIDE DEF hosts, d, right
    <2> DEFINE x == db.addresses[place]
               y == Address(s, place)
    <2>2. /\ PortsFollowHosts(s) => x.host = y.host
          /\ PortsFollowHosts(s) /\ OnePort(s) => x = y
      BY ZenonT(30), <1>1, <1>6, AddressAtPlace DEF place
    <2> HIDE DEF x, y
    <2>3. /\ d.type = right.type /\ d.hosts = <<x>> /\ right.hosts = <<y>>
          /\ d.master = right.master
      BY <1>3, <1>4, <1>6, <2>1 DEF x, y
    <2>4. PortsFollowHosts(s) => Hosts(d) = Hosts(right)
      BY ZenonT(30), <2>2, <2>3, OneHost
    <2> QED
      BY ZenonT(30), <2>2, <2>3, <2>4 DEF Serves, d, right
  <1> QED
    BY ZenonT(30), <1>5, <1>6

\* The handler of a namespace is connected to the database that the source
\* says.  Index 0 is the one of the handlers without a cluster.
LEMMA HandlerAsConfigured ==
    ASSUME NEW s, IsSource(s), NEW db, DatabaseShape(db, s), ~Unserved(db), NEW ns \in Namespaces
    PROVE  Serves(Handler(db, IF db.type \in SdlCluster THEN getHandlerIndex(db, ns)
                              ELSE 0).database, s, ns)
  <1> DEFINE index == IF db.type \in SdlCluster THEN Place(s, ns) ELSE 0
  <1>1. /\ getHandlerIndex(db, ns) = Place(s, ns) /\ Place(s, ns) \in Nat \ {0}
        /\ db.type \notin SdlCluster => Place(s, ns) = 1
    BY ZenonT(30), IndexInRange
  <1>2. Max({1, index}) = Place(s, ns) /\ index = IF db.type \in SdlCluster THEN Place(s, ns) ELSE 0
    BY <1>1, MaxOfOne
  <1>3. Handler(db, index).database = dispatcher(discovery(db, index))
    BY DEF Handler
  <1>4. CASE db.type = "redis-cluster"
    <2>1. index = 0
      BY <1>4 DEF SdlCluster
    <2> HIDE DEF index
    <2>2. Serves(dispatcher(discovery(db, 0)), s, ns)
      BY ZenonT(30), <1>4, ClusterAsConfigured
    <2> QED
      BY ZenonT(30), <2>1, <2>2, <1>1, <1>3 DEF index
  <1> HIDE DEF index
  <1>5. CASE db.type \in Sentinel
    <2>1. Serves(dispatcher(discovery(db, index)), s, ns)
      BY ONLY ZenonT(30), DatabaseShape(db, s), ~Unserved(db), ns \in Namespaces, <1>2, <1>5,
         SentinelAsConfigured
    <2> QED
      BY ZenonT(30), <2>1, <1>1, <1>3 DEF index
  <1>6. CASE db.type # "redis-cluster" /\ db.type \notin Sentinel
    <2>1. Serves(dispatcher(discovery(db, index)), s, ns)
      BY ZenonT(30), <1>2, <1>6, SingleAsConfigured
    <2> QED
      BY ZenonT(30), <2>1, <1>1, <1>3 DEF index
  <1> QED
    BY ZenonT(30), <1>4, <1>5, <1>6

-----------------------------------------------------------------------------
(* The storage objects of a process.                                        *)

\* Sources that a storage object can be created with.
Usable == {s \in Sources : Readable(s) /\ readDatabaseConfiguration(s).type # "Exception"}

\* The databases that some handler can be connected to.
Databases ==
    UNION {LET db == readDatabaseConfiguration(s)
           IN  {Handler(db, i).database : i \in IF Unserved(db) THEN {} ELSE 0..Len(db.addresses)} :
           s \in Usable}

\* What the variables hold.
Handlers == [database : Databases, up : BOOLEAN, readyAck : Nat]
Objects == [live : BOOLEAN, source : Usable,
            list : UNION {readNamespaceConfigurations(s) : s \in Usable},
            db : {readDatabaseConfiguration(s) : s \in Usable},
            handlers : Seq(Handlers)]
Requests == [object : Nat \ {0}, ns : Namespaces, kind : {"waitReady", "operation"},
             target : {<<>>} \cup {<<d>> : d \in Databases},
             status : {"waiting", "sent", "answered", "replaced", "thrown"}]

RoutingType ==
    /\ sources \in Seq(Sources) /\ sources # <<>>
    /\ objects \in Seq(Objects)
    /\ requests \in Seq(Requests)
    /\ posted \in Seq(Seq(Nat)) /\ Len(posted) = Len(objects)
    /\ dummyEngine \in 0..Len(objects)
    /\ serverCount \in Seq(Nat) /\ Len(serverCount) <= 1

\* A request that did not throw.
Served(r) == r \in DOMAIN requests /\ requests[r].status # "thrown"

HandlersFit(db, hs, count) ==
    LET cluster == db.type \in SdlCluster
    IN  /\ \A h \in DOMAIN hs :
              hs[h].database = Handler(db, IF cluster THEN h ELSE 0).database
        /\ hs # <<>> =>
              IF cluster THEN count # <<>> /\ Len(hs) = Min({count[1], Len(db.addresses)})
                         ELSE Len(hs) = 1

\* An object has what its source says.  Its handlers are those of its first
\* servers: as many as the static says and the object has.
ObjectInv(o) ==
    LET x == objects[o]
    IN  /\ x.db = readDatabaseConfiguration(x.source)
        /\ x.list \in readNamespaceConfigurations(x.source)
        /\ HandlersFit(x.db, x.handlers, serverCount)
        /\ \A h \in DOMAIN x.handlers :
              x.handlers[h].readyAck # 0 => Served(x.handlers[h].readyAck)

\* RoutedAsConfigured, of one request: whoever threw did so when the static had
\* been set.
RequestInv(r) ==
    LET q == requests[r]  s == objects[q.object].source
    IN  /\ q.object \in DOMAIN objects
        /\ UsesDatabase(s, q.ns) <=> q.target # <<>> \/ q.status = "thrown"
        /\ q.target # <<>> => Serves(q.target[1], s, q.ns)
        /\ q.status = "thrown" => serverCount # <<>> /\ serverCount # <<Len(Servers(s))>>

\* The tool has an object from its creation to its destruction.
ToolInv ==
    /\ program \in {<<>>} \cup {<<i>> : i \in Invocations}
    /\ program # <<>> /\ step \in {"created", "waitReady", "operate", "opReady", "operation"}
       => objects # <<>>

\* Whatever is posted or kept for an acknowledgement is a request that did not
\* throw, so an answer never hides an exception.
RoutingInv ==
    /\ RoutingType /\ ToolInv
    /\ \A o \in DOMAIN objects :
          ObjectInv(o) /\ \A i \in DOMAIN posted[o] : Served(posted[o][i])
    /\ \A r \in DOMAIN requests : RequestInv(r)

\* What no step changes.
RequestsKept ==
    /\ requests' \in Seq(Requests) /\ Len(requests) <= Len(requests')
    /\ \A r \in DOMAIN requests :
          /\ requests'[r].object = requests[r].object
          /\ requests'[r].ns = requests[r].ns
          /\ requests'[r].target = requests[r].target
          /\ requests'[r].status = "thrown" <=> requests[r].status = "thrown"

CountKept ==
    /\ serverCount' \in Seq(Nat) /\ Len(serverCount') <= 1
    /\ serverCount' = serverCount \/ serverCount = <<>>

Kept ==
    /\ Len(objects) <= Len(objects')
    /\ \A o \in DOMAIN objects : /\ objects'[o].source = objects[o].source
                                 /\ objects'[o].db = objects[o].db
                                 /\ objects'[o].list = objects[o].list
    /\ CountKept /\ RequestsKept

\* Only the handlers of object o are set, to hs.
HandlersSet(o, hs) ==
    /\ objects' \in Seq(Objects) /\ Len(objects') = Len(objects)
    /\ DOMAIN objects' = DOMAIN objects
    /\ \A p \in DOMAIN objects : /\ objects'[p].source = objects[p].source
                                 /\ objects'[p].db = objects[p].db
                                 /\ objects'[p].list = objects[p].list
    /\ objects'[o].handlers = hs
    /\ \A p \in DOMAIN objects : p # o => objects'[p].handlers = objects[p].handlers

\* Request n is new.
Recorded(n, o, ns, target, status) ==
    /\ n = Len(requests) + 1 /\ Len(requests') = n /\ RequestsKept
    /\ requests'[n].object = o /\ requests'[n].ns = ns
    /\ requests'[n].target = target /\ requests'[n].status = status

\* Nothing but the answer of request n is posted.
PostedOnly(n) ==
    /\ posted' \in Seq(Seq(Nat)) /\ Len(posted') = Len(posted)
    /\ \A p \in DOMAIN objects : posted'[p] = posted[p] \/ posted'[p] = Append(posted[p], n)

\* The target is the one of the namespace.
RightTarget(o, ns, target, status) ==
    LET s == objects[o].source
    IN  /\ UsesDatabase(s, ns) <=> target # <<>> \/ status = "thrown"
        /\ target # <<>> => Serves(target[1], s, ns)
        /\ status = "thrown" => serverCount' # <<>> /\ serverCount' # <<Len(Servers(s))>>

\* The handlers that an object gets with request n.
RightHandlers(o, hs, n, status) ==
    /\ HandlersFit(objects[o].db, hs, serverCount')
    /\ \A h \in DOMAIN hs :
          hs[h].readyAck # 0 =>
             Served(hs[h].readyAck) \/ (hs[h].readyAck = n /\ status # "thrown")

\* What was served stays served as it was, and an object whose handlers stay is
\* as good as before.
LEMMA KeptInv ==
    ASSUME RoutingInv, RoutingType', Kept
    PROVE  /\ \A r : Served(r) => Served(r)'
           /\ \A r \in DOMAIN requests : RequestInv(r)'
           /\ \A o \in DOMAIN objects :
                 objects'[o].handlers = objects[o].handlers => ObjectInv(o)'
  <1>1. /\ DOMAIN objects = 1..Len(objects) /\ DOMAIN objects' = 1..Len(objects')
        /\ DOMAIN requests = 1..Len(requests) /\ DOMAIN requests' = 1..Len(requests')
        /\ Len(objects) \in Nat /\ Len(objects') \in Nat
        /\ Len(requests) \in Nat /\ Len(requests') \in Nat
    <2>1. RoutingType /\ RoutingType'
      BY ZenonT(30) DEF RoutingInv
    <2> QED
      BY ONLY SMTT(30), ZenonT(30), <2>1 DEF RoutingType
  <1>2. ASSUME NEW r, Served(r) PROVE Served(r)'
    BY <1>1, <1>2 DEF Served, Kept, RequestsKept
  <1>3. ASSUME NEW r \in DOMAIN requests PROVE RequestInv(r)'
    <2>1. RequestInv(r)
      BY DEF RoutingInv
    <2>2. requests'[r].object \in DOMAIN objects /\ requests'[r].object \in DOMAIN objects'
      BY <1>1, <2>1 DEF Kept, RequestsKept, RequestInv
    <2>3. objects'[requests'[r].object].source = objects[requests[r].object].source
      BY <2>2 DEF Kept, RequestsKept
    <2>4. serverCount # <<>> => serverCount' = serverCount
      BY DEF Kept, CountKept
    <2> QED
      BY <2>1, <2>2, <2>3, <2>4 DEF Kept, RequestsKept, RequestInv
  <1>4. ASSUME NEW o \in DOMAIN objects, objects'[o].handlers = objects[o].handlers
        PROVE  ObjectInv(o)'
    <2>1. ObjectInv(o)
      BY DEF RoutingInv
    <2>2. serverCount # <<>> => serverCount' = serverCount
      BY DEF Kept, CountKept
    <2>3. /\ objects'[o].source = objects[o].source /\ objects'[o].db = objects[o].db
          /\ objects'[o].list = objects[o].list
      BY DEF Kept
    <2>4. HandlersFit(objects[o].db, objects[o].handlers, serverCount')
      BY ZenonT(30), <2>1, <2>2 DEF ObjectInv, HandlersFit
    <2> QED
      BY ZenonT(30), <1>2, <1>4, <2>1, <2>3, <2>4 DEF ObjectInv
  <1> QED
    BY <1>2, <1>3, <1>4

\* Replacing the handlers of an object keeps its configuration.
LEMMA WithHandlers ==
    ASSUME NEW x \in Objects, NEW hs \in Seq(Handlers), NEW live \in BOOLEAN
    PROVE  LET y == [x EXCEPT !.handlers = hs]
               z == [x EXCEPT !.live = live, !.handlers = hs]
           IN  /\ y \in Objects /\ y.source = x.source /\ y.db = x.db /\ y.list = x.list
               /\ y.handlers = hs
               /\ z \in Objects /\ z.source = x.source /\ z.db = x.db /\ z.list = x.list
               /\ z.handlers = hs
  BY ZenonT(30) DEF Objects

\* The shape of an object's database.
LEMMA ObjectShape ==
    ASSUME RoutingInv, NEW o \in DOMAIN objects
    PROVE  /\ objects[o] \in Objects /\ objects[o].source \in Usable
           /\ IsSource(objects[o].source)
           /\ objects[o].handlers \in Seq(Handlers)
           /\ DatabaseShape(objects[o].db, objects[o].source)
           /\ objects[o].db = readDatabaseConfiguration(objects[o].source)
           /\ objects[o].list \in readNamespaceConfigurations(objects[o].source)
  <1>1. objects[o] \in Objects
    BY DEF RoutingInv, RoutingType
  <1>2. objects[o].source \in Usable /\ objects[o].handlers \in Seq(Handlers)
    BY <1>1 DEF Objects
  <1>3. ObjectInv(o)
    BY DEF RoutingInv
  <1>4. /\ IsSource(objects[o].source) /\ Readable(objects[o].source)
        /\ readDatabaseConfiguration(objects[o].source).type # "Exception"
    BY <1>2, SourcesTyped DEF Usable
  <1> QED
    BY <1>1, <1>2, <1>3, <1>4, ReadShape DEF ObjectInv

\* The handlers that an object has after a request, the static, and whether
\* at() throws.
First(o) == objects[o].handlers = <<>>
HandlersOf(o) == IF First(o) THEN setAsyncRedisStorageHandlers(objects[o].db)
                             ELSE objects[o].handlers
CountOf(o) == IF First(o) THEN ServerCount(objects[o].db) ELSE serverCount
ThrowsAt(o, ns) ==
    \/ /\ First(o) /\ objects[o].db.type \in SdlCluster
       /\ Len(HandlersOf(o)) < ServerCount(objects[o].db)[1]
    \/ getHandlerIndex(objects[o].db, ns) > Len(HandlersOf(o))

\* The static is set once.
LEMMA CountShape ==
    ASSUME RoutingInv, NEW o \in DOMAIN objects
    PROVE  /\ serverCount' = CountOf(o) => CountKept
           /\ First(o) /\ objects[o].db.type \in SdlCluster =>
                 CountOf(o) # <<>> /\ CountOf(o)[1] \in Nat /\ CountOf(o) = <<CountOf(o)[1]>>
  <1>1. Len(objects[o].db.addresses) \in Nat
    BY ObjectShape DEF DatabaseShape, AddressesShape
  <1>2. serverCount \in Seq(Nat) /\ Len(serverCount) <= 1
    BY DEF RoutingInv, RoutingType
  <1> DEFINE n == Len(objects[o].db.addresses)
  <1>3. <<n>> \in Seq(Nat) /\ Len(<<n>>) = 1 /\ <<n>> # <<>> /\ <<n>>[1] = n
    BY <1>1
  <1>4. serverCount # <<>> => serverCount[1] \in Nat /\ serverCount = <<serverCount[1]>>
    <2>1. ASSUME NEW c \in Seq(Nat), Len(c) <= 1, c # <<>>
          PROVE  c[1] \in Nat /\ c = <<c[1]>>
      <3>1. Len(c) = 1
        <4>1. Len(c) \in Nat /\ Len(c) # 0 /\ Len(c) <= 1
          BY <2>1
        <4>2. \A k \in Nat : k # 0 /\ k <= 1 => k = 1
          OBVIOUS
        <4> QED
          BY ZenonT(30), <4>1, <4>2
      <3>2. c[1] \in Nat /\ DOMAIN c = 1..1
        BY <3>1
      <3>3. c \in Seq(Nat) /\ <<c[1]>> \in Seq(Nat) /\ Len(<<c[1]>>) = 1 /\ <<c[1]>>[1] = c[1]
        BY <3>2
      <3> QED
        BY <3>1, <3>2, <3>3
    <2> QED
      BY <1>2, <2>1
  <1>5. CASE First(o) /\ objects[o].db.type \in SdlCluster /\ serverCount = <<>>
    <2>1. CountOf(o) = <<n>>
      BY <1>5 DEF CountOf, ServerCount
    <2>2. PICK c : c = <<n>>
      BY ZenonT(30)
    <2>3. c \in Seq(Nat) /\ Len(c) = 1 /\ c # <<>> /\ c[1] \in Nat /\ c = <<c[1]>>
      BY ZenonT(30), <1>1, <1>3, <2>2
    <2>4. serverCount' = c => CountKept
      <3>1. Len(c) <= 1
        BY <2>3
      <3> QED
        BY ZenonT(30), <1>5, <2>3, <3>1 DEF CountKept
    <2> QED
      BY ZenonT(30), <2>1, <2>2, <2>3, <2>4
  <1>6. CASE ~(First(o) /\ objects[o].db.type \in SdlCluster /\ serverCount = <<>>)
    <2>1. CountOf(o) = serverCount
      BY ZenonT(30), <1>6 DEF CountOf, ServerCount
    <2> QED
      BY <1>2, <1>4, <1>6, <2>1 DEF CountKept
  <1> QED
    BY <1>5, <1>6

\* A cluster without servers, in a process whose first one had some: the first
\* at() throws, for every request.
LEMMA NoHandlers ==
    ASSUME RoutingInv, NEW o \in DOMAIN objects, ~Fatal(objects[o].db), Unserved(objects[o].db),
           NEW ns \in Namespaces
    PROVE  /\ HandlersOf(o) = <<>> /\ ThrowsAt(o, ns)
           /\ CountOf(o) # <<>> /\ CountOf(o) # <<Len(objects[o].db.addresses)>>
  <1> DEFINE db == objects[o].db
             count == CountOf(o)
  <1>1. db.addresses = <<>> /\ Len(db.addresses) = 0
    BY DEF Unserved
  <1>2. db.type \in SdlCluster
    BY <1>1 DEF Unserved, Fatal, Sentinel, SdlCluster
  <1>3. First(o)
    <2> SUFFICES ASSUME ~First(o) PROVE FALSE
      OBVIOUS
    <2>1. /\ objects[o].handlers \in Seq(Handlers) /\ objects[o].handlers # <<>>
          /\ HandlersFit(db, objects[o].handlers, serverCount)
      BY ZenonT(30), ObjectShape DEF First, RoutingInv, ObjectInv
    <2>2. /\ serverCount # <<>> /\ serverCount \in Seq(Nat)
          /\ Len(objects[o].handlers) = Min({serverCount[1], 0})
      BY ZenonT(30), <1>1, <1>2, <2>1 DEF HandlersFit, RoutingInv, RoutingType
    <2>3. serverCount[1] \in Nat
      BY <2>2
    <2>4. Min({serverCount[1], 0}) = 0
      BY <2>3, MinOfTwo
    <2> QED
      BY <2>1, <2>2, <2>4
  <1>4. count = ServerCount(db) /\ count # <<>> /\ count[1] \in Nat
    BY ZenonT(30), <1>2, <1>3, CountShape DEF CountOf
  <1>5. count[1] # 0
    BY ZenonT(30), <1>1, <1>2, <1>4 DEF Fatal
  <1>6. HandlersOf(o) = [i \in 1..Min({count[1], 0}) |-> Handler(db, i)]
    BY ZenonT(30), <1>1, <1>2, <1>3, <1>4 DEF HandlersOf, setAsyncRedisStorageHandlers
  <1> HIDE DEF count, db
  <1>7. Min({count[1], 0}) = 0
    BY <1>4, MinOfTwo
  <1>8. HandlersOf(o) = <<>> /\ Len(HandlersOf(o)) = 0
    <2>1. HandlersOf(o) = [i \in 1..0 |-> Handler(db, i)]
      BY ZenonT(30), <1>6, <1>7
    <2>2. ASSUME NEW f, f = [i \in 1..0 |-> Handler(db, i)] PROVE f = <<>> /\ Len(f) = 0
      <3>1. 1..0 = {} /\ <<>> = [i \in {} |-> Handler(db, i)]
        OBVIOUS
      <3> QED
        BY ONLY SMTT(30), <2>2, <3>1
    <2> QED
      BY ZenonT(30), <2>1, <2>2
  <1>9. count # <<0>>
    BY <1>5
  <1>10. Len(HandlersOf(o)) < ServerCount(db)[1]
    BY <1>4, <1>5, <1>8
  <1> QED
    BY ZenonT(30), <1>1, <1>2, <1>3, <1>4, <1>8, <1>9, <1>10 DEF ThrowsAt, count, db

\* The handlers of an object are those of its first servers, as many as the
\* static says and the object has; a request throws only if these differ.
LEMMA HandlersMade ==
    ASSUME RoutingInv, NEW o \in DOMAIN objects, ~Fatal(objects[o].db), NEW ns \in Namespaces
    PROVE  LET db == objects[o].db
               hs == HandlersOf(o)
               count == CountOf(o)
           IN  /\ hs \in Seq(Handlers) /\ HandlersFit(db, hs, count)
               /\ \A h \in DOMAIN hs : hs[h].readyAck # 0 => Served(hs[h].readyAck)
               /\ ThrowsAt(o, ns) => count # <<>> /\ count # <<Len(db.addresses)>>
               /\ ~ThrowsAt(o, ns) => ~Unserved(db) /\ getHandlerIndex(db, ns) \in DOMAIN hs
  <1>0. CASE Unserved(objects[o].db)
    <2>1. /\ HandlersOf(o) = <<>> /\ ThrowsAt(o, ns)
          /\ CountOf(o) # <<>> /\ CountOf(o) # <<Len(objects[o].db.addresses)>>
      BY ZenonT(30), <1>0, NoHandlers
    <2> QED
      BY <2>1 DEF HandlersFit
  <1> SUFFICES ASSUME ~Unserved(objects[o].db)
               PROVE  LET db == objects[o].db
                          hs == HandlersOf(o)
                          count == CountOf(o)
                      IN  /\ hs \in Seq(Handlers) /\ HandlersFit(db, hs, count)
                          /\ \A h \in DOMAIN hs : hs[h].readyAck # 0 => Served(hs[h].readyAck)
                          /\ ThrowsAt(o, ns) => count # <<>> /\ count # <<Len(db.addresses)>>
                          /\ ~ThrowsAt(o, ns) => getHandlerIndex(db, ns) \in DOMAIN hs
    BY ZenonT(30), <1>0
  <1> DEFINE db == objects[o].db
             cluster == db.type \in SdlCluster
             hs == HandlersOf(o)
             count == CountOf(o)
             n == Len(db.addresses)
             place == getHandlerIndex(db, ns)
  <1>1. /\ n \in Nat /\ db = readDatabaseConfiguration(objects[o].source)
        /\ DatabaseShape(db, objects[o].source) /\ objects[o].source \in Usable
    BY ZenonT(30), ObjectShape DEF DatabaseShape, AddressesShape
  <1>2. place \in Nat \ {0} /\ (cluster => place <= n) /\ (~cluster => place = 1)
    <2> DEFINE s == objects[o].source
    <2>1. /\ place = Place(s, ns) /\ Place(s, ns) \in Nat \ {0}
          /\ Servers(s) # <<>> => Place(s, ns) \in 1..Len(Servers(s))
          /\ ~cluster => Place(s, ns) = 1
      BY ZenonT(30), <1>1, IndexInRange
    <2>2. n = Len(Servers(s)) /\ n \in Nat /\ (cluster => Servers(s) # <<>>)
      BY ZenonT(30), <1>1 DEF DatabaseShape, AddressesShape, Unserved
    <2> QED
      BY ONLY SMTT(30), <2>1, <2>2
  <1>3. \A i \in 0..n : Handler(db, i) \in Handlers /\ Handler(db, i).readyAck = 0
    <2>1. \A i \in 0..n : Handler(db, i).database \in Databases
      BY <1>1 DEF Databases
    <2> QED
      BY <2>1 DEF Handler, Handlers
  <1>4. CASE ~First(o)
    <2>1. hs = objects[o].handlers /\ count = serverCount /\ hs # <<>>
      BY ZenonT(30), <1>4 DEF HandlersOf, CountOf, First
    <2>2. ObjectInv(o) /\ hs \in Seq(Handlers)
      BY ZenonT(30), <2>1, ObjectShape DEF RoutingInv
    <2>3. ThrowsAt(o, ns) <=> place > Len(hs)
      BY ZenonT(30), <1>4 DEF ThrowsAt
    <2>4. cluster => count # <<>> /\ Len(hs) = Min({count[1], n}) /\ count[1] \in Nat
      BY <2>1, <2>2 DEF ObjectInv, HandlersFit, RoutingInv, RoutingType
    <2>5. ~cluster => Len(hs) = 1
      BY <2>1, <2>2 DEF ObjectInv, HandlersFit
    <2>6. cluster /\ Min({count[1], n}) < n => count # <<n>>
      BY <1>1, <2>4, MinOfTwo
    <2> HIDE DEF n, place
    <2>7. ThrowsAt(o, ns) => count # <<>> /\ count # <<n>>
      BY <1>1, <1>2, <2>2, <2>3, <2>4, <2>5, <2>6
    <2>8. ~ThrowsAt(o, ns) => place \in DOMAIN hs
      BY <1>2, <2>2, <2>3
    <2> QED
      BY <2>1, <2>2, <2>4, <2>5, <2>7, <2>8 DEF ObjectInv, n, place
  <1>5. CASE First(o) /\ cluster
    <2>1. count = ServerCount(db) /\ count[1] \in Nat /\ count = <<count[1]>> /\ count # <<>>
      BY ZenonT(30), <1>5, CountShape DEF CountOf
    <2> DEFINE m == Min({count[1], n})
    <2>2. m = IF count[1] <= n THEN count[1] ELSE n
      BY <1>1, <2>1, MinOfTwo
    <2>3. hs = [i \in 1..m |-> Handler(db, i)]
      BY <1>5, <2>1 DEF HandlersOf, setAsyncRedisStorageHandlers
    <2> HIDE DEF hs, m, n, count, place, cluster, db
    <2>4. m \in Nat /\ m <= n /\ 1..m \subseteq 0..n
      BY <1>1, <2>1, <2>2
    <2>5. hs \in Seq(Handlers) /\ Len(hs) = m /\ DOMAIN hs = 1..m
      BY <1>3, <2>3, <2>4
    <2>6. \A h \in DOMAIN hs : hs[h] = Handler(db, h) /\ hs[h].readyAck = 0
      BY <1>3, <2>3, <2>4, <2>5
    <2>7. ThrowsAt(o, ns) <=> m < count[1] \/ place > m
      BY <1>5, <2>1, <2>5 DEF ThrowsAt, hs, place, db, cluster
    <2>8. ThrowsAt(o, ns) => count # <<n>>
      <3>1. count = <<n>> => count[1] = n
        BY <1>1
      <3> QED
        BY <1>1, <1>2, <1>5, <2>1, <2>2, <2>4, <2>7, <3>1
    <2>9. ~ThrowsAt(o, ns) => place \in DOMAIN hs
      BY <1>2, <2>4, <2>5, <2>7
    <2> QED
      BY ZenonT(30), <1>5, <2>1, <2>5, <2>6, <2>8, <2>9
         DEF hs, count, n, place, cluster, db, m, HandlersFit
  <1>6. CASE First(o) /\ ~cluster
    <2>1. hs = <<Handler(db, 0)>>
      BY <1>6 DEF HandlersOf, setAsyncRedisStorageHandlers
    <2>2. Handler(db, 0) \in Handlers /\ Handler(db, 0).readyAck = 0
      BY <1>1, <1>3
    <2>3. hs \in Seq(Handlers) /\ Len(hs) = 1 /\ DOMAIN hs = 1..1 /\ hs[1] = Handler(db, 0)
      BY <2>1, <2>2
    <2>4. ~ThrowsAt(o, ns) /\ place \in DOMAIN hs
      BY <1>2, <1>6, <2>3 DEF ThrowsAt
    <2> QED
      BY <1>6, <2>2, <2>3, <2>4 DEF HandlersFit
  <1> QED
    BY ZenonT(30), <1>4, <1>5, <1>6

\* The object that a request is made of, once it has handlers.
LEMMA ObjectsWith ==
    ASSUME RoutingInv, NEW o \in DOMAIN objects, NEW hs \in Seq(Handlers),
           objects' = [objects EXCEPT ![o].handlers = hs]
    PROVE  HandlersSet(o, hs)
  <1>1. objects[o] \in Objects /\ objects \in Seq(Objects)
    BY DEF RoutingInv, RoutingType
  <1> DEFINE y == [objects[o] EXCEPT !.handlers = hs]
  <1>2. /\ y \in Objects /\ y.source = objects[o].source /\ y.db = objects[o].db
        /\ y.list = objects[o].list /\ y.handlers = hs
    BY ZenonT(30), <1>1, WithHandlers
  <1>3. objects' = [objects EXCEPT ![o] = y]
    OBVIOUS
  <1> HIDE DEF y
  <1>4. /\ DOMAIN objects' = DOMAIN objects /\ objects'[o] = y
        /\ \A p \in DOMAIN objects : p # o => objects'[p] = objects[p]
    BY <1>3
  <1>5. objects' \in Seq(Objects) /\ Len(objects') = Len(objects)
    BY <1>1, <1>2, <1>3
  <1> QED
    BY <1>2, <1>4, <1>5 DEF HandlersSet

\* The history with one more request, in which the one that kept stands for may
\* be replaced.
Replacing(all, kept) ==
    IF kept # 0 /\ requests[kept].status = "waiting"
    THEN [all EXCEPT ![kept].status = "replaced"] ELSE all

\* The history after a request.
LEMMA NewRecord ==
    ASSUME RoutingInv, NEW o \in DOMAIN objects, NEW ns \in Namespaces,
           NEW kind \in {"waitReady", "operation"},
           NEW target \in {<<>>} \cup {<<d>> : d \in Databases},
           NEW status \in {"waiting", "sent", "thrown"}, NEW kept, kept # 0 => Served(kept),
           requests' = Replacing(Record(o, ns, kind, target, status), kept),
           NEW n, n = Len(requests) + 1
    PROVE  Recorded(n, o, ns, target, status)
  <1> DEFINE q == [object |-> o, ns |-> ns, kind |-> kind, target |-> target, status |-> status]
             all == Record(o, ns, kind, target, status)
  <1>1. o \in Nat \ {0}
    <2>1. RoutingType
      BY ZenonT(30) DEF RoutingInv
    <2> QED
      BY ONLY SMTT(30), ZenonT(30), o \in DOMAIN objects, <2>1 DEF RoutingType
  <1>2. q \in Requests /\ q.object = o /\ q.ns = ns /\ q.target = target /\ q.status = status
    BY ZenonT(30), <1>1 DEF Requests
  <1>3. all = Append(requests, q) /\ requests \in Seq(Requests)
    BY DEF Record, RoutingInv, RoutingType
  <1> HIDE DEF q, all
  <1>4. /\ all \in Seq(Requests) /\ Len(all) = n /\ n \in DOMAIN all /\ all[n] = q
        /\ Len(requests) <= Len(all) /\ n \notin DOMAIN requests
        /\ \A r \in DOMAIN requests : r \in DOMAIN all /\ all[r] = requests[r]
    BY <1>2, <1>3
  <1>5. CASE kept # 0 /\ requests[kept].status = "waiting"
    <2> DEFINE y == [all[kept] EXCEPT !.status = "replaced"]
    <2>1. kept \in DOMAIN requests /\ kept \in DOMAIN all /\ all[kept] = requests[kept]
      BY <1>4, <1>5 DEF Served
    <2>2. requests' = [all EXCEPT ![kept] = y]
      BY <1>5 DEF all, Replacing
    <2>3. all[kept] \in Requests
      BY <1>4, <2>1
    <2>4. /\ y \in Requests /\ y.object = all[kept].object /\ y.ns = all[kept].ns
          /\ y.target = all[kept].target /\ y.status = "replaced"
      BY <2>3 DEF Requests
    <2> HIDE DEF y
    <2>5. /\ requests'[kept] = y
          /\ \A r \in DOMAIN all : r # kept => requests'[r] = all[r]
      BY <2>1, <2>2
    <2>6. requests' \in Seq(Requests) /\ Len(requests') = Len(all)
      <3>1. all \in Seq(Requests) /\ kept \in DOMAIN all /\ y \in Requests
        BY ZenonT(30), <1>4, <2>1, <2>4
      <3> QED
        BY <2>2, <3>1
    <2>7. ASSUME NEW r \in DOMAIN requests
          PROVE  /\ requests'[r].object = requests[r].object
                 /\ requests'[r].ns = requests[r].ns
                 /\ requests'[r].target = requests[r].target
                 /\ requests'[r].status = "thrown" <=> requests[r].status = "thrown"
      <3>1. CASE r = kept
        BY <1>5, <2>1, <2>4, <2>5, <3>1
      <3>2. CASE r # kept
        BY <1>4, <2>5, <3>2
      <3> QED
        BY <3>1, <3>2
    <2>8. requests'[n] = q
      BY <1>4, <2>1, <2>5
    <2> QED
      BY <1>2, <1>4, <2>6, <2>7, <2>8 DEF Recorded, RequestsKept
  <1>6. CASE ~(kept # 0 /\ requests[kept].status = "waiting")
    <2>1. requests' = all
      BY Zenon, <1>6 DEF all, Replacing
    <2> QED
      BY <1>2, <1>4, <2>1 DEF Recorded, RequestsKept
  <1> QED
    BY <1>5, <1>6

\* A new request, beside which nothing is served otherwise than before.
LEMMA NewRequest ==
    ASSUME RoutingInv, ToolInv', NEW o \in DOMAIN objects, NEW ns, NEW n, NEW target, NEW status,
           NEW hs, Recorded(n, o, ns, target, status), HandlersSet(o, hs), PostedOnly(n),
           posted' = posted \/ status # "thrown", CountKept, sources' = sources,
           dummyEngine' \in 0..Len(objects), RightTarget(o, ns, target, status),
           RightHandlers(o, hs, n, status)
    PROVE  RoutingInv'
  <1>1. /\ DOMAIN requests = 1..Len(requests) /\ Len(requests) \in Nat
        /\ DOMAIN posted = DOMAIN objects /\ posted \in Seq(Seq(Nat))
        /\ sources \in Seq(Sources) /\ sources # <<>> /\ Len(posted) = Len(objects)
        /\ Len(objects) \in Nat
    <2>1. RoutingType
      BY Zenon DEF RoutingInv
    <2> QED
      BY ONLY SMTT(30), ZenonT(30), <2>1 DEF RoutingType
  <1>2. /\ DOMAIN requests' = 1..n /\ n \in DOMAIN requests' /\ requests' \in Seq(Requests)
        /\ n = Len(requests) + 1
    <2>1. n = Len(requests) + 1 /\ Len(requests') = n /\ requests' \in Seq(Requests)
      BY Zenon DEF Recorded, RequestsKept
    <2> QED
      BY ONLY SMTT(30), ZenonT(30), <1>1, <2>1
  <1>3. RoutingType'
    BY ZenonT(30), <1>1, <1>2 DEF HandlersSet, PostedOnly, CountKept, RoutingType
  <1>4. Kept
    BY <1>1, <1>2 DEF Kept, HandlersSet, Recorded
  <1>5. status # "thrown" => Served(n)'
    BY Zenon, <1>2 DEF Served, Recorded
  <1>6. RequestInv(n)'
    <2>1. /\ requests'[n].object = o /\ requests'[n].ns = ns
          /\ requests'[n].target = target /\ requests'[n].status = status
      BY DEF Recorded
    <2>2. o \in DOMAIN objects' /\ objects'[o].source = objects[o].source
      BY DEF HandlersSet
    <2> QED
      BY <2>1, <2>2 DEF RightTarget, RequestInv
  <1>7. \A r \in DOMAIN requests' : RequestInv(r)'
    <2>1. \A r \in DOMAIN requests' : r \in DOMAIN requests \/ r = n
      BY <1>1, <1>2
    <2> QED
      BY <1>3, <1>4, <1>6, <2>1, KeptInv
  <1>8. ObjectInv(o)'
    <2>1. /\ objects'[o].source = objects[o].source /\ objects'[o].db = objects[o].db
          /\ objects'[o].list = objects[o].list /\ objects'[o].handlers = hs
      BY DEF HandlersSet
    <2>2. ASSUME NEW h \in DOMAIN hs, hs[h].readyAck # 0
          PROVE  Served(objects[o].handlers[h].readyAck)'
      <3>1. PICK r : r = hs[h].readyAck
        BY Zenon
      <3>2. Served(r)'
        BY <1>3, <1>4, <1>5, <2>2, <3>1, KeptInv DEF RightHandlers
      <3> QED
        BY <2>1, <3>1, <3>2 DEF Served
    <2>3. /\ objects[o].db = readDatabaseConfiguration(objects[o].source)
          /\ objects[o].list \in readNamespaceConfigurations(objects[o].source)
      BY Zenon, ObjectShape
    <2> QED
      BY Zenon, <2>1, <2>2, <2>3 DEF ObjectInv, RightHandlers
  <1>9. \A p \in DOMAIN objects' : ObjectInv(p)'
    BY Zenon, <1>3, <1>4, <1>8, KeptInv DEF HandlersSet
  <1>10. ASSUME NEW p \in DOMAIN objects, NEW i \in DOMAIN posted'[p]
         PROVE  Served(posted[p][i])'
    <2>1. posted[p] \in Seq(Nat) /\ n \in Nat
      BY <1>1, <1>2
    <2>2. PICK r : r = posted'[p][i]
      BY Zenon
    <2>3. \/ \E j \in DOMAIN posted[p] : r = posted[p][j]
          \/ r = n /\ status # "thrown"
      <3>1. CASE posted'[p] = posted[p]
        BY <2>2, <3>1
      <3>2. CASE posted'[p] = Append(posted[p], n) /\ status # "thrown"
        BY <2>1, <2>2, <3>2
      <3> QED
        BY ZenonT(30), <3>1, <3>2 DEF PostedOnly
    <2>4. Served(r)'
      BY ZenonT(30), <1>3, <1>4, <1>5, <2>3, KeptInv DEF RoutingInv
    <2> QED
      BY <2>2, <2>4 DEF Served
  <1> QED
    BY ZenonT(30), <1>3, <1>7, <1>9, <1>10 DEF RoutingInv, HandlersSet

\* What a request posts.
LEMMA PostingOne ==
    ASSUME RoutingInv, NEW o \in DOMAIN objects, NEW n, n = Len(requests) + 1,
           posted' = posted \/ posted' = [posted EXCEPT ![o] = Append(@, n)]
    PROVE  PostedOnly(n)
  <1>1. posted \in Seq(Seq(Nat)) /\ DOMAIN posted = DOMAIN objects /\ n \in Nat
    BY DEF RoutingInv, RoutingType
  <1>2. CASE posted' = posted
    BY <1>1, <1>2 DEF PostedOnly
  <1>3. CASE posted' = [posted EXCEPT ![o] = Append(@, n)]
    <2>1. Append(posted[o], n) \in Seq(Nat)
      BY <1>1
    <2>2. posted' \in Seq(Seq(Nat)) /\ Len(posted') = Len(posted)
      BY <1>1, <1>3, <2>1
    <2> QED
      BY <1>1, <1>3, <2>2 DEF PostedOnly
  <1> QED
    BY <1>2, <1>3

\* The lookup decides between the storages as the files say.
LEMMA Uses ==
    ASSUME RoutingInv, NEW o \in DOMAIN objects, NEW ns \in Namespaces
    PROVE  UsesDatabase(objects[o].source, ns) <=> isDbBackendUseEnabled(o, ns)
  <1>1. /\ IsSource(objects[o].source) /\ Readable(objects[o].source)
        /\ objects[o].list \in readNamespaceConfigurations(objects[o].source)
    BY ObjectShape DEF Usable
  <1> QED
    BY <1>1, BackendAsConfigured, ChecksumsNat DEF isDbBackendUseEnabled

\* A request of a namespace that does not use the database.
LEMMA DummyStep ==
    ASSUME RoutingInv, ToolInv', NEW o \in DOMAIN objects, NEW ns \in Namespaces,
           NEW kind \in {"waitReady", "operation"},
           ~isDbBackendUseEnabled(o, ns), getDummyHandler(o, ns, kind)
    PROVE  RoutingInv'
  <1>1. PICK n : n = Len(requests) + 1
    OBVIOUS
  <1>2. /\ UNCHANGED <<sources, process, objects, serverCount>>
        /\ dummyEngine' = IF dummyEngine = 0 THEN o ELSE dummyEngine
        /\ posted' = [posted EXCEPT ![dummyEngine'] = Append(@, n)]
        /\ requests' = Record(o, ns, kind, <<>>, "waiting")
    BY <1>1 DEF getDummyHandler
  <1>3. Recorded(n, o, ns, <<>>, "waiting")
    BY ZenonT(30), <1>1, <1>2, NewRecord DEF Replacing
  <1>4. dummyEngine' \in DOMAIN objects /\ dummyEngine' \in 0..Len(objects)
    BY <1>2 DEF RoutingInv, RoutingType
  <1>5. PostedOnly(n)
    BY ZenonT(30), <1>1, <1>2, <1>4, PostingOne
  <1>6. CountKept /\ HandlersSet(o, objects[o].handlers)
    BY <1>2 DEF CountKept, HandlersSet, RoutingInv, RoutingType
  <1>7. RightTarget(o, ns, <<>>, "waiting")
    BY ZenonT(30), Uses DEF RightTarget
  <1>8. RightHandlers(o, objects[o].handlers, n, "waiting")
    BY ZenonT(30), <1>2 DEF RightHandlers, RoutingInv, ObjectInv
  <1> QED
    BY <1>2, <1>3, <1>4, <1>5, <1>6, <1>7, <1>8, NewRequest

\* getRedisHandler, in these terms.
LEMMA RedisCases ==
    ASSUME NEW o, NEW ns, NEW kind, getRedisHandler(o, ns, kind)
    PROVE  LET hs == HandlersOf(o)
               h == getHandlerIndex(objects[o].db, ns)
           IN  /\ serverCount' = CountOf(o) /\ UNCHANGED <<sources, dummyEngine>>
               /\ \/ Fatal(objects[o].db) /\ UNCHANGED <<objects, posted, requests>>
                  \/ /\ ~Fatal(objects[o].db) /\ ThrowsAt(o, ns)
                     /\ objects' = [objects EXCEPT ![o].handlers = hs]
                     /\ requests' = Record(o, ns, kind, <<>>, "thrown")
                     /\ UNCHANGED posted
                  \/ /\ ~Fatal(objects[o].db) /\ ~ThrowsAt(o, ns)
                     /\ waitReadyAsync(o, ns, hs, h) \/ operationAsync(o, ns, hs, h)
  BY DEF getRedisHandler, HandlersOf, First, CountOf, ThrowsAt

\* The request of a namespace that uses the database, for an object whose
\* configuration is not fatal.
RedisRequest(o, ns) ==
    /\ isDbBackendUseEnabled(o, ns) /\ ~Fatal(objects[o].db)
    /\ serverCount' = CountOf(o) /\ UNCHANGED <<sources, dummyEngine>>

\* What all such requests have in common.
LEMMA RedisStep ==
    ASSUME RoutingInv, ToolInv', NEW o \in DOMAIN objects, NEW ns \in Namespaces,
           RedisRequest(o, ns), NEW n, NEW target, NEW status, NEW hs,
           Recorded(n, o, ns, target, status), HandlersSet(o, hs), PostedOnly(n),
           posted' = posted \/ status # "thrown",
           RightTarget(o, ns, target, status), RightHandlers(o, hs, n, status)
    PROVE  RoutingInv'
  <1>1. CountKept
    BY Zenon, CountShape DEF RedisRequest
  <1>2. sources' = sources /\ dummyEngine' \in 0..Len(objects)
    BY Zenon DEF RedisRequest, RoutingInv, RoutingType
  <1> QED
    BY <1>1, <1>2, NewRequest

\* A request that throws.
LEMMA ThrowingStep ==
    ASSUME RoutingInv, ToolInv', NEW o \in DOMAIN objects, NEW ns \in Namespaces,
           NEW kind \in {"waitReady", "operation"}, RedisRequest(o, ns),
           ThrowsAt(o, ns), posted' = posted,
           objects' = [objects EXCEPT ![o].handlers = HandlersOf(o)],
           requests' = Record(o, ns, kind, <<>>, "thrown")
    PROVE  RoutingInv'
  <1>1. PICK n : n = Len(requests) + 1
    OBVIOUS
  <1>2. Recorded(n, o, ns, <<>>, "thrown")
    BY ZenonT(30), <1>1, NewRecord DEF Replacing
  <1>3. /\ HandlersOf(o) \in Seq(Handlers)
        /\ HandlersFit(objects[o].db, HandlersOf(o), serverCount')
        /\ \A h \in DOMAIN HandlersOf(o) :
              HandlersOf(o)[h].readyAck # 0 => Served(HandlersOf(o)[h].readyAck)
        /\ serverCount' # <<>> /\ serverCount' # <<Len(objects[o].db.addresses)>>
    BY ZenonT(30), HandlersMade DEF RedisRequest
  <1>0. Len(objects[o].db.addresses) = Len(Servers(objects[o].source))
    BY ZenonT(30), ObjectShape DEF DatabaseShape, AddressesShape
  <1>4. HandlersSet(o, HandlersOf(o)) /\ RightHandlers(o, HandlersOf(o), n, "thrown")
    BY ZenonT(30), <1>3, ObjectsWith DEF RightHandlers
  <1>5. PostedOnly(n)
    BY <1>1, PostingOne
  <1>6. RightTarget(o, ns, <<>>, "thrown")
    BY ZenonT(30), <1>0, <1>3, Uses DEF RightTarget, RedisRequest
  <1> QED
    BY <1>2, <1>4, <1>5, <1>6, RedisStep

\* A request that does not throw is sent to the database of its namespace.
LEMMA Target ==
    ASSUME RoutingInv, NEW o \in DOMAIN objects, NEW ns \in Namespaces, RedisRequest(o, ns),
           ~ThrowsAt(o, ns)
    PROVE  LET handler == HandlersOf(o)[getHandlerIndex(objects[o].db, ns)]
           IN  /\ handler \in Handlers
               /\ <<handler.database>> \in {<<>>} \cup {<<d>> : d \in Databases}
               /\ \A status : status # "thrown" =>
                     RightTarget(o, ns, <<handler.database>>, status)
  <1> DEFINE db == objects[o].db
             s == objects[o].source
             h == getHandlerIndex(db, ns)
             hs == HandlersOf(o)
             index == IF db.type \in SdlCluster THEN h ELSE 0
  <1>1. /\ hs \in Seq(Handlers) /\ h \in DOMAIN hs /\ HandlersFit(db, hs, CountOf(o))
        /\ ~Unserved(db)
    BY ZenonT(30), HandlersMade DEF RedisRequest
  <1>2. hs[h].database = Handler(db, index).database
    BY <1>1 DEF HandlersFit
  <1>3. DatabaseShape(db, s) /\ IsSource(s)
    BY ZenonT(30), ObjectShape
  <1>4. Serves(Handler(db, index).database, s, ns)
    BY ZenonT(30), <1>1, <1>3, HandlerAsConfigured
  <1>5. UsesDatabase(s, ns)
    BY Uses DEF RedisRequest
  <1> HIDE DEF h, hs
  <1>6. hs[h] \in Handlers
    BY <1>1
  <1>7. hs[h].database \in Databases
    BY Zenon, <1>6 DEF Handlers
  <1>8. ASSUME NEW status, status # "thrown"
        PROVE  RightTarget(o, ns, <<hs[h].database>>, status)
    <2>1. <<hs[h].database>> # <<>> /\ <<hs[h].database>>[1] = hs[h].database
      OBVIOUS
    <2>2. Serves(<<hs[h].database>>[1], s, ns)
      BY ONLY ZenonT(30), <1>2, <1>4, <2>1
    <2> QED
      BY ZenonT(30), <1>5, <1>8, <2>1, <2>2 DEF RightTarget
  <1> QED
    BY <1>6, <1>7, <1>8 DEF h, hs

\* An operation that is handed to a storage.
LEMMA OperationStep ==
    ASSUME RoutingInv, ToolInv', NEW o \in DOMAIN objects, NEW ns \in Namespaces,
           RedisRequest(o, ns), ~ThrowsAt(o, ns),
           operationAsync(o, ns, HandlersOf(o), getHandlerIndex(objects[o].db, ns))
    PROVE  RoutingInv'
  <1> DEFINE handler == HandlersOf(o)[getHandlerIndex(objects[o].db, ns)]
             target == <<handler.database>>
  <1>1. PICK n : n = Len(requests) + 1
    OBVIOUS
  <1>2. PICK status \in {"waiting", "sent"} :
           /\ requests' = Record(o, ns, "operation", target, status)
           /\ posted' = posted \/ posted' = [posted EXCEPT ![o] = Append(@, n)]
           /\ objects' = [objects EXCEPT ![o].handlers = HandlersOf(o)]
    <2>1. CASE handler.up
      BY Zenon, <1>1, <2>1 DEF operationAsync
    <2>2. CASE ~handler.up
      BY Zenon, <1>1, <2>2 DEF operationAsync
    <2> QED
      BY <2>1, <2>2
  <1>0. status # "thrown" /\ status \in {"waiting", "sent", "thrown"}
    OBVIOUS
  <1>3. target \in {<<>>} \cup {<<d>> : d \in Databases} /\ RightTarget(o, ns, target, status)
    BY ZenonT(30), <1>0, Target
  <1>4. /\ HandlersOf(o) \in Seq(Handlers)
        /\ HandlersFit(objects[o].db, HandlersOf(o), serverCount')
        /\ \A h \in DOMAIN HandlersOf(o) :
              HandlersOf(o)[h].readyAck # 0 => Served(HandlersOf(o)[h].readyAck)
    BY ZenonT(30), HandlersMade DEF RedisRequest
  <1> HIDE DEF target
  <1>5. HandlersSet(o, HandlersOf(o)) /\ RightHandlers(o, HandlersOf(o), n, status)
    BY ZenonT(30), <1>2, <1>4, ObjectsWith DEF RightHandlers
  <1>6. Recorded(n, o, ns, target, status)
    BY ZenonT(30), <1>0, <1>1, <1>2, <1>3, NewRecord DEF Replacing
  <1>7. PostedOnly(n)
    BY ZenonT(30), <1>1, <1>2, PostingOne
  <1> QED
    BY ZenonT(30), <1>0, <1>3, <1>5, <1>6, <1>7, RedisStep

\* A wait that is handed to a storage.
LEMMA WaitStep ==
    ASSUME RoutingInv, ToolInv', NEW o \in DOMAIN objects, NEW ns \in Namespaces,
           RedisRequest(o, ns), ~ThrowsAt(o, ns),
           waitReadyAsync(o, ns, HandlersOf(o), getHandlerIndex(objects[o].db, ns))
    PROVE  RoutingInv'
  <1> DEFINE h == getHandlerIndex(objects[o].db, ns)
             hs == HandlersOf(o)
             target == <<hs[h].database>>
             kept == hs[h].readyAck
  <1>1. PICK n : n = Len(requests) + 1
    OBVIOUS
  <1> DEFINE y == [hs[h] EXCEPT !.readyAck = n]
             new == [hs EXCEPT ![h].readyAck = n]
  <1>2. /\ requests' = Replacing(Record(o, ns, "waitReady", target, "waiting"), kept)
        /\ posted' = posted \/ posted' = [posted EXCEPT ![o] = Append(@, n)]
        /\ objects' = [objects EXCEPT ![o].handlers = new]
    BY ZenonT(30), <1>1 DEF waitReadyAsync, PostReadyAck, Replacing
  <1>3. /\ target \in {<<>>} \cup {<<d>> : d \in Databases} /\ hs[h] \in Handlers
        /\ RightTarget(o, ns, target, "waiting")
    <2>1. "waiting" # "thrown"
      OBVIOUS
    <2> QED
      BY ZenonT(30), <2>1, Target
  <1>4. /\ hs \in Seq(Handlers) /\ h \in DOMAIN hs /\ HandlersFit(objects[o].db, hs, serverCount')
        /\ \A i \in DOMAIN hs : hs[i].readyAck # 0 => Served(hs[i].readyAck)
    BY ZenonT(30), HandlersMade DEF RedisRequest
  <1>5. n \in Nat
    <2>1. RoutingType
      BY ZenonT(30) DEF RoutingInv
    <2> QED
      BY ONLY SMTT(30), ZenonT(30), <1>1, <2>1 DEF RoutingType
  <1>6. new = [hs EXCEPT ![h] = y]
    OBVIOUS
  <1> HIDE DEF h, hs
  <1>7. y \in Handlers /\ y.database = hs[h].database /\ y.readyAck = n
    BY ZenonT(30), <1>3, <1>5 DEF Handlers
  <1>8. PostedOnly(n)
    BY Zenon, <1>1, <1>2, PostingOne
  <1>9. kept # 0 => Served(kept)
    BY ZenonT(30), <1>4
  <1> HIDE DEF y, new, target, kept
  <1>10. DOMAIN new = DOMAIN hs /\ new[h] = y /\ \A i \in DOMAIN hs : i # h => new[i] = hs[i]
    BY <1>4, <1>6
  <1>11. new \in Seq(Handlers) /\ Len(new) = Len(hs) /\ hs # <<>>
    BY <1>4, <1>6, <1>7
  <1>12. RightHandlers(o, new, n, "waiting")
    <2>1. \A i \in DOMAIN hs : /\ new[i].database = hs[i].database
                               /\ new[i].readyAck \in {hs[i].readyAck, n}
      BY ZenonT(30), <1>7, <1>10
    <2>2. HandlersFit(objects[o].db, new, serverCount')
      BY <1>4, <1>10, <1>11, <2>1 DEF HandlersFit
    <2> QED
      BY ZenonT(30), <1>4, <1>10, <2>1, <2>2 DEF RightHandlers
  <1>13. HandlersSet(o, new)
    BY ZenonT(30), <1>2, <1>11, ObjectsWith
  <1>14. Recorded(n, o, ns, target, "waiting")
    BY <1>1, <1>2, <1>3, <1>9, NewRecord
  <1> QED
    BY Zenon, <1>3, <1>8, <1>12, <1>13, <1>14, RedisStep

\* Every request keeps the invariant.
LEMMA RequestStep ==
    ASSUME RoutingInv, ToolInv', NEW o \in DOMAIN objects, NEW ns \in Namespaces,
           NEW kind \in {"waitReady", "operation"}, getOperationHandler(o, ns, kind)
    PROVE  RoutingInv'
  <1>1. CASE isDbBackendUseEnabled(o, ns)
    <2>1. getRedisHandler(o, ns, kind)
      BY ZenonT(30), <1>1 DEF getOperationHandler
    <2>2. CASE Fatal(objects[o].db) /\ UNCHANGED <<objects, posted, requests>>
      <3>1. serverCount' = CountOf(o) /\ UNCHANGED <<sources, dummyEngine>>
        BY <2>1, RedisCases
      <3>2. CountKept
        BY <3>1, CountShape
      <3>3. RoutingType'
        BY ZenonT(30), <2>2, <3>1, <3>2 DEF RoutingInv, RoutingType, CountKept
      <3>4. Kept
        BY <2>2, <3>2 DEF Kept, RequestsKept, RoutingInv, RoutingType
      <3> QED
        BY ZenonT(30), <2>2, <3>3, <3>4, KeptInv DEF RoutingInv, Served
    <2>3. CASE ~Fatal(objects[o].db)
      <3>1. RedisRequest(o, ns)
        BY <1>1, <2>1, <2>3, RedisCases DEF RedisRequest
      <3> QED
        BY <2>1, <2>3, <3>1, RedisCases, ThrowingStep, OperationStep, WaitStep
    <2> QED
      BY <2>1, <2>2, <2>3, RedisCases
  <1>2. CASE ~isDbBackendUseEnabled(o, ns)
    BY <1>2, DummyStep DEF getOperationHandler
  <1> QED
    BY <1>1, <1>2

\* No step but a request, an answer and the creation of an object changes more
\* than this.
LEMMA QuietStep ==
    ASSUME RoutingInv, ToolInv', RoutingType', Kept,
           DOMAIN objects' = DOMAIN objects, Len(requests') = Len(requests),
           \A p \in DOMAIN objects : posted'[p] = posted[p] \/ posted'[p] = <<>>,
           NEW o, \A p \in DOMAIN objects : p # o => objects'[p].handlers = objects[p].handlers,
           o \in DOMAIN objects => ObjectInv(o)'
    PROVE  RoutingInv'
  <1>1. DOMAIN requests' = DOMAIN requests
    BY DEF RoutingInv, RoutingType
  <1>2. \A r \in DOMAIN requests' : RequestInv(r)'
    BY ZenonT(30), <1>1, KeptInv
  <1>3. \A p \in DOMAIN objects' : ObjectInv(p)'
    BY KeptInv
  <1>4. ASSUME NEW p \in DOMAIN objects, NEW i \in DOMAIN posted'[p]
        PROVE  Served(posted[p][i])'
    <2>1. posted'[p] = posted[p]
      OBVIOUS
    <2>2. PICK r : r = posted[p][i]
      OBVIOUS
    <2>3. Served(r)'
      BY ZenonT(30), <2>1, <2>2, KeptInv DEF RoutingInv
    <2> QED
      BY <2>1, <2>2, <2>3 DEF Served
  <1> QED
    BY <1>2, <1>3, <1>4 DEF RoutingInv

\* A new object has read its configuration, and has no handlers.
LEMMA CreateStep ==
    ASSUME RoutingInv, ToolInv', create
    PROVE  RoutingInv'
  <1>1. PICK list \in readNamespaceConfigurations(source) :
           objects' = Append(objects, [live |-> TRUE, source |-> source, list |-> list,
                                       db |-> readDatabaseConfiguration(source),
                                       handlers |-> <<>>])
    BY ZenonT(30) DEF create
  <1> DEFINE y == [live |-> TRUE, source |-> source, list |-> list,
                   db |-> readDatabaseConfiguration(source), handlers |-> <<>>]
  <1>2. RoutingType /\ source \in Usable
    <2>1. RoutingType
      BY ZenonT(30) DEF RoutingInv
    <2>2. source \in Sources
      BY ONLY SMTT(30), ZenonT(30), <2>1 DEF source, RoutingType
    <2>3. Readable(source) /\ readDatabaseConfiguration(source).type # "Exception"
      BY Zenon DEF create, Constructible
    <2> QED
      BY Zenon, <2>1, <2>2, <2>3 DEF Usable
  <1>3. /\ y \in Objects /\ y.source = source /\ y.list = list
        /\ y.db = readDatabaseConfiguration(source) /\ y.handlers = <<>>
    BY <1>2 DEF Objects
  <1>4. objects' = Append(objects, y) /\ posted' = Append(posted, <<>>)
        /\ UNCHANGED <<sources, serverCount, dummyEngine, requests>>
    BY <1>1 DEF create
  <1> HIDE DEF y
  <1>5. PICK n : n = Len(objects) + 1
    OBVIOUS
  <1>6. /\ objects \in Seq(Objects) /\ posted \in Seq(Seq(Nat)) /\ Len(posted) = Len(objects)
        /\ Len(objects) \in Nat
    BY ONLY SMTT(30), ZenonT(30), <1>2 DEF RoutingType
  <1>7. /\ objects' \in Seq(Objects) /\ Len(objects') = n /\ objects'[n] = y
        /\ \A p \in DOMAIN objects : objects'[p] = objects[p]
        /\ \A p \in DOMAIN objects' : p \in DOMAIN objects \/ p = n
    BY <1>3, <1>4, <1>5, <1>6
  <1>8. /\ posted' \in Seq(Seq(Nat)) /\ Len(posted') = n /\ posted'[n] = <<>>
        /\ \A p \in DOMAIN objects : posted'[p] = posted[p]
    <2>1. <<>> \in Seq(Nat) /\ DOMAIN posted = DOMAIN objects
      BY <1>6
    <2> QED
      BY <1>4, <1>5, <1>6, <2>1
  <1>9. RoutingType'
    <2>1. /\ sources \in Seq(Sources) /\ sources # <<>> /\ requests \in Seq(Requests)
          /\ dummyEngine \in 0..Len(objects)
          /\ serverCount \in Seq(Nat) /\ Len(serverCount) <= 1
      BY ONLY ZenonT(30), <1>2 DEF RoutingType
    <2>2. dummyEngine \in 0..n
      BY ONLY SMTT(30), <1>5, <1>6, <2>1
    <2>3. /\ Len(posted') = Len(objects') /\ dummyEngine \in 0..Len(objects')
          /\ objects' \in Seq(Objects) /\ posted' \in Seq(Seq(Nat))
      BY ONLY ZenonT(30), <1>7, <1>8, <2>2
    <2> QED
      BY ONLY ZenonT(30), <1>4, <2>1, <2>3 DEF RoutingType
  <1>10. Kept
    <2>1. CountKept /\ RequestsKept
      BY ONLY SMTT(30), ZenonT(30), <1>2, <1>4 DEF CountKept, RequestsKept, RoutingType
    <2> QED
      BY ONLY <1>5, <1>6, <1>7, <2>1 DEF Kept
  <1>11. ObjectInv(n)'
    BY <1>3, <1>7 DEF ObjectInv, HandlersFit
  <1>12. \A p \in DOMAIN objects' : ObjectInv(p)'
    BY <1>7, <1>9, <1>10, <1>11, KeptInv
  <1>13. ASSUME NEW p \in DOMAIN objects', NEW i \in DOMAIN posted'[p]
         PROVE  Served(posted[p][i])'
    <2>1. p \in DOMAIN objects /\ posted'[p] = posted[p]
      BY <1>7, <1>8
    <2>2. Served(posted[p][i])
      BY <2>1 DEF RoutingInv
    <2> QED
      BY ZenonT(30), <1>4, <2>1, <2>2 DEF Served
  <1>14. \A r \in DOMAIN requests' : RequestInv(r)'
    BY ZenonT(30), <1>4, <1>9, <1>10, KeptInv
  <1> QED
    BY <1>9, <1>12, <1>13, <1>14 DEF RoutingInv

\* A destroyed object only loses its handlers.
LEMMA DestroyStep ==
    ASSUME RoutingInv, ToolInv', NEW o \in DOMAIN objects, objects' = Destroyed(o),
           UNCHANGED <<sources, serverCount, dummyEngine, posted, requests>>
    PROVE  RoutingInv'
  <1> DEFINE y == [objects[o] EXCEPT !.live = FALSE, !.handlers = <<>>]
  <1>1. objects \in Seq(Objects) /\ objects[o] \in Objects
    BY DEF RoutingInv, RoutingType
  <1>2. /\ y \in Objects /\ y.source = objects[o].source /\ y.db = objects[o].db
        /\ y.list = objects[o].list /\ y.handlers = <<>>
    <2>1. <<>> \in Seq(Handlers) /\ FALSE \in BOOLEAN
      OBVIOUS
    <2> QED
      BY ZenonT(30), <1>1, <2>1, WithHandlers
  <1>3. objects' = [objects EXCEPT ![o] = y]
    <2>1. /\ DOMAIN objects' = DOMAIN objects
          /\ \A p \in DOMAIN objects : p # o => objects'[p] = objects[p]
      BY DEF Destroyed
    <2>2. objects'[o] = y
      BY DEF Destroyed
    <2>3. objects' = [p \in DOMAIN objects |-> objects'[p]]
      BY ZenonT(30), <2>1 DEF Destroyed
    <2> HIDE DEF y
    <2> QED
      BY <2>1, <2>2, <2>3
  <1> HIDE DEF y
  <1>4. /\ DOMAIN objects' = DOMAIN objects /\ objects'[o] = y
        /\ \A p \in DOMAIN objects : p # o => objects'[p] = objects[p]
    BY <1>3
  <1>5. objects' \in Seq(Objects) /\ Len(objects') = Len(objects)
    BY <1>1, <1>2, <1>3
  <1>6. RoutingType'
    BY <1>5 DEF RoutingInv, RoutingType
  <1>7. Kept
    <2>1. \A p \in DOMAIN objects : /\ objects'[p].source = objects[p].source
                                    /\ objects'[p].db = objects[p].db
                                    /\ objects'[p].list = objects[p].list
      BY Zenon, <1>2, <1>4
    <2>2. Len(objects) \in Nat /\ RequestsKept /\ CountKept
      <3>1. RoutingType
        BY ZenonT(30) DEF RoutingInv
      <3>2. serverCount' = serverCount /\ requests' = requests
        OBVIOUS
      <3> QED
        BY ONLY SMTT(30), ZenonT(30), <3>1, <3>2 DEF RoutingType, RequestsKept, CountKept
    <2> QED
      BY ONLY SMTT(30), ZenonT(30), <1>5, <2>1, <2>2 DEF Kept
  <1>8. ObjectInv(o)'
    <2>1. ObjectInv(o)
      BY Zenon DEF RoutingInv
    <2>2. /\ objects'[o].source = objects[o].source /\ objects'[o].db = objects[o].db
          /\ objects'[o].list = objects[o].list /\ objects'[o].handlers = <<>>
      BY <1>2, <1>4
    <2> QED
      <3>1. HandlersFit(objects'[o].db, objects'[o].handlers, serverCount')
        <4>1. HandlersFit(objects'[o].db, <<>>, serverCount')
          <5>1. DOMAIN <<>> = {}
            OBVIOUS
          <5> QED
            BY ONLY ZenonT(30), <5>1 DEF HandlersFit
        <4> QED
          BY ONLY ZenonT(30), <2>2, <4>1
      <3>2. DOMAIN objects'[o].handlers = {}
        BY ONLY SMTT(30), ZenonT(30), <2>2
      <3>3. /\ objects'[o].db = readDatabaseConfiguration(objects'[o].source)
            /\ objects'[o].list \in readNamespaceConfigurations(objects'[o].source)
        BY ONLY ZenonT(30), <2>1, <2>2 DEF ObjectInv
      <3> QED
        BY ONLY ZenonT(30), <3>1, <3>2, <3>3 DEF ObjectInv
  <1> QED
    BY <1>4, <1>6, <1>7, <1>8, QuietStep

\* An answer changes the status of a request that did not throw.
LEMMA AnsweredShape ==
    ASSUME RoutingInv, NEW rs, \A r \in rs : Served(r), requests' = Answered(rs)
    PROVE  RequestsKept /\ Len(requests') = Len(requests)
  <1> DEFINE y(r) == IF r \in rs THEN [requests[r] EXCEPT !.status = "answered"] ELSE requests[r]
  <1>1. requests \in Seq(Requests)
    BY DEF RoutingInv, RoutingType
  <1>2. ASSUME NEW r \in DOMAIN requests
        PROVE  /\ y(r) \in Requests /\ y(r).object = requests[r].object
               /\ y(r).ns = requests[r].ns /\ y(r).target = requests[r].target
               /\ y(r).status = "thrown" <=> requests[r].status = "thrown"
    <2>1. requests[r] \in Requests
      BY <1>1
    <2>2. CASE r \in rs
      BY <2>1, <2>2 DEF Requests, Served
    <2>3. CASE r \notin rs
      BY <2>1, <2>3
    <2> QED
      BY <2>2, <2>3
  <1>3. requests' = [r \in 1..Len(requests) |-> y(r)] /\ DOMAIN requests = 1..Len(requests)
    BY <1>1 DEF Answered
  <1> HIDE DEF y
  <1>4. requests' \in Seq(Requests) /\ Len(requests') = Len(requests)
    BY <1>1, <1>2, <1>3
  <1> QED
    BY <1>1, <1>2, <1>3, <1>4 DEF RequestsKept

\* A connection comes up or goes down, and requests are answered.
LEMMA ConnectionStep ==
    ASSUME RoutingInv, ToolInv', NEW o \in DOMAIN objects, NEW h \in DOMAIN objects[o].handlers,
           NEW up \in BOOLEAN, objects' = [objects EXCEPT ![o].handlers[h].up = up],
           requests' = requests \/ \E rs : (\A r \in rs : Served(r)) /\ requests' = Answered(rs),
           UNCHANGED <<sources, serverCount, dummyEngine, posted>>
    PROVE  RoutingInv'
  <1> DEFINE hs == objects[o].handlers
             new == [hs EXCEPT ![h].up = up]
             y == [hs[h] EXCEPT !.up = up]
  <1>1. hs \in Seq(Handlers) /\ hs[h] \in Handlers
    BY ObjectShape
  <1>2. y \in Handlers /\ y.database = hs[h].database /\ y.readyAck = hs[h].readyAck
    BY <1>1 DEF Handlers
  <1>3. new = [hs EXCEPT ![h] = y]
    OBVIOUS
  <1>4. objects' = [objects EXCEPT ![o].handlers = new]
    OBVIOUS
  <1> HIDE DEF y, new, hs
  <1>5. DOMAIN new = DOMAIN hs /\ \A i \in DOMAIN hs : new[i] = IF i = h THEN y ELSE hs[i]
    BY <1>3
  <1>6. new \in Seq(Handlers) /\ Len(new) = Len(hs) /\ (new # <<>> => hs # <<>>)
    BY <1>1, <1>2, <1>3 DEF hs
  <1>7. HandlersSet(o, new)
    BY ZenonT(30), <1>4, <1>6, ObjectsWith
  <1>8. RequestsKept /\ Len(requests') = Len(requests) /\ CountKept
    <2>1. CASE requests' = requests
      BY <2>1 DEF RoutingInv, RoutingType, RequestsKept, CountKept
    <2> QED
      BY <2>1, AnsweredShape DEF RoutingInv, RoutingType, CountKept
  <1>9. RoutingType'
    BY <1>7, <1>8 DEF RoutingInv, RoutingType, HandlersSet, RequestsKept
  <1>10. Kept
    BY <1>7, <1>8 DEF Kept, HandlersSet, RoutingInv, RoutingType
  <1>11. ObjectInv(o)'
    <2>1. ObjectInv(o) /\ hs = objects[o].handlers
      BY DEF RoutingInv, hs
    <2>2. /\ objects'[o].source = objects[o].source /\ objects'[o].db = objects[o].db
          /\ objects'[o].list = objects[o].list /\ objects'[o].handlers = new
      BY ZenonT(30), <1>7 DEF HandlersSet
    <2>3. \A i \in DOMAIN hs : /\ new[i].database = hs[i].database
                               /\ new[i].readyAck = hs[i].readyAck
      BY <1>2, <1>5
    <2>4. \A r : Served(r) => Served(r)'
      BY <1>9, <1>10, KeptInv
    <2>5. ASSUME NEW i \in DOMAIN new, new[i].readyAck # 0
          PROVE  Served(objects[o].handlers[i].readyAck)'
      <3>1. PICK r : r = hs[i].readyAck
        OBVIOUS
      <3>2. Served(r)'
        BY <1>5, <2>1, <2>3, <2>4, <2>5, <3>1 DEF ObjectInv
      <3> QED
        BY <1>5, <2>2, <2>3, <3>1, <3>2 DEF Served
    <2>6. HandlersFit(objects[o].db, new, serverCount')
      BY <1>5, <1>6, <2>1, <2>3 DEF ObjectInv, HandlersFit
    <2> QED
      BY <2>1, <2>2, <2>5, <2>6 DEF ObjectInv
  <1> QED
    BY <1>7, <1>8, <1>9, <1>10, <1>11, QuietStep DEF HandlersSet

\* An application calls what is posted to an engine.
LEMMA ServeStep ==
    ASSUME RoutingInv, ToolInv', NEW o \in DOMAIN objects, handleEvents(o)
    PROVE  RoutingInv'
  <1>1. \A r \in Range(posted[o]) : Served(r)
    BY DEF RoutingInv, Range
  <1>2. /\ posted' = [posted EXCEPT ![o] = <<>>] /\ requests' = Answered(Range(posted[o]))
        /\ UNCHANGED <<sources, objects, serverCount, dummyEngine>>
    BY DEF handleEvents
  <1>3. RequestsKept /\ Len(requests') = Len(requests)
    BY <1>1, <1>2, AnsweredShape
  <1>4. posted \in Seq(Seq(Nat)) /\ DOMAIN posted = DOMAIN objects /\ <<>> \in Seq(Nat)
    BY DEF RoutingInv, RoutingType
  <1>5. posted' \in Seq(Seq(Nat)) /\ Len(posted') = Len(posted)
        /\ \A p \in DOMAIN objects : posted'[p] = IF p = o THEN <<>> ELSE posted[p]
    BY <1>2, <1>4
  <1>6. RoutingType'
    BY <1>2, <1>3, <1>5 DEF RoutingInv, RoutingType, RequestsKept
  <1>7. Kept
    BY <1>2, <1>3 DEF Kept, CountKept, RoutingInv, RoutingType
  <1>8. ObjectInv(o)'
    BY <1>2, <1>6, <1>7, KeptInv
  <1> QED
    BY Zenon, <1>2, <1>3, <1>5, <1>6, <1>7, <1>8, QuietStep

\* What was sent did not throw.
LEMMA SentServed ==
    ASSUME NEW o, NEW h
    PROVE  \A r \in Sent(o, h) : Served(r)
  BY DEF Sent, Served

\* A database answers an operation.
LEMMA ReplyStep ==
    ASSUME RoutingInv, ToolInv', NEW o \in DOMAIN objects, NEW h, replied(o, h)
    PROVE  RoutingInv'
  <1>1. PICK r \in Sent(o, h) : requests' = Answered({r})
    BY ZenonT(30) DEF replied
  <1>2. UNCHANGED <<sources, objects, serverCount, dummyEngine, posted>>
    BY ZenonT(30) DEF replied
  <1>3. RequestsKept /\ Len(requests') = Len(requests)
    BY ZenonT(30), <1>1, SentServed, AnsweredShape
  <1>4. RoutingType
    BY ZenonT(30) DEF RoutingInv
  <1>5. RoutingType'
    <2>1. requests' \in Seq(Requests)
      BY ONLY ZenonT(30), <1>3 DEF RequestsKept
    <2> QED
      BY ONLY ZenonT(30), <1>2, <1>4, <2>1 DEF RoutingType
  <1>6. Kept
    BY ONLY SMTT(30), <1>2, <1>3, <1>4 DEF Kept, CountKept, RoutingType
  <1>7. ObjectInv(o)'
    BY ZenonT(30), <1>2, <1>5, <1>6, KeptInv
  <1> QED
    BY ZenonT(30), <1>2, <1>3, <1>5, <1>6, <1>7, QuietStep

\* Only the sources may change.
LEMMA SourceStep ==
    ASSUME RoutingInv, ToolInv', UNCHANGED <<objects, serverCount, dummyEngine, posted, requests>>,
           sources' = sources \/ (Len(sources) > 1 /\ sources' = Tail(sources))
    PROVE  RoutingInv'
  <1>1. sources' \in Seq(Sources) /\ sources' # <<>>
    <2>1. sources \in Seq(Sources) /\ sources # <<>>
      BY DEF RoutingInv, RoutingType
    <2>2. ASSUME Len(sources) > 1
          PROVE  Tail(sources) \in Seq(Sources) /\ Len(Tail(sources)) > 0
      BY <2>1, <2>2
    <2> QED
      BY <2>1, <2>2
  <1>2. RoutingType'
    BY <1>1 DEF RoutingInv, RoutingType
  <1> QED
    BY ZenonT(30), <1>2 DEF RoutingInv, ObjectInv, RequestInv, Served

\* The object that the tool uses exists.
LEMMA ToolObject ==
    ASSUME RoutingInv
    PROVE  /\ program # <<>> => Line.ns \in Namespaces
           /\ objects # <<>> => Object \in DOMAIN objects
           /\ requests # <<>> => objects # <<>>
  <1>1. program # <<>> => Line.ns \in Namespaces
    BY InvocationsTyped DEF RoutingInv, ToolInv, Line
  <1>2. objects \in Seq(Objects) /\ requests \in Seq(Requests)
    BY DEF RoutingInv, RoutingType
  <1>3. objects # <<>> => Object \in DOMAIN objects
    BY <1>2 DEF Object
  <1>4. requests # <<>> => 1 \in DOMAIN requests
    BY <1>2
  <1>5. \A r \in DOMAIN requests : requests[r].object \in DOMAIN objects
    BY DEF RoutingInv, RequestInv
  <1> QED
    BY <1>1, <1>3, <1>4, <1>5

\* Every step keeps the invariant.
LEMMA RoutingStep ==
    ASSUME RoutingInv, [Next]_vars
    PROVE  RoutingInv'
  <1> USE DEF tool
  <1> DEFINE Busy == {"created", "waitReady", "operate", "opReady", "operation"}
  <1>1. ToolInv
    BY DEF RoutingInv
  <1>2. ASSUME program' = program, objects' # <<>> PROVE ToolInv'
    BY <1>1, <1>2 DEF ToolInv
  <1>3. ASSUME program' = program, step' = step \/ step' = "begin",
               objects # <<>> => objects' # <<>>
        PROVE  ToolInv'
    BY <1>1, <1>3 DEF ToolInv
  <1>4. ASSUME NEW o \in DOMAIN objects, NEW ns \in Namespaces,
               NEW kind \in {"waitReady", "operation"}, getOperationHandler(o, ns, kind),
               program' = program
        PROVE  RoutingInv'
    <2>1. o \in DOMAIN objects'
      BY ZenonT(30), <1>4
         DEF getOperationHandler, getDummyHandler, getRedisHandler, waitReadyAsync, operationAsync
    <2>2. ToolInv'
      BY <1>2, <1>4, <2>1
    <2> QED
      BY <1>4, <2>2, RequestStep
  <1>5. ASSUME NEW o \in DOMAIN objects, objects' = Destroyed(o), program' = program,
               UNCHANGED <<sources, serverCount, dummyEngine, posted, requests>>
        PROVE  RoutingInv'
    <2>1. o \in DOMAIN objects'
      BY <1>5 DEF Destroyed
    <2>2. ToolInv'
      BY <1>2, <1>5, <2>1
    <2> QED
      BY <1>5, <2>2, DestroyStep
  <1>6. ASSUME create, program' = program
        PROVE  RoutingInv'
    <2>1. objects' # <<>>
      <3>1. objects \in Seq(Objects)
        BY DEF RoutingInv, RoutingType
      <3>2. ASSUME NEW x PROVE Append(objects, x) # <<>>
        <4>1. objects \in Seq(Objects \cup {x}) /\ Len(objects) \in Nat
          BY <3>1
        <4>2. Len(Append(objects, x)) = Len(objects) + 1
          BY <4>1
        <4> QED
          BY <4>1, <4>2
      <3> QED
        BY <1>6, <3>2 DEF create
    <2> QED
      BY <1>2, <1>6, <2>1, CreateStep
  <1>7. ASSUME UNCHANGED <<sources, objects, serverCount, dummyEngine, posted, requests>>, ToolInv'
        PROVE  RoutingInv'
    BY <1>7, SourceStep
  <1>8. CASE Application
    BY <1>4, <1>5, <1>6, <1>8 DEF Application, destroy, Live
  <1>9. CASE parse \/ dumpConfigurationCommand \/ timeoutThread
    BY ZenonT(30), <1>3, <1>7, <1>9 DEF parse, dumpConfigurationCommand, timeoutThread
  <1>10. CASE createStorage
    BY <1>3, <1>6, <1>7, <1>10 DEF createStorage
  <1>11. CASE waitReady \/ operationBegins \/ operationSent
    <2>1. /\ program # <<>> /\ step \in Busy /\ program' = program
          /\ \E kind \in {"waitReady", "operation"} : getOperationHandler(Object, Line.ns, kind)
      BY <1>11 DEF waitReady, operationBegins, operationSent, At
    <2>2. Object \in DOMAIN objects /\ Line.ns \in Namespaces
      BY <1>1, <2>1, ToolObject DEF ToolInv
    <2> QED
      BY <1>4, <2>1, <2>2
  <1>12. CASE thrown
    BY <1>5, <1>12, ToolObject DEF thrown
  <1>13. CASE waitReadyTimeout \/ TestConnectivityCommand \/ commandReturns
    <2>1. /\ program # <<>> /\ step \in Busy /\ program' = program /\ objects' = Destroyed(Object)
          /\ UNCHANGED <<sources, serverCount, dummyEngine, posted, requests>>
      BY <1>13 DEF waitReadyTimeout, TestConnectivityCommand, commandReturns, Return, At
    <2>2. Object \in DOMAIN objects
      BY <1>1, <2>1, ToolObject DEF ToolInv
    <2> QED
      BY <1>5, <2>1, <2>2
  <1>14. CASE waitReadyReturns \/ operationReturns
    <2>1. program # <<>> /\ step \in Busy /\ program' = program /\ UNCHANGED routing
      BY <1>14 DEF waitReadyReturns, operationReturns, At
    <2>2. ToolInv'
      BY <1>1, <1>2, <2>1 DEF ToolInv, routing
    <2> QED
      BY <1>7, <2>1, <2>2 DEF routing
  <1>15. CASE Environment
    <2>1. CASE configure /\ UNCHANGED tool
      <3>1. ToolInv'
        BY <1>3, <2>1 DEF configure
      <3> QED
        BY <2>1, <3>1, SourceStep DEF configure
    <2>2. ASSUME NEW o \in DOMAIN objects, NEW h, disconnected(o, h), UNCHANGED tool
          PROVE  RoutingInv'
      <3>1. /\ h \in DOMAIN objects[o].handlers
            /\ objects' = [objects EXCEPT ![o].handlers[h].up = FALSE]
            /\ requests' = Answered(Sent(o, h))
            /\ UNCHANGED <<sources, serverCount, dummyEngine, posted>>
        BY <2>2 DEF disconnected
      <3>2. o \in DOMAIN objects'
        BY <3>1
      <3>3. ToolInv'
        BY <1>2, <2>2, <3>2
      <3> QED
        BY ZenonT(30), <3>1, <3>3, SentServed, ConnectionStep
    <2> QED
      BY <1>15, <2>1, <2>2 DEF Environment
  <1>16. ASSUME NEW o \in DOMAIN objects, Serve(o) PROVE RoutingInv'
    <2>1. ToolInv'
      BY <1>3, <1>16 DEF Serve, handleEvents
    <2> QED
      BY <1>16, <2>1, ServeStep DEF Serve
  <1>17. ASSUME NEW o \in DOMAIN objects, NEW h, Connect(o, h) PROVE RoutingInv'
    <2>1. connected(o, h) /\ UNCHANGED tool
      BY <1>17 DEF Connect
    <2>2. /\ h \in DOMAIN objects[o].handlers
          /\ objects' = [objects EXCEPT ![o].handlers[h].up = TRUE]
          /\ requests' = Answered({objects[o].handlers[h].readyAck})
          /\ objects[o].handlers[h].readyAck # 0
          /\ UNCHANGED <<sources, serverCount, dummyEngine, posted>>
      BY <2>1 DEF connected
    <2>3. o \in DOMAIN objects'
      BY <2>2
    <2>4. ToolInv'
      BY <1>2, <2>1, <2>3
    <2>5. \A r \in {objects[o].handlers[h].readyAck} : Served(r)
      BY ZenonT(30), <2>2 DEF RoutingInv, ObjectInv
    <2> QED
      BY ZenonT(30), <2>2, <2>4, <2>5, ConnectionStep
  <1>18. ASSUME NEW o \in DOMAIN objects, NEW h, Reply(o, h) PROVE RoutingInv'
    <2>1. replied(o, h) /\ UNCHANGED tool
      BY <1>18 DEF Reply
    <2>2. ToolInv'
      BY <1>3, <2>1 DEF replied
    <2> QED
      BY ZenonT(30), <2>1, <2>2, ReplyStep
  <1>19. CASE UNCHANGED vars
    BY <1>3, <1>7, <1>19 DEF vars, routing
  <1> QED
    BY Zenon, <1>8, <1>9, <1>10, <1>11, <1>12, <1>13, <1>14, <1>15, <1>16, <1>17, <1>18, <1>19
       DEF Next, Tool

\* Every request of every storage object of a process is served where the
\* configuration of that object says, for every source, number of servers and
\* order of requests, of connections and of other objects' actions: the lookup
\* of the namespace finds the longest matching prefix however the container was
\* filled, and the handlers and statics lead to the server that the source names,
\* up to the ports and the master name where Serves says so.
THEOREM RequestsRoutedAsConfigured == Spec => []RoutedAsConfigured
  <1>1. Init => RoutingInv
    <2> SUFFICES ASSUME Init PROVE RoutingInv
      OBVIOUS
    <2>1. sources \in Seq(Sources) /\ sources # <<>>
      BY SourcesTyped DEF Init, InitRouting
    <2>2. RoutingType
      BY <2>1 DEF Init, InitRouting, RoutingType
    <2>3. ToolInv
      BY DEF Init, ToolInv
    <2> QED
      BY <2>2, <2>3 DEF Init, InitRouting, RoutingInv
  <1>2. RoutingInv /\ [Next]_vars => RoutingInv'
    BY Zenon, RoutingStep
  <1>3. RoutingInv => RoutedAsConfigured
    BY Zenon DEF RoutingInv, RequestInv, RoutedAsConfigured
  <1> QED
    BY <1>1, <1>2, <1>3, PTL DEF Spec

-----------------------------------------------------------------------------
(* The exit code of the tool.                                               *)

\* A synchronous command that is executed.
Synchronous == program # <<>> /\ Line.command \in SyncCommands /\ Line.options = {}

\* ready counts the executions up to the one that runs: this one is counted
\* from the acknowledgement on.  The next one begins only while some are left.
ReadyInv ==
    /\ program \in {<<>>} \cup {<<i>> : i \in Invocations}
    /\ iteration \in Nat /\ ready \in Nat
    /\ Synchronous =>
        /\ process = "running" =>
            /\ iteration <= Line.repeat
            /\ step = "parse" => iteration = 0 /\ ready = 0
            /\ step = "begin" => iteration < Line.repeat
            /\ step \in {"created", "waitReady"} => iteration = ready + 1
            /\ step \in {"begin", "operate", "opReady", "operation"} => iteration = ready
        /\ process = "EXIT_SUCCESS" => ready = Line.repeat

\* A request leaves the process running or ends it abnormally.
LEMMA RequestEffect ==
    ASSUME NEW o, NEW ns, NEW kind, getOperationHandler(o, ns, kind)
    PROVE  process' = process \/ process' = "aborted"
  BY DEF getOperationHandler, getRedisHandler, getDummyHandler

\* Every step keeps this.
LEMMA ReadyStep ==
    ASSUME ReadyInv, [Next]_vars
    PROVE  ReadyInv'
  <1> USE DEF tool
  <1>0. program # <<>> => Line.repeat \in Nat
    BY InvocationsTyped DEF ReadyInv, Line
  <1>1. CASE program' = program /\ iteration' = iteration /\ ready' = ready /\ step' = step
             /\ process' \in {process, "aborted", "EXIT_FAILURE"}
    <2>1. Line' = Line /\ Synchronous' = Synchronous
      BY <1>1 DEF Synchronous, Line
    <2>2. /\ process' = "running" => process = "running"
          /\ process' = "EXIT_SUCCESS" => process = "EXIT_SUCCESS"
      BY <1>1
    <2> QED
      BY <1>1, <2>1, <2>2 DEF ReadyInv
  <1>2. CASE parse
    <2>1. /\ process = "running" /\ step = "parse" /\ step' = "begin"
          /\ UNCHANGED <<program, iteration, ready>> /\ program # <<>>
      BY ZenonT(30), <1>2 DEF parse, At
    <2>2. Synchronous => process' = IF Line.repeat = 0 THEN "EXIT_SUCCESS" ELSE "running"
      BY ZenonT(30), <1>2 DEF parse, Synchronous, SyncCommands, Commands
    <2>3. Line' = Line /\ Synchronous' = Synchronous
      BY <2>1 DEF Synchronous, Line
    <2> QED
      BY <1>0, <2>1, <2>2, <2>3 DEF ReadyInv
  <1>3. CASE dumpConfigurationCommand
    BY <1>0, <1>3 DEF dumpConfigurationCommand, At, ReadyInv, Synchronous, Line, SyncCommands
  <1>4. CASE createStorage
    <2>1. /\ process = "running" /\ step = "begin" /\ program # <<>>
          /\ iteration' = iteration + 1 /\ UNCHANGED <<program, ready>>
      BY ZenonT(30), <1>4 DEF createStorage, At
    <2>2. Line' = Line /\ Synchronous' = Synchronous
      BY <2>1 DEF Synchronous, Line
    <2>3. CASE Constructible(source)
      <3>1. process' = process /\ step' = "created"
        BY ZenonT(30), <1>4, <2>3 DEF createStorage, create
      <3> QED
        BY ONLY SMTT(30), ReadyInv, <1>0, <2>1, <2>2, <3>1 DEF ReadyInv
    <2>4. CASE ~Constructible(source)
      <3>1. /\ step' = step
            /\ Line.command # "test-connectivity" => process' = "EXIT_FAILURE"
        <4>1. /\ step' = step
              /\ process' = execute(iteration', IF Line.command = "test-connectivity"
                                                THEN "EXIT_SUCCESS" ELSE "EXIT_FAILURE")
          BY ZenonT(30), <1>4, <2>4 DEF createStorage
        <4> QED
          BY ONLY SMTT(30), <4>1 DEF execute
      <3>2. Synchronous => Line.command # "test-connectivity"
        BY DEF Synchronous, SyncCommands
      <3> QED
        BY ONLY SMTT(30), ReadyInv, <1>0, <2>1, <2>2, <3>1, <3>2 DEF ReadyInv
    <2> QED
      BY <2>3, <2>4
  <1>5. CASE waitReady \/ operationBegins \/ operationSent
    <2>1. process = "running" /\ (process' = process \/ process' = "aborted")
      BY <1>5, RequestEffect DEF waitReady, operationBegins, operationSent, At
    <2>2. UNCHANGED <<program, iteration, ready>>
      BY <1>5 DEF waitReady, operationBegins, operationSent
    <2>3. \/ step = "created" /\ step' = "waitReady"
          \/ step = "operate" /\ step' = "opReady"
          \/ step = "opReady" /\ step' = "operation"
      BY ZenonT(30), <1>5 DEF waitReady, operationBegins, operationSent, At
    <2> QED
      BY <2>1, <2>2, <2>3 DEF ReadyInv, Synchronous, Line
  <1>6. CASE waitReadyTimeout
    BY <1>0, <1>6 DEF waitReadyTimeout, Return, execute, At, ReadyInv, Synchronous, Line
  <1>7. CASE waitReadyReturns
    BY <1>0, <1>7 DEF waitReadyReturns, routing, At, ReadyInv, Synchronous, Line
  <1>8. CASE TestConnectivityCommand
    BY <1>0, <1>8 DEF TestConnectivityCommand, At, ReadyInv, Synchronous, Line, SyncCommands
  <1>9. CASE operationReturns
    BY <1>0, <1>9 DEF operationReturns, routing, At, ReadyInv, Synchronous, Line
  <1>10. CASE commandReturns
    BY <1>0, <1>10 DEF commandReturns, Return, execute, At, ReadyInv, Synchronous, Line
  <1>11. ASSUME NEW o, NEW ns, NEW kind, getOperationHandler(o, ns, kind), UNCHANGED tool
         PROVE  ReadyInv'
    BY ZenonT(30), <1>1, <1>11, RequestEffect
  <1>12. CASE Application
    BY <1>1, <1>11, <1>12 DEF Application, create, destroy
  <1>13. CASE thrown \/ timeoutThread \/ Environment
    BY <1>1, <1>13 DEF thrown, timeoutThread, Environment, configure, disconnected
  <1>14. CASE (\E o \in DOMAIN objects : Serve(o))
              \/ (\E o \in DOMAIN objects, h \in 1..MaxServers : Connect(o, h) \/ Reply(o, h))
    BY ZenonT(30), <1>1, <1>14 DEF Serve, handleEvents, Connect, connected, Reply, replied
  <1>15. CASE UNCHANGED vars
    BY <1>1, <1>15 DEF vars, routing
  <1> QED
    BY Zenon, <1>2, <1>3, <1>4, <1>5, <1>6, <1>7, <1>8, <1>9, <1>10, <1>12, <1>13, <1>14, <1>15
       DEF Next, Tool

\* A synchronous command exits with EXIT_SUCCESS only after it was executed as
\* often as asked for and found its namespace ready each time, for every command
\* line, configuration and order of events.
THEOREM SuccessIsReadiness == Spec => []SuccessMeansReady
  <1>1. Init => ReadyInv
    <2> SUFFICES ASSUME Init PROVE ReadyInv
      OBVIOUS
    <2>1. program # <<>> => Line.repeat \in Nat
      BY InvocationsTyped DEF Init, Line
    <2>2. /\ program \in {<<>>} \cup {<<i>> : i \in Invocations}
          /\ process = "running" /\ step = "parse" /\ iteration = 0 /\ ready = 0
      BY DEF Init, InitRouting
    <2>3. program # <<>> => 0 <= Line.repeat
      BY <2>1
    <2> QED
      BY <2>2, <2>3 DEF ReadyInv, Synchronous
  <1>2. ReadyInv /\ [Next]_vars => ReadyInv'
    BY ReadyStep
  <1>3. ReadyInv => SuccessMeansReady
    BY DEF ReadyInv, SuccessMeansReady, Synchronous
  <1> QED
    BY <1>1, <1>2, <1>3, PTL DEF Spec

=============================================================================
