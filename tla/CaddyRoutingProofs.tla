-------------------------- MODULE CaddyRoutingProofs --------------------------
(***************************************************************************)
(* Theorems about CaddyRouting, for any sets of workers, projects, hosts,  *)
(* rules and foreign routes: what is published, what is left alone, and    *)
(* that a merge of what is in sync changes nothing.                        *)
(***************************************************************************)
EXTENDS CaddyRouting, SequenceTheorems, FiniteSetTheorems, WellFoundedInduction, TLAPS

-----------------------------------------------------------------------------
(* Lists of routes.                                                        *)

\* A set of numbers that has 0, and with a number the next, has them all.
LEMMA AllNumbers ==
  ASSUME NEW T \in SUBSET Nat, 0 \in T, \A n \in T : n + 1 \in T
  PROVE  T = Nat
  <1> DEFINE R == {ss \in Nat \X Nat : ss[1] < ss[2]}
  <1>1. IsWellFoundedOn(R, Nat)
    BY NatLessThanWellFounded DEF OpToRel
  <1>2. \A x, y \in Nat : y < x => <<y, x>> \in R
    OBVIOUS
  <1> HIDE DEF R
  <1>3. SUFFICES ASSUME Nat \ T # {} PROVE FALSE
    OBVIOUS
  <1> PICK S : S = Nat \ T
    OBVIOUS
  <1>4. PICK x \in S : \A y \in S : ~(<<y, x>> \in R)
    BY <1>1, <1>3, WFMin
  <1>5. x - 1 \in Nat /\ x - 1 < x /\ (x - 1) + 1 = x
    BY <1>4
  <1>6. x - 1 \in T
    BY <1>2, <1>4, <1>5
  <1> QED
    BY <1>4, <1>5, <1>6

\* What the loop does with one route.
Step(kept, route, keys) ==
  IF MatchesManagedKeys(route, keys) THEN kept ELSE Append(kept, route)

\* f is what the loop has after each of the first n routes.
Loop(f, config, keys, n) ==
  f = [k \in 0..n |-> IF k = 0 THEN <<>> ELSE Step(f[k - 1], config[k], keys)]

\* The loop over a list runs to its end.
LEMMA LoopRuns ==
  ASSUME NEW config, NEW keys, NEW n \in Nat
  PROVE  \E f : Loop(f, config, keys, n)
  <1> DEFINE T == {m \in Nat : \E f : Loop(f, config, keys, m)}
  <1>1. 0 \in T
    <2>1. Loop([k \in {0} |-> <<>>], config, keys, 0)
      BY DEF Loop
    <2> QED
      BY <2>1
  <1>2. ASSUME NEW m \in T PROVE m + 1 \in T
    <2>1. PICK f : Loop(f, config, keys, m)
      OBVIOUS
    <2>2. PICK g : g = [k \in 0..(m + 1) |-> IF k = m + 1 THEN Step(f[m], config[m + 1], keys)
                                             ELSE f[k]]
      OBVIOUS
    <2>3. ASSUME NEW k \in 0..(m + 1)
          PROVE  g[k] = IF k = 0 THEN <<>> ELSE Step(g[k - 1], config[k], keys)
      <3>1. CASE k = m + 1
        BY <2>2, <3>1
      <3>2. CASE k # m + 1
        <4>1. k \in 0..m /\ g[k] = f[k] /\ (k # 0 => k - 1 \in 0..m /\ g[k - 1] = f[k - 1])
          BY <2>2, <3>2
        <4> QED
          BY <2>1, <4>1 DEF Loop
      <3> QED
        BY <3>1, <3>2
    <2>4. Loop(g, config, keys, m + 1)
      BY <2>2, <2>3 DEF Loop
    <2> QED
      BY <2>4
  <1> HIDE DEF T
  <1>3. T = Nat
    <2>1. T \in SUBSET Nat
      BY DEF T
    <2> QED
      BY <1>1, <1>2, <2>1, AllNumbers
  <1> QED
    BY <1>3 DEF T

\* What is preserved is what the loop has at the end.
LEMMA PreservedIsLoop ==
  ASSUME NEW S, NEW config \in Seq(S), NEW keys
  PROVE  \E f : Loop(f, config, keys, Len(config)) /\ Preserved(config, keys) = f[Len(config)]
  <1> PICK n : n = Len(config) /\ n \in Nat
    OBVIOUS
  <1> DEFINE chosen == CHOOSE f : Loop(f, config, keys, n)
  <1>1. Loop(chosen, config, keys, n)
    BY LoopRuns
  <1>2. Preserved(config, keys) = chosen[n]
    BY Zenon DEF Preserved, Loop, Step
  <1> QED
    BY <1>1, <1>2

\* The preserved routes are those of the list that match no managed key.
LEMMA PreservedRoutes ==
  ASSUME NEW S, NEW config \in Seq(S), NEW keys
  PROVE  /\ Preserved(config, keys) \in Seq(S)
         /\ ToSet(Preserved(config, keys)) = {r \in ToSet(config) : ~MatchesManagedKeys(r, keys)}
  <1> PICK n : n = Len(config) /\ n \in Nat
    OBVIOUS
  <1> PICK f : Loop(f, config, keys, n) /\ Preserved(config, keys) = f[n]
    BY PreservedIsLoop
  <1> DEFINE Good(m) ==
        /\ f[m] \in Seq(S)
        /\ \A i \in 1..Len(f[m]) :
             ~MatchesManagedKeys(f[m][i], keys) /\ \E j \in 1..n : f[m][i] = config[j]
        /\ \A j \in 1..m :
             ~MatchesManagedKeys(config[j], keys) => \E i \in 1..Len(f[m]) : f[m][i] = config[j]
      T == {m \in Nat : m <= n => Good(m)}
  <1>1. 0 \in T
    <2>1. f[0] = <<>>
      BY DEF Loop
    <2>2. <<>> \in Seq(S) /\ Len(<<>>) = 0 /\ 1..0 = {}
      OBVIOUS
    <2> QED
      BY <2>1, <2>2
  <1>2. ASSUME NEW m \in T PROVE m + 1 \in T
    <2>1. SUFFICES ASSUME m + 1 <= n PROVE Good(m + 1)
      OBVIOUS
    <2> PICK list, more, r : list = f[m] /\ more = f[m + 1] /\ r = config[m + 1]
      OBVIOUS
    <2>2. Good(m) /\ list \in Seq(S) /\ r \in S /\ m + 1 \in 1..n
      BY <2>1
    <2>3. more = Step(list, r, keys)
      BY <2>1 DEF Loop
    <2>4. CASE MatchesManagedKeys(r, keys)
      <3>1. more = list
        BY <2>3, <2>4 DEF Step
      <3>2. ASSUME NEW j \in 1..(m + 1), ~MatchesManagedKeys(config[j], keys)
            PROVE  \E i \in 1..Len(more) : more[i] = config[j]
        <4>1. j \in 1..m
          BY <2>4, <3>2
        <4> QED
          BY <2>2, <3>1, <3>2, <4>1
      <3> QED
        BY <2>2, <3>1, <3>2
    <2>5. CASE ~MatchesManagedKeys(r, keys)
      <3>1. more = Append(list, r) /\ more \in Seq(S) /\ Len(more) = Len(list) + 1
        BY <2>2, <2>3, <2>5 DEF Step
      <3>2. more[Len(list) + 1] = r /\ \A i \in 1..Len(list) : more[i] = list[i]
        BY <2>2, <3>1
      <3>3. ASSUME NEW i \in 1..Len(more)
            PROVE  ~MatchesManagedKeys(more[i], keys) /\ \E j \in 1..n : more[i] = config[j]
        <4>1. CASE i = Len(list) + 1
          BY <2>2, <2>5, <3>2, <4>1
        <4>2. CASE i # Len(list) + 1
          <5>1. i \in 1..Len(list)
            BY <2>2, <3>1, <4>2
          <5> QED
            BY <2>2, <3>2, <5>1
        <4> QED
          BY <4>1, <4>2
      <3>4. ASSUME NEW j \in 1..(m + 1), ~MatchesManagedKeys(config[j], keys)
            PROVE  \E i \in 1..Len(more) : more[i] = config[j]
        <4>0. Len(list) \in Nat /\ Len(list) + 1 \in 1..Len(more)
          BY <2>2, <3>1
        <4>1. CASE j = m + 1
          BY <3>2, <4>0, <4>1
        <4>2. CASE j # m + 1
          <5>1. j \in 1..m
            BY <4>2
          <5>2. PICK i \in 1..Len(list) : list[i] = config[j]
            BY <2>2, <3>4, <5>1
          <5> QED
            BY <2>2, <3>1, <3>2, <5>2
        <4> QED
          BY <4>1, <4>2
      <3> QED
        BY SMTT(30), <3>1, <3>3, <3>4
    <2> QED
      BY <2>4, <2>5
  <1>3. n \in T
    <2> HIDE DEF T
    <2>1. T \in SUBSET Nat
      BY DEF T
    <2> QED
      BY <1>1, <1>2, <2>1, AllNumbers
  <1>4. Good(n)
    BY <1>3
  <1>5. DOMAIN config = 1..n /\ DOMAIN f[n] = 1..Len(f[n])
    BY <1>4
  <1> HIDE DEF T
  <1>6. ToSet(f[n]) = {r \in ToSet(config) : ~MatchesManagedKeys(r, keys)}
    <2>1. ASSUME NEW r \in ToSet(f[n])
          PROVE  r \in ToSet(config) /\ ~MatchesManagedKeys(r, keys)
      <3>1. PICK i \in 1..Len(f[n]) : f[n][i] = r
        BY <1>5, <2>1 DEF ToSet
      <3> QED
        BY <1>4, <1>5, <3>1 DEF ToSet
    <2>2. ASSUME NEW r \in ToSet(config), ~MatchesManagedKeys(r, keys)
          PROVE  r \in ToSet(f[n])
      <3>1. PICK j \in 1..n : config[j] = r
        BY <1>5, <2>2 DEF ToSet
      <3> QED
        BY <1>4, <1>5, <2>2, <3>1 DEF ToSet
    <2> HIDE DEF Good
    <2> QED
      BY <2>1, <2>2
  <1> QED
    BY <1>4, <1>6

\* Of a list that ends with what is managed, and has nothing managed before,
\* the loop preserves the beginning.
LEMMA PreservedBeginning ==
  ASSUME NEW S, NEW first \in Seq(S), NEW last \in Seq(S), NEW keys,
         \A i \in DOMAIN first : ~MatchesManagedKeys(first[i], keys),
         \A i \in DOMAIN last : MatchesManagedKeys(last[i], keys)
  PROVE  Preserved(first \o last, keys) = first
  <1>0. /\ first \o last \in Seq(S) /\ Len(first \o last) = Len(first) + Len(last)
        /\ \A i \in 1..Len(first) : (first \o last)[i] = first[i]
        /\ \A i \in (Len(first) + 1)..Len(first \o last) : (first \o last)[i] = last[i - Len(first)]
        /\ Len(first) \in Nat /\ Len(last) \in Nat
    BY ConcatProperties, LenProperties
  <1> PICK config, n, k : config = first \o last /\ n = Len(first \o last) /\ k = Len(first)
    OBVIOUS
  <1>a. /\ config \in Seq(S) /\ n = Len(config) /\ n \in Nat /\ k \in Nat /\ n = k + Len(last)
        /\ n - k \in Nat
    BY <1>0
  <1> PICK f : Loop(f, config, keys, n) /\ Preserved(config, keys) = f[n]
    BY <1>a, PreservedIsLoop
  <1>1. \A i \in 1..k : config[i] = first[i] /\ ~MatchesManagedKeys(config[i], keys)
    BY <1>0
  <1>2. ASSUME NEW i \in (k + 1)..n PROVE MatchesManagedKeys(config[i], keys)
    <2>1. i - k \in 1..Len(last) /\ config[i] = last[i - k]
      BY <1>0
    <2> QED
      BY <2>1
  <1> DEFINE Good(m) ==
        /\ f[m] \in Seq(S)
        /\ Len(f[m]) = IF m <= k THEN m ELSE k
        /\ \A i \in 1..Len(f[m]) : f[m][i] = first[i]
      T == {m \in Nat : m <= n => Good(m)}
  <1>3. 0 \in T
    <2>1. f[0] = <<>>
      BY DEF Loop
    <2>2. <<>> \in Seq(S) /\ Len(<<>>) = 0 /\ 1..0 = {}
      OBVIOUS
    <2>3. 0 <= k
      BY <1>a
    <2>4. Good(0)
      BY <2>1, <2>2, <2>3
    <2> QED
      BY <2>4
  <1>4. ASSUME NEW m \in T PROVE m + 1 \in T
    <2>1. SUFFICES ASSUME m + 1 <= n PROVE Good(m + 1)
      OBVIOUS
    <2> PICK list, more, r : list = f[m] /\ more = f[m + 1] /\ r = config[m + 1]
      OBVIOUS
    <2>2. Good(m) /\ list \in Seq(S) /\ r \in S /\ m + 1 \in 1..n
      BY <2>1
    <2>3. more = Step(list, r, keys)
      BY <1>a, <2>1 DEF Loop
    <2>4. CASE m + 1 <= k
      <3>1. m + 1 \in 1..k /\ m <= k /\ Len(list) = m
        BY <2>2, <2>4
      <3>2. r = first[m + 1] /\ more = Append(list, r)
        BY <1>1, <2>3, <3>1 DEF Step
      <3>3. /\ more \in Seq(S) /\ Len(more) = m + 1 /\ more[m + 1] = r
            /\ \A i \in 1..m : more[i] = list[i]
        BY <2>2, <3>1, <3>2
      <3>4. ASSUME NEW i \in 1..(m + 1) PROVE more[i] = first[i]
        <4>1. CASE i = m + 1
          BY <3>2, <3>3, <4>1
        <4>2. CASE i # m + 1
          <5>1. i \in 1..m
            BY <4>2
          <5> QED
            BY <2>2, <3>1, <3>3, <5>1
        <4> QED
          BY <4>1, <4>2
      <3> QED
        BY <2>4, <3>3, <3>4
    <2>5. CASE m + 1 > k
      <3>1. m + 1 \in (k + 1)..n /\ Len(list) = k /\ m >= k
        BY <2>2, <2>5
      <3>2. more = list
        BY <1>2, <2>3, <3>1 DEF Step
      <3> QED
        BY <2>2, <2>5, <3>1, <3>2
    <2> QED
      BY <2>4, <2>5
  <1>5. n \in T
    <2> HIDE DEF T
    <2>1. T \in SUBSET Nat
      BY DEF T
    <2> QED
      BY <1>a, <1>3, <1>4, <2>1, AllNumbers
  <1> PICK list : list = f[n]
    OBVIOUS
  <1>6. list \in Seq(S) /\ Len(list) = k /\ \A i \in 1..k : list[i] = first[i]
    BY <1>5
  <1>7. list = first
    BY <1>6, SeqEqual
  <1> QED
    BY <1>7

\* A list that has each element of a finite set once has all of them.
LEMMA ListsOfSet ==
  ASSUME NEW S, IsFiniteSet(S), NEW list \in [1..Cardinality(S) -> S],
         \A i, j \in 1..Cardinality(S) : list[i] = list[j] => i = j
  PROVE  list \in Seq(S) /\ ToSet(list) = S
  <1> PICK n : n = Cardinality(S) /\ n \in Nat
    BY FS_CardinalityType
  <1>1. list \in Injection(1..n, S)
    BY DEF Injection, IsInjective
  <1>2. Cardinality(1..n) = n
    <2>1. 1 \in Int /\ n \in Int
      OBVIOUS
    <2> QED
      BY <2>1, FS_Interval
  <1>3. list \in Surjection(1..n, S)
    BY <1>1, <1>2, FS_Injection
  <1> QED
    BY <1>3 DEF Surjection, ToSet

\* SetToSeq lists the elements of a finite set.
LEMMA SetToSeqLists ==
  ASSUME NEW S, IsFiniteSet(S)
  PROVE  SetToSeq(S) \in Seq(S) /\ ToSet(SetToSeq(S)) = S
  <1> PICK n : n = Cardinality(S) /\ n \in Nat
    BY FS_CardinalityType
  <1>1. PICK g : g \in Bijection(1..n, S)
    BY FS_CardinalityType DEF ExistsBijection
  <1>2. g \in [1..n -> S] /\ IsInjective(g)
    BY <1>1 DEF Bijection, Injection, IsInjective
  <1>3. SetToSeq(S) \in [1..n -> S] /\ IsInjective(SetToSeq(S))
    BY <1>2 DEF SetToSeq
  <1> QED
    BY <1>3, ListsOfSet DEF IsInjective

\* What a function gives for the elements of a finite set is a finite set.
LEMMA FiniteImage ==
  ASSUME NEW S, IsFiniteSet(S), NEW f
  PROVE  IsFiniteSet({f[x] : x \in S})
  <1> DEFINE g == [x \in S |-> f[x]]
             T == {f[x] : x \in S}
  <1>1. g \in Surjection(S, T)
    BY DEF Surjection
  <1> HIDE DEF g, T
  <1>2. IsFiniteSet(T)
    BY <1>1, FS_Surjection
  <1> QED
    BY <1>2 DEF T

\* Every route has one of three specificities.
LEMMA ThreeSpecificities ==
  ASSUME NEW r
  PROVE  Specificity(r) \in {0, 1, 2}
  BY DEF Specificity

\* The routes of one specificity are listed.
LEMMA AlikeRoutes ==
  ASSUME NEW routes, IsFiniteSet(routes), NEW n
  PROVE  /\ Alike(routes, n) \in Seq(routes)
         /\ ToSet(Alike(routes, n)) = {r \in routes : Specificity(r) = n}
  <1> DEFINE some == {r \in routes : Specificity(r) = n}
  <1>1. some \in SUBSET routes
    OBVIOUS
  <1>2. Alike(routes, n) = SetToSeq(some)
    BY DEF Alike
  <1> HIDE DEF some
  <1>3. IsFiniteSet(some)
    BY <1>1, FS_Subset
  <1>4. SetToSeq(some) \in Seq(some) /\ ToSet(SetToSeq(some)) = some
    BY <1>3, SetToSeqLists
  <1>5. SetToSeq(some) \in Seq(routes)
    BY <1>1, <1>4, SeqMonotonic
  <1> QED
    BY <1>2, <1>4, <1>5 DEF some

\* u is list s of elements of S, and list t after it.
Joins(S, u, s, t) ==
  /\ u \in Seq(S) /\ ToSet(u) = ToSet(s) \cup ToSet(t)
  /\ Len(s) \in Nat /\ Len(t) \in Nat /\ Len(u) = Len(s) + Len(t)
  /\ \A i \in DOMAIN u :
       \/ i \in DOMAIN s /\ u[i] = s[i]
       \/ i > Len(s) /\ i - Len(s) \in DOMAIN t /\ u[i] = t[i - Len(s)]

\* The elements of two lists in a row.
LEMMA ConcatElements ==
  ASSUME NEW S, NEW s \in Seq(S), NEW t \in Seq(S)
  PROVE  Joins(S, s \o t, s, t)
  <1> PICK u : u = s \o t
    OBVIOUS
  <1>1. /\ u \in Seq(S) /\ Len(u) = Len(s) + Len(t)
        /\ \A i \in 1..(Len(s) + Len(t)) : u[i] = IF i <= Len(s) THEN s[i] ELSE t[i - Len(s)]
    BY ConcatProperties
  <1>2. /\ Len(s) \in Nat /\ Len(t) \in Nat
        /\ DOMAIN s = 1..Len(s) /\ DOMAIN t = 1..Len(t) /\ DOMAIN u = 1..(Len(s) + Len(t))
    BY <1>1, LenProperties
  <1>3. ASSUME NEW i \in DOMAIN u
        PROVE  \/ i \in DOMAIN s /\ u[i] = s[i]
               \/ i > Len(s) /\ i - Len(s) \in DOMAIN t /\ u[i] = t[i - Len(s)]
    BY <1>1, <1>2
  <1>4. ToSet(u) \subseteq ToSet(s) \cup ToSet(t)
    BY <1>3 DEF ToSet
  <1>5. ToSet(s) \subseteq ToSet(u)
    BY <1>1, <1>2 DEF ToSet
  <1>6. ASSUME NEW j \in DOMAIN t PROVE t[j] \in ToSet(u)
    <2>1. j + Len(s) \in DOMAIN u /\ u[j + Len(s)] = t[j]
      BY <1>1, <1>2
    <2> QED
      BY <2>1 DEF ToSet
  <1>7. ToSet(u) = ToSet(s) \cup ToSet(t)
    BY <1>4, <1>5, <1>6 DEF ToSet
  <1>8. Joins(S, u, s, t)
    BY <1>1, <1>2, <1>3, <1>7 DEF Joins
  <1> QED
    BY <1>8

\* The list that is built has every route, the more specific ones first.
LEMMA BuiltRoutes ==
  ASSUME NEW routes, IsFiniteSet(routes)
  PROVE  /\ BuildConfig(routes) \in Seq(routes)
         /\ ToSet(BuildConfig(routes)) = routes
         /\ \A i, j \in DOMAIN BuildConfig(routes) :
              i < j => Specificity(BuildConfig(routes)[i]) >= Specificity(BuildConfig(routes)[j])
  <1> PICK a, b, c : a = Alike(routes, 2) /\ b = Alike(routes, 1) /\ c = Alike(routes, 0)
    OBVIOUS
  <1>1. /\ a \in Seq(routes) /\ b \in Seq(routes) /\ c \in Seq(routes)
        /\ ToSet(a) = {r \in routes : Specificity(r) = 2}
        /\ ToSet(b) = {r \in routes : Specificity(r) = 1}
        /\ ToSet(c) = {r \in routes : Specificity(r) = 0}
    BY AlikeRoutes
  <1>2. /\ \A i \in DOMAIN a : Specificity(a[i]) = 2
        /\ \A i \in DOMAIN b : Specificity(b[i]) = 1
        /\ \A i \in DOMAIN c : Specificity(c[i]) = 0
    BY <1>1 DEF ToSet
  <1>3. a \o b \in Seq(routes) /\ Joins(routes, a \o b, a, b)
    BY <1>1, ConcatElements, ConcatProperties
  <1> PICK d, e : d = a \o b /\ e = BuildConfig(routes)
    OBVIOUS
  <1>4. /\ d \in Seq(routes) /\ ToSet(d) = ToSet(a) \cup ToSet(b) /\ Len(a) \in Nat
        /\ \A i \in DOMAIN d : \/ i \in DOMAIN a /\ d[i] = a[i]
                               \/ i > Len(a) /\ i - Len(a) \in DOMAIN b /\ d[i] = b[i - Len(a)]
    BY <1>3, Zenon DEF Joins
  <1>5. /\ e \in Seq(routes) /\ ToSet(e) = ToSet(d) \cup ToSet(c) /\ Len(d) \in Nat
        /\ \A i \in DOMAIN e : \/ i \in DOMAIN d /\ e[i] = d[i]
                               \/ i > Len(d) /\ i - Len(d) \in DOMAIN c /\ e[i] = c[i - Len(d)]
    <2>1. Joins(routes, (a \o b) \o c, a \o b, c)
      BY <1>1, <1>3, ConcatElements
    <2>2. e = (a \o b) \o c
      BY DEF BuildConfig
    <2>3. Joins(routes, e, d, c)
      BY <2>1, <2>2, Zenon
    <2> QED
      BY <2>3, Zenon DEF Joins
  <1>6. DOMAIN a = 1..Len(a) /\ DOMAIN d = 1..Len(d) /\ DOMAIN e = 1..Len(e) /\ Len(e) \in Nat
    BY <1>1, <1>4, <1>5, LenProperties
  <1>7. ToSet(e) = routes
    <2>1. \A r \in routes : Specificity(r) \in {0, 1, 2}
      BY ThreeSpecificities
    <2> QED
      BY <1>1, <1>4, <1>5, <2>1
  <1>8. ASSUME NEW i \in DOMAIN d, NEW j \in DOMAIN d, i < j
        PROVE  Specificity(d[i]) >= Specificity(d[j]) /\ Specificity(d[j]) >= 1
    <2>1. i \in Int /\ j \in Int
      BY <1>6
    <2>2. CASE j \in DOMAIN a /\ d[j] = a[j]
      <3>1. i \in DOMAIN a /\ ~(i > Len(a))
        BY <1>6, <1>8, <2>1, <2>2
      <3>2. d[i] = a[i]
        BY <1>4, <3>1
      <3> QED
        BY <1>2, <2>2, <3>1, <3>2
    <2>3. CASE j > Len(a) /\ j - Len(a) \in DOMAIN b /\ d[j] = b[j - Len(a)]
      <3>1. Specificity(d[j]) = 1
        BY <1>2, <2>3
      <3>2. Specificity(d[i]) \in {1, 2}
        BY <1>2, <1>4
      <3> QED
        BY <3>1, <3>2
    <2> QED
      BY <1>4, <2>2, <2>3
  <1>9. \A i \in DOMAIN d : Specificity(d[i]) \in {1, 2}
    BY <1>2, <1>4
  <1>10. ASSUME NEW i \in DOMAIN e, NEW j \in DOMAIN e, i < j
         PROVE  Specificity(e[i]) >= Specificity(e[j])
    <2>1. i \in Int /\ j \in Int
      BY <1>6
    <2>2. CASE j \in DOMAIN d /\ e[j] = d[j]
      <3>1. i \in DOMAIN d /\ ~(i > Len(d))
        BY <1>6, <1>10, <2>1, <2>2
      <3>2. e[i] = d[i]
        BY <1>5, <3>1
      <3> QED
        BY <1>8, <1>10, <2>2, <3>1, <3>2
    <2>3. CASE j > Len(d) /\ j - Len(d) \in DOMAIN c /\ e[j] = c[j - Len(d)]
      <3>1. Specificity(e[j]) = 0
        BY <1>2, <2>3
      <3>2. Specificity(e[i]) \in {0, 1, 2}
        BY ThreeSpecificities
      <3> QED
        BY <3>1, <3>2
    <2> QED
      BY <1>5, <2>2, <2>3
  <1> QED
    BY <1>5, <1>7, <1>10

\* A route of CaddyTower's is known by its own key.
LEMMA OwnMatch ==
  ASSUME NEW r, r.to # None, NEW keys
  PROVE  MatchesManagedKeys(r, keys) <=> RouteKey(r) \in keys
  BY DEF MatchesManagedKeys, MatchedKeys

\* Each route to be merged is recognised the next time.
LEMMA OwnMatched ==
  ASSUME NEW routes, NEW d \in routes, d.to # None
  PROVE  MatchesManagedKeys(d, Managed(routes))
  BY OwnMatch DEF Managed

\* What is recognised is known by the key of a route to be merged.
LEMMA ManagedKeys ==
  ASSUME NEW routes, NEW r, MatchesManagedKeys(r, Managed(routes))
  PROVE  \E d \in routes : RouteKey(d) \in MatchedKeys(r)
  BY DEF Managed, MatchesManagedKeys

\* What the merge gives, in terms of what there was and what is to be there.
LEMMA MergedRoutes ==
  ASSUME NEW S, NEW config \in Seq(S), NEW routes \in SUBSET S, IsFiniteSet(routes),
         \A d \in routes : d.to # None
  PROVE  /\ Merge(config, routes) \in Seq(S)
         /\ ToSet(Merge(config, routes)) =
              {r \in ToSet(config) : ~MatchesManagedKeys(r, Managed(routes))} \cup routes
         /\ \A i, j \in DOMAIN Merge(config, routes) :
              (i < j /\ Merge(config, routes)[i] \in routes /\ Merge(config, routes)[j] \in routes)
              => Specificity(Merge(config, routes)[i]) >= Specificity(Merge(config, routes)[j])
  <1> PICK keys, kept, built : /\ keys = Managed(routes) /\ kept = Preserved(config, keys)
                               /\ built = BuildConfig(routes)
    OBVIOUS
  <1> PICK merged : merged = kept \o built
    OBVIOUS
  <1>1. Merge(config, routes) = merged
    BY DEF Merge
  <1>2. kept \in Seq(S) /\ ToSet(kept) = {r \in ToSet(config) : ~MatchesManagedKeys(r, keys)}
    BY PreservedRoutes
  <1>3. /\ built \in Seq(routes) /\ ToSet(built) = routes
        /\ \A i, j \in DOMAIN built : i < j => Specificity(built[i]) >= Specificity(built[j])
    BY BuiltRoutes
  <1>4. built \in Seq(S)
    BY <1>3, SeqMonotonic
  <1>5. /\ merged \in Seq(S) /\ ToSet(merged) = ToSet(kept) \cup ToSet(built) /\ Len(kept) \in Nat
        /\ \A i \in DOMAIN merged :
             \/ i \in DOMAIN kept /\ merged[i] = kept[i]
             \/ i > Len(kept) /\ i - Len(kept) \in DOMAIN built /\ merged[i] = built[i - Len(kept)]
    BY <1>2, <1>4, ConcatElements DEF Joins
  <1>6. DOMAIN merged = 1..Len(merged) /\ Len(merged) \in Nat
    BY <1>5, LenProperties
  <1>7. \A i \in DOMAIN kept : kept[i] \notin routes
    <2>1. \A i \in DOMAIN kept : ~MatchesManagedKeys(kept[i], keys)
      BY <1>2 DEF ToSet
    <2> QED
      BY <2>1, OwnMatched
  <1>8. ASSUME NEW i \in DOMAIN merged, NEW j \in DOMAIN merged, i < j,
               merged[i] \in routes, merged[j] \in routes
        PROVE  Specificity(merged[i]) >= Specificity(merged[j])
    <2>1. /\ i - Len(kept) \in DOMAIN built /\ merged[i] = built[i - Len(kept)]
          /\ j - Len(kept) \in DOMAIN built /\ merged[j] = built[j - Len(kept)]
      BY <1>5, <1>7, <1>8
    <2>2. i \in Int /\ j \in Int /\ i - Len(kept) < j - Len(kept)
      BY <1>5, <1>6, <1>8
    <2> QED
      BY <1>3, <2>1, <2>2
  <1> QED
    BY <1>1, <1>2, <1>3, <1>5, <1>8

\* Merging the same routes once more changes nothing.
LEMMA MergeTwice ==
  ASSUME NEW S, NEW config \in Seq(S), NEW routes \in SUBSET S, IsFiniteSet(routes),
         \A d \in routes : d.to # None
  PROVE  Merge(Merge(config, routes), routes) = Merge(config, routes)
  <1> PICK keys, kept, built : /\ keys = Managed(routes) /\ kept = Preserved(config, keys)
                               /\ built = BuildConfig(routes)
    OBVIOUS
  <1>1. kept \in Seq(S) /\ \A i \in DOMAIN kept : ~MatchesManagedKeys(kept[i], keys)
    BY PreservedRoutes DEF ToSet
  <1>2. built \in Seq(S) /\ \A i \in DOMAIN built : built[i] \in routes
    BY BuiltRoutes, SeqMonotonic DEF ToSet
  <1>3. \A i \in DOMAIN built : MatchesManagedKeys(built[i], keys)
    BY <1>2, OwnMatched
  <1>4. Preserved(kept \o built, keys) = kept
    BY <1>1, <1>2, <1>3, PreservedBeginning
  <1> QED
    BY <1>4, Zenon DEF Merge

-----------------------------------------------------------------------------
(* The routes that projects ask for.                                       *)

\* A managed route leads to a container, an unmanaged one to none.
LEMMA RouteKinds ==
  /\ ManagedRoute \subseteq Route
  /\ Unmanaged \subseteq Route
  /\ \A r \in ManagedRoute : r.to # None
  /\ \A r \in Unmanaged : r.to = None
  BY ReservedAssumption, UnmanagedAssumption DEF ManagedRoute, Route

\* The routes to CaddyTower itself are well formed and few.
LEMMA AdminRoutesShape ==
  ASSUME NEW r \in Roots \cup {None}
  PROVE  AdminRoutes(r) \subseteq ManagedRoute /\ IsFiniteSet(AdminRoutes(r))
  <1>1. CASE r = None
    BY <1>1, FS_EmptySet DEF AdminRoutes
  <1>2. CASE r # None
    <2> DEFINE route == [host |-> FullDomain(Controller, r), match |-> "host",
                         to |-> Controller, port |-> None]
    <2>1. FullDomain(Controller, r) \in Hosts
      BY DEF FullDomain, Hosts
    <2>2. route \in ManagedRoute
      BY <2>1 DEF ManagedRoute, Matchers
    <2>3. AdminRoutes(r) = {route}
      BY <1>2 DEF AdminRoutes
    <2> HIDE DEF route
    <2> QED
      BY <2>2, <2>3, FS_Singleton
  <1> QED
    BY <1>1, <1>2

\* A project as a reconcile has read it: row and rules may be of different times.
Listed == [sub : Subs, rules : SUBSET Rule, port : Ports]

\* A project of the table may be read as it is.
LEMMA ProjectListed == Project \subseteq Listed
  BY RuleSetsAssumption DEF Project, Listed

\* The routes of a project are well formed and finitely many.
LEMMA ExpandedRoutesShape ==
  ASSUME NEW p \in Projects, NEW record \in Listed, NEW r \in Roots \cup {None}
  PROVE  /\ ExpandedRoutes(p, record, r) \subseteq ManagedRoute
         /\ IsFiniteSet(ExpandedRoutes(p, record, r))
  <1> DEFINE stored == record.rules
             rules == IF stored = {} THEN {[host |-> None, match |-> "host"]} ELSE stored
             hosts(rule) == IF rule.host = None THEN RouteHosts(p, record.sub, r) ELSE {rule.host}
             all == {FullDomain(record.sub, r)} \cup CustomHosts
             route == [x \in all \X Matchers |->
                         [host |-> x[1], match |-> x[2], to |-> p, port |-> record.port]]
             every == {route[x] : x \in all \X Matchers}
  <1>1. record.sub \in Subs /\ record.port \in Ports /\ record.rules \subseteq Rule
    BY DEF Listed
  <1>2. all \subseteq Hosts
    BY <1>1 DEF FullDomain, Hosts
  <1>3. stored \subseteq Rule
    BY <1>1
  <1>4. \A rule \in rules : rule.host \in CustomHosts \cup {None} /\ rule.match \in Matchers
    <2>1. \A rule \in Rule : rule.host \in CustomHosts \cup {None} /\ rule.match \in Matchers
      BY DEF Rule
    <2>2. LET rule == [host |-> None, match |-> "host"]
          IN  rule.host \in CustomHosts \cup {None} /\ rule.match \in Matchers
      BY DEF Matchers
    <2> HIDE DEF stored
    <2> QED
      BY <1>3, <2>1, <2>2
  <1>5. ExpandedRoutes(p, record, r) =
          UNION {{[host |-> h, match |-> rule.match, to |-> p, port |-> record.port] :
                    h \in hosts(rule)} : rule \in rules}
    BY Zenon DEF ExpandedRoutes
  <1>6. \A rule \in rules : hosts(rule) \subseteq all
    BY <1>4 DEF RouteHosts
  <1> HIDE DEF rules, hosts, all, stored
  <1>7. ASSUME NEW rule \in rules, NEW h \in hosts(rule)
        PROVE  [host |-> h, match |-> rule.match, to |-> p, port |-> record.port] \in every
    <2>1. <<h, rule.match>> \in all \X Matchers
      BY <1>4, <1>6
    <2>2. route[<<h, rule.match>>] =
            [host |-> h, match |-> rule.match, to |-> p, port |-> record.port]
      BY <2>1
    <2> HIDE DEF route
    <2> QED
      BY <2>1, <2>2
  <1>8. every \subseteq ManagedRoute
    <2>1. ASSUME NEW h \in Hosts, NEW m \in Matchers
          PROVE  [host |-> h, match |-> m, to |-> p, port |-> record.port] \in ManagedRoute
      BY <1>1 DEF ManagedRoute
    <2>2. ASSUME NEW x \in all \X Matchers PROVE route[x] \in ManagedRoute
      <3>1. x[1] \in Hosts /\ x[2] \in Matchers
        BY <1>2
      <3> QED
        BY <2>1, <3>1
    <2> HIDE DEF route
    <2> QED
      BY <2>2
  <1>9. IsFiniteSet(every)
    <2>1. IsFiniteSet({FullDomain(record.sub, r)}) /\ IsFiniteSet(CustomHosts)
      BY FS_Singleton, FiniteAssumption
    <2>2. IsFiniteSet(all)
      BY <2>1, FS_Union DEF all
    <2>3. PICK a, b, c : a = {"host"} /\ b = {"path_prefix"} /\ c = {"path_exact"}
      OBVIOUS
    <2>4. IsFiniteSet(Matchers)
      <3>1. IsFiniteSet(a) /\ IsFiniteSet(b) /\ IsFiniteSet(c)
        BY <2>3, FS_Singleton
      <3>2. IsFiniteSet(a \cup b)
        BY <3>1, FS_Union
      <3>3. IsFiniteSet((a \cup b) \cup c)
        BY <3>1, <3>2, FS_Union
      <3>4. Matchers = (a \cup b) \cup c
        BY <2>3 DEF Matchers
      <3> QED
        BY <3>3, <3>4
    <2>5. IsFiniteSet(all \X Matchers)
      BY <2>2, <2>4, FS_Product
    <2> HIDE DEF route
    <2> QED
      BY <2>5, FiniteImage
  <1> HIDE DEF every
  <1>10. ExpandedRoutes(p, record, r) \subseteq every
    BY <1>5, <1>7
  <1> QED
    BY <1>8, <1>9, <1>10, FS_Subset

-----------------------------------------------------------------------------
(* Types.                                                                  *)

Task == [pc : {"idle", "settings", "list", "project", "post"},
         root : Roots \cup {None},
         records : {<<>>} \cup [Projects -> Listed \cup {None}],
         unread : SUBSET Projects,
         pending : SUBSET Projects,
         routes : SUBSET ManagedRoute,
         config : Seq(Route)]

\* What a worker has read: projects that are listed have a record, routes are
\* finitely many, and what is posted is complete and has a root domain.
TaskShape(t) ==
  /\ t \in Task
  /\ IsFiniteSet(t.routes)
  /\ t.unread \subseteq t.pending
  /\ \A p \in t.pending : t.records[p] \in Listed
  /\ t.pc = "post" => t.pending = {} /\ t.root # None

DataShape ==
  /\ root \in Roots \cup {None}
  /\ projects \in [Projects -> Project \cup {None}]
  /\ domains \in [CustomHosts -> Projects \cup {None}]

TasksShape ==
  /\ tasks \in [Workers -> Task]
  /\ \A w \in Workers : TaskShape(tasks[w])

RestShape ==
  /\ live \in Seq(Route)
  /\ requests \in 0..MaxRequests
  /\ synced \in BOOLEAN
  /\ overtaken \subseteq Workers

ShapeInv == DataShape /\ TasksShape /\ RestShape

\* The shape gives the type invariant that the runs check.
LEMMA ShapeTypes ==
  ASSUME ShapeInv
  PROVE  TypeOK
  <1>1. ASSUME NEW s \in Seq(Route) PROVE ToSet(s) \subseteq Route
    BY LenProperties DEF ToSet
  <1>2. ASSUME NEW w \in Workers
        PROVE  /\ tasks[w].pc \in {"idle", "settings", "list", "project", "post"}
               /\ tasks[w].routes \subseteq Route
               /\ tasks[w].unread \subseteq tasks[w].pending /\ tasks[w].pending \subseteq Projects
               /\ ToSet(tasks[w].config) \subseteq Route
    <2>1. tasks[w] \in Task
      BY DEF ShapeInv, TasksShape
    <2>2. /\ tasks[w].pc \in {"idle", "settings", "list", "project", "post"}
          /\ tasks[w].routes \subseteq ManagedRoute
          /\ tasks[w].pending \subseteq Projects
          /\ tasks[w].config \in Seq(Route)
      BY <2>1 DEF Task
    <2>3. tasks[w].unread \subseteq tasks[w].pending
      BY DEF ShapeInv, TasksShape, TaskShape
    <2> QED
      BY <1>1, <2>2, <2>3, RouteKinds
  <1> QED
    BY <1>1, <1>2 DEF ShapeInv, DataShape, RestShape, TypeOK

\* A worker that does nothing has the shape.
LEMMA IdleShape == TaskShape(IdleTask)
  <1>1. <<>> \in Seq(Route)
    OBVIOUS
  <1>2. IdleTask \in Task
    BY <1>1 DEF IdleTask, Task
  <1> QED
    BY <1>2, FS_EmptySet DEF IdleTask, TaskShape

\* Initially.
LEMMA ShapeInit ==
  ASSUME Init
  PROVE  ShapeInv /\ ToSet(live) = Unmanaged
  <1>1. TasksShape
    BY IdleShape DEF Init, TasksShape, TaskShape
  <1>2. live \in Seq(Unmanaged) /\ ToSet(live) = Unmanaged
    <2> PICK n : n = Cardinality(Unmanaged)
      OBVIOUS
    <2>1. live \in [1..n -> Unmanaged] /\ \A i, j \in 1..n : i # j => live[i] # live[j]
      BY DEF Init, SetToSeqs
    <2> QED
      BY <2>1, FiniteAssumption, ListsOfSet
  <1>3. live \in Seq(Route)
    BY <1>2, RouteKinds, SeqMonotonic
  <1> QED
    <2>1. DataShape
      BY DEF Init, DataShape
    <2>2. requests \in 0..MaxRequests
      BY MaxRequestsAssumption DEF Init
    <2>3. RestShape
      BY <1>3, <2>2 DEF Init, RestShape
    <2> QED
      BY <1>1, <1>2, <2>1, <2>3 DEF ShapeInv

\* A step of one worker that leaves it in shape leaves all of them so.
LEMMA TasksStep ==
  ASSUME TasksShape, NEW w \in Workers, NEW t, TaskShape(t), tasks' = [tasks EXCEPT ![w] = t]
  PROVE  TasksShape'
  <1>1. t \in Task
    BY DEF TaskShape
  <1>2. tasks' \in [Workers -> Task]
    BY <1>1 DEF TasksShape
  <1>3. ASSUME NEW v \in Workers PROVE TaskShape(tasks'[v])
    BY DEF TasksShape
  <1>4. TasksShape' <=> tasks' \in [Workers -> Task] /\ \A v \in Workers : TaskShape(tasks'[v])
    BY DEF TasksShape, TaskShape
  <1> QED
    BY <1>2, <1>3, <1>4

\* What Goto does to a worker, except for the last step of a reconcile.
LEMMA GotoShape ==
  ASSUME TasksShape, NEW w \in Workers, Goto(w, "settings")
  PROVE  TasksShape'
  <1> PICK t, u : t = tasks[w] /\ u = [t EXCEPT !.pc = "settings"]
    OBVIOUS
  <1>1. t \in Task /\ TaskShape(t)
    BY DEF TasksShape
  <1>2. tasks' = [tasks EXCEPT ![w] = u]
    BY DEF Goto, TasksShape
  <1>3. /\ u \in Task /\ u.routes = t.routes /\ u.pending = t.pending /\ u.records = t.records
        /\ u.unread = t.unread /\ u.pc = "settings"
    BY <1>1 DEF Task
  <1>4. TaskShape(u)
    BY <1>1, <1>3 DEF TaskShape
  <1> QED
    BY <1>2, <1>4, TasksStep

\* A handler that changes the project records leaves the data in shape.
LEMMA RecordShape ==
  ASSUME DataShape, NEW p \in Projects, NEW s \in Subs, NEW rules \in RuleSets, NEW port \in Ports,
         projects' = [projects EXCEPT ![p] = [sub |-> s, rules |-> rules, port |-> port]],
         UNCHANGED <<root, domains>>
  PROVE  DataShape'
  <1>1. [sub |-> s, rules |-> rules, port |-> port] \in Project
    BY DEF Project
  <1>2. projects' \in [Projects -> Project \cup {None}]
    BY <1>1 DEF DataShape
  <1> QED
    BY <1>2 DEF DataShape

\* The handlers, up to the reconcile.
HandlerStep(w) ==
  \/ SaveSettings(w) \/ CreateProject(w) \/ UpdateProject(w) \/ Redeploy(w)
  \/ DeleteProject(w) \/ AddProjectDomain(w) \/ DeleteProjectDomain(w)

\* The steps of a reconcile.
ReconcileStep(w) ==
  \/ LoadSettings(w) \/ ListProjects(w) \/ ReadRules(w) \/ ReadProject(w)
  \/ NothingToPublish(w) \/ GetConfig(w) \/ Post(w) \/ CaddyFails(w)

\* A step is a handler's or a reconcile's.
LEMMA StepKinds ==
  ASSUME Next
  PROVE  \E w \in Workers : HandlerStep(w) \/ ReconcileStep(w)
  BY Zenon DEF Next, HandlerStep, ReconcileStep

\* A handler that changes the database makes all reads out of date; none
\* touches Caddy, and none starts more than the reconcile.
LEMMA HandlerSteps ==
  ASSUME NEW w \in Workers, HandlerStep(w)
  PROVE  /\ live' = live
         /\ At(w, "idle")
         /\ Goto(w, "settings") \/ UNCHANGED tasks
         /\ requests < MaxRequests /\ requests' = requests + 1
         /\ Changed \/ UNCHANGED <<root, projects, domains, synced, overtaken>>
  <1>1. CASE SaveSettings(w)
    BY <1>1 DEF SaveSettings, Accept
  <1>2. CASE CreateProject(w)
    BY <1>2 DEF CreateProject, Accept
  <1>3. CASE UpdateProject(w)
    BY <1>3 DEF UpdateProject, Accept, ThenReconcile
  <1>4. CASE Redeploy(w)
    BY <1>4 DEF Redeploy, Accept
  <1>5. CASE DeleteProject(w)
    BY <1>5 DEF DeleteProject, Accept, ThenReconcile
  <1>6. CASE AddProjectDomain(w)
    BY <1>6 DEF AddProjectDomain, Accept
  <1>7. CASE DeleteProjectDomain(w)
    BY <1>7 DEF DeleteProjectDomain, Accept
  <1> QED
    BY <1>1, <1>2, <1>3, <1>4, <1>5, <1>6, <1>7, Zenon DEF HandlerStep

\* A reconcile leaves the database alone.
LEMMA ReconcileSteps ==
  ASSUME NEW w \in Workers, ReconcileStep(w)
  PROVE  UNCHANGED <<root, projects, domains, requests>>
  BY DEF ReconcileStep, LoadSettings, ListProjects, ReadRules, ReadProject, NothingToPublish, GetConfig,
         Post, CaddyFails

\* Every handler leaves the data in shape.
LEMMA HandlerData ==
  ASSUME DataShape, NEW w \in Workers, HandlerStep(w)
  PROVE  DataShape'
  <1>1. CASE SaveSettings(w)
    BY <1>1 DEF SaveSettings, DataShape
  <1>2. CASE CreateProject(w)
    <2>1. PICK p \in Projects :
            \E s \in FreeSubs(p), rules \in RuleSets, port \in Ports :
              projects' = [projects EXCEPT ![p] = [sub |-> s, rules |-> rules, port |-> port]]
      BY <1>2 DEF CreateProject
    <2> PICK s \in FreeSubs(p), rules \in RuleSets, port \in Ports :
          projects' = [projects EXCEPT ![p] = [sub |-> s, rules |-> rules, port |-> port]]
      BY <2>1
    <2>2. s \in Subs
      BY DEF FreeSubs
    <2>3. UNCHANGED <<root, domains>>
      BY <1>2 DEF CreateProject
    <2> QED
      BY <2>2, <2>3, RecordShape
  <1>3. CASE UpdateProject(w)
    <2>1. PICK p \in Projects :
            \E s \in FreeSubs(p), rules \in RuleSets, port \in Ports :
              projects' = [projects EXCEPT ![p] = [sub |-> s, rules |-> rules, port |-> port]]
      BY <1>3 DEF UpdateProject
    <2> PICK s \in FreeSubs(p), rules \in RuleSets, port \in Ports :
          projects' = [projects EXCEPT ![p] = [sub |-> s, rules |-> rules, port |-> port]]
      BY <2>1
    <2>2. s \in Subs
      BY DEF FreeSubs
    <2>3. UNCHANGED <<root, domains>>
      BY <1>3 DEF UpdateProject
    <2> QED
      BY <2>2, <2>3, RecordShape
  <1>4. CASE Redeploy(w)
    BY <1>4 DEF Redeploy, DataShape
  <1>5. CASE DeleteProject(w)
    BY <1>5 DEF DeleteProject, DataShape
  <1>6. CASE AddProjectDomain(w)
    BY <1>6 DEF AddProjectDomain, DataShape
  <1>7. CASE DeleteProjectDomain(w)
    BY <1>7 DEF DeleteProjectDomain, DataShape
  <1> QED
    BY <1>1, <1>2, <1>3, <1>4, <1>5, <1>6, <1>7, Zenon DEF HandlerStep

\* Handlers keep the shape.
LEMMA HandlerShape ==
  ASSUME ShapeInv, NEW w \in Workers, HandlerStep(w)
  PROVE  ShapeInv'
  <1>1. DataShape'
    BY HandlerData DEF ShapeInv
  <1>2. TasksShape'
    <2>1. CASE Goto(w, "settings")
      BY <2>1, GotoShape DEF ShapeInv
    <2>2. CASE UNCHANGED tasks
      BY <2>2 DEF ShapeInv, TasksShape, TaskShape
    <2> QED
      BY <2>1, <2>2, HandlerSteps
  <1>3. RestShape'
    <2>1. requests' \in 0..MaxRequests
      BY HandlerSteps, MaxRequestsAssumption DEF ShapeInv, RestShape
    <2>2. synced' \in BOOLEAN /\ overtaken' \subseteq Workers
      <3>1. CASE Changed
        BY <3>1 DEF Changed
      <3>2. CASE UNCHANGED <<synced, overtaken>>
        BY <3>2 DEF ShapeInv, RestShape
      <3> QED
        BY <3>1, <3>2, HandlerSteps
    <2>3. live' \in Seq(Route)
      BY HandlerSteps DEF ShapeInv, RestShape
    <2> QED
      BY <2>1, <2>2, <2>3 DEF RestShape
  <1> QED
    BY <1>1, <1>2, <1>3 DEF ShapeInv

\* A task with its fields.
TaskOf(pc, r, records, unread, pending, routes, config) ==
  [pc |-> pc, root |-> r, records |-> records, unread |-> unread, pending |-> pending,
   routes |-> routes, config |-> config]

\* A task is the record of its fields.
LEMMA TaskFields ==
  ASSUME TasksShape, NEW w \in Workers
  PROVE  \E pc, r, records, unread, pending, routes, config :
           tasks[w] = TaskOf(pc, r, records, unread, pending, routes, config)
  <1>1. tasks[w] \in Task
    BY DEF TasksShape
  <1>2. tasks[w] = TaskOf(tasks[w].pc, tasks[w].root, tasks[w].records, tasks[w].unread, tasks[w].pending,
                          tasks[w].routes, tasks[w].config)
    BY <1>1 DEF Task, TaskOf
  <1> QED
    BY <1>2

\* A step that changes one task.
LEMMA OneTask ==
  ASSUME TasksShape, NEW w \in Workers, NEW g, DOMAIN g = Workers, g = [v \in Workers |-> g[v]],
         \A v \in Workers : v # w => g[v] = tasks[v], NEW u, g[w] = u
  PROVE  g = [tasks EXCEPT ![w] = u]
  BY DEF TasksShape

\* What loading the settings makes of a worker's task.
LEMMA LoadedTask ==
  ASSUME TasksShape, NEW w \in Workers, LoadSettings(w)
  PROVE  tasks' = [tasks EXCEPT ![w] =
                    TaskOf("list", root, tasks[w].records, tasks[w].unread, tasks[w].pending,
                           tasks[w].routes, tasks[w].config)]
  <1> PICK pc, r, records, unread, pending, routes, config :
        tasks[w] = TaskOf(pc, r, records, unread, pending, routes, config)
    BY TaskFields
  <1>1. tasks' = [tasks EXCEPT ![w].root = root, ![w].pc = "list"]
    BY Zenon DEF LoadSettings
  <1>2. /\ DOMAIN tasks' = Workers /\ tasks' = [v \in Workers |-> tasks'[v]]
        /\ \A v \in Workers : v # w => tasks'[v] = tasks[v]
        /\ tasks'[w] = [tasks[w] EXCEPT !.root = root, !.pc = "list"]
    BY <1>1 DEF TasksShape
  <1>3. [TaskOf(pc, r, records, unread, pending, routes, config) EXCEPT !.root = root, !.pc = "list"]
          = TaskOf("list", root, records, unread, pending, routes, config)
    <2>1. [TaskOf(pc, r, records, unread, pending, routes, config) EXCEPT !.root = root]
            = TaskOf(pc, root, records, unread, pending, routes, config)
      BY DEF TaskOf
    <2>2. [TaskOf(pc, root, records, unread, pending, routes, config) EXCEPT !.pc = "list"]
            = TaskOf("list", root, records, unread, pending, routes, config)
      BY DEF TaskOf
    <2> QED
      BY <2>1, <2>2, Zenon
  <1>4. tasks'[w] = TaskOf("list", root, records, unread, pending, routes, config)
    BY <1>2, <1>3, Zenon
  <1>5. /\ records = tasks[w].records /\ unread = tasks[w].unread /\ pending = tasks[w].pending
        /\ routes = tasks[w].routes /\ config = tasks[w].config
    BY DEF TaskOf
  <1>6. tasks'[w] = TaskOf("list", root, tasks[w].records, tasks[w].unread, tasks[w].pending,
                           tasks[w].routes, tasks[w].config)
    BY <1>4, <1>5, Zenon
  <1> QED
    BY <1>2, <1>6, OneTask

\* What listing the projects makes of it.
LEMMA ListedTask ==
  ASSUME TasksShape, NEW w \in Workers, ListProjects(w)
  PROVE  tasks' = [tasks EXCEPT ![w] =
                    TaskOf("project", tasks[w].root, projects,
                           {p \in Projects : projects[p] # None},
                           {p \in Projects : projects[p] # None},
                           AdminRoutes(tasks[w].root), tasks[w].config)]
  <1> PICK pc, r, records, unread, pending, routes, config :
        tasks[w] = TaskOf(pc, r, records, unread, pending, routes, config)
    BY TaskFields
  <1>1. ASSUME NEW all, NEW some, NEW admin
        PROVE  [TaskOf(pc, r, records, unread, pending, routes, config)
                  EXCEPT !.records = all, !.unread = some, !.pending = some, !.routes = admin,
                         !.pc = "project"]
                = TaskOf("project", r, all, some, some, admin, config)
    <2>1. [TaskOf(pc, r, records, unread, pending, routes, config) EXCEPT !.records = all]
            = TaskOf(pc, r, all, unread, pending, routes, config)
      BY DEF TaskOf
    <2>2. [TaskOf(pc, r, all, unread, pending, routes, config) EXCEPT !.unread = some]
            = TaskOf(pc, r, all, some, pending, routes, config)
      BY DEF TaskOf
    <2>3. [TaskOf(pc, r, all, some, pending, routes, config) EXCEPT !.pending = some]
            = TaskOf(pc, r, all, some, some, routes, config)
      BY DEF TaskOf
    <2>4. [TaskOf(pc, r, all, some, some, routes, config) EXCEPT !.routes = admin]
            = TaskOf(pc, r, all, some, some, admin, config)
      BY DEF TaskOf
    <2>5. [TaskOf(pc, r, all, some, some, admin, config) EXCEPT !.pc = "project"]
            = TaskOf("project", r, all, some, some, admin, config)
      BY DEF TaskOf
    <2>6. [TaskOf(pc, r, records, unread, pending, routes, config)
             EXCEPT !.records = all, !.unread = some, !.pending = some]
            = TaskOf(pc, r, all, some, some, routes, config)
      BY <2>1, <2>2, <2>3
    <2>7. [TaskOf(pc, r, all, some, some, routes, config) EXCEPT !.routes = admin, !.pc = "project"]
            = TaskOf("project", r, all, some, some, admin, config)
      BY <2>4, <2>5
    <2> QED
      BY <2>6, <2>7
  <1>2. r = tasks[w].root /\ config = tasks[w].config
    BY DEF TaskOf
  <1> PICK some, admin : /\ some = {p \in Projects : projects[p] # None}
                         /\ admin = AdminRoutes(tasks[w].root)
    OBVIOUS
  <1>3. tasks' = [tasks EXCEPT ![w].records = projects, ![w].unread = some,
                               ![w].pending = some, ![w].routes = admin, ![w].pc = "project"]
    BY Zenon DEF ListProjects
  <1>4. /\ DOMAIN tasks' = Workers /\ tasks' = [v \in Workers |-> tasks'[v]]
        /\ \A v \in Workers : v # w => tasks'[v] = tasks[v]
        /\ tasks'[w] = [tasks[w] EXCEPT !.records = projects, !.unread = some, !.pending = some,
                                        !.routes = admin, !.pc = "project"]
    BY <1>3 DEF TasksShape
  <1>5. tasks'[w] = TaskOf("project", tasks[w].root, projects, some, some, admin, tasks[w].config)
    <2>1. [TaskOf(pc, r, records, unread, pending, routes, config)
             EXCEPT !.records = projects, !.unread = some, !.pending = some, !.routes = admin,
                    !.pc = "project"]
           = TaskOf("project", r, projects, some, some, admin, config)
      BY <1>1
    <2>2. tasks'[w] = TaskOf("project", r, projects, some, some, admin, config)
      BY <1>4, <2>1, Zenon
    <2> QED
      BY <1>2, <2>2, Zenon
  <1>6. tasks' = [tasks EXCEPT ![w] = TaskOf("project", tasks[w].root, projects, some, some,
                                             admin, tasks[w].config)]
    BY <1>4, <1>5, OneTask
  <1> QED
    BY <1>6, Zenon

\* The rules that the project has, as a reconcile reads them.
RulesNow(p) == IF projects[p] = None THEN {} ELSE projects[p].rules

\* What reading the rules of a project makes of it.
LEMMA RulesTask ==
  ASSUME TasksShape, NEW w \in Workers, ReadRules(w)
  PROVE  \E p \in tasks[w].unread :
           tasks' = [tasks EXCEPT ![w] =
                      TaskOf("project", tasks[w].root,
                             [tasks[w].records EXCEPT ![p].rules = RulesNow(p)],
                             tasks[w].unread \ {p}, tasks[w].pending, tasks[w].routes,
                             tasks[w].config)]
  <1> PICK pc, r, records, unread, pending, routes, config :
        tasks[w] = TaskOf(pc, r, records, unread, pending, routes, config)
    BY TaskFields
  <1>1. PICK p \in tasks[w].unread :
          tasks' = [tasks EXCEPT ![w].unread = @ \ {p}, ![w].records[p].rules = RulesNow(p)]
    BY Zenon DEF ReadRules, RulesNow
  <1> PICK rules : rules = RulesNow(p)
    OBVIOUS
  <1>2. tasks' = [tasks EXCEPT ![w].unread = @ \ {p}, ![w].records[p].rules = rules]
    BY <1>1, Zenon
  <1>3. /\ pc = "project" /\ r = tasks[w].root /\ records = tasks[w].records
        /\ unread = tasks[w].unread /\ pending = tasks[w].pending
        /\ routes = tasks[w].routes /\ config = tasks[w].config
    BY DEF TaskOf, ReadRules, At
  <1>4. /\ DOMAIN tasks' = Workers /\ tasks' = [v \in Workers |-> tasks'[v]]
        /\ \A v \in Workers : v # w => tasks'[v] = tasks[v]
        /\ tasks'[w] = [tasks[w] EXCEPT !.unread = @ \ {p}, !.records[p].rules = rules]
    BY <1>2 DEF TasksShape
  <1> PICK read, rest : read = [records EXCEPT ![p].rules = rules] /\ rest = unread \ {p}
    OBVIOUS
  <1>5. tasks'[w] = [tasks[w] EXCEPT !.unread = rest, !.records = read]
    <2>1. [tasks[w] EXCEPT !.unread = @ \ {p}, !.records[p].rules = rules]
            = [tasks[w] EXCEPT !.unread = tasks[w].unread \ {p},
                               !.records = [tasks[w].records EXCEPT ![p].rules = rules]]
      BY DEF TasksShape, Task
    <2>2. rest = tasks[w].unread \ {p} /\ read = [tasks[w].records EXCEPT ![p].rules = rules]
      BY <1>3, Zenon
    <2> QED
      BY <1>4, <2>1, <2>2, Zenon
  <1>6. tasks'[w] = TaskOf(pc, r, read, rest, pending, routes, config)
    <2>1. [TaskOf(pc, r, records, unread, pending, routes, config) EXCEPT !.unread = rest]
            = TaskOf(pc, r, records, rest, pending, routes, config)
      BY DEF TaskOf
    <2>2. [TaskOf(pc, r, records, rest, pending, routes, config) EXCEPT !.records = read]
            = TaskOf(pc, r, read, rest, pending, routes, config)
      BY DEF TaskOf
    <2> QED
      BY <1>5, <2>1, <2>2, Zenon
  <1>7. tasks'[w] = TaskOf("project", tasks[w].root,
                           [tasks[w].records EXCEPT ![p].rules = RulesNow(p)],
                           tasks[w].unread \ {p}, tasks[w].pending, tasks[w].routes,
                           tasks[w].config)
    BY <1>3, <1>6, Zenon
  <1>8. tasks' = [tasks EXCEPT ![w] =
                   TaskOf("project", tasks[w].root,
                          [tasks[w].records EXCEPT ![p].rules = RulesNow(p)],
                          tasks[w].unread \ {p}, tasks[w].pending, tasks[w].routes,
                          tasks[w].config)]
    BY <1>4, <1>7, OneTask
  <1> QED
    BY <1>8

\* What reading the domains of a project makes of it.
LEMMA ReadTask ==
  ASSUME TasksShape, NEW w \in Workers, ReadProject(w)
  PROVE  \E p \in tasks[w].pending :
           tasks' = [tasks EXCEPT ![w] =
                      TaskOf("project", tasks[w].root, tasks[w].records, tasks[w].unread,
                             tasks[w].pending \ {p},
                             tasks[w].routes
                               \cup ExpandedRoutes(p, tasks[w].records[p], tasks[w].root),
                             tasks[w].config)]
  <1> PICK pc, r, records, unread, pending, routes, config :
        tasks[w] = TaskOf(pc, r, records, unread, pending, routes, config)
    BY TaskFields
  <1>1. PICK p \in tasks[w].pending :
          tasks' = [tasks EXCEPT
                     ![w].pending = @ \ {p},
                     ![w].routes = @ \cup ExpandedRoutes(p, tasks[w].records[p], tasks[w].root)]
    BY DEF ReadProject
  <1> PICK more : more = ExpandedRoutes(p, tasks[w].records[p], tasks[w].root)
    OBVIOUS
  <1>2. tasks' = [tasks EXCEPT ![w].pending = @ \ {p}, ![w].routes = @ \cup more]
    BY <1>1, Zenon
  <1>3. /\ pc = "project" /\ r = tasks[w].root /\ records = tasks[w].records
        /\ unread = tasks[w].unread /\ pending = tasks[w].pending
        /\ routes = tasks[w].routes /\ config = tasks[w].config
    BY DEF TaskOf, ReadProject, At
  <1>4. /\ DOMAIN tasks' = Workers /\ tasks' = [v \in Workers |-> tasks'[v]]
        /\ \A v \in Workers : v # w => tasks'[v] = tasks[v]
        /\ tasks'[w] = [tasks[w] EXCEPT !.pending = @ \ {p}, !.routes = @ \cup more]
    BY <1>2 DEF TasksShape
  <1>5. tasks'[w] = [tasks[w] EXCEPT !.pending = pending \ {p}, !.routes = routes \cup more]
    BY <1>3, <1>4
  <1>6. tasks'[w] = TaskOf(pc, r, records, unread, pending \ {p}, routes \cup more, config)
    <2>1. [TaskOf(pc, r, records, unread, pending, routes, config) EXCEPT !.pending = pending \ {p}]
            = TaskOf(pc, r, records, unread, pending \ {p}, routes, config)
      BY DEF TaskOf
    <2>2. [TaskOf(pc, r, records, unread, pending \ {p}, routes, config)
             EXCEPT !.routes = routes \cup more]
            = TaskOf(pc, r, records, unread, pending \ {p}, routes \cup more, config)
      BY SMTT(30) DEF TaskOf
    <2> QED
      BY <1>5, <2>1, <2>2, Zenon
  <1>7. tasks'[w] = TaskOf("project", tasks[w].root, tasks[w].records, tasks[w].unread,
                           tasks[w].pending \ {p},
                           tasks[w].routes
                             \cup ExpandedRoutes(p, tasks[w].records[p], tasks[w].root),
                           tasks[w].config)
    BY <1>3, <1>6, Zenon
  <1>8. tasks' = [tasks EXCEPT ![w] =
                   TaskOf("project", tasks[w].root, tasks[w].records, tasks[w].unread,
                          tasks[w].pending \ {p},
                          tasks[w].routes
                            \cup ExpandedRoutes(p, tasks[w].records[p], tasks[w].root),
                          tasks[w].config)]
    BY <1>4, <1>7, OneTask
  <1> QED
    BY <1>8

\* What the GET makes of it.
LEMMA GotTask ==
  ASSUME TasksShape, NEW w \in Workers, GetConfig(w)
  PROVE  tasks' = [tasks EXCEPT ![w] =
                    TaskOf("post", tasks[w].root, tasks[w].records, tasks[w].unread, tasks[w].pending,
                           tasks[w].routes, live)]
  <1> PICK pc, r, records, unread, pending, routes, config :
        tasks[w] = TaskOf(pc, r, records, unread, pending, routes, config)
    BY TaskFields
  <1>1. tasks' = [tasks EXCEPT ![w].config = live, ![w].pc = "post"]
    BY Zenon DEF GetConfig
  <1>2. /\ DOMAIN tasks' = Workers /\ tasks' = [v \in Workers |-> tasks'[v]]
        /\ \A v \in Workers : v # w => tasks'[v] = tasks[v]
        /\ tasks'[w] = [tasks[w] EXCEPT !.config = live, !.pc = "post"]
    BY <1>1 DEF TasksShape
  <1>3. [TaskOf(pc, r, records, unread, pending, routes, config) EXCEPT !.config = live, !.pc = "post"]
          = TaskOf("post", r, records, unread, pending, routes, live)
    <2>1. [TaskOf(pc, r, records, unread, pending, routes, config) EXCEPT !.config = live]
            = TaskOf(pc, r, records, unread, pending, routes, live)
      BY DEF TaskOf
    <2>2. [TaskOf(pc, r, records, unread, pending, routes, live) EXCEPT !.pc = "post"]
            = TaskOf("post", r, records, unread, pending, routes, live)
      BY DEF TaskOf
    <2> QED
      BY <2>1, <2>2, Zenon
  <1>4. tasks'[w] = TaskOf("post", r, records, unread, pending, routes, live)
    BY <1>2, <1>3, Zenon
  <1>5. /\ r = tasks[w].root /\ records = tasks[w].records /\ unread = tasks[w].unread
        /\ pending = tasks[w].pending /\ routes = tasks[w].routes
    BY DEF TaskOf
  <1>6. tasks'[w] = TaskOf("post", tasks[w].root, tasks[w].records, tasks[w].unread, tasks[w].pending,
                           tasks[w].routes, live)
    BY <1>4, <1>5, Zenon
  <1> QED
    BY <1>2, <1>6, OneTask

\* A well-formed task, from its fields.
LEMMA TaskOfShape ==
  ASSUME NEW pc \in {"idle", "settings", "list", "project", "post"}, NEW r \in Roots \cup {None},
         NEW records \in {<<>>} \cup [Projects -> Listed \cup {None}],
         NEW unread \in SUBSET Projects, NEW pending \in SUBSET Projects, NEW routes \in SUBSET ManagedRoute,
         NEW config \in Seq(Route), IsFiniteSet(routes),
         unread \subseteq pending, \A p \in pending : records[p] \in Listed,
         pc = "post" => pending = {} /\ r # None
  PROVE  TaskShape(TaskOf(pc, r, records, unread, pending, routes, config))
  <1> PICK t : t = TaskOf(pc, r, records, unread, pending, routes, config)
    OBVIOUS
  <1>1. /\ t \in Task /\ t.pc = pc /\ t.root = r /\ t.records = records /\ t.unread = unread
        /\ t.pending = pending /\ t.routes = routes
    BY DEF Task, TaskOf
  <1>2. TaskShape(t)
    BY <1>1 DEF TaskShape
  <1> QED
    BY <1>2

\* The fields of a task that has the shape.
LEMMA FieldShapes ==
  ASSUME TasksShape, NEW w \in Workers
  PROVE  /\ tasks[w].pc \in {"idle", "settings", "list", "project", "post"}
         /\ tasks[w].root \in Roots \cup {None}
         /\ tasks[w].records \in {<<>>} \cup [Projects -> Listed \cup {None}]
         /\ tasks[w].unread \in SUBSET Projects /\ tasks[w].unread \subseteq tasks[w].pending
         /\ tasks[w].pending \in SUBSET Projects
         /\ tasks[w].routes \in SUBSET ManagedRoute
         /\ IsFiniteSet(tasks[w].routes)
         /\ \A p \in tasks[w].pending : tasks[w].records[p] \in Listed
         /\ tasks[w].config \in Seq(Route)
         /\ tasks[w].pc = "post" => tasks[w].pending = {} /\ tasks[w].root # None
  BY DEF TasksShape, TaskShape, Task

\* A reconcile that ends, or fails, leaves its worker in shape.
LEMMA ReturnShape ==
  ASSUME TasksShape, NEW w \in Workers, Return(w)
  PROVE  TasksShape'
  BY IdleShape, TasksStep DEF Return

\* Every step of a reconcile leaves its worker in shape.
LEMMA ReconcileTasks ==
  ASSUME ShapeInv, NEW w \in Workers, ReconcileStep(w)
  PROVE  TasksShape'
  <1>0. DataShape /\ TasksShape /\ live \in Seq(Route)
    BY DEF ShapeInv, RestShape
  <1> PICK pc, r, records, unread, pending, routes, config :
        /\ pc = tasks[w].pc /\ r = tasks[w].root /\ records = tasks[w].records
        /\ unread = tasks[w].unread /\ pending = tasks[w].pending
        /\ routes = tasks[w].routes /\ config = tasks[w].config
    OBVIOUS
  <1>1. /\ pc \in {"idle", "settings", "list", "project", "post"}
        /\ r \in Roots \cup {None}
        /\ records \in {<<>>} \cup [Projects -> Listed \cup {None}]
        /\ unread \in SUBSET Projects /\ unread \subseteq pending
        /\ pending \in SUBSET Projects
        /\ routes \in SUBSET ManagedRoute
        /\ IsFiniteSet(routes)
        /\ \A p \in pending : records[p] \in Listed
        /\ config \in Seq(Route)
        /\ pc = "post" => pending = {} /\ r # None
    BY <1>0, FieldShapes
  <1>2. CASE LoadSettings(w)
    <2> PICK x : x = root
      OBVIOUS
    <2>1. x \in Roots \cup {None}
      BY <1>0 DEF DataShape
    <2>2. TaskShape(TaskOf("list", x, records, unread, pending, routes, config))
      BY <1>1, <2>1, TaskOfShape
    <2>3. tasks' = [tasks EXCEPT ![w] = TaskOf("list", x, records, unread, pending, routes, config)]
      BY <1>0, <1>2, LoadedTask
    <2> QED
      BY <1>0, <2>2, <2>3, TasksStep
  <1>3. CASE ListProjects(w)
    <2> PICK all, some, admin : /\ all = projects /\ some = {p \in Projects : all[p] # None}
                                /\ admin = AdminRoutes(r)
      OBVIOUS
    <2>1. admin \in SUBSET ManagedRoute /\ IsFiniteSet(admin)
      BY <1>1, AdminRoutesShape
    <2>2. /\ all \in [Projects -> Listed \cup {None}] /\ some \in SUBSET Projects
          /\ \A p \in some : all[p] \in Listed
      BY <1>0, ProjectListed DEF DataShape
    <2>3. TaskShape(TaskOf("project", r, all, some, some, admin, config))
      <3>1. all \in {<<>>} \cup [Projects -> Listed \cup {None}]
        BY <2>2
      <3> QED
        BY <1>1, <2>1, <2>2, <3>1, TaskOfShape
    <2>4. tasks' = [tasks EXCEPT ![w] = TaskOf("project", r, all, some, some, admin, config)]
      BY <1>0, <1>3, ListedTask
    <2> QED
      BY <1>0, <2>3, <2>4, TasksStep
  <1>4. CASE ReadProject(w)
    <2>1. PICK p \in pending :
            tasks' = [tasks EXCEPT ![w] =
                       TaskOf("project", r, records, unread, pending \ {p},
                              routes \cup ExpandedRoutes(p, records[p], r), config)]
      BY <1>0, <1>4, ReadTask
    <2> PICK more, rest, every : /\ more = ExpandedRoutes(p, records[p], r) /\ rest = pending \ {p}
                                 /\ every = routes \cup more
      OBVIOUS
    <2>2. more \in SUBSET ManagedRoute /\ IsFiniteSet(more)
      <3>1. p \in Projects /\ records[p] \in Listed
        BY <1>1
      <3> QED
        BY <1>1, <3>1, ExpandedRoutesShape
    <2>3. every \in SUBSET ManagedRoute /\ IsFiniteSet(every)
      <3>1. IsFiniteSet(routes \cup more)
        BY <1>1, <2>2, FS_Union
      <3> QED
        BY <1>1, <2>2, <3>1
    <2>4. rest \in SUBSET Projects /\ \A q \in rest : records[q] \in Listed
      BY <1>1
    <2>7. unread \subseteq rest
      BY <1>4 DEF ReadProject
    <2>5. TaskShape(TaskOf("project", r, records, unread, rest, every, config))
      BY <1>1, <2>3, <2>4, <2>7, TaskOfShape
    <2>6. tasks' = [tasks EXCEPT ![w] = TaskOf("project", r, records, unread, rest, every, config)]
      BY <2>1, Zenon
    <2> QED
      BY <1>0, <2>5, <2>6, TasksStep
  <1>9. CASE ReadRules(w)
    <2>1. PICK p \in unread :
            tasks' = [tasks EXCEPT ![w] =
                       TaskOf("project", r, [records EXCEPT ![p].rules = RulesNow(p)],
                              unread \ {p}, pending, routes, config)]
      BY <1>0, <1>9, RulesTask
    <2> PICK rules, read, rest : /\ rules = RulesNow(p)
                                 /\ read = [records EXCEPT ![p].rules = rules]
                                 /\ rest = unread \ {p}
      OBVIOUS
    <2>2. rules \in SUBSET Rule
      <3>1. p \in Projects /\ projects \in [Projects -> Project \cup {None}]
        BY <1>0, <1>1 DEF DataShape
      <3> QED
        BY <3>1, RuleSetsAssumption DEF RulesNow, Project
    <2>3. /\ read \in {<<>>} \cup [Projects -> Listed \cup {None}]
          /\ \A q \in pending : read[q] \in Listed
      <3>1. p \in Projects /\ p \in pending /\ records[p] \in Listed
        BY <1>1
      <3>2. [records[p] EXCEPT !.rules = rules] \in Listed
        BY <2>2, <3>1 DEF Listed
      <3>3. CASE records \in [Projects -> Listed \cup {None}]
        <4>1. read = [records EXCEPT ![p] = [records[p] EXCEPT !.rules = rules]]
          OBVIOUS
        <4>2. /\ read[p] = [records[p] EXCEPT !.rules = rules]
              /\ \A q \in Projects : q # p => read[q] = records[q]
              /\ read \in [Projects -> Listed \cup {None}]
          BY <3>1, <3>2, <3>3, <4>1
        <4> QED
          BY <1>1, <3>2, <4>2
      <3>4. CASE records = <<>>
        <4>1. read = <<>>
          BY <3>4
        <4>2. \A q \in pending : read[q] = records[q]
          BY <3>4, <4>1
        <4> QED
          BY <1>1, <4>1, <4>2
      <3> QED
        BY <1>1, <3>3, <3>4
    <2>4. TaskShape(TaskOf("project", r, read, rest, pending, routes, config))
      <3>1. /\ r \in Roots \cup {None} /\ rest \in SUBSET Projects /\ pending \in SUBSET Projects
            /\ routes \in SUBSET ManagedRoute /\ config \in Seq(Route) /\ IsFiniteSet(routes)
            /\ rest \subseteq pending
        BY <1>1
      <3>2. TaskShape(TaskOf("project", r, read, rest, pending, routes, config))
        BY <2>3, <3>1, TaskOfShape, ZenonT(60)
      <3> QED
        BY <3>2
    <2>5. tasks' = [tasks EXCEPT ![w] = TaskOf("project", r, read, rest, pending, routes, config)]
      BY <2>1, Zenon
    <2> QED
      BY <1>0, <2>4, <2>5, TasksStep
  <1>5. CASE NothingToPublish(w)
    BY <1>0, <1>5, ReturnShape DEF NothingToPublish
  <1>6. CASE GetConfig(w)
    <2> PICK list : list = live
      OBVIOUS
    <2>1. list \in Seq(Route) /\ pending = {} /\ r # None
      BY <1>0, <1>6 DEF GetConfig
    <2>2. TaskShape(TaskOf("post", r, records, unread, pending, routes, list))
      BY <1>1, <2>1, TaskOfShape
    <2>3. tasks' = [tasks EXCEPT ![w] = TaskOf("post", r, records, unread, pending, routes, list)]
      BY <1>0, <1>6, GotTask
    <2> QED
      BY <1>0, <2>2, <2>3, TasksStep
  <1>7. CASE Post(w)
    BY <1>0, <1>7, ReturnShape DEF Post
  <1>8. CASE CaddyFails(w)
    BY <1>0, <1>8, ReturnShape DEF CaddyFails
  <1> QED
    BY <1>2, <1>3, <1>4, <1>5, <1>6, <1>7, <1>8, <1>9, Zenon DEF ReconcileStep

\* What a reconcile posts is the merge of what it got and the routes it read.
LEMMA PostedList ==
  ASSUME ShapeInv, NEW w \in Workers, Post(w)
  PROVE  /\ Merge(tasks[w].config, tasks[w].routes) \in Seq(Route)
         /\ live' = IF Merge(tasks[w].config, tasks[w].routes) = tasks[w].config THEN live
                    ELSE Merge(tasks[w].config, tasks[w].routes)
  <1>1. /\ tasks[w].config \in Seq(Route)
        /\ tasks[w].routes \in SUBSET Route /\ IsFiniteSet(tasks[w].routes)
        /\ \A d \in tasks[w].routes : d.to # None
    BY FieldShapes, RouteKinds DEF ShapeInv
  <1> QED
    BY <1>1, MergedRoutes, Zenon DEF Post

\* Reconciles keep the shape.
LEMMA ReconcileShape ==
  ASSUME ShapeInv, NEW w \in Workers, ReconcileStep(w)
  PROVE  ShapeInv'
  <1>1. DataShape'
    BY ReconcileSteps DEF ShapeInv, DataShape
  <1>2. RestShape'
    <2>0. requests' = requests
      BY ReconcileSteps
    <2>1. CASE Post(w)
      <3>1. live' \in Seq(Route)
        BY <2>1, PostedList DEF ShapeInv, RestShape
      <3>2. synced' \in BOOLEAN /\ overtaken' \subseteq Workers
        BY <2>1 DEF Post, ShapeInv, RestShape
      <3> QED
        BY <2>0, <3>1, <3>2 DEF ShapeInv, RestShape
    <2>2. CASE LoadSettings(w)
      BY <2>0, <2>2 DEF LoadSettings, ShapeInv, RestShape
    <2>3. CASE UNCHANGED <<live, synced, overtaken>>
      BY <2>0, <2>3 DEF ShapeInv, RestShape
    <2>4. Post(w) \/ LoadSettings(w) \/ UNCHANGED <<live, synced, overtaken>>
      BY DEF ReconcileStep, ListProjects, ReadRules, ReadProject, NothingToPublish, GetConfig, CaddyFails
    <2> QED
      BY <2>1, <2>2, <2>3, <2>4
  <1> QED
    BY <1>1, <1>2, ReconcileTasks DEF ShapeInv

\* Nothing happens.
LEMMA ShapeStutter ==
  ASSUME ShapeInv, UNCHANGED vars
  PROVE  ShapeInv'
  BY DEF ShapeInv, DataShape, TasksShape, TaskShape, RestShape, vars

\* The shape is an invariant.
LEMMA ShapeHolds == Spec => []ShapeInv
  <1>1. Init => ShapeInv
    BY ShapeInit
  <1>2. ShapeInv /\ [Next]_vars => ShapeInv'
    <2> SUFFICES ASSUME ShapeInv, [Next]_vars PROVE ShapeInv'
      OBVIOUS
    <2>1. CASE Next
      BY <2>1, StepKinds, HandlerShape, ReconcileShape
    <2> QED
      BY <2>1, ShapeStutter
  <1> QED
    BY <1>1, <1>2, PTL DEF Spec

\* Types: whatever reconciles and handlers do at once, Caddy's list holds
\* well-formed routes only and a reconcile reads what there is to read
\* (reconcileCaddy).
THEOREM RoutingTypeCorrect == Spec => []TypeOK
  <1>1. ShapeInv => TypeOK
    BY ShapeTypes
  <1> QED
    BY <1>1, ShapeHolds, PTL

-----------------------------------------------------------------------------
(* Foreign routes.                                                         *)

\* A list has a route, or one of CaddyTower's in its place.
Keeps(list, r) ==
  \/ r \in ToSet(list)
  \/ \E d \in ToSet(list) : d.to # None /\ RouteKey(d) \in MatchedKeys(r)

\* Merging does not lose a foreign route.
LEMMA MergeKeeps ==
  ASSUME NEW config \in Seq(Route), NEW routes \in SUBSET ManagedRoute, IsFiniteSet(routes),
         NEW r \in Unmanaged, Keeps(config, r)
  PROVE  Keeps(Merge(config, routes), r)
  <1>1. routes \in SUBSET Route /\ \A d \in routes : d.to # None
    BY RouteKinds
  <1> PICK all, keys : all = ToSet(Merge(config, routes)) /\ keys = Managed(routes)
    OBVIOUS
  <1>2. all = {x \in ToSet(config) : ~MatchesManagedKeys(x, keys)} \cup routes
    BY <1>1, MergedRoutes
  <1>3. CASE MatchesManagedKeys(r, keys)
    <2>1. PICK d \in routes : RouteKey(d) \in MatchedKeys(r)
      BY <1>3, ManagedKeys
    <2> QED
      BY <1>1, <1>2, <2>1 DEF Keeps
  <1>4. CASE ~MatchesManagedKeys(r, keys)
    <2>1. CASE r \in ToSet(config)
      BY <1>2, <1>4, <2>1 DEF Keeps
    <2>2. ASSUME NEW d \in ToSet(config), d.to # None, RouteKey(d) \in MatchedKeys(r)
          PROVE  Keeps(Merge(config, routes), r)
      <3>1. RouteKey(d) \notin keys
        BY <1>4, <2>2 DEF MatchesManagedKeys
      <3>2. ~MatchesManagedKeys(d, keys)
        BY <2>2, <3>1, OwnMatch
      <3> QED
        BY <1>2, <2>2, <3>2 DEF Keeps
    <2> QED
      BY <2>1, <2>2 DEF Keeps
  <1> QED
    BY <1>3, <1>4

\* Caddy's list, and every list that is about to be posted, keeps the foreign
\* routes.
KeepsInv ==
  \A r \in Unmanaged :
    /\ Keeps(live, r)
    /\ \A w \in Workers : tasks[w].pc = "post" => Keeps(tasks[w].config, r)

\* The invariant gives the property that the runs check.
LEMMA KeepsMeans ==
  ASSUME ShapeInv, KeepsInv
  PROVE  UnmanagedStays
  <1>1. DOMAIN live = 1..Len(live)
    BY LenProperties DEF ShapeInv, RestShape
  <1>2. ASSUME NEW r \in Unmanaged
        PROVE  \/ Contains(live, r)
               \/ \E i \in DOMAIN live : live[i].to # None /\ RouteKey(live[i]) \in MatchedKeys(r)
    <2>1. Keeps(live, r)
      BY DEF KeepsInv
    <2>2. CASE r \in ToSet(live)
      BY <1>1, <2>2 DEF ToSet, Contains
    <2>3. CASE \E d \in ToSet(live) : d.to # None /\ RouteKey(d) \in MatchedKeys(r)
      BY <2>3 DEF ToSet
    <2> QED
      BY <2>1, <2>2, <2>3 DEF Keeps
  <1> QED
    BY <1>2 DEF UnmanagedStays

\* Initially.
LEMMA KeepsInit ==
  ASSUME Init
  PROVE  KeepsInv
  <1>1. ToSet(live) = Unmanaged
    BY ShapeInit
  <1>2. \A w \in Workers : tasks[w].pc # "post"
    BY DEF Init, IdleTask
  <1> QED
    BY <1>1, <1>2 DEF KeepsInv, Keeps

\* A task that a step makes of its worker, when it is not about to post, or is
\* about to post what is in Caddy.
LEMMA KeepsStep ==
  ASSUME ShapeInv, KeepsInv, NEW w \in Workers, live' = live,
         \A v \in Workers : v # w => tasks'[v] = tasks[v],
         \/ tasks'[w].pc # "post" \/ tasks'[w].config = live \/ tasks'[w] = tasks[w]
  PROVE  KeepsInv'
  <1>1. ASSUME NEW r \in Unmanaged
        PROVE  /\ Keeps(live', r)
               /\ \A v \in Workers : tasks'[v].pc = "post" => Keeps(tasks'[v].config, r)
    BY DEF KeepsInv
  <1>2. KeepsInv' <=> \A r \in Unmanaged :
                         /\ Keeps(live', r)
                         /\ \A v \in Workers : tasks'[v].pc = "post" => Keeps(tasks'[v].config, r)
    BY DEF KeepsInv, Keeps
  <1> QED
    BY <1>1, <1>2

\* Every step of a reconcile keeps the foreign routes.
LEMMA KeepsReconcile ==
  ASSUME ShapeInv, KeepsInv, NEW w \in Workers, ReconcileStep(w)
  PROVE  KeepsInv'
  <1>0. TasksShape /\ tasks = [v \in Workers |-> tasks[v]]
    BY DEF ShapeInv, TasksShape
  <1>1. CASE LoadSettings(w)
    <2>1. tasks'[w].pc = "list" /\ \A v \in Workers : v # w => tasks'[v] = tasks[v]
      BY <1>0, <1>1, LoadedTask DEF TaskOf
    <2> QED
      BY <1>1, <2>1, KeepsStep DEF LoadSettings
  <1>2. CASE ListProjects(w)
    <2>1. tasks'[w].pc = "project" /\ \A v \in Workers : v # w => tasks'[v] = tasks[v]
      BY <1>0, <1>2, ListedTask DEF TaskOf
    <2> QED
      BY <1>2, <2>1, KeepsStep DEF ListProjects
  <1>9. CASE ReadRules(w)
    <2>1. tasks'[w].pc = "project" /\ \A v \in Workers : v # w => tasks'[v] = tasks[v]
      BY <1>0, <1>9, RulesTask DEF TaskOf
    <2> QED
      BY <1>9, <2>1, KeepsStep DEF ReadRules
  <1>3. CASE ReadProject(w)
    <2>1. tasks'[w].pc = "project" /\ \A v \in Workers : v # w => tasks'[v] = tasks[v]
      BY <1>0, <1>3, ReadTask DEF TaskOf
    <2> QED
      BY <1>3, <2>1, KeepsStep DEF ReadProject
  <1>4. CASE GetConfig(w)
    <2>1. tasks'[w].config = live /\ \A v \in Workers : v # w => tasks'[v] = tasks[v]
      BY <1>0, <1>4, GotTask DEF TaskOf
    <2> QED
      BY <1>4, <2>1, KeepsStep DEF GetConfig
  <1>5. ASSUME Return(w)
        PROVE  tasks'[w].pc = "idle" /\ \A v \in Workers : v # w => tasks'[v] = tasks[v]
    BY <1>0, <1>5 DEF Return, IdleTask
  <1>6. CASE NothingToPublish(w)
    BY <1>5, <1>6, KeepsStep DEF NothingToPublish
  <1>7. CASE CaddyFails(w)
    BY <1>5, <1>7, KeepsStep DEF CaddyFails
  <1>8. CASE Post(w)
    <2> PICK config, routes, merged : /\ config = tasks[w].config /\ routes = tasks[w].routes
                                      /\ merged = Merge(config, routes)
      OBVIOUS
    <2>1. /\ config \in Seq(Route) /\ routes \in SUBSET ManagedRoute /\ IsFiniteSet(routes)
      BY <1>0, FieldShapes
    <2>2. live' = IF merged = config THEN live ELSE merged
      BY <1>8, PostedList
    <2>3. tasks'[w].pc = "idle" /\ \A v \in Workers : v # w => tasks'[v] = tasks[v]
      BY <1>5, <1>8 DEF Post
    <2>4. tasks[w].pc = "post"
      BY <1>8 DEF Post, At
    <2>5. ASSUME NEW r \in Unmanaged PROVE Keeps(live', r)
      <3>1. Keeps(config, r) /\ Keeps(live, r)
        BY <2>4 DEF KeepsInv
      <3>2. Keeps(merged, r)
        BY <2>1, <3>1, MergeKeeps
      <3> QED
        BY <2>2, <3>1, <3>2
    <2>6. ASSUME NEW r \in Unmanaged, NEW v \in Workers, tasks'[v].pc = "post"
          PROVE  Keeps(tasks'[v].config, r)
      BY <2>3, <2>6 DEF KeepsInv
    <2>7. KeepsInv' <=> \A r \in Unmanaged :
                           /\ Keeps(live', r)
                           /\ \A v \in Workers : tasks'[v].pc = "post" => Keeps(tasks'[v].config, r)
      BY DEF KeepsInv, Keeps
    <2> QED
      BY <2>5, <2>6, <2>7
  <1> QED
    BY <1>1, <1>2, <1>3, <1>4, <1>6, <1>7, <1>8, <1>9, Zenon DEF ReconcileStep

\* So does every handler.
LEMMA KeepsHandler ==
  ASSUME ShapeInv, KeepsInv, NEW w \in Workers, HandlerStep(w)
  PROVE  KeepsInv'
  <1>1. live' = live /\ (Goto(w, "settings") \/ UNCHANGED tasks)
    BY HandlerSteps
  <1>2. tasks = [v \in Workers |-> tasks[v]] /\ tasks[w] \in Task
    BY DEF ShapeInv, TasksShape
  <1>3. CASE Goto(w, "settings")
    <2>1. tasks'[w].pc = "settings" /\ \A v \in Workers : v # w => tasks'[v] = tasks[v]
      BY <1>2, <1>3 DEF Goto, Task
    <2> QED
      BY <1>1, <2>1, KeepsStep
  <1>4. CASE UNCHANGED tasks
    BY <1>1, <1>4, KeepsStep
  <1> QED
    BY <1>1, <1>3, <1>4

\* A route that CaddyTower did not write stays in Caddy, however reconciles
\* interleave and whichever of them fail, until one of its own routes for one of
\* the hosts and paths it is known by replaces it (MergeManagedRoutes).
THEOREM UnmanagedKept == Spec => []UnmanagedStays
  <1>1. Init => KeepsInv
    BY KeepsInit
  <1>2. ShapeInv /\ KeepsInv /\ [Next]_vars => KeepsInv'
    <2> SUFFICES ASSUME ShapeInv, KeepsInv, [Next]_vars PROVE KeepsInv'
      OBVIOUS
    <2>1. CASE Next
      BY <2>1, StepKinds, KeepsHandler, KeepsReconcile
    <2>2. CASE UNCHANGED vars
      BY <2>2 DEF vars, KeepsInv, Keeps
    <2> QED
      BY <2>1, <2>2
  <1>3. ShapeInv /\ KeepsInv => UnmanagedStays
    BY KeepsMeans
  <1> QED
    BY <1>1, <1>2, <1>3, ShapeHolds, PTL DEF Spec

-----------------------------------------------------------------------------
(* What is published.                                                      *)

Existing == {p \in Projects : projects[p] # None}

\* The route to CaddyTower, and the routes of each project that exists, as the
\* database has them.
Admin == AdminRoutes(root)
Own == [p \in Projects |-> IF projects[p] = None THEN {} ELSE ExpandedRoutes(p, projects[p], root)]

\* A reconcile that nothing has overtaken has read what the database has, and
\* has got what is in Caddy.
WorkerSync(w) ==
  w \notin overtaken =>
    /\ tasks[w].pc \in {"list", "project", "post"} => tasks[w].root = root
    /\ tasks[w].pc \in {"project", "post"} =>
         /\ tasks[w].records = projects
         /\ tasks[w].pending \subseteq Existing
         /\ tasks[w].routes = Admin \cup UNION {Own[p] : p \in Existing \ tasks[w].pending}
    /\ tasks[w].pc = "post" => tasks[w].config = live

\* In sync: another merge would change nothing.
LiveSync == synced => root # None /\ Merge(live, Wanted) = live

SyncInv == LiveSync /\ \A w \in Workers : WorkerSync(w)

\* What the database asks for is what the two state functions say.
LEMMA WantedIsOwn ==
  Wanted = Admin \cup UNION {Own[p] : p \in Existing}
  <1>1. \A p \in Existing : Own[p] = ExpandedRoutes(p, projects[p], root)
    BY DEF Own, Existing
  <1>2. Wanted = AdminRoutes(root)
                 \cup UNION {ExpandedRoutes(p, projects[p], root) : p \in Existing}
    BY Zenon DEF Wanted, Existing
  <1>3. {ExpandedRoutes(p, projects[p], root) : p \in Existing} = {Own[p] : p \in Existing}
    BY <1>1
  <1> QED
    BY <1>2, <1>3 DEF Admin

\* The routes of a project, as a function of what the database has.
RoutesFrom(doms, p, record, r) ==
  LET rules == IF record.rules = {} THEN {[host |-> None, match |-> "host"]} ELSE record.rules
      hosts(rule) == IF rule.host = None
                     THEN {FullDomain(record.sub, r)} \cup {h \in CustomHosts : doms[h] = p}
                     ELSE {rule.host}
  IN  UNION {{[host |-> h, match |-> rule.match, to |-> p, port |-> record.port] :
               h \in hosts(rule)} : rule \in rules}

\* They stay as long as the database does.
LEMMA RoutesStay ==
  ASSUME UNCHANGED <<projects, domains>>, NEW p, NEW record, NEW r
  PROVE  ExpandedRoutes(p, record, r)' = ExpandedRoutes(p, record, r)
  <1>1. ExpandedRoutes(p, record, r) = RoutesFrom(domains, p, record, r)
    BY Zenon DEF ExpandedRoutes, RoutesFrom, RouteHosts
  <1>2. ExpandedRoutes(p, record, r)' = RoutesFrom(domains', p, record, r)
    BY Zenon DEF ExpandedRoutes, RoutesFrom, RouteHosts
  <1> QED
    BY <1>1, <1>2, Zenon

\* So does what it asks for.
LEMMA WantedStays ==
  ASSUME UNCHANGED <<root, projects, domains>>
  PROVE  Existing' = Existing /\ Admin' = Admin /\ Own' = Own /\ Wanted' = Wanted
  <1>1. Existing' = Existing /\ Admin' = Admin
    BY DEF Existing, Admin, AdminRoutes
  <1>2. ASSUME NEW p \in Projects PROVE Own'[p] = Own[p]
    <2> PICK record, r : record = projects[p] /\ r = root
      OBVIOUS
    <2>1. ExpandedRoutes(p, record, r)' = ExpandedRoutes(p, record, r)
      BY RoutesStay
    <2>2. Own[p] = IF record = None THEN {} ELSE ExpandedRoutes(p, record, r)
      BY DEF Own
    <2>3. Own'[p] = IF record = None THEN {} ELSE ExpandedRoutes(p, record, r)'
      <3>1. ExpandedRoutes(p, projects[p], root)'
              = RoutesFrom(domains', p, projects'[p], root')
        BY Zenon DEF ExpandedRoutes, RoutesFrom, RouteHosts
      <3>2. ExpandedRoutes(p, record, r)' = RoutesFrom(domains', p, record, r)
        BY Zenon DEF ExpandedRoutes, RoutesFrom, RouteHosts
      <3>3. ExpandedRoutes(p, projects[p], root)' = ExpandedRoutes(p, record, r)'
        BY <3>1, <3>2
      <3> QED
        BY <3>3 DEF Own
    <2> QED
      BY <2>1, <2>2, <2>3
  <1>3. Own' = Own
    <2>1. Own = [p \in Projects |-> Own[p]] /\ Own' = [p \in Projects |-> Own'[p]]
      BY DEF Own
    <2> QED
      BY <1>2, <2>1
  <1>4. (Wanted = Admin \cup UNION {Own[p] : p \in Existing})'
    BY WantedIsOwn, PTL
  <1> QED
    BY <1>1, <1>3, <1>4, WantedIsOwn, Zenon

\* It is finitely many well-formed routes.
LEMMA WantedShape ==
  ASSUME DataShape
  PROVE  Wanted \in SUBSET ManagedRoute /\ Wanted \in SUBSET Route /\ IsFiniteSet(Wanted)
  <1> PICK own, some, admin, wanted : /\ own = Own /\ some = Existing
                                      /\ admin = Admin /\ wanted = Wanted
    OBVIOUS
  <1>1. admin \subseteq ManagedRoute /\ IsFiniteSet(admin)
    BY AdminRoutesShape DEF DataShape, Admin
  <1>2. ASSUME NEW p \in some PROVE own[p] \subseteq ManagedRoute /\ IsFiniteSet(own[p])
    <2>1. p \in Projects /\ projects[p] \in Project /\ projects[p] # None
      BY DEF DataShape, Existing
    <2>2. own[p] = ExpandedRoutes(p, projects[p], root)
      BY <2>1 DEF Own
    <2>3. root \in Roots \cup {None} /\ projects[p] \in Listed
      BY <2>1, ProjectListed DEF DataShape
    <2> QED
      BY <2>1, <2>2, <2>3, ExpandedRoutesShape
  <1>3. IsFiniteSet({own[p] : p \in some})
    <2>1. some \in SUBSET Projects
      BY DEF Existing
    <2>2. IsFiniteSet(some)
      BY <2>1, FiniteAssumption, FS_Subset
    <2> QED
      BY <2>2, FiniteImage
  <1> PICK owned : owned = UNION {own[p] : p \in some}
    OBVIOUS
  <1>4. owned \subseteq ManagedRoute
    BY <1>2
  <1>5. IsFiniteSet(owned)
    BY <1>2, <1>3, FS_UNION
  <1>6. wanted = admin \cup owned
    BY WantedIsOwn, Zenon
  <1>7. IsFiniteSet(admin \cup owned)
    BY <1>1, <1>5, FS_Union
  <1> QED
    BY <1>1, <1>4, <1>6, <1>7, RouteKinds

\* Nothing that a worker relies on has changed for those that do not step.
LEMMA OthersSync ==
  ASSUME UNCHANGED <<root, projects, domains>>, NEW v \in Workers, WorkerSync(v),
         tasks'[v] = tasks[v], v \notin overtaken' => v \notin overtaken,
         tasks[v].pc = "post" /\ v \notin overtaken' => live' = live
  PROVE  WorkerSync(v)'
  <1>1. Existing' = Existing /\ Admin' = Admin /\ Own' = Own
    BY WantedStays
  <1> QED
    BY <1>1, Zenon DEF WorkerSync

\* A worker outside the reconcile relies on nothing.
LEMMA OutsideSync ==
  ASSUME NEW w, tasks'[w].pc \in {"idle", "settings"}
  PROVE  WorkerSync(w)'
  BY DEF WorkerSync

\* Caddy is in sync as long as neither it nor the database changes.
LEMMA LiveStays ==
  ASSUME LiveSync, UNCHANGED <<root, projects, domains>>, live' = live, synced' => synced
  PROVE  LiveSync'
  BY WantedStays DEF LiveSync

\* Handlers: a change of the database overtakes everyone.
LEMMA SyncHandler ==
  ASSUME ShapeInv, SyncInv, NEW w \in Workers, HandlerStep(w)
  PROVE  SyncInv'
  <1>1. live' = live /\ (Goto(w, "settings") \/ UNCHANGED tasks)
    BY HandlerSteps
  <1>2. CASE Changed
    BY <1>2 DEF Changed, SyncInv, LiveSync, WorkerSync
  <1>3. CASE UNCHANGED <<root, projects, domains, synced, overtaken>>
    <2>1. LiveSync'
      BY <1>1, <1>3, LiveStays DEF SyncInv
    <2>2. ASSUME NEW v \in Workers PROVE WorkerSync(v)'
      <3>1. CASE tasks'[v] = tasks[v]
        BY <1>1, <1>3, <3>1, OthersSync DEF SyncInv
      <3>2. CASE tasks'[v] # tasks[v]
        <4>1. tasks = [x \in Workers |-> tasks[x]] /\ tasks[w] \in Task
          BY DEF ShapeInv, TasksShape
        <4>2. tasks'[v].pc = "settings"
          BY <1>1, <3>2, <4>1 DEF Goto, Task
        <4> QED
          BY <4>2, OutsideSync
      <3> QED
        BY <3>1, <3>2
    <2> QED
      BY <2>1, <2>2 DEF SyncInv
  <1> QED
    BY <1>2, <1>3, HandlerSteps

\* A reconcile's step before the POST, once what it makes of its own worker is
\* in sync.
LEMMA SyncStep ==
  ASSUME SyncInv, NEW w \in Workers, UNCHANGED <<root, projects, domains, live, synced>>,
         \A v \in Workers : v # w => tasks'[v] = tasks[v],
         overtaken' = overtaken \/ overtaken' = overtaken \ {w}, WorkerSync(w)'
  PROVE  SyncInv'
  <1>1. LiveSync'
    BY LiveStays DEF SyncInv
  <1>2. ASSUME NEW v \in Workers, v # w PROVE WorkerSync(v)'
    <2>1. WorkerSync(v) /\ tasks'[v] = tasks[v] /\ (v \notin overtaken' => v \notin overtaken)
      BY <1>2 DEF SyncInv
    <2> QED
      BY <2>1, OthersSync
  <1> QED
    BY <1>1, <1>2 DEF SyncInv

\* The POST of a reconcile that nothing has overtaken leaves Caddy in sync; any
\* other that changes Caddy leaves it out of sync.
LEMMA SyncPost ==
  ASSUME ShapeInv, SyncInv, NEW w \in Workers, Post(w)
  PROVE  SyncInv' /\ (synced /\ synced' => live' = live)
  <1>0. TasksShape /\ DataShape /\ live \in Seq(Route) /\ synced \in BOOLEAN
    BY DEF ShapeInv, RestShape
  <1>a. UNCHANGED <<root, projects, domains>> /\ tasks[w].pc = "post" /\ Return(w)
    BY DEF Post, At
  <1>1. tasks'[w].pc = "idle" /\ \A v \in Workers : v # w => tasks'[v] = tasks[v]
    BY <1>0, <1>a DEF Return, IdleTask, TasksShape
  <1>2. /\ synced' = (w \notin overtaken \/ (synced /\ live' = live))
        /\ overtaken' = IF live' = live THEN overtaken
                        ELSE overtaken \cup {v \in Workers \ {w} : tasks[v].pc = "post"}
    BY Zenon DEF Post, At
  <1>3. ASSUME NEW v \in Workers PROVE WorkerSync(v)'
    <2>1. CASE v = w
      BY <1>1, <2>1, OutsideSync
    <2>2. CASE v # w
      <3>1. WorkerSync(v) /\ tasks'[v] = tasks[v]
        BY <1>1, <2>2 DEF SyncInv
      <3>2. /\ v \notin overtaken' => v \notin overtaken
            /\ tasks[v].pc = "post" /\ v \notin overtaken' => live' = live
        BY <1>2, <2>2
      <3> QED
        BY <1>a, <3>1, <3>2, OthersSync
    <2> QED
      BY <2>1, <2>2
  <1>4. CASE w \notin overtaken
    <2> PICK list, wanted, merged : list = live /\ wanted = Wanted /\ merged = Merge(list, wanted)
      OBVIOUS
    <2>1. tasks[w].config = list /\ tasks[w].root = root /\ tasks[w].root # None
      BY <1>0, <1>a, <1>4, FieldShapes DEF SyncInv, WorkerSync
    <2>2. tasks[w].routes = wanted
      <3>1. tasks[w].pending = {}
        BY <1>0, <1>a, FieldShapes
      <3>2. tasks[w].routes = Admin \cup UNION {Own[p] : p \in Existing \ tasks[w].pending}
        BY <1>a, <1>4, Zenon DEF SyncInv, WorkerSync
      <3>3. Existing \ tasks[w].pending = Existing
        BY <3>1
      <3>4. tasks[w].routes = Admin \cup UNION {Own[p] : p \in Existing}
        BY <3>2, <3>3, Zenon
      <3> QED
        BY <3>4, WantedIsOwn, Zenon
    <2>3. live' = IF merged = list THEN list ELSE merged
      BY <2>1, <2>2, PostedList
    <2>4. live' = merged
      BY <2>3
    <2>5. /\ list \in Seq(Route) /\ wanted \in SUBSET Route /\ IsFiniteSet(wanted)
          /\ \A d \in wanted : d.to # None
      BY <1>0, WantedShape, RouteKinds
    <2>6. Merge(merged, wanted) = merged
      BY <2>5, MergeTwice
    <2>7. Wanted' = wanted
      BY <1>a, WantedStays
    <2>8. LiveSync'
      BY <1>a, <2>1, <2>4, <2>6, <2>7 DEF LiveSync
    <2>9. synced => live' = live
      BY <2>3 DEF SyncInv, LiveSync
    <2> QED
      BY <1>3, <2>8, <2>9 DEF SyncInv
  <1>5. CASE w \in overtaken
    <2>1. CASE synced /\ live' = live
      <3>1. LiveSync'
        BY <1>a, <2>1, LiveStays DEF SyncInv
      <3> QED
        BY <1>3, <2>1, <3>1 DEF SyncInv
    <2>2. CASE ~(synced /\ live' = live)
      <3>1. ~synced'
        BY <1>2, <1>5, <2>2
      <3> QED
        BY <1>3, <3>1 DEF SyncInv, LiveSync
    <2> QED
      BY <2>1, <2>2
  <1> QED
    BY <1>4, <1>5

\* One more project's routes.
LEMMA UnionWith ==
  ASSUME NEW own, NEW some, NEW p
  PROVE  UNION {own[q] : q \in some \cup {p}} = (UNION {own[q] : q \in some}) \cup own[p]
  OBVIOUS

\* Every step of a reconcile.
LEMMA SyncReconcile ==
  ASSUME ShapeInv, SyncInv, NEW w \in Workers, ReconcileStep(w)
  PROVE  SyncInv' /\ (synced /\ synced' => live' = live)
  <1>0. TasksShape /\ tasks = [v \in Workers |-> tasks[v]] /\ WorkerSync(w)
    BY DEF ShapeInv, TasksShape, SyncInv
  <1>1. CASE LoadSettings(w)
    <2>1. /\ UNCHANGED <<root, projects, domains, live, synced>>
          /\ overtaken' = overtaken \ {w}
      BY <1>1 DEF LoadSettings
    <2>2. /\ tasks'[w].pc = "list" /\ tasks'[w].root = root
          /\ \A v \in Workers : v # w => tasks'[v] = tasks[v]
      BY <1>0, <1>1, LoadedTask DEF TaskOf
    <2>3. WorkerSync(w)'
      BY <2>1, <2>2 DEF WorkerSync
    <2> QED
      BY <2>1, <2>2, <2>3, SyncStep
  <1>2. CASE ListProjects(w)
    <2>1. UNCHANGED <<root, projects, domains, live, synced, overtaken>> /\ tasks[w].pc = "list"
      BY <1>2 DEF ListProjects, At
    <2>2. /\ tasks'[w].pc = "project" /\ tasks'[w].root = tasks[w].root
          /\ tasks'[w].records = projects /\ tasks'[w].pending = Existing
          /\ tasks'[w].routes = AdminRoutes(tasks[w].root)
          /\ \A v \in Workers : v # w => tasks'[v] = tasks[v]
      BY <1>0, <1>2, ListedTask DEF TaskOf, Existing
    <2>3. Existing' = Existing /\ Admin' = Admin /\ Own' = Own
      BY <2>1, WantedStays
    <2>4. ASSUME w \notin overtaken
          PROVE  /\ tasks'[w].root = root /\ tasks'[w].routes = Admin
                 /\ UNION {Own[p] : p \in Existing \ tasks'[w].pending} = {}
      BY <1>0, <2>1, <2>2, <2>4 DEF WorkerSync, Admin
    <2>5. WorkerSync(w)'
      BY <2>1, <2>2, <2>3, <2>4 DEF WorkerSync
    <2> QED
      BY <2>1, <2>2, <2>5, SyncStep
  <1>9. CASE ReadRules(w)
    <2>1. UNCHANGED <<root, projects, domains, live, synced, overtaken>> /\ tasks[w].pc = "project"
      BY <1>9 DEF ReadRules, At
    <2>6. PICK p \in tasks[w].unread :
            tasks' = [tasks EXCEPT ![w] =
                       TaskOf("project", tasks[w].root,
                              [tasks[w].records EXCEPT ![p].rules = RulesNow(p)],
                              tasks[w].unread \ {p}, tasks[w].pending, tasks[w].routes,
                              tasks[w].config)]
      BY <1>0, <1>9, RulesTask
    <2> PICK read, rest : /\ read = [tasks[w].records EXCEPT ![p].rules = RulesNow(p)]
                          /\ rest = tasks[w].unread \ {p}
      OBVIOUS
    <2>7. tasks' = [tasks EXCEPT ![w] = TaskOf("project", tasks[w].root, read, rest,
                                               tasks[w].pending, tasks[w].routes,
                                               tasks[w].config)]
      BY <2>6, Zenon
    <2>8. /\ tasks'[w] = TaskOf("project", tasks[w].root, read, rest, tasks[w].pending,
                                 tasks[w].routes, tasks[w].config)
          /\ \A v \in Workers : v # w => tasks'[v] = tasks[v]
      BY <1>0, <2>7
    <2>2. /\ tasks'[w].pc = "project" /\ tasks'[w].root = tasks[w].root
          /\ tasks'[w].records = read /\ tasks'[w].pending = tasks[w].pending
          /\ tasks'[w].routes = tasks[w].routes
          /\ \A v \in Workers : v # w => tasks'[v] = tasks[v]
      BY <2>8 DEF TaskOf
    <2>3. Existing' = Existing /\ Admin' = Admin /\ Own' = Own
      BY <2>1, WantedStays
    <2>4. ASSUME w \notin overtaken PROVE tasks'[w].records = projects
      <3>1. tasks[w].records = projects /\ tasks[w].pending \subseteq Existing
        BY <1>0, <2>1, <2>4 DEF WorkerSync
      <3>2. p \in Projects /\ projects[p] \in Project /\ projects[p] # None
        BY <1>0, <3>1, FieldShapes DEF ShapeInv, DataShape, Existing
      <3>3. RulesNow(p) = projects[p].rules
        BY <3>2 DEF RulesNow
      <3>4. [projects[p] EXCEPT !.rules = projects[p].rules] = projects[p]
        BY <3>2 DEF Project
      <3>5. [projects EXCEPT ![p].rules = RulesNow(p)] = [projects EXCEPT ![p] = projects[p]]
        BY <3>3, <3>4
      <3>6. [projects EXCEPT ![p] = projects[p]] = projects
        BY DEF ShapeInv, DataShape
      <3> QED
        BY <2>2, <3>1, <3>5, <3>6
    <2>5. WorkerSync(w)'
      <3>1. ASSUME w \notin overtaken
            PROVE  /\ tasks[w].root = root /\ tasks[w].pending \subseteq Existing
                   /\ tasks[w].routes =
                        Admin \cup UNION {Own[q] : q \in Existing \ tasks[w].pending}
        BY <1>0, <2>1, <3>1, Zenon DEF WorkerSync
      <3>2. ASSUME w \notin overtaken'
            PROVE  /\ tasks'[w].root = root' /\ tasks'[w].records = projects'
                   /\ tasks'[w].pending \subseteq Existing'
                   /\ tasks'[w].routes =
                        Admin' \cup UNION {Own'[q] : q \in Existing' \ tasks'[w].pending}
        <4>1. w \notin overtaken
          BY <2>1, <3>2
        <4>2. \A x : UNION {Own[q] : q \in Existing \ x} = UNION {Own'[q] : q \in Existing' \ x}
          BY <2>3, Zenon
        <4> QED
          BY <2>1, <2>2, <2>3, <2>4, <3>1, <4>1, <4>2
      <3>3. tasks'[w].pc # "post"
        BY <2>2
      <3> QED
        BY <3>2, <3>3, Zenon DEF WorkerSync
    <2> QED
      BY <2>1, <2>2, <2>5, SyncStep
  <1>3. CASE ReadProject(w)
    <2>1. UNCHANGED <<root, projects, domains, live, synced, overtaken>> /\ tasks[w].pc = "project"
      BY <1>3 DEF ReadProject, At
    <2>2. PICK p \in tasks[w].pending :
            /\ tasks'[w].pc = "project" /\ tasks'[w].root = tasks[w].root
            /\ tasks'[w].records = tasks[w].records
            /\ tasks'[w].pending = tasks[w].pending \ {p}
            /\ tasks'[w].routes = tasks[w].routes
                                  \cup ExpandedRoutes(p, tasks[w].records[p], tasks[w].root)
            /\ \A v \in Workers : v # w => tasks'[v] = tasks[v]
      BY <1>0, <1>3, ReadTask DEF TaskOf
    <2>3. Existing' = Existing /\ Admin' = Admin /\ Own' = Own
      BY <2>1, WantedStays
    <2>4. ASSUME w \notin overtaken
          PROVE  /\ tasks'[w].root = root /\ tasks'[w].records = projects
                 /\ tasks'[w].pending \subseteq Existing
                 /\ tasks'[w].routes =
                      Admin \cup UNION {Own[q] : q \in Existing \ tasks'[w].pending}
      <3>1. /\ tasks[w].root = root /\ tasks[w].records = projects
            /\ tasks[w].pending \subseteq Existing
        BY <1>0, <2>1, <2>4 DEF WorkerSync
      <3>2. tasks[w].routes = Admin \cup UNION {Own[q] : q \in Existing \ tasks[w].pending}
        BY <1>0, <2>1, <2>4, Zenon DEF WorkerSync
      <3>3. p \in Existing /\ ExpandedRoutes(p, tasks[w].records[p], tasks[w].root) = Own[p]
        BY <3>1 DEF Own, Existing
      <3>4. Existing \ tasks'[w].pending = (Existing \ tasks[w].pending) \cup {p}
        BY <2>2, <3>3
      <3>5. UNION {Own[q] : q \in (Existing \ tasks[w].pending) \cup {p}}
              = (UNION {Own[q] : q \in Existing \ tasks[w].pending}) \cup Own[p]
        BY UnionWith
      <3>6. tasks'[w].routes = Admin \cup UNION {Own[q] : q \in Existing \ tasks'[w].pending}
        <4>1. tasks'[w].routes = tasks[w].routes \cup Own[p]
          BY <2>2, <3>3
        <4> QED
          BY <3>2, <3>4, <3>5, <4>1
      <3> QED
        BY <2>2, <3>1, <3>6
    <2>5. WorkerSync(w)'
      <3>1. ASSUME w \notin overtaken'
            PROVE  /\ tasks'[w].root = root' /\ tasks'[w].records = projects'
                   /\ tasks'[w].pending \subseteq Existing'
                   /\ tasks'[w].routes =
                        Admin' \cup UNION {Own'[q] : q \in Existing' \ tasks'[w].pending}
        BY <2>1, <2>3, <2>4, <3>1, Zenon
      <3>2. tasks'[w].pc # "post"
        BY <2>2
      <3> QED
        BY <3>1, <3>2, Zenon DEF WorkerSync
    <2> QED
      BY <2>1, <2>2, <2>5, SyncStep
  <1>4. CASE GetConfig(w)
    <2>1. UNCHANGED <<root, projects, domains, live, synced, overtaken>> /\ tasks[w].pc = "project"
      BY <1>4 DEF GetConfig, At
    <2>2. /\ tasks'[w].root = tasks[w].root /\ tasks'[w].records = tasks[w].records
          /\ tasks'[w].pending = tasks[w].pending /\ tasks'[w].routes = tasks[w].routes
          /\ tasks'[w].config = live
          /\ \A v \in Workers : v # w => tasks'[v] = tasks[v]
      BY <1>0, <1>4, GotTask DEF TaskOf
    <2>3. Existing' = Existing /\ Admin' = Admin /\ Own' = Own
      BY <2>1, WantedStays
    <2>4. WorkerSync(w)'
      <3>1. tasks[w].pc \in {"list", "project", "post"} /\ tasks[w].pc \in {"project", "post"}
        BY <2>1
      <3>2. ASSUME w \notin overtaken
            PROVE  /\ tasks[w].root = root /\ tasks[w].records = projects
                   /\ tasks[w].pending \subseteq Existing
                   /\ tasks[w].routes =
                        Admin \cup UNION {Own[q] : q \in Existing \ tasks[w].pending}
        BY <1>0, <3>1, <3>2, Zenon DEF WorkerSync
      <3>3. ASSUME w \notin overtaken'
            PROVE  /\ tasks'[w].root = root' /\ tasks'[w].records = projects'
                   /\ tasks'[w].pending \subseteq Existing'
                   /\ tasks'[w].routes =
                        Admin' \cup UNION {Own'[q] : q \in Existing' \ tasks'[w].pending}
                   /\ tasks'[w].config = live'
        <4>1. w \notin overtaken
          BY <2>1, <3>3
        <4>2. \A x : UNION {Own[q] : q \in Existing \ x} = UNION {Own'[q] : q \in Existing' \ x}
          BY <2>3, Zenon
        <4> QED
          BY <2>1, <2>2, <2>3, <3>2, <4>1, <4>2
      <3> QED
        BY <3>3, Zenon DEF WorkerSync
    <2> QED
      BY <2>1, <2>2, <2>4, SyncStep
  <1>5. ASSUME Return(w)
        PROVE  WorkerSync(w)' /\ \A v \in Workers : v # w => tasks'[v] = tasks[v]
    <2>1. tasks'[w].pc = "idle" /\ \A v \in Workers : v # w => tasks'[v] = tasks[v]
      BY <1>0, <1>5 DEF Return, IdleTask
    <2> QED
      BY <2>1, OutsideSync
  <1>6. CASE NothingToPublish(w)
    BY <1>5, <1>6, SyncStep DEF NothingToPublish
  <1>7. CASE CaddyFails(w)
    BY <1>5, <1>7, SyncStep DEF CaddyFails
  <1>8. CASE Post(w)
    BY <1>8, SyncPost
  <1> QED
    BY <1>1, <1>2, <1>3, <1>4, <1>6, <1>7, <1>8, <1>9, Zenon DEF ReconcileStep

\* Initially nothing has been read.
LEMMA SyncInit ==
  ASSUME Init
  PROVE  SyncInv
  BY DEF Init, SyncInv, LiveSync, WorkerSync

\* Reads that nothing has overtaken are of the present state.
LEMMA SyncHolds == Spec => []SyncInv
  <1>1. Init => SyncInv
    BY SyncInit
  <1>2. ShapeInv /\ SyncInv /\ [Next]_vars => SyncInv'
    <2> SUFFICES ASSUME ShapeInv, SyncInv, [Next]_vars PROVE SyncInv'
      OBVIOUS
    <2>1. CASE Next
      BY <2>1, StepKinds, SyncHandler, SyncReconcile
    <2>2. CASE UNCHANGED vars
      <3>1. UNCHANGED <<root, projects, domains, live, tasks, synced, overtaken>>
        BY <2>2 DEF vars
      <3>2. LiveSync'
        BY <3>1, LiveStays DEF SyncInv
      <3>3. ASSUME NEW v \in Workers PROVE WorkerSync(v)'
        BY <3>1, OthersSync DEF SyncInv
      <3> QED
        BY <3>2, <3>3 DEF SyncInv
    <2> QED
      BY <2>1, <2>2
  <1> QED
    BY <1>1, <1>2, ShapeHolds, PTL DEF Spec

\* A list that another merge would not change has what the merge promises.
LEMMA SyncedIsPublished ==
  ASSUME ShapeInv, LiveSync
  PROVE  Published
  <1> SUFFICES ASSUME synced, root # None
               PROVE  /\ Wanted \subseteq ToSet(live)
                      /\ \A i \in DOMAIN live :
                           MatchesManagedKeys(live[i], Managed(Wanted)) => live[i] \in Wanted
                      /\ \A i, j \in DOMAIN live :
                           (/\ i < j /\ live[i] \in Wanted /\ live[j] \in Wanted
                            /\ live[i].host = live[j].host)
                           => Specificity(live[i]) >= Specificity(live[j])
    BY DEF Published
  <1> PICK list, wanted : list = live /\ wanted = Wanted
    OBVIOUS
  <1>1. /\ list \in Seq(Route) /\ wanted \in SUBSET Route /\ IsFiniteSet(wanted)
        /\ \A d \in wanted : d.to # None
    BY WantedShape, RouteKinds DEF ShapeInv, RestShape
  <1>2. Merge(list, wanted) = list
    BY DEF LiveSync
  <1>3. /\ ToSet(list) = {r \in ToSet(list) : ~MatchesManagedKeys(r, Managed(wanted))} \cup wanted
        /\ \A i, j \in DOMAIN list :
             i < j /\ list[i] \in wanted /\ list[j] \in wanted
             => Specificity(list[i]) >= Specificity(list[j])
    <2> PICK merged : merged = Merge(list, wanted)
      OBVIOUS
    <2>1. /\ ToSet(merged) = {r \in ToSet(list) : ~MatchesManagedKeys(r, Managed(wanted))} \cup wanted
          /\ \A i, j \in DOMAIN merged :
               i < j /\ merged[i] \in wanted /\ merged[j] \in wanted
               => Specificity(merged[i]) >= Specificity(merged[j])
      BY <1>1, MergedRoutes
    <2> QED
      BY <1>2, <2>1
  <1>4. ASSUME NEW i \in DOMAIN list, MatchesManagedKeys(list[i], Managed(wanted))
        PROVE  list[i] \in wanted
    <2>1. list[i] \in ToSet(list)
      BY DEF ToSet
    <2> QED
      BY <1>3, <1>4, <2>1
  <1> QED
    BY <1>3, <1>4

\* After a reconcile that nothing has overtaken Caddy has every route that the
\* database asks for, no other for the same host and matcher, and within a host
\* the more specific one first, however many reconciles run at once
\* (reconcileCaddy, MergeManagedRoutes, BuildConfig).
THEOREM ReconcilesPublish == Spec => []Published
  <1>1. ShapeInv /\ SyncInv => Published
    BY SyncedIsPublished DEF SyncInv
  <1> QED
    BY <1>1, ShapeHolds, SyncHolds, PTL

\* A reconcile of what is in sync does not touch Caddy: merging is idempotent
\* (MergeManagedRoutes, ReconcileManagedRoutes).
THEOREM ReconcilesIdempotent == Spec => ReconcileIsIdempotent
  <1>1. ShapeInv /\ SyncInv /\ [Next]_vars => [(synced /\ synced') => live' = live]_vars
    <2> SUFFICES ASSUME ShapeInv, SyncInv, Next PROVE (synced /\ synced') => live' = live
      OBVIOUS
    <2> QED
      BY StepKinds, HandlerSteps, SyncReconcile
  <1> QED
    BY <1>1, ShapeHolds, SyncHolds, PTL DEF Spec, ReconcileIsIdempotent
=============================================================================
