----------------------------- MODULE CacheProofs -----------------------------
(***************************************************************************)
(* The list and the map of the block cache, for any keys and any size.     *)
(* list::remove is a recursive function, so what it returns is shown by    *)
(* induction: on the least length for which it would not hold.             *)
(***************************************************************************)
EXTENDS ClientCache, FiniteSetTheorems, SequenceTheorems, WellFoundedInduction, TLAPS

-----------------------------------------------------------------------------
(* Induction on natural numbers, without a predicate as a parameter.        *)

Less == {p \in Nat \X Nat : p[1] < p[2]}

LEMMA LessIsWellFounded == IsWellFoundedOn(Less, Nat)
<1>1. Less = OpToRel(<, Nat)
  BY DEF Less, OpToRel
<1> QED BY <1>1, NatLessThanWellFounded

\* A set of numbers that is not empty has a least element.
LEMMA Least ==
  ASSUME NEW T \in SUBSET Nat, T # {}
  PROVE  \E n \in T : \A m \in T : n <= m
<1>1. PICK n \in T : \A m \in T : <<m, n>> \notin Less
  BY LessIsWellFounded, WFMin
<1>2. ASSUME NEW m \in T PROVE n <= m
  <2>1. n \in Nat /\ m \in Nat /\ <<m, n>> \notin Less
    BY <1>1
  <2> QED BY <2>1 DEF Less
<1> QED BY <1>2

\* Good is the set of the numbers, up to a last one, for which something holds.
LEMMA UpTo ==
  ASSUME NEW last \in Nat, NEW Good \in SUBSET (0..last), 0 \in Good,
         \A n \in 1..last : n - 1 \in Good => n \in Good
  PROVE  last \in Good
<1> SUFFICES ASSUME last \notin Good PROVE FALSE
  OBVIOUS
<1> DEFINE Bad == (0..last) \ Good
<1>1. Bad \in SUBSET Nat /\ last \in Bad
  OBVIOUS
<1>2. PICK n \in Bad : \A m \in Bad : n <= m
  <2> HIDE DEF Bad
  <2> QED BY <1>1, Least
<1>3. n \in 1..last
  OBVIOUS
<1>4. n - 1 \in Bad
  BY <1>3
<1> QED BY <1>2, <1>3, <1>4

-----------------------------------------------------------------------------
(* Lists.                                                                   *)

Distinct(s) == \A i, j \in 1..Len(s) : i # j => s[i] # s[j]

LEMMA ElementOf ==
  ASSUME NEW S, NEW s \in Seq(S)
  PROVE  /\ \A x : x \in ToSet(s) <=> \E i \in 1..Len(s) : s[i] = x
         /\ ToSet(s) \subseteq S
BY DEF ToSet

\* A list has as many keys as places exactly if no key is on it twice.
LEMMA DistinctCount ==
  ASSUME NEW S, NEW s \in Seq(S)
  PROVE  /\ IsFiniteSet(ToSet(s))
         /\ Cardinality(ToSet(s)) = Len(s) <=> Distinct(s)
<1>1. s \in Surjection(1..Len(s), ToSet(s))
  BY DEF ToSet, Surjection
<1>2. s \in Injection(1..Len(s), ToSet(s)) <=> Distinct(s)
  BY <1>1 DEF Injection, Surjection, Distinct, IsInjective
<1>3. IsFiniteSet(1..Len(s)) /\ Cardinality(1..Len(s)) = Len(s)
  <2>1. 1 \in Int /\ Len(s) \in Int /\ Len(s) >= 0
    OBVIOUS
  <2> QED BY <2>1, FS_Interval
<1>4. /\ IsFiniteSet(ToSet(s))
      /\ Cardinality(ToSet(s)) = Cardinality(1..Len(s)) <=> s \in Injection(1..Len(s), ToSet(s))
  BY <1>1, <1>3, FS_Surjection
<1> QED BY <1>2, <1>3, <1>4

LEMMA AppendKey ==
  ASSUME NEW S, NEW s \in Seq(S), NEW x \in S
  PROVE  /\ Append(s, x) \in Seq(S)
         /\ \A y : y \in ToSet(Append(s, x)) <=> y \in ToSet(s) \/ y = x
         /\ Distinct(s) /\ x \notin ToSet(s) => Distinct(Append(s, x))
<1> DEFINE t == Append(s, x)
<1>1. /\ t \in Seq(S) /\ Len(t) = Len(s) + 1 /\ t[Len(s) + 1] = x
      /\ \A i \in 1..Len(s) : t[i] = s[i]
  OBVIOUS
<1> HIDE DEF t
<1>2. \A y : y \in ToSet(t) <=> y \in ToSet(s) \/ y = x
  BY <1>1, ElementOf
<1>3. Distinct(s) /\ x \notin ToSet(s) => Distinct(t)
  BY <1>1, ElementOf DEF Distinct
<1> QED BY <1>1, <1>2, <1>3 DEF t

LEMMA PushKey ==
  ASSUME NEW S, NEW s \in Seq(S), NEW x \in S
  PROVE  /\ <<x>> \o s \in Seq(S)
         /\ \A y : y \in ToSet(<<x>> \o s) <=> y \in ToSet(s) \/ y = x
         /\ Distinct(s) /\ x \notin ToSet(s) => Distinct(<<x>> \o s)
<1> DEFINE t == <<x>> \o s
<1>1. /\ t \in Seq(S) /\ Len(t) = Len(s) + 1 /\ t[1] = x
      /\ \A i \in 2..Len(t) : t[i] = s[i - 1]
  OBVIOUS
<1> HIDE DEF t
<1>2. \A i \in 1..Len(s) : i + 1 \in 1..Len(t) /\ t[i + 1] = s[i]
  BY <1>1
<1>3. \A i \in 1..Len(t) : i = 1 \/ (i - 1 \in 1..Len(s) /\ t[i] = s[i - 1])
  BY <1>1
<1>4. \A y : y \in ToSet(t) <=> y \in ToSet(s) \/ y = x
  <2>1. 1 \in 1..Len(t)
    BY <1>1
  <2>2. ASSUME NEW y \in ToSet(t) PROVE y \in ToSet(s) \/ y = x
    <3>1. PICK i \in 1..Len(t) : t[i] = y
      BY <1>1, ElementOf
    <3> QED BY <1>1, <1>3, <3>1, ElementOf
  <2>3. ASSUME NEW y \in ToSet(s) PROVE y \in ToSet(t)
    <3>1. PICK i \in 1..Len(s) : s[i] = y
      BY ElementOf
    <3> QED BY <1>1, <1>2, <3>1, ElementOf
  <2>4. x \in ToSet(t)
    BY <1>1, <2>1, ElementOf
  <2> QED BY <2>2, <2>3, <2>4
<1>5. Distinct(s) /\ x \notin ToSet(s) => Distinct(t)
  <2> SUFFICES ASSUME Distinct(s), x \notin ToSet(s), NEW i \in 1..Len(t), NEW j \in 1..Len(t), i # j
               PROVE  t[i] # t[j]
    BY DEF Distinct
  <2>1. \A k \in 1..Len(s) : s[k] # x
    BY ElementOf
  <2>2. i # 1 /\ j # 1 => s[i - 1] # s[j - 1]
    <3>1. i # 1 /\ j # 1 => i - 1 # j - 1 /\ i - 1 \in 1..Len(s) /\ j - 1 \in 1..Len(s)
      BY <1>3
    <3> QED BY <3>1 DEF Distinct
  <2> QED BY <1>1, <1>3, <2>1, <2>2
<1> QED BY <1>1, <1>4, <1>5 DEF t

LEMMA FrontKeys ==
  ASSUME NEW S, NEW s \in Seq(S), s # <<>>
  PROVE  /\ Front(s) \in Seq(S) /\ Last(s) \in ToSet(s)
         /\ \A y : y \in ToSet(s) <=> y \in ToSet(Front(s)) \/ y = Last(s)
         /\ Distinct(s) => Distinct(Front(s)) /\ Last(s) \notin ToSet(Front(s))
<1> DEFINE t == Front(s)
<1>1. /\ t \in Seq(S) /\ Len(t) = Len(s) - 1 /\ Len(s) \in Nat \ {0}
      /\ \A i \in 1..Len(t) : t[i] = s[i]
      /\ Last(s) = s[Len(s)]
  <2>1. Len(s) \in Nat \ {0} /\ Front(s) = SubSeq(s, 1, Len(s) - 1) /\ Last(s) = s[Len(s)]
    BY DEF Front, Last
  <2>2. PICK n \in Nat : Len(s) = n + 1
    <3>1. Len(s) - 1 \in Nat /\ Len(s) = (Len(s) - 1) + 1
      BY <2>1
    <3> QED BY <3>1
  <2>3. t = SubSeq(s, 1, n)
    BY <2>1, <2>2
  <2>4. 1 \in Int /\ n \in Int /\ \A i \in 1..n : i \in 1..Len(s) /\ s[i] \in S
    BY <2>2
  <2>5. /\ t \in Seq(S)
        /\ Len(t) = IF 1 <= n THEN n - 1 + 1 ELSE 0
        /\ \A i \in 1..n - 1 + 1 : t[i] = s[1 + i - 1]
    <3> HIDE DEF t
    <3> QED BY <2>3, <2>4, SubSeqProperties
  <2> HIDE DEF t
  <2>6. Len(t) = n
    BY <2>5
  <2>7. \A i \in 1..n : t[i] = s[i]
    BY <2>5
  <2> QED BY <2>1, <2>2, <2>5, <2>6, <2>7
<1> HIDE DEF t
<1>2. \A i \in 1..Len(s) : i = Len(s) \/ i \in 1..Len(t)
  BY <1>1
<1>3. Last(s) \in ToSet(s)
  BY <1>1, ElementOf
<1>4. \A y : y \in ToSet(s) <=> y \in ToSet(t) \/ y = Last(s)
  BY <1>1, <1>2, ElementOf
<1>5. Distinct(s) => Distinct(t) /\ Last(s) \notin ToSet(t)
  BY <1>1, ElementOf DEF Distinct
<1> QED BY <1>1, <1>3, <1>4, <1>5 DEF t

-----------------------------------------------------------------------------
(* What list::remove returns.                                               *)

\* The turn n of the loop, after those that `before` stands for.
Turn(list, key, before, n) ==
  IF n = 0 THEN <<>>
  ELSE IF list[n] = key THEN before[n - 1] ELSE Append(before[n - 1], list[n])

\* The recursive function exists.
LEMMA TurnsExist ==
  ASSUME NEW S, NEW list \in Seq(S), NEW key
  PROVE  \E kept : kept = [n \in 0..Len(list) |-> Turn(list, key, kept, n)]
<1> DEFINE Exists(n) == \E kept : kept = [k \in 0..n |-> Turn(list, key, kept, k)]
           Good == {n \in 0..Len(list) : Exists(n)}
<1>1. 0 \in Good
  <2> DEFINE first == [k \in 0..0 |-> <<>>]
  <2>1. first = [k \in 0..0 |-> Turn(list, key, first, k)]
    BY DEF Turn
  <2>2. Exists(0)
    BY <2>1
  <2> QED BY <2>2
<1>2. ASSUME NEW n \in 1..Len(list), n - 1 \in Good PROVE n \in Good
  <2>1. PICK before : before = [k \in 0..n - 1 |-> Turn(list, key, before, k)]
    BY <1>2
  <2> DEFINE kept == [k \in 0..n |-> IF k = n THEN Turn(list, key, before, n) ELSE before[k]]
  <2>2. \A k \in 0..n - 1 : kept[k] = before[k] /\ k # n
    OBVIOUS
  <2>3. kept[n] = Turn(list, key, before, n)
    OBVIOUS
  <2>4. ASSUME NEW k \in 0..n PROVE kept[k] = Turn(list, key, kept, k)
    <3>1. Turn(list, key, kept, k) = Turn(list, key, before, k)
      <4>1. k # 0 => k - 1 \in 0..n - 1
        OBVIOUS
      <4> HIDE DEF kept
      <4> QED BY <2>2, <4>1 DEF Turn
    <3>2. CASE k = n
      BY <2>3, <3>1, <3>2
    <3>3. CASE k # n
      <4>1. k \in 0..n - 1
        BY <3>3
      <4>2. before[k] = Turn(list, key, before, k)
        BY <2>1, <4>1
      <4> QED BY <2>2, <3>1, <4>1, <4>2
    <3> QED BY <3>2, <3>3
  <2>5. kept = [k \in 0..n |-> kept[k]]
    OBVIOUS
  <2>6. kept = [k \in 0..n |-> Turn(list, key, kept, k)]
    <3> HIDE DEF kept
    <3> QED BY <2>4, <2>5
  <2>7. Exists(n)
    <3> HIDE DEF kept
    <3> QED BY <2>6
  <2> QED BY <2>7
<1>3. Len(list) \in Good
  <2>1. Len(list) \in Nat /\ Good \in SUBSET (0..Len(list))
    OBVIOUS
  <2> HIDE DEF Good
  <2> QED BY <1>1, <1>2, <2>1, UpTo
<1> QED BY <1>3

LEMMA RemoveByTurns ==
  ASSUME NEW S, NEW list \in Seq(S), NEW key
  PROVE  \E kept : /\ kept = [n \in 0..Len(list) |-> Turn(list, key, kept, n)]
                   /\ ListRemove(list, key) = kept[Len(list)]
<1> DEFINE kept == CHOOSE f : f = [n \in 0..Len(list) |-> Turn(list, key, f, n)]
<1>1. kept = [n \in 0..Len(list) |-> Turn(list, key, kept, n)]
  BY TurnsExist
<1>2. ListRemove(list, key) = kept[Len(list)]
  BY DEF ListRemove, Turn
<1> HIDE DEF kept
<1> QED BY <1>1, <1>2

\* Every copy of the key is gone, and nothing else.
LEMMA RemoveKey ==
  ASSUME NEW S, NEW list \in Seq(S), NEW key
  PROVE  /\ ListRemove(list, key) \in Seq(S)
         /\ ToSet(ListRemove(list, key)) = ToSet(list) \ {key}
         /\ Distinct(list) => Distinct(ListRemove(list, key))
<1>1. PICK kept : /\ kept = [n \in 0..Len(list) |-> Turn(list, key, kept, n)]
                  /\ ListRemove(list, key) = kept[Len(list)]
  BY RemoveByTurns
<1> DEFINE Right(n) ==
      /\ kept[n] \in Seq(S)
      /\ \A x : x \in ToSet(kept[n]) <=> x # key /\ \E i \in 1..n : list[i] = x
      /\ Distinct(list) => Distinct(kept[n])
    Good == {n \in 0..Len(list) : Right(n)}
<1>2. 0 \in Good
  <2>1. kept[0] = <<>>
    BY <1>1 DEF Turn
  <2>2. <<>> \in Seq(S) /\ Len(<<>>) = 0 /\ Distinct(<<>>)
    BY DEF Distinct
  <2>3. \A x : x \notin ToSet(<<>>)
    BY DEF ToSet
  <2>4. \A i \in 1..0 : FALSE
    OBVIOUS
  <2>5. Right(0)
    BY <2>1, <2>2, <2>3, <2>4
  <2> QED BY <2>5
<1>3. ASSUME NEW n \in 1..Len(list), n - 1 \in Good PROVE n \in Good
  <2>0. n \in 0..Len(list) /\ n # 0
    OBVIOUS
  <2>1. kept[n] = IF list[n] = key THEN kept[n - 1] ELSE Append(kept[n - 1], list[n])
    <3>1. kept[n] = Turn(list, key, kept, n)
      BY <1>1, <2>0
    <3> QED BY <2>0, <3>1 DEF Turn
  <2>2. Right(n - 1) /\ list[n] \in S
    BY <1>3
  <2>3. \A i \in 1..n : i = n \/ i \in 1..n - 1
    OBVIOUS
  <2>4. \A i \in 1..n - 1 : i \in 1..n /\ i \in 1..Len(list) /\ i # n
    OBVIOUS
  <2>5. CASE list[n] = key
    BY <2>0, <2>1, <2>2, <2>3, <2>4, <2>5
  <2>6. CASE list[n] # key
    <3>1. kept[n] = Append(kept[n - 1], list[n])
      BY <2>1, <2>6
    <3>2. \A x : x \in ToSet(kept[n]) <=> x # key /\ \E i \in 1..n : list[i] = x
      <4>1. \A x : x \in ToSet(kept[n]) <=> x \in ToSet(kept[n - 1]) \/ x = list[n]
        BY <2>2, <3>1, AppendKey
      <4>2. n \in 1..n
        OBVIOUS
      <4> QED BY <2>2, <2>3, <2>4, <2>6, <4>1, <4>2
    <3>3. ASSUME Distinct(list) PROVE Distinct(kept[n])
      <4>1. list[n] \notin ToSet(kept[n - 1])
        BY <2>2, <2>4, <3>3 DEF Distinct
      <4> QED BY <2>2, <3>1, <3>3, <4>1, AppendKey
    <3>4. kept[n] \in Seq(S)
      BY <2>2, <3>1, AppendKey
    <3> QED BY <2>0, <3>2, <3>3, <3>4
  <2> QED BY <2>5, <2>6
<1>4. Len(list) \in Good
  <2>1. Len(list) \in Nat /\ Good \in SUBSET (0..Len(list))
    OBVIOUS
  <2> HIDE DEF Good
  <2> QED BY <1>2, <1>3, <2>1, UpTo
<1>5. ToSet(kept[Len(list)]) = ToSet(list) \ {key}
  BY <1>4, ElementOf
<1> QED BY <1>1, <1>4, <1>5

-----------------------------------------------------------------------------
(* The induction.                                                           *)

CacheInv == Evictable /\ ExactUntilReadded

LEMMA CacheFacts ==
  ASSUME CacheInv
  PROVE  /\ lru_list \in Seq(Keys) /\ cache_map \subseteq Keys
         /\ cache_map \subseteq ToSet(lru_list)
         /\ IsFiniteSet(cache_map) /\ Cardinality(cache_map) \in Nat
         /\ ~readded => /\ ToSet(lru_list) = cache_map
                        /\ Distinct(lru_list)
                        /\ Cardinality(cache_map) <= cache_size
<1>1. lru_list \in Seq(Keys) /\ cache_map \subseteq ToSet(lru_list)
  BY DEF CacheInv, Evictable
<1>2. IsFiniteSet(ToSet(lru_list)) /\ ToSet(lru_list) \subseteq Keys
  BY <1>1, DistinctCount, ElementOf
<1>3. IsFiniteSet(cache_map) /\ Cardinality(cache_map) \in Nat
  BY <1>1, <1>2, FS_Subset, FS_CardinalityType
<1>4. ~readded => Distinct(lru_list)
  BY <1>1, DistinctCount DEF CacheInv, ExactUntilReadded
<1> QED BY <1>1, <1>2, <1>3, <1>4 DEF CacheInv, ExactUntilReadded

\* The other way round, in the next state.
LEMMA CacheInvFrom ==
  ASSUME lru_list' \in Seq(Keys), readded' \in BOOLEAN, cache_map' \subseteq ToSet(lru_list'),
         ~readded' => /\ ToSet(lru_list') = cache_map'
                      /\ Distinct(lru_list')
                      /\ Cardinality(cache_map') <= cache_size
  PROVE  CacheInv'
<1>1. ~readded' => Len(lru_list') = Cardinality(cache_map')
  BY DistinctCount
<1> QED BY <1>1 DEF CacheInv, Evictable, ExactUntilReadded

\* What evictBlock leaves.
LEMMA EvictedFacts ==
  ASSUME CacheInv,
         NEW list, list = Evicted(lru_list, cache_map).list,
         NEW map, map = Evicted(lru_list, cache_map).map
  PROVE  /\ list \in Seq(Keys) /\ map \subseteq ToSet(list) /\ map \subseteq cache_map
         /\ ~readded => /\ ToSet(list) = map /\ Distinct(list)
                        /\ cache_map # {} => Cardinality(map) = Cardinality(cache_map) - 1
<1>1. CASE lru_list = <<>>
  <2>1. list = lru_list /\ map = cache_map
    BY <1>1 DEF Evicted
  <2>2. ToSet(lru_list) = {}
    BY <1>1 DEF ToSet
  <2> QED BY <2>1, <2>2, CacheFacts
<1>2. CASE lru_list # <<>>
  <2>1. list = Front(lru_list) /\ map = cache_map \ {Last(lru_list)}
    BY <1>2 DEF Evicted
  <2>2. /\ list \in Seq(Keys)
        /\ Last(lru_list) \in ToSet(lru_list)
        /\ \A y : y \in ToSet(lru_list) <=> y \in ToSet(list) \/ y = Last(lru_list)
        /\ Distinct(lru_list) => Distinct(list) /\ Last(lru_list) \notin ToSet(list)
    BY <1>2, <2>1, CacheFacts, FrontKeys
  <2>3. ~readded => Cardinality(map) = Cardinality(cache_map) - 1
    BY <2>1, <2>2, CacheFacts, FS_RemoveElement
  <2> QED BY <2>1, <2>2, <2>3, CacheFacts
<1> QED BY <1>1, <1>2

LEMMA AddStep ==
  ASSUME CacheInv, NEW key \in Keys, addBlock(key)
  PROVE  CacheInv'
<1>1. PICK list, map :
        /\ list \in Seq(Keys) /\ map \subseteq ToSet(list) /\ map \subseteq cache_map
        /\ lru_list' = <<key>> \o list /\ cache_map' = map \union {key}
        /\ ~readded => /\ ToSet(list) = map /\ Distinct(list)
                       /\ Cardinality(map) < cache_size
  <2>1. CASE Full(cache_map)
    <3> DEFINE room == Evicted(lru_list, cache_map)
    <3>1. /\ room.list \in Seq(Keys) /\ room.map \subseteq ToSet(room.list)
          /\ room.map \subseteq cache_map
          /\ ~readded => /\ ToSet(room.list) = room.map /\ Distinct(room.list)
                         /\ cache_map # {} => Cardinality(room.map) = Cardinality(cache_map) - 1
      BY EvictedFacts
    <3>2. lru_list' = <<key>> \o room.list /\ cache_map' = room.map \union {key}
      BY <2>1 DEF addBlock
    <3>3. cache_map # {}
      BY <2>1, FS_EmptySet, CacheSizeAssumption DEF Full
    <3>4. ~readded => Cardinality(room.map) < cache_size
      BY <3>1, <3>3, CacheFacts, CacheSizeAssumption
    <3> HIDE DEF room
    <3> QED BY <3>1, <3>2, <3>4
  <2>2. CASE ~Full(cache_map)
    <3>1. lru_list' = <<key>> \o lru_list /\ cache_map' = cache_map \union {key}
      BY <2>2 DEF addBlock
    <3>2. Cardinality(cache_map) < cache_size
      BY <2>2, CacheFacts, CacheSizeAssumption DEF Full
    <3> QED BY <3>1, <3>2, CacheFacts
  <2> QED BY <2>1, <2>2
<1>2. readded \in BOOLEAN /\ readded' = (readded \/ key \in cache_map)
  BY DEF addBlock, hasBlock, CacheInv, Evictable
<1>3. /\ lru_list' \in Seq(Keys)
      /\ \A y : y \in ToSet(lru_list') <=> y \in ToSet(list) \/ y = key
      /\ Distinct(list) /\ key \notin ToSet(list) => Distinct(lru_list')
  BY <1>1, PushKey
<1>4. ASSUME ~readded'
      PROVE  /\ ToSet(lru_list') = cache_map' /\ Distinct(lru_list')
             /\ Cardinality(cache_map') <= cache_size
  <2>1. ~readded /\ key \notin map
    BY <1>1, <1>2, <1>4
  <2>2. IsFiniteSet(map) /\ Cardinality(map) \in Nat
    BY <1>1, CacheFacts, FS_Subset, FS_CardinalityType
  <2>3. Cardinality(cache_map') = Cardinality(map) + 1
    BY <1>1, <2>1, <2>2, FS_AddElement
  <2>4. Cardinality(cache_map') <= cache_size
    BY <1>1, <2>1, <2>2, <2>3, CacheSizeAssumption
  <2> QED BY <1>1, <1>3, <2>1, <2>4
<1>5. readded' \in BOOLEAN
  BY <1>2
<1> QED BY <1>1, <1>3, <1>4, <1>5, CacheInvFrom

LEMMA EvictStep ==
  ASSUME CacheInv, evictBlock
  PROVE  CacheInv'
<1>1. /\ lru_list' = Evicted(lru_list, cache_map).list
      /\ cache_map' = Evicted(lru_list, cache_map).map
      /\ readded' = readded /\ readded \in BOOLEAN
  BY DEF evictBlock, CacheInv, Evictable
<1>2. /\ lru_list' \in Seq(Keys) /\ cache_map' \subseteq ToSet(lru_list')
      /\ cache_map' \subseteq cache_map
      /\ ~readded => ToSet(lru_list') = cache_map' /\ Distinct(lru_list')
  BY <1>1, EvictedFacts
<1>3. Cardinality(cache_map') \in Nat /\ Cardinality(cache_map') <= Cardinality(cache_map)
  BY <1>2, CacheFacts, FS_Subset, FS_CardinalityType
<1>4. ~readded => Cardinality(cache_map') <= cache_size
  BY <1>3, CacheFacts, CacheSizeAssumption
<1> QED BY <1>1, <1>2, <1>4, CacheInvFrom

LEMMA InvalidateStep ==
  ASSUME CacheInv, NEW key \in Keys, invalidateBlock(key)
  PROVE  CacheInv'
<1>1. /\ lru_list' = ListRemove(lru_list, key) /\ cache_map' = cache_map \ {key}
      /\ readded' = readded /\ readded \in BOOLEAN
  BY DEF invalidateBlock, CacheInv, Evictable
<1>2. /\ lru_list' \in Seq(Keys) /\ ToSet(lru_list') = ToSet(lru_list) \ {key}
      /\ Distinct(lru_list) => Distinct(lru_list')
  BY <1>1, CacheFacts, RemoveKey
<1>3. cache_map' \subseteq cache_map
  BY <1>1
<1>4. Cardinality(cache_map') \in Nat /\ Cardinality(cache_map') <= Cardinality(cache_map)
  BY <1>3, CacheFacts, FS_Subset, FS_CardinalityType
<1>5. ~readded => Cardinality(cache_map') <= cache_size
  BY <1>4, CacheFacts, CacheSizeAssumption
<1> QED BY <1>1, <1>2, <1>5, CacheFacts, CacheInvFrom

LEMMA EmptyCache ==
  ASSUME lru_list = <<>>, cache_map = {}, readded = FALSE
  PROVE  CacheInv
<1>1. lru_list \in Seq(Keys) /\ Len(lru_list) = 0 /\ ToSet(lru_list) = {}
  BY DEF ToSet
<1>2. Cardinality(cache_map) = 0
  BY FS_EmptySet
<1>3. Cardinality(cache_map) <= cache_size /\ Len(lru_list) = Cardinality(cache_map)
  BY <1>1, <1>2, CacheSizeAssumption
<1>4. readded \in BOOLEAN /\ cache_map = ToSet(lru_list)
  BY <1>1
<1> QED BY <1>1, <1>3, <1>4 DEF CacheInv, Evictable, ExactUntilReadded

\* The list and the map of the cache, after any calls of its methods.
THEOREM CacheInvariant == CacheSpec => []CacheInv
<1>1. CacheInit => CacheInv
  BY EmptyCache DEF CacheInit
<1>2. CacheInv /\ [CacheNext]_cacheVars => CacheInv'
  <2> SUFFICES ASSUME CacheInv, [CacheNext]_cacheVars PROVE CacheInv'
    OBVIOUS
  <2>1. CASE initialize
    <3>1. lru_list' = <<>> /\ cache_map' = {} /\ readded' = FALSE
      BY <2>1 DEF initialize
    <3>2. lru_list' \in Seq(Keys) /\ ToSet(lru_list') = {} /\ Distinct(lru_list')
      BY <3>1 DEF ToSet, Distinct
    <3>3. Cardinality(cache_map') = 0
      BY <3>1, FS_EmptySet
    <3>4. Cardinality(cache_map') <= cache_size
      BY <3>3, CacheSizeAssumption
    <3> QED BY <3>1, <3>2, <3>4, CacheInvFrom
  <2>2. CASE evictBlock
    BY <2>2, EvictStep
  <2>3. ASSUME NEW key \in Keys, addBlock(key) \/ invalidateBlock(key) PROVE CacheInv'
    BY <2>3, AddStep, InvalidateStep
  <2>4. CASE UNCHANGED cacheVars
    BY <2>4 DEF cacheVars, CacheInv, Evictable, ExactUntilReadded
  <2> QED BY <2>1, <2>2, <2>3, <2>4 DEF CacheNext
<1> QED BY <1>1, <1>2, PTL DEF CacheSpec

\* Every block in the map can be evicted, even after keys were added twice and
\* one of their copies was evicted (pfs_cache.cpp:33-48).
THEOREM BlocksEvictable == CacheSpec => []Evictable
<1>1. CacheInv => Evictable
  BY DEF CacheInv
<1> QED BY <1>1, CacheInvariant, PTL

\* Until a key that is present is added, the list and the map agree and there
\* are at most cache_size blocks (pfs_cache.cpp:33-56).
THEOREM CacheIsExact == CacheSpec => []ExactUntilReadded
<1>1. CacheInv => ExactUntilReadded
  BY DEF CacheInv
<1> QED BY <1>1, CacheInvariant, PTL

=============================================================================
