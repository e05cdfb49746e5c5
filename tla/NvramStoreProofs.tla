-------------------------- MODULE NvramStoreProofs --------------------------
(***************************************************************************)
(* Proofs about NvramStore for any names, values, lengths, hash function   *)
(* and size of the buffer: type correctness, that the table stays sound,   *)
(* that pointers into the mapping stay good until values move, and that no *)
(* variable gets the value of another even when variables do not fit.      *)
(***************************************************************************)
EXTENDS NvramStore, TLAPS

Offsets == 0 .. NVRAM_SPACE - 1
TupleSet == [name : Names, off : Offsets]
StringSet == [off : Offsets, value : Values]
PairSet == [name : Names, value : Values]

(* The folds the model is built from.                                      *)
P == INSTANCE FoldFacts WITH Op <- Put
B == INSTANCE FoldFacts WITH Op <- PutBucket
R == INSTANCE FoldFacts WITH Op <- SetFrom

LEMMA Sizes ==
    /\ NBuckets \in Nat /\ NVRAM_SPACE \in Nat /\ HEADER_SIZE \in Nat
    /\ \A n \in Names : BucketOf[n] \in 1 .. NBuckets /\ NameLen[n] \in Nat
    /\ \A v \in Values : ValLen[v] \in Nat
    /\ Undefined \notin Values /\ NVRAM_SPACE >= 2
BY SizesAssumption

-----------------------------------------------------------------------------
(* A list of tuples of bucket b: each name once.                           *)
Bucket(list, b) ==
    /\ list \in Seq(TupleSet)
    /\ \A i, j \in 1 .. Len(list) :
         /\ BucketOf[list[i].name] = b
         /\ list[i].name = list[j].name => i = j

Elements(list) == {list[i] : i \in 1 .. Len(list)}

LEMMA ConsBucket ==
    ASSUME NEW b, NEW list, Bucket(list, b), NEW t \in TupleSet, BucketOf[t.name] = b,
           \A i \in 1 .. Len(list) : list[i].name # t.name
    PROVE  /\ Bucket(Cons(t, list), b)
           /\ Elements(Cons(t, list)) = Elements(list) \cup {t}
<1> DEFINE L == Cons(t, list)
<1>1. list \in Seq(TupleSet) /\ Len(list) \in Nat
  BY DEF Bucket
<1>2. /\ L \in Seq(TupleSet) /\ Len(L) = Len(list) + 1 /\ L[1] = t
      /\ \A i \in 1 .. Len(list) : L[i + 1] = list[i]
  BY <1>1 DEF Cons
<1> HIDE DEF L
<1>3. \A i \in 1 .. Len(L) : i = 1 \/ (i - 1 \in 1 .. Len(list) /\ L[i] = list[i - 1])
  <2> TAKE i \in 1 .. Len(L)
  <2> SUFFICES ASSUME i # 1 PROVE i - 1 \in 1 .. Len(list) /\ L[i] = list[i - 1]
    OBVIOUS
  <2>1. i - 1 \in 1 .. Len(list) /\ (i - 1) + 1 = i
    BY <1>1, <1>2
  <2> QED BY <1>2, <2>1
<1>4. ASSUME NEW i \in 1 .. Len(L), NEW j \in 1 .. Len(L)
      PROVE  BucketOf[L[i].name] = b /\ (L[i].name = L[j].name => i = j)
  <2>1. CASE i = 1 /\ j = 1  BY <1>2, <2>1
  <2>2. CASE i = 1 /\ j # 1  BY <1>2, <1>3, <2>2
  <2>3. CASE i # 1 /\ j = 1  BY <1>2, <1>3, <2>3 DEF Bucket
  <2>4. CASE i # 1 /\ j # 1
    <3>1. i - 1 \in 1 .. Len(list) /\ j - 1 \in 1 .. Len(list)
          /\ L[i] = list[i - 1] /\ L[j] = list[j - 1]
      BY <1>3, <2>4
    <3>2. list[i - 1].name = list[j - 1].name => i - 1 = j - 1
      BY <3>1 DEF Bucket
    <3>3. BucketOf[list[i - 1].name] = b
      BY <3>1 DEF Bucket
    <3> QED BY <3>1, <3>2, <3>3
  <2> QED BY <2>1, <2>2, <2>3, <2>4
<1>5. Elements(L) = Elements(list) \cup {t}
  <2>1. ASSUME NEW i \in 1 .. Len(list) PROVE list[i] \in Elements(L)
    <3>1. i + 1 \in 1 .. Len(L)
      BY <1>1, <1>2
    <3> QED BY <1>2, <3>1 DEF Elements
  <2>2. 1 \in 1 .. Len(L)
    BY <1>1, <1>2
  <2>3. t \in Elements(L)
    BY <1>2, <2>2 DEF Elements
  <2>4. \A i \in 1 .. Len(L) : L[i] = t \/ L[i] \in Elements(list)
    BY <1>2, <1>3 DEF Elements
  <2> QED BY <2>1, <2>3, <2>4 DEF Elements
<1> QED
  BY <1>2, <1>4, <1>5 DEF Bucket, L

LEMMA ReplaceBucket ==
    ASSUME NEW b, NEW list, Bucket(list, b), NEW t \in TupleSet, BucketOf[t.name] = b,
           NEW k \in 1 .. Len(list), list[k].name = t.name
    PROVE  /\ Bucket(ReplaceAt(list, k, t), b)
           /\ Elements(ReplaceAt(list, k, t)) = {u \in Elements(list) : u.name # t.name} \cup {t}
<1> DEFINE L == ReplaceAt(list, k, t)
<1>1. list \in Seq(TupleSet) /\ Len(list) \in Nat
  BY DEF Bucket
<1>2. /\ L \in Seq(TupleSet) /\ Len(L) = Len(list) /\ L[k] = t
      /\ \A i \in 1 .. Len(list) : i # k => L[i] = list[i]
  BY <1>1 DEF ReplaceAt
<1> HIDE DEF L
<1>3. \A i \in 1 .. Len(L) : L[i].name = list[i].name
  BY <1>2
<1>4. \A i \in 1 .. Len(list) : i # k => list[i].name # t.name
  BY DEF Bucket
<1>5. Bucket(L, b)
  BY <1>2, <1>3 DEF Bucket
<1>6. Elements(L) = {u \in Elements(list) : u.name # t.name} \cup {t}
  BY <1>2, <1>4 DEF Elements
<1> QED
  BY <1>5, <1>6 DEF L

LEMMA ConcatFacts ==
    ASSUME NEW S, NEW s \in Seq(S), NEW t \in Seq(S)
    PROVE  /\ s \o t \in Seq(S) /\ Len(s \o t) = Len(s) + Len(t)
           /\ \A i \in 1 .. Len(s) + Len(t) :
                (s \o t)[i] = IF i <= Len(s) THEN s[i] ELSE t[i - Len(s)]
OBVIOUS

LEMMA RemoveBucket ==
    ASSUME NEW b, NEW list, Bucket(list, b), NEW k \in 1 .. Len(list)
    PROVE  /\ Bucket(RemoveAt(list, k), b)
           /\ Elements(RemoveAt(list, k)) = {u \in Elements(list) : u.name # list[k].name}
<1> DEFINE L == RemoveAt(list, k)
           F == SubSeq(list, 1, k - 1)
           G == SubSeq(list, k + 1, Len(list))
           Old(i) == IF i < k THEN i ELSE i + 1
<1>1. list \in Seq(TupleSet) /\ Len(list) \in Nat /\ k \in Nat /\ k >= 1 /\ k <= Len(list)
  BY DEF Bucket
<1>2. /\ F \in Seq(TupleSet) /\ Len(F) = k - 1
      /\ \A i \in 1 .. k - 1 : F[i] = list[i]
  BY <1>1
<1>3. /\ G \in Seq(TupleSet) /\ Len(G) = Len(list) - k
      /\ \A i \in 1 .. Len(list) - k : G[i] = list[k + i]
  BY <1>1
<1> HIDE DEF F, G
<1>4. /\ F \o G \in Seq(TupleSet) /\ Len(F \o G) = Len(F) + Len(G)
      /\ \A i \in 1 .. Len(F) + Len(G) :
           (F \o G)[i] = IF i <= Len(F) THEN F[i] ELSE G[i - Len(F)]
  BY <1>2, <1>3, ConcatFacts
<1> L = F \o G
  BY DEF RemoveAt, F, G
<1> HIDE DEF L
<1>5. L \in Seq(TupleSet) /\ Len(L) = Len(list) - 1
  BY <1>1, <1>2, <1>3, <1>4
<1>6. \A i \in 1 .. Len(list) - 1 : Old(i) \in 1 .. Len(list) /\ Old(i) # k /\ L[i] = list[Old(i)]
  <2> TAKE i \in 1 .. Len(list) - 1
  <2>1. L[i] = IF i <= k - 1 THEN F[i] ELSE G[i - (k - 1)]
    <3>1. i \in 1 .. Len(F) + Len(G)
      BY <1>1, <1>2, <1>3
    <3> QED BY <1>2, <1>4, <3>1
  <2>2. CASE i < k
    <3>1. i \in 1 .. k - 1 /\ i <= k - 1
      BY <1>1, <2>2
    <3> QED BY <1>1, <1>2, <2>1, <2>2, <3>1
  <2>3. CASE ~ (i < k)
    <3>1. /\ ~ (i <= k - 1) /\ i - (k - 1) \in 1 .. Len(list) - k
          /\ k + (i - (k - 1)) = i + 1 /\ i + 1 \in 1 .. Len(list) /\ i + 1 # k
      BY <1>1, <2>3
    <3>2. L[i] = list[i + 1]
      BY <1>3, <2>1, <3>1
    <3> QED BY <2>3, <3>1, <3>2
  <2> QED BY <2>2, <2>3
<1>7. \A i, j \in 1 .. Len(list) - 1 : Old(i) = Old(j) => i = j
  BY <1>1
<1>8. \A j \in 1 .. Len(list) : j # k => \E i \in 1 .. Len(list) - 1 : Old(i) = j
  <2> TAKE j \in 1 .. Len(list)
  <2> HAVE j # k
  <2>1. CASE j < k
    <3>1. j \in 1 .. Len(list) - 1 /\ Old(j) = j
      BY <1>1, <2>1
    <3> QED BY <3>1
  <2>2. CASE ~ (j < k)
    <3>1. j - 1 \in 1 .. Len(list) - 1 /\ Old(j - 1) = j
      BY <1>1, <2>2
    <3> QED BY <3>1
  <2> QED BY <2>1, <2>2
<1> HIDE DEF L, Old
<1>9. Bucket(L, b)
  <2>1. ASSUME NEW i \in 1 .. Len(L), NEW j \in 1 .. Len(L)
        PROVE  BucketOf[L[i].name] = b /\ (L[i].name = L[j].name => i = j)
    <3>1. i \in 1 .. Len(list) - 1 /\ j \in 1 .. Len(list) - 1
      BY <1>5
    <3>2. /\ Old(i) \in 1 .. Len(list) /\ L[i] = list[Old(i)]
          /\ Old(j) \in 1 .. Len(list) /\ L[j] = list[Old(j)]
      BY <1>6, <3>1
    <3>3. BucketOf[L[i].name] = b /\ (L[i].name = L[j].name => Old(i) = Old(j))
      BY <3>2 DEF Bucket
    <3> QED BY <1>7, <3>1, <3>3
  <2> QED BY <1>5, <2>1 DEF Bucket
<1>10. \A i \in 1 .. Len(list) : list[i].name = list[k].name <=> i = k
  BY DEF Bucket
<1>11. Elements(L) = {u \in Elements(list) : u.name # list[k].name}
  <2>1. \A i \in 1 .. Len(L) : L[i] \in Elements(list) /\ L[i].name # list[k].name
    BY <1>5, <1>6, <1>10 DEF Elements
  <2>2. ASSUME NEW j \in 1 .. Len(list), list[j].name # list[k].name
        PROVE  list[j] \in Elements(L)
    <3>1. PICK i \in 1 .. Len(list) - 1 : Old(i) = j
      BY <1>8, <2>2
    <3> QED BY <1>5, <1>6, <3>1 DEF Elements
  <2>3. ASSUME NEW u \in Elements(L) PROVE u \in Elements(list) /\ u.name # list[k].name
    BY <2>1 DEF Elements
  <2>4. ASSUME NEW u \in Elements(list), u.name # list[k].name PROVE u \in Elements(L)
    <3>1. PICK j \in 1 .. Len(list) : u = list[j]
      BY DEF Elements
    <3> QED BY <2>2, <2>4, <3>1
  <2> QED BY <2>3, <2>4
<1> QED
  BY <1>9, <1>11 DEF L
-----------------------------------------------------------------------------
TableSet ==
    [hash : [1 .. NBuckets -> Seq(TupleSet)], buf : SUBSET StringSet,
     offset : 0 .. NVRAM_SPACE]

(* The invariant of the table: no two strings start at one offset, all end *)
(* before the place where the next goes, each tuple has one of its own.    *)
Sound(s) ==
    /\ s \in TableSet
    /\ \A b \in 1 .. NBuckets : Bucket(s.hash[b], b)
    /\ \A str \in s.buf : str.off + ValLen[str.value] < s.offset
    /\ \A x, y \in s.buf : x.off = y.off => x = y
    /\ \A t \in Tuples(s) : \E str \in s.buf : str.off = t.off
    /\ \A t, u \in Tuples(s) : t.off = u.off => t = u

LEMMA InTuples ==
    ASSUME NEW s, s.hash \in [1 .. NBuckets -> Seq(TupleSet)]
    PROVE  /\ \A t : t \in Tuples(s) <=> \E b \in 1 .. NBuckets : t \in Elements(s.hash[b])
           /\ Tuples(s) \subseteq TupleSet
<1>1. \A b \in 1 .. NBuckets : Range(s.hash[b]) = Elements(s.hash[b])
  <2> TAKE b \in 1 .. NBuckets
  <2>1. s.hash[b] \in Seq(TupleSet)
    OBVIOUS
  <2>2. DOMAIN s.hash[b] = 1 .. Len(s.hash[b])
    BY <2>1
  <2> QED BY <2>2 DEF Range, Elements
<1>2. \A b \in 1 .. NBuckets : Elements(s.hash[b]) \subseteq TupleSet
  <2> TAKE b \in 1 .. NBuckets
  <2>1. s.hash[b] \in Seq(TupleSet)
    OBVIOUS
  <2> QED BY <2>1 DEF Elements
<1>3. \A t : t \in Tuples(s) <=> \E b \in 1 .. NBuckets : t \in Elements(s.hash[b])
  BY <1>1 DEF Tuples
<1> QED
  BY <1>2, <1>3

(* Every tuple is in the bucket of its name, and is the only one of it.    *)
LEMMA TupleFacts ==
    ASSUME NEW s, Sound(s)
    PROVE  /\ Tuples(s) \subseteq TupleSet
           /\ \A t \in Tuples(s) : t \in Elements(s.hash[BucketOf[t.name]])
           /\ \A t, u \in Tuples(s) : t.name = u.name => t = u
           /\ \A b \in 1 .. NBuckets : Elements(s.hash[b]) \subseteq Tuples(s)
<1>1. s.hash \in [1 .. NBuckets -> Seq(TupleSet)]
  BY DEF Sound, TableSet
<1>2. \A t : t \in Tuples(s) <=> \E b \in 1 .. NBuckets : t \in Elements(s.hash[b])
  BY <1>1, InTuples
<1>3. Tuples(s) \subseteq TupleSet
  BY <1>1, InTuples
<1>4. \A b \in 1 .. NBuckets : \A t \in Elements(s.hash[b]) : BucketOf[t.name] = b
  BY DEF Sound, Bucket, Elements
<1>5. \A b \in 1 .. NBuckets : \A t, u \in Elements(s.hash[b]) : t.name = u.name => t = u
  BY DEF Sound, Bucket, Elements
<1> QED
  BY <1>2, <1>3, <1>4, <1>5

LEMMA StringIs ==
    ASSUME NEW s, Sound(s), NEW str \in s.buf
    PROVE  StringAt(s.buf, str.off) = str.value
<1>1. \A x \in s.buf : x.off = str.off => x = str
  BY DEF Sound
<1> QED
  BY <1>1 DEF StringAt

(* Where a lookup finds a name.                                            *)
LEMMA PositionIs ==
    ASSUME NEW s, Sound(s), NEW n \in Names
    PROVE  LET list == s.hash[BucketOf[n]]
               i == Position(s, n)
           IN  \/ i = 0 /\ \A j \in 1 .. Len(list) : list[j].name # n
               \/ i # 0 /\ i \in 1 .. Len(list) /\ list[i].name = n
<1> DEFINE list == s.hash[BucketOf[n]]
           I == {i \in 1 .. Len(list) : list[i].name = n}
<1>1. Position(s, n) = IF I # {} THEN Min(I) ELSE 0
  BY DEF Position, SelectInSeq
<1>2. I \in SUBSET Nat
  OBVIOUS
<1>3. I # {} => \E x \in I : \A y \in I : x <= y
  BY <1>2, P!LeastNumber
<1>4. I # {} => Min(I) \in I
  BY <1>3 DEF Min
<1>5. Len(list) \in Nat
  BY Sizes DEF Sound, TableSet
<1>6. CASE I = {}
  BY <1>1, <1>6
<1>7. CASE I # {}
  <2>1. Position(s, n) \in I
    BY <1>1, <1>4, <1>7
  <2> QED BY <1>5, <2>1
<1> QED
  BY <1>6, <1>7

(* Variable n has the value v.                                             *)
Holds(s, n, v) ==
    \E t \in Tuples(s) : t.name = n /\ [off |-> t.off, value |-> v] \in s.buf

LEMMA GetHolds ==
    ASSUME NEW s, Sound(s), NEW n \in Names
    PROVE  /\ \A v : Holds(s, n, v) <=> v \in Values /\ _nvram_get(s, n) = v
           /\ _nvram_get(s, n) \in Values \cup {Undefined}
           /\ _nvram_get(s, n) = Undefined <=> \A t \in Tuples(s) : t.name # n
           /\ Position(s, n) = 0 <=> _nvram_get(s, n) = Undefined
<1> DEFINE list == s.hash[BucketOf[n]]
           i == Position(s, n)
<1>0. BucketOf[n] \in 1 .. NBuckets
  BY Sizes
<1>1. Elements(list) \subseteq Tuples(s)
  BY <1>0, TupleFacts
<1>2. \A t \in Tuples(s) : t.name = n => t \in Elements(list)
  BY TupleFacts
<1>3. s.buf \subseteq StringSet
  BY DEF Sound, TableSet
<1>4. CASE i = 0
  <2>1. \A t \in Tuples(s) : t.name # n
    BY <1>2, <1>4, PositionIs DEF Elements
  <2>2. _nvram_get(s, n) = Undefined
    BY <1>4 DEF _nvram_get
  <2> QED BY <1>4, <2>1, <2>2, Sizes DEF Holds
<1>5. CASE i # 0
  <2> DEFINE t == list[i]
  <2>1. i \in 1 .. Len(list) /\ t.name = n
    BY <1>5, PositionIs
  <2>2. t \in Tuples(s)
    BY <1>1, <2>1 DEF Elements
  <2>3. PICK str \in s.buf : str.off = t.off
    BY <2>2 DEF Sound
  <2>4. str = [off |-> t.off, value |-> str.value] /\ str.value \in Values
    BY <1>3, <2>3 DEF StringSet
  <2>5. _nvram_get(s, n) = StringAt(s.buf, t.off)
    BY <1>5 DEF _nvram_get
  <2>6. _nvram_get(s, n) = str.value
    BY <2>3, <2>5, StringIs
  <2> HIDE DEF t, i, list
  <2>7. \A u \in Tuples(s) : u.name = n => u = t
    BY <2>1, <2>2, TupleFacts
  <2>8. ASSUME NEW v, Holds(s, n, v) PROVE v = str.value
    <3>1. [off |-> t.off, value |-> v] \in s.buf
      BY <2>7, <2>8 DEF Holds
    <3>2. [off |-> t.off, value |-> v].off = str.off
      BY <2>3
    <3>3. [off |-> t.off, value |-> v] = str
      BY <3>1, <3>2 DEF Sound
    <3> QED BY <3>3
  <2>9. Holds(s, n, str.value)
    BY <2>1, <2>2, <2>4 DEF Holds
  <2> QED BY <1>5, <2>1, <2>2, <2>4, <2>6, <2>8, <2>9, Sizes DEF i
<1> QED
  BY <1>4, <1>5

-----------------------------------------------------------------------------
(* A table r that differs from s in the tuples of n only.                  *)
LEMMA NewBucket ==
    ASSUME NEW s, Sound(s), NEW n \in Names,
           NEW r, r.hash \in [1 .. NBuckets -> Seq(TupleSet)],
           Bucket(r.hash[BucketOf[n]], BucketOf[n]),
           \A b \in 1 .. NBuckets : b # BucketOf[n] => r.hash[b] = s.hash[b],
           \A t : t.name # n => (t \in Elements(r.hash[BucketOf[n]]) <=>
                                 t \in Elements(s.hash[BucketOf[n]]))
    PROVE  /\ \A b \in 1 .. NBuckets : Bucket(r.hash[b], b)
           /\ \A t : t \in Tuples(r) <=>
                       IF t.name = n THEN t \in Elements(r.hash[BucketOf[n]])
                       ELSE t \in Tuples(s)
<1> DEFINE c == BucketOf[n]
<1>1. c \in 1 .. NBuckets /\ s.hash \in [1 .. NBuckets -> Seq(TupleSet)]
  BY Sizes DEF Sound, TableSet
<1>2. \A b \in 1 .. NBuckets : Bucket(r.hash[b], b)
  BY DEF Sound
<1>3. \A t : t \in Tuples(r) <=> \E b \in 1 .. NBuckets : t \in Elements(r.hash[b])
  BY InTuples
<1>4. \A t : t \in Tuples(s) <=> \E b \in 1 .. NBuckets : t \in Elements(s.hash[b])
  BY <1>1, InTuples
<1>5. \A b \in 1 .. NBuckets : \A t \in Elements(s.hash[b]) : BucketOf[t.name] = b
  BY DEF Sound, Bucket, Elements
<1>6. ASSUME NEW t, t.name = n PROVE t \in Tuples(r) <=> t \in Elements(r.hash[c])
  BY <1>1, <1>3, <1>5, <1>6
<1>7. ASSUME NEW t, t.name # n PROVE t \in Tuples(r) <=> t \in Tuples(s)
  BY <1>1, <1>3, <1>4, <1>7
<1> QED
  BY <1>2, <1>6, <1>7

(* _nvram_set changes nothing, or gives n a tuple of its own with the new  *)
(* string behind all others.                                               *)
LEMMA SetTuples ==
    ASSUME NEW s, Sound(s), NEW n \in Names, NEW v \in Values, Room(s, v)
    PROVE  LET r == _nvram_set(s, n, v)
           IN  /\ Sound(r)
               /\ _nvram_get(s, n) = v => r = s
               /\ _nvram_get(s, n) # v =>
                    /\ Tuples(r) = {t \in Tuples(s) : t.name # n} \cup {[name |-> n, off |-> s.offset]}
                    /\ r.buf = s.buf \cup {[off |-> s.offset, value |-> v]}
                    /\ r.offset = s.offset + ValLen[v] + 1
<1> DEFINE r == _nvram_set(s, n, v)
           old == s.hash[BucketOf[n]]
           i == Position(s, n)
           tuple == [name |-> n, off |-> s.offset]
           str == [off |-> s.offset, value |-> v]
           list == IF i = 0 THEN Cons(tuple, old) ELSE ReplaceAt(old, i, tuple)
<1>1. CASE _nvram_get(s, n) = v
  BY <1>1 DEF _nvram_set
<1>2. CASE _nvram_get(s, n) # v
  <2>1. /\ s.offset \in Nat /\ s.offset + ValLen[v] + 1 <= NVRAM_SPACE /\ ValLen[v] \in Nat
        /\ NVRAM_SPACE \in Nat /\ s.buf \in SUBSET StringSet
        /\ s.hash \in [1 .. NBuckets -> Seq(TupleSet)]
    BY Sizes DEF Room, Sound, TableSet
  <2>2. s.offset \in Offsets /\ s.offset + ValLen[v] + 1 \in 0 .. NVRAM_SPACE
    BY <2>1 DEF Offsets
  <2>3. tuple \in TupleSet /\ str \in StringSet
    BY <2>2 DEF TupleSet, StringSet
  <2>4. \A x \in s.buf : /\ x.off \in Nat /\ ValLen[x.value] \in Nat
                         /\ x.off + ValLen[x.value] < s.offset
    BY <2>1, Sizes DEF Sound, StringSet, Offsets
  <2>5. \A x \in s.buf : ~ Overlap(x, s.offset, v) /\ x.off < s.offset
    BY <2>1, <2>4 DEF Overlap
  <2>6. /\ r.hash = [s.hash EXCEPT ![BucketOf[n]] = list]
        /\ r.buf = CopyString(s.buf, s.offset, v)
        /\ r.offset = s.offset + ValLen[v] + 1
        /\ r = [hash |-> r.hash, buf |-> r.buf, offset |-> r.offset]
    BY <1>2 DEF _nvram_set
  <2>7. r.buf = s.buf \cup {str}
    BY <2>5, <2>6 DEF CopyString
  <2>8. Bucket(old, BucketOf[n])
    BY Sizes DEF Sound
  <2>9. /\ Bucket(list, BucketOf[n])
        /\ Elements(list) = {t \in Elements(old) : t.name # n} \cup {tuple}
    <3>1. CASE i = 0
      <4>1. \A j \in 1 .. Len(old) : old[j].name # n
        BY <3>1, PositionIs
      <4>2. {t \in Elements(old) : t.name # n} = Elements(old)
        BY <4>1 DEF Elements
      <4>3. Bucket(Cons(tuple, old), BucketOf[n]) /\ Elements(Cons(tuple, old)) = Elements(old) \cup {tuple}
        <5>1. tuple.name = n
          OBVIOUS
        <5> HIDE DEF tuple, old
        <5> QED BY <2>3, <2>8, <4>1, <5>1, ConsBucket
      <4> QED BY <3>1, <4>2, <4>3
    <3>2. CASE i # 0
      <4>1. i \in 1 .. Len(old) /\ old[i].name = n
        BY <3>2, PositionIs
      <4>2. tuple.name = n
        OBVIOUS
      <4> HIDE DEF tuple, old, i
      <4>3. /\ Bucket(ReplaceAt(old, i, tuple), BucketOf[n])
            /\ Elements(ReplaceAt(old, i, tuple)) = {t \in Elements(old) : t.name # n} \cup {tuple}
        BY <2>3, <2>8, <4>1, <4>2, ReplaceBucket
      <4> QED BY <3>2, <4>3
    <3> QED BY <3>1, <3>2
  <2>10. {tuple} \in SUBSET TupleSet
    BY <2>3
  <2> HIDE DEF r, list, tuple, i, old
  <2>11. /\ r.hash \in [1 .. NBuckets -> Seq(TupleSet)]
         /\ \A b \in 1 .. NBuckets : Bucket(r.hash[b], b)
         /\ Tuples(r) = {t \in Tuples(s) : t.name # n} \cup {tuple}
    <3>1. /\ r.hash \in [1 .. NBuckets -> Seq(TupleSet)] /\ r.hash[BucketOf[n]] = list
          /\ \A b \in 1 .. NBuckets : b # BucketOf[n] => r.hash[b] = s.hash[b]
      BY <2>1, <2>6, <2>9, Sizes DEF Bucket
    <3>2. \A t : t \in Elements(list) <=> t = tuple \/ (t \in Elements(old) /\ t.name # n)
      BY <2>9
    <3>3. tuple.name = n
      BY DEF tuple
    <3>4. /\ \A b \in 1 .. NBuckets : Bucket(r.hash[b], b)
          /\ \A t : t \in Tuples(r) <=>
                      IF t.name = n THEN t \in Elements(list) ELSE t \in Tuples(s)
      BY <2>9, <3>1, <3>2, <3>3, NewBucket DEF old
    <3>5. \A t : t \in Tuples(r) <=> t = tuple \/ (t \in Tuples(s) /\ t.name # n)
      BY <3>2, <3>3, <3>4
    <3> QED BY <3>1, <3>4, <3>5
  <2>12. tuple.off = s.offset /\ str.off = s.offset /\ str.value = v
    BY DEF tuple
  <2>13. \A t \in Tuples(s) : t.off < s.offset
    BY <2>5 DEF Sound
  <2> HIDE DEF str
  <2>14. r \in TableSet
    BY <2>1, <2>2, <2>3, <2>6, <2>7, <2>11 DEF TableSet
  <2>15. \A x \in r.buf : x.off + ValLen[x.value] < r.offset
    BY <2>1, <2>4, <2>6, <2>7, <2>12
  <2>16. \A x, y \in r.buf : x.off = y.off => x = y
    BY <2>1, <2>4, <2>5, <2>7, <2>12 DEF Sound
  <2>17. \A t \in Tuples(r) : \E x \in r.buf : x.off = t.off
    BY <2>7, <2>11, <2>12 DEF Sound
  <2>18. \A t, u \in Tuples(r) : t.off = u.off => t = u
    <3> TAKE t, u \in Tuples(r)
    <3>1. Tuples(s) \subseteq TupleSet
      BY TupleFacts
    <3>2. \A x \in Tuples(s) : x.off # s.offset
      BY <2>1, <2>13, <3>1 DEF TupleSet, Offsets
    <3> QED BY <2>11, <2>12, <3>2 DEF Sound
  <2>19. Sound(r)
    BY <2>11, <2>14, <2>15, <2>16, <2>17, <2>18 DEF Sound
  <2> QED BY <1>2, <2>6, <2>7, <2>11, <2>19 DEF r, tuple, str
<1> QED
  BY <1>1, <1>2

(* After it n has the new value and every other variable its old one.      *)
LEMMA SetGet ==
    ASSUME NEW s, Sound(s), NEW n \in Names, NEW v \in Values, Room(s, v), NEW m \in Names
    PROVE  _nvram_get(_nvram_set(s, n, v), m) = IF m = n THEN v ELSE _nvram_get(s, m)
<1> DEFINE r == _nvram_set(s, n, v)
<1>1. Sound(r)
  BY SetTuples
<1>2. CASE _nvram_get(s, n) = v
  <2>1. r = s
    BY <1>2, SetTuples
  <2> QED BY <1>2, <2>1
<1>3. CASE _nvram_get(s, n) # v
  <2>1. /\ Tuples(r) = {t \in Tuples(s) : t.name # n} \cup {[name |-> n, off |-> s.offset]}
        /\ r.buf = s.buf \cup {[off |-> s.offset, value |-> v]}
    BY <1>3, SetTuples
  <2> HIDE DEF r
  <2>2. CASE m = n
    <3> DEFINE t == [name |-> n, off |-> s.offset]
    <3>1. t \in Tuples(r) /\ t.name = n /\ [off |-> t.off, value |-> v] \in r.buf
      BY <2>1
    <3>2. Holds(r, n, v)
      BY <3>1 DEF Holds
    <3> QED BY <1>1, <2>2, <3>2, GetHolds DEF r
  <2>3. CASE m # n
    <3>1. \A t \in Tuples(r) : t.name = m <=> t \in Tuples(s) /\ t.name = m
      BY <2>1, <2>3
    <3>2. \A t \in Tuples(s) : t.name = m => t \in Tuples(r)
      BY <2>1, <2>3
    <3>3. CASE _nvram_get(s, m) = Undefined
      <4>1. \A t \in Tuples(r) : t.name # m
        BY <3>1, <3>3, GetHolds
      <4> QED BY <1>1, <2>3, <3>3, <4>1, GetHolds DEF r
    <3>4. CASE _nvram_get(s, m) # Undefined
      <4> DEFINE x == _nvram_get(s, m)
      <4>1. x \in Values
        BY <3>4, GetHolds
      <4>2. Holds(s, m, x)
        BY <4>1, GetHolds
      <4>3. Holds(r, m, x)
        BY <2>1, <3>2, <4>2 DEF Holds
      <4> QED BY <1>1, <2>3, <4>3, GetHolds DEF r
    <3> QED BY <3>3, <3>4
  <2> QED BY <2>2, <2>3
<1> QED
  BY <1>2, <1>3

(* A table with fewer tuples, and with the strings of those it has.        *)
LEMMA FewerTuples ==
    ASSUME NEW s, Sound(s), NEW r \in TableSet, r.offset = s.offset,
           \A b \in 1 .. NBuckets : Bucket(r.hash[b], b),
           Tuples(r) \subseteq Tuples(s), r.buf \subseteq s.buf,
           \A t \in Tuples(r) : \A str \in s.buf : str.off = t.off => str \in r.buf
    PROVE  /\ Sound(r)
           /\ \A m \in Names :
                _nvram_get(r, m) = IF \E t \in Tuples(r) : t.name = m THEN _nvram_get(s, m)
                                   ELSE Undefined
<1>1. \A t \in Tuples(r) : \E str \in r.buf : str.off = t.off
  BY DEF Sound
<1>2. Sound(r)
  BY <1>1 DEF Sound
<1>3. ASSUME NEW m \in Names, NEW t \in Tuples(r), t.name = m
      PROVE  _nvram_get(r, m) = _nvram_get(s, m)
  <2>1. PICK str \in r.buf : str.off = t.off
    BY <1>1
  <2>2. str = [off |-> t.off, value |-> str.value]
    BY <2>1 DEF TableSet, StringSet
  <2>3. Holds(r, m, str.value) /\ Holds(s, m, str.value)
    BY <1>3, <2>1, <2>2 DEF Holds
  <2> QED BY <1>2, <2>3, GetHolds
<1>4. ASSUME NEW m \in Names, ~ \E t \in Tuples(r) : t.name = m
      PROVE  _nvram_get(r, m) = Undefined
  BY <1>2, <1>4, GetHolds
<1> QED
  BY <1>2, <1>3, <1>4

LEMMA UnsetGet ==
    ASSUME NEW s, Sound(s), NEW n \in Names
    PROVE  LET r == _nvram_unset(s, n)
           IN  /\ Sound(r) /\ r.buf = s.buf /\ r.offset = s.offset
               /\ \A m \in Names :
                    _nvram_get(r, m) = IF m = n THEN Undefined ELSE _nvram_get(s, m)
<1> DEFINE r == _nvram_unset(s, n)
           old == s.hash[BucketOf[n]]
           i == Position(s, n)
           list == RemoveAt(old, i)
<1>1. CASE i = 0
  <2>1. r = s
    BY <1>1 DEF _nvram_unset
  <2>2. _nvram_get(s, n) = Undefined
    BY <1>1, GetHolds
  <2> QED BY <2>1, <2>2
<1>2. CASE i # 0
  <2>1. i \in 1 .. Len(old) /\ old[i].name = n
    BY <1>2, PositionIs
  <2>2. Bucket(old, BucketOf[n])
    BY Sizes DEF Sound
  <2>3. Bucket(list, BucketOf[n]) /\ Elements(list) = {t \in Elements(old) : t.name # n}
    <3> HIDE DEF old, i
    <3> QED BY <2>1, <2>2, RemoveBucket
  <2>4. /\ r.hash = [s.hash EXCEPT ![BucketOf[n]] = list] /\ r.buf = s.buf
        /\ r.offset = s.offset /\ r = [hash |-> r.hash, buf |-> r.buf, offset |-> r.offset]
    <3>1. BucketOf[n] \in 1 .. NBuckets /\ s \in TableSet
      BY Sizes DEF Sound
    <3> QED BY <1>2, <3>1 DEF _nvram_unset, TableSet
  <2> HIDE DEF r, list, i, old
  <2>5. /\ r.hash \in [1 .. NBuckets -> Seq(TupleSet)]
        /\ \A b \in 1 .. NBuckets : Bucket(r.hash[b], b)
        /\ Tuples(r) = {t \in Tuples(s) : t.name # n}
    <3>1. /\ r.hash \in [1 .. NBuckets -> Seq(TupleSet)] /\ r.hash[BucketOf[n]] = list
          /\ \A b \in 1 .. NBuckets : b # BucketOf[n] => r.hash[b] = s.hash[b]
      BY <2>3, <2>4, Sizes DEF Bucket, Sound, TableSet
    <3>2. \A t : t \in Elements(list) <=> (t \in Elements(old) /\ t.name # n)
      BY <2>3
    <3>3. /\ \A b \in 1 .. NBuckets : Bucket(r.hash[b], b)
          /\ \A t : t \in Tuples(r) <=>
                      IF t.name = n THEN t \in Elements(list) ELSE t \in Tuples(s)
      BY <2>3, <3>1, <3>2, NewBucket DEF old
    <3>4. \A t : t \in Tuples(r) <=> (t \in Tuples(s) /\ t.name # n)
      BY <3>2, <3>3
    <3> QED BY <3>1, <3>3, <3>4
  <2>6. r \in TableSet
    <3>1. s.buf \in SUBSET StringSet /\ s.offset \in 0 .. NVRAM_SPACE
      BY DEF Sound, TableSet
    <3> QED BY <2>4, <2>5, <3>1 DEF TableSet
  <2>7. /\ Sound(r)
        /\ \A m \in Names :
             _nvram_get(r, m) = IF \E t \in Tuples(r) : t.name = m THEN _nvram_get(s, m)
                                ELSE Undefined
    <3>1. /\ Tuples(r) \subseteq Tuples(s) /\ r.buf \subseteq s.buf
          /\ \A t \in Tuples(r) : \A str \in s.buf : str.off = t.off => str \in r.buf
      BY <2>4, <2>5
    <3> QED BY <2>4, <2>5, <2>6, <3>1, FewerTuples
  <2>8. ASSUME NEW m \in Names
        PROVE  _nvram_get(r, m) = IF m = n THEN Undefined ELSE _nvram_get(s, m)
    <3>1. CASE m = n  BY <2>5, <2>7, <3>1
    <3>2. CASE m # n /\ \E t \in Tuples(r) : t.name = m  BY <2>7, <3>2
    <3>3. CASE m # n /\ ~ \E t \in Tuples(r) : t.name = m
      <4>1. _nvram_get(s, m) = Undefined
        BY <2>5, <3>3, GetHolds
      <4> QED BY <2>7, <3>3, <4>1
    <3> QED BY <3>1, <3>2, <3>3
  <2> QED BY <2>4, <2>7, <2>8 DEF r
<1> QED
  BY <1>1, <1>2

(* What Become leaves of the strings.                                      *)
Trim(s, pointers) ==
    [s EXCEPT !.buf = {str \in @ :
                    \/ \E t \in Tuples(s) : t.off = str.off
                    \/ \E p \in Procs : pointers[p].off = str.off}]

LEMMA TrimGet ==
    ASSUME NEW s, Sound(s), NEW pointers
    PROVE  LET r == Trim(s, pointers)
           IN  /\ Sound(r)
               /\ \A m \in Names : _nvram_get(r, m) = _nvram_get(s, m)
               /\ \A str \in s.buf : \A p \in Procs : pointers[p].off = str.off => str \in r.buf
<1> DEFINE r == Trim(s, pointers)
<1>0. s \in TableSet /\ s.hash \in [1 .. NBuckets -> Seq(TupleSet)]
  BY DEF Sound, TableSet
<1>1. /\ r.hash = s.hash /\ r.offset = s.offset
      /\ r.buf = {str \in s.buf : \/ \E t \in Tuples(s) : t.off = str.off
                                  \/ \E p \in Procs : pointers[p].off = str.off}
      /\ r \in TableSet
  BY <1>0 DEF Trim, TableSet
<1> HIDE DEF r
<1>2. Tuples(r) = Tuples(s)
  BY <1>1 DEF Tuples
<1>3. \A b \in 1 .. NBuckets : Bucket(r.hash[b], b)
  BY <1>1 DEF Sound
<1>4. \A t \in Tuples(r) : \A str \in s.buf : str.off = t.off => str \in r.buf
  BY <1>1, <1>2
<1>5. r.buf \subseteq s.buf
  BY <1>1
<1>6. /\ Sound(r)
      /\ \A m \in Names :
           _nvram_get(r, m) = IF \E t \in Tuples(r) : t.name = m THEN _nvram_get(s, m)
                              ELSE Undefined
  BY <1>1, <1>2, <1>3, <1>4, <1>5, FewerTuples
<1>7. \A m \in Names : (~ \E t \in Tuples(s) : t.name = m) => _nvram_get(s, m) = Undefined
  BY GetHolds
<1> QED
  BY <1>1, <1>2, <1>6, <1>7 DEF r

LEMMA EmptySound ==
    /\ Sound(EmptyTable)
    /\ \A n \in Names : _nvram_get(EmptyTable, n) = Undefined
<1> DEFINE e == EmptyTable
<1>1. /\ e.hash = [i \in 1 .. NBuckets |-> <<>>] /\ e.buf = {} /\ e.offset = 0
      /\ e \in TableSet
  <2>1. <<>> \in Seq(TupleSet)
    OBVIOUS
  <2> QED BY <2>1, Sizes DEF EmptyTable, TableSet
<1> HIDE DEF e
<1>2. e.hash \in [1 .. NBuckets -> Seq(TupleSet)]
  BY <1>1 DEF TableSet
<1>3. \A b \in 1 .. NBuckets : e.hash[b] = <<>> /\ Bucket(e.hash[b], b) /\ Elements(e.hash[b]) = {}
  BY <1>1 DEF Bucket, Elements
<1>4. Tuples(e) = {}
  BY <1>2, <1>3, InTuples
<1>5. Sound(e)
  BY <1>1, <1>3, <1>4 DEF Sound
<1>6. \A n \in Names : _nvram_get(e, n) = Undefined
  BY <1>4, <1>5, GetHolds
<1> QED
  BY <1>5, <1>6 DEF e
-----------------------------------------------------------------------------
(* The folds of the model are those that FoldFacts is about.               *)
LEMMA Folds ==
    ASSUME NEW base, NEW seq
    PROVE  /\ FoldLeft(Put, base, seq) = P!Fold(base, seq)
           /\ FoldLeft(PutBucket, base, seq) = B!Fold(base, seq)
           /\ FoldLeft(SetFrom, base, seq) = R!Fold(base, seq)
<1>1. FoldLeft(Put, base, seq) = P!Fold(base, seq)
  BY DEF P!Fold, P!FoldLeft, FoldLeft, P!MapThenFoldSet, MapThenFoldSet, P!Max, Max
<1>2. FoldLeft(PutBucket, base, seq) = B!Fold(base, seq)
  BY DEF B!Fold, B!FoldLeft, FoldLeft, B!MapThenFoldSet, MapThenFoldSet, B!Max, Max
<1>3. FoldLeft(SetFrom, base, seq) = R!Fold(base, seq)
  BY DEF R!Fold, R!FoldLeft, FoldLeft, R!MapThenFoldSet, MapThenFoldSet, R!Max, Max
<1> QED BY <1>1, <1>2, <1>3

(* The pairs of a name and the value it has in s.                          *)
Pairs(s) == {pair \in PairSet : _nvram_get(s, pair.name) = pair.value}

LEMMA ListingIs ==
    ASSUME NEW s, Sound(s)
    PROVE  /\ DOMAIN Listing(s) = 1 .. NBuckets
           /\ \A b \in 1 .. NBuckets :
                /\ Listing(s)[b] \in Seq(Pairs(s))
                /\ Len(Listing(s)[b]) = Len(s.hash[b])
                /\ \A i \in 1 .. Len(s.hash[b]) : Listing(s)[b][i].name = s.hash[b][i].name
<1>1. DOMAIN Listing(s) = 1 .. NBuckets
  BY DEF Listing
<1>2. ASSUME NEW b \in 1 .. NBuckets
      PROVE  /\ Listing(s)[b] \in Seq(Pairs(s))
             /\ Len(Listing(s)[b]) = Len(s.hash[b])
             /\ \A i \in 1 .. Len(s.hash[b]) : Listing(s)[b][i].name = s.hash[b][i].name
  <2> DEFINE list == s.hash[b]
             pair(i) == [name |-> list[i].name, value |-> StringAt(s.buf, list[i].off)]
  <2>1. list \in Seq(TupleSet) /\ Len(list) \in Nat /\ DOMAIN list = 1 .. Len(list)
    BY DEF Sound, Bucket
  <2>2. Listing(s)[b] = [i \in 1 .. Len(list) |-> pair(i)]
    BY <2>1 DEF Listing
  <2>3. ASSUME NEW i \in 1 .. Len(list) PROVE pair(i) \in Pairs(s)
    <3>1. list[i] \in Tuples(s) /\ list[i] \in TupleSet
      BY <2>1, TupleFacts DEF Elements
    <3>2. PICK str \in s.buf : str.off = list[i].off
      BY <3>1 DEF Sound
    <3>3. str = [off |-> list[i].off, value |-> str.value] /\ str.value \in Values
      BY <3>2 DEF Sound, TableSet, StringSet
    <3>4. StringAt(s.buf, list[i].off) = str.value
      BY <3>2, StringIs
    <3>5. list[i].name \in Names
      BY <3>1 DEF TupleSet
    <3>6. Holds(s, list[i].name, str.value)
      BY <3>1, <3>2, <3>3 DEF Holds
    <3>7. _nvram_get(s, list[i].name) = str.value
      BY <3>5, <3>6, GetHolds
    <3> QED BY <3>3, <3>4, <3>5, <3>7 DEF Pairs, PairSet
  <2> HIDE DEF list
  <2>4. \A i \in 1 .. Len(list) : pair(i).name = list[i].name
    OBVIOUS
  <2> HIDE DEF pair
  <2>5. /\ Listing(s)[b] \in Seq(Pairs(s)) /\ Len(Listing(s)[b]) = Len(list)
        /\ \A i \in 1 .. Len(list) : Listing(s)[b][i] = pair(i)
    BY <2>1, <2>2, <2>3
  <2> QED BY <2>4, <2>5 DEF list
<1> QED
  BY <1>1, <1>2

(* A walk writes pairs of the table and no others.                         *)
Writing(K) == [at : Nat, end : Int, out : Seq(K), full : BOOLEAN]

LEMMA PutTyped ==
    ASSUME NEW K \in SUBSET PairSet, NEW w \in Writing(K), NEW pair \in K
    PROVE  Put(w, pair) \in Writing(K)
<1>1. Size(pair) \in Nat
  BY Sizes DEF Size, PairSet
<1>2. w.at \in Nat /\ w.out \in Seq(K) /\ Append(w.out, pair) \in Seq(K)
  BY DEF Writing
<1>3. w.at + Size(pair) \in Nat
  BY <1>1, <1>2
<1> QED
  BY <1>2, <1>3 DEF Put, Writing

LEMMA PutBucketTyped ==
    ASSUME NEW K \in SUBSET PairSet, NEW w \in Writing(K), NEW bucket \in Seq(K)
    PROVE  PutBucket(w, bucket) \in Writing(K)
<1> DEFINE n == Len(bucket)
           J == [k \in 0 .. n |-> Writing(K)]
           base == [w EXCEPT !.full = FALSE]
<1>1. n \in Nat /\ DOMAIN bucket = 1 .. n /\ \A k \in 1 .. n : bucket[k] \in K
  OBVIOUS
<1>2. base \in J[0]
  <2>1. base \in Writing(K)
    BY DEF Writing
  <2> QED BY <1>1, <2>1
<1>3. \A k \in 1 .. n : \A x \in J[k - 1] : Put(x, bucket[k]) \in J[k]
  BY <1>1, PutTyped
<1>4. J[n] = Writing(K)
  BY <1>1
<1> HIDE DEF J, n, base
<1>5. P!Fold(base, bucket) \in J[n]
  BY <1>1, <1>2, <1>3, P!FoldThrough
<1> QED
  BY <1>4, <1>5, Folds DEF PutBucket, base

LEMMA WriteOutPairs ==
    ASSUME NEW s, Sound(s), NEW start \in Nat, NEW end \in Int
    PROVE  WriteOut(s, start, end) \in Seq(Pairs(s))
<1> DEFINE K == Pairs(s)
           J == [k \in 0 .. NBuckets |-> Writing(K)]
           base == [at |-> start, end |-> end, out |-> <<>>, full |-> FALSE]
           lists == Listing(s)
<1>1. NBuckets \in Nat /\ DOMAIN lists = 1 .. NBuckets /\ \A b \in 1 .. NBuckets : lists[b] \in Seq(K)
  BY Sizes, ListingIs
<1>2. K \in SUBSET PairSet
  BY DEF Pairs
<1> HIDE DEF K, lists
<1>3. base \in J[0]
  <2>1. <<>> \in Seq(K)
    OBVIOUS
  <2> QED BY <1>1, <2>1 DEF Writing
<1>4. \A b \in 1 .. NBuckets : \A x \in J[b - 1] : PutBucket(x, lists[b]) \in J[b]
  BY <1>1, <1>2, PutBucketTyped
<1>5. J[NBuckets] = Writing(K)
  BY <1>1
<1> HIDE DEF J, base
<1>6. B!Fold(base, lists) \in J[NBuckets]
  BY <1>1, <1>3, <1>4, B!FoldThrough
<1>7. WriteOut(s, start, end) = B!Fold(base, lists).out
  BY Folds DEF WriteOut, base, lists
<1> QED
  BY <1>5, <1>6, <1>7 DEF Writing, K

(* Reading an image in makes a sound table with values of the image.       *)
LEMMA RehashGet ==
    ASSUME NEW image \in Seq(PairSet)
    PROVE  /\ Sound(nvram_rehash(image))
           /\ \A n \in Names :
                \/ _nvram_get(nvram_rehash(image), n) = Undefined
                \/ \E i \in 1 .. Len(image) :
                     image[i].name = n /\ image[i].value = _nvram_get(nvram_rehash(image), n)
<1> DEFINE From(s) == \A n \in Names :
                        \/ _nvram_get(s, n) = Undefined
                        \/ \E i \in 1 .. Len(image) :
                             image[i].name = n /\ image[i].value = _nvram_get(s, n)
           I == {s \in TableSet : Sound(s) /\ From(s)}
           m == Len(image)
           J == [k \in 0 .. m |-> I]
<1>1. m \in Nat /\ DOMAIN image = 1 .. m /\ \A k \in 1 .. m : image[k] \in PairSet
  OBVIOUS
<1>2. EmptyTable \in I
  BY EmptySound DEF Sound
<1>3. ASSUME NEW k \in 1 .. m, NEW s \in I PROVE SetFrom(s, image[k]) \in I
  <2> DEFINE n == image[k].name
             v == image[k].value
             r == _nvram_set(s, n, v)
  <2>1. n \in Names /\ v \in Values /\ Sound(s) /\ From(s)
    BY <1>1 DEF PairSet
  <2>2. CASE ~ Room(s, v)  BY <2>2 DEF SetFrom
  <2>3. CASE Room(s, v)
    <3>1. Sound(r) /\ r \in TableSet
      BY <2>1, <2>3, SetTuples DEF Sound
    <3>2. \A x \in Names : _nvram_get(r, x) = IF x = n THEN v ELSE _nvram_get(s, x)
      BY <2>1, <2>3, SetGet
    <3> HIDE DEF r
    <3>3. From(r)
      BY <2>1, <3>2
    <3>4. SetFrom(s, image[k]) = r
      BY <2>3 DEF SetFrom, r
    <3> QED BY <3>1, <3>3, <3>4
  <2> QED BY <2>2, <2>3
<1> HIDE DEF I, m
<1>4. EmptyTable \in J[0] /\ J[m] = I
  BY <1>1, <1>2
<1>5. \A k \in 1 .. m : \A s \in J[k - 1] : SetFrom(s, image[k]) \in J[k]
  BY <1>1, <1>3
<1> HIDE DEF J
<1>6. R!Fold(EmptyTable, image) \in J[m]
  BY <1>1, <1>4, <1>5, R!FoldThrough
<1>7. nvram_rehash(image) \in I
  BY <1>4, <1>6, Folds DEF nvram_rehash
<1> QED
  BY <1>7 DEF I

(* A consolidation: a sound table, in which a variable has its value or is *)
(* lost.                                                                   *)
LEMMA CommitGet ==
    ASSUME NEW s, Sound(s)
    PROVE  /\ CommitImage(s) \in Seq(Pairs(s)) /\ CommitImage(s) \in Seq(PairSet)
           /\ Sound(_nvram_commit(s))
           /\ \A n \in Names : _nvram_get(_nvram_commit(s), n) \in {Undefined, _nvram_get(s, n)}
<1> DEFINE image == CommitImage(s)
           r == nvram_rehash(image)
<1>1. image \in Seq(Pairs(s))
  BY Sizes, WriteOutPairs DEF CommitImage
<1>2. image \in Seq(PairSet) /\ \A i \in 1 .. Len(image) : image[i] \in Pairs(s)
  BY <1>1 DEF Pairs
<1> HIDE DEF image
<1>3. /\ Sound(r)
      /\ \A n \in Names : \/ _nvram_get(r, n) = Undefined
                          \/ \E i \in 1 .. Len(image) :
                               image[i].name = n /\ image[i].value = _nvram_get(r, n)
  BY <1>2, RehashGet
<1> HIDE DEF r
<1>4. \A n \in Names : _nvram_get(r, n) \in {Undefined, _nvram_get(s, n)}
  BY <1>2, <1>3 DEF Pairs
<1> QED
  BY <1>1, <1>2, <1>3, <1>4 DEF _nvram_commit, image, r
-----------------------------------------------------------------------------
(* An image: a name has one value.                                         *)
Image(im) ==
    /\ im \in Seq(PairSet)
    /\ \A i, j \in 1 .. Len(im) : im[i].name = im[j].name => im[i].value = im[j].value

PtrInv ==
    /\ DOMAIN ptr = Procs
    /\ \A p \in Procs : ptr[p] = NullPtr \/ ptr[p] \in table.buf

FlashInv == Image(flash.primary) /\ Image(flash.backup)

(* The inductive invariant.                                                *)
StoreInv == Sound(table) /\ PtrInv /\ FlashInv

LEMMA CommitImageIs ==
    ASSUME NEW s, Sound(s)
    PROVE  Image(CommitImage(s))
<1>1. CommitImage(s) \in Seq(Pairs(s)) /\ CommitImage(s) \in Seq(PairSet)
  BY CommitGet
<1>2. \A i \in 1 .. Len(CommitImage(s)) : CommitImage(s)[i] \in Pairs(s)
  BY <1>1
<1> QED
  BY <1>1, <1>2 DEF Image, Pairs

LEMMA ImageMapIs ==
    ASSUME NEW im, Image(im), NEW n \in Names
    PROVE  /\ \A i \in 1 .. Len(im) : im[i].name = n => ImageMap(im)[n] = im[i].value
           /\ (\A i \in 1 .. Len(im) : im[i].name # n) => ImageMap(im)[n] = Undefined
<1> DEFINE I == {i \in 1 .. Len(im) : im[i].name = n}
           k == IF I # {} THEN Min(I) ELSE 0
<1>0. Len(im) \in Nat
  BY DEF Image
<1>1. ImageMap(im)[n] = IF k = 0 THEN Undefined ELSE im[k].value
  BY DEF ImageMap, SelectInSeq
<1>2. I \in SUBSET Nat
  BY <1>0
<1>3. I # {} => \E x \in I : \A y \in I : x <= y
  BY <1>2, P!LeastNumber
<1>4. I # {} => Min(I) \in I
  BY <1>3 DEF Min
<1>5. CASE I = {}
  BY <1>1, <1>5
<1>6. CASE I # {}
  <2>1. k \in I
    BY <1>4, <1>6
  <2>2. k # 0 /\ k \in 1 .. Len(im) /\ im[k].name = n
    BY <1>0, <2>1
  <2> HIDE DEF k
  <2>3. ImageMap(im)[n] = im[k].value
    BY <1>1, <2>2
  <2> QED BY <2>2, <2>3 DEF Image
<1> QED
  BY <1>5, <1>6

(* Reading an image in gives a variable the value it has in the image, or  *)
(* loses it.                                                               *)
LEMMA RehashImage ==
    ASSUME NEW im, Image(im)
    PROVE  /\ Sound(nvram_rehash(im))
           /\ \A n \in Names : _nvram_get(nvram_rehash(im), n) \in {Undefined, ImageMap(im)[n]}
<1>1. im \in Seq(PairSet)
  BY DEF Image
<1> QED
  BY <1>1, RehashGet, ImageMapIs

-----------------------------------------------------------------------------
(* A sound table with good pointers becomes the table.                     *)
LEMMA BecomeStep ==
    ASSUME NEW s, Sound(s), NEW pointers, DOMAIN pointers = Procs,
           \A p \in Procs : pointers[p] = NullPtr \/ pointers[p] \in s.buf,
           Become(s, pointers)
    PROVE  /\ Sound(table') /\ PtrInv'
           /\ \A n \in Names : _nvram_get(table', n) = _nvram_get(s, n)
<1>1. table' = Trim(s, pointers) /\ ptr' = pointers
  BY DEF Become, Trim
<1>2. /\ Sound(table')
      /\ \A n \in Names : _nvram_get(table', n) = _nvram_get(s, n)
      /\ \A str \in s.buf : \A p \in Procs : pointers[p].off = str.off => str \in table'.buf
  BY <1>1, TrimGet
<1>3. \A p \in Procs : ptr'[p] = NullPtr \/ ptr'[p] \in table'.buf
  BY <1>1, <1>2
<1> QED
  BY <1>1, <1>2, <1>3 DEF PtrInv

LEMMA MovedGood ==
    DOMAIN Moved = Procs /\ \A p \in Procs : Moved[p] = NullPtr
BY DEF Moved

(* nvram_get: the pointer of the process that asked is good.               *)
LEMMA GetStep ==
    ASSUME StoreInv, NEW p \in Procs, NEW n \in Names, Get(p, n)
    PROVE  /\ StoreInv'
           /\ \A m \in Names : _nvram_get(table', m) = _nvram_get(table, m)
<1> DEFINE i == Position(table, n)
           list == table.hash[BucketOf[n]]
           new == IF i = 0 THEN NullPtr ELSE [off |-> list[i].off, value |-> _nvram_get(table, n)]
           pointers == [ptr EXCEPT ![p] = new]
<1>1. Sound(table) /\ PtrInv /\ FlashInv
  BY DEF StoreInv
<1>2. Become(table, pointers) /\ flash' = flash
  BY DEF Get
<1>3. new = NullPtr \/ new \in table.buf
  <2>1. CASE i = 0  BY <2>1
  <2>2. CASE i # 0
    <3>1. i \in 1 .. Len(list) /\ list[i].name = n
      BY <1>1, <2>2, PositionIs
    <3>2. list[i] \in Tuples(table)
      <4>1. BucketOf[n] \in 1 .. NBuckets
        BY Sizes
      <4>2. Elements(list) \subseteq Tuples(table)
        BY <1>1, <4>1, TupleFacts
      <4>3. list[i] \in Elements(list)
        BY <3>1 DEF Elements
      <4> QED BY <4>2, <4>3
    <3>3. PICK str \in table.buf : str.off = list[i].off
      BY <1>1, <3>2 DEF Sound
    <3>4. str = [off |-> list[i].off, value |-> str.value]
      BY <1>1, <3>3 DEF Sound, TableSet, StringSet
    <3>5. Holds(table, n, str.value)
      BY <3>1, <3>2, <3>3, <3>4 DEF Holds
    <3>6. _nvram_get(table, n) = str.value
      BY <1>1, <3>5, GetHolds
    <3> QED BY <2>2, <3>3, <3>4, <3>6
  <2> QED BY <2>1, <2>2
<1> HIDE DEF new
<1>4. DOMAIN pointers = Procs /\ \A q \in Procs : pointers[q] = NullPtr \/ pointers[q] \in table.buf
  BY <1>1, <1>3 DEF PtrInv
<1> HIDE DEF pointers
<1>5. /\ Sound(table') /\ PtrInv'
      /\ \A m \in Names : _nvram_get(table', m) = _nvram_get(table, m)
  BY <1>1, <1>2, <1>4, BecomeStep
<1> QED
  BY <1>1, <1>2, <1>5 DEF StoreInv, FlashInv

(* nvram_set: the other variables keep their values, or are lost when the  *)
(* space is consolidated.                                                  *)
LEMMA SetStep ==
    ASSUME StoreInv, NEW n \in Names, NEW v \in Values, Set(n, v)
    PROVE  /\ StoreInv'
           /\ \A m \in Names :
                \/ _nvram_get(table', m) \in {_nvram_get(table, m), Undefined}
                \/ m = n /\ _nvram_get(table', m) = v
<1>1. Sound(table) /\ PtrInv /\ FlashInv
  BY DEF StoreInv
<1>2. CASE Room(table, v) /\ Become(_nvram_set(table, n, v), ptr) /\ UNCHANGED flash
  <2> DEFINE r == _nvram_set(table, n, v)
  <2>1. Sound(r) /\ table.buf \subseteq r.buf
    <3>1. CASE _nvram_get(table, n) = v  BY <1>1, <1>2, <3>1, SetTuples
    <3>2. CASE _nvram_get(table, n) # v
      <4>1. Sound(r) /\ r.buf = table.buf \cup {[off |-> table.offset, value |-> v]}
        BY <1>1, <1>2, <3>2, SetTuples
      <4> QED BY <4>1
    <3> QED BY <3>1, <3>2
  <2>2. \A m \in Names : _nvram_get(r, m) = IF m = n THEN v ELSE _nvram_get(table, m)
    BY <1>1, <1>2, SetGet
  <2> HIDE DEF r
  <2>3. \A p \in Procs : ptr[p] = NullPtr \/ ptr[p] \in r.buf
    BY <1>1, <2>1 DEF PtrInv
  <2>4. DOMAIN ptr = Procs /\ Become(r, ptr)
    BY <1>1, <1>2 DEF PtrInv, r
  <2>5. /\ Sound(table') /\ PtrInv'
        /\ \A m \in Names : _nvram_get(table', m) = _nvram_get(r, m)
    BY <2>1, <2>3, <2>4, BecomeStep
  <2>6. FlashInv'
    BY <1>1, <1>2 DEF FlashInv
  <2> QED BY <2>2, <2>5, <2>6 DEF StoreInv
<1>3. CASE /\ Become(IF Room(_nvram_commit(table), v) THEN _nvram_set(_nvram_commit(table), n, v)
                     ELSE _nvram_commit(table), Moved)
           /\ UNCHANGED flash
  <2> DEFINE s == _nvram_commit(table)
             r == IF Room(s, v) THEN _nvram_set(s, n, v) ELSE s
  <2>1. Sound(s) /\ \A m \in Names : _nvram_get(s, m) \in {Undefined, _nvram_get(table, m)}
    BY <1>1, CommitGet
  <2>2. /\ Sound(r)
        /\ \A m \in Names : _nvram_get(r, m) = _nvram_get(s, m) \/ (m = n /\ _nvram_get(r, m) = v)
    <3> HIDE DEF s
    <3>1. CASE Room(s, v)
      <4>1. Sound(_nvram_set(s, n, v))
        BY <2>1, <3>1, SetTuples
      <4>2. \A m \in Names :
              _nvram_get(_nvram_set(s, n, v), m) = IF m = n THEN v ELSE _nvram_get(s, m)
        BY <2>1, <3>1, SetGet
      <4> QED BY <3>1, <4>1, <4>2
    <3>2. CASE ~ Room(s, v)  BY <2>1, <3>2
    <3> QED BY <3>1, <3>2
  <2>3. Become(r, Moved)
    BY <1>3
  <2> HIDE DEF r, s
  <2>4. /\ Sound(table') /\ PtrInv'
        /\ \A m \in Names : _nvram_get(table', m) = _nvram_get(r, m)
    BY <2>2, <2>3, MovedGood, BecomeStep
  <2>5. FlashInv'
    BY <1>1, <1>3 DEF FlashInv
  <2> QED BY <2>1, <2>2, <2>4, <2>5 DEF StoreInv
<1>4. CASE UNCHANGED vars
  <2>1. table' = table /\ ptr' = ptr /\ flash' = flash
    BY <1>4 DEF vars
  <2> QED BY <1>1, <2>1 DEF StoreInv, PtrInv, FlashInv
<1> QED
  BY <1>2, <1>3, <1>4 DEF Set

LEMMA UnsetStep ==
    ASSUME StoreInv, NEW n \in Names, Unset(n)
    PROVE  /\ StoreInv'
           /\ \A m \in Names :
                _nvram_get(table', m) = IF m = n THEN Undefined ELSE _nvram_get(table, m)
<1> DEFINE r == _nvram_unset(table, n)
<1>1. Sound(table) /\ PtrInv /\ FlashInv
  BY DEF StoreInv
<1>2. /\ Sound(r) /\ r.buf = table.buf
      /\ \A m \in Names : _nvram_get(r, m) = IF m = n THEN Undefined ELSE _nvram_get(table, m)
  BY <1>1, UnsetGet
<1>3. Become(r, ptr) /\ flash' = flash
  BY DEF Unset
<1> HIDE DEF r
<1>4. /\ Sound(table') /\ PtrInv'
      /\ \A m \in Names : _nvram_get(table', m) = _nvram_get(r, m)
  BY <1>1, <1>2, <1>3, BecomeStep DEF PtrInv
<1> QED
  BY <1>1, <1>2, <1>3, <1>4 DEF StoreInv, FlashInv

LEMMA CommitStep ==
    ASSUME StoreInv, Commit
    PROVE  /\ StoreInv'
           /\ \A m \in Names : _nvram_get(table', m) \in {_nvram_get(table, m), Undefined}
<1> DEFINE s == _nvram_commit(table)
           r == _nvram_commit(s)
<1>1. Sound(table)
  BY DEF StoreInv
<1>2. Sound(s) /\ \A m \in Names : _nvram_get(s, m) \in {Undefined, _nvram_get(table, m)}
  BY <1>1, CommitGet
<1>3. /\ flash' = [backup |-> CommitImage(table), primary |-> CommitImage(s)]
      /\ Become(r, Moved)
  BY DEF Commit
<1> HIDE DEF s
<1>4. Sound(r) /\ \A m \in Names : _nvram_get(r, m) \in {Undefined, _nvram_get(s, m)}
  BY <1>2, CommitGet
<1> HIDE DEF r
<1>5. /\ Sound(table') /\ PtrInv'
      /\ \A m \in Names : _nvram_get(table', m) = _nvram_get(r, m)
  BY <1>3, <1>4, MovedGood, BecomeStep
<1>6. flash'.backup = CommitImage(table) /\ flash'.primary = CommitImage(s)
  BY <1>3
<1>7. Image(CommitImage(table)) /\ Image(CommitImage(s))
  BY <1>1, <1>2, CommitImageIs
<1>8. FlashInv'
  BY <1>6, <1>7 DEF FlashInv
<1> QED
  BY <1>2, <1>4, <1>5, <1>8 DEF StoreInv

LEMMA RebootStep ==
    ASSUME StoreInv, Reboot
    PROVE  /\ StoreInv'
           /\ \A m \in Names : _nvram_get(table', m) \in {ImageMap(flash.backup)[m], Undefined}
<1> DEFINE r == nvram_rehash(flash.backup)
<1>1. FlashInv
  BY DEF StoreInv
<1>2. Sound(r) /\ \A m \in Names : _nvram_get(r, m) \in {Undefined, ImageMap(flash.backup)[m]}
  BY <1>1, RehashImage DEF FlashInv
<1>3. Become(r, Moved) /\ flash' = flash
  BY DEF Reboot
<1> HIDE DEF r
<1>4. /\ Sound(table') /\ PtrInv'
      /\ \A m \in Names : _nvram_get(table', m) = _nvram_get(r, m)
  BY <1>2, <1>3, MovedGood, BecomeStep
<1> QED
  BY <1>1, <1>2, <1>3, <1>4 DEF StoreInv, FlashInv

LEMMA StoreInit == Init => StoreInv
<1> SUFFICES ASSUME Init PROVE StoreInv
  OBVIOUS
<1>1. Sound(table) /\ PtrInv
  BY EmptySound DEF Init, PtrInv
<1>2. FlashInv
  <2>1. <<>> \in Seq(PairSet) /\ Len(<<>>) = 0
    OBVIOUS
  <2>2. Image(<<>>)
    BY <2>1 DEF Image
  <2> QED BY <2>2 DEF Init, FlashInv
<1> QED BY <1>1, <1>2 DEF StoreInv

LEMMA StoreStep == StoreInv /\ [Next]_vars => StoreInv'
<1> SUFFICES ASSUME StoreInv, [Next]_vars PROVE StoreInv'
  OBVIOUS
<1>1. ASSUME NEW n \in Names, Unset(n) PROVE StoreInv'  BY <1>1, UnsetStep
<1>2. ASSUME NEW n \in Names, NEW v \in Values, Set(n, v) PROVE StoreInv'  BY <1>2, SetStep
<1>3. ASSUME NEW p \in Procs, NEW n \in Names, Get(p, n) PROVE StoreInv'  BY <1>3, GetStep
<1>4. CASE Commit  BY <1>4, CommitStep
<1>5. CASE Reboot  BY <1>5, RebootStep
<1>6. CASE UNCHANGED vars
  <2>1. table' = table /\ ptr' = ptr /\ flash' = flash
    BY <1>6 DEF vars
  <2> QED BY <2>1 DEF StoreInv, PtrInv, FlashInv
<1> QED
  BY <1>1, <1>2, <1>3, <1>4, <1>5, <1>6 DEF Next

LEMMA StoreAlways == Spec => []StoreInv
BY StoreInit, StoreStep, PTL DEF Spec

-----------------------------------------------------------------------------
(* Names, offsets and values keep their types: the offset never passes the *)
(* end of nvram_buf, and no tuple, string or image holds anything else.    *)
THEOREM TypeCorrect == Spec => []TypeOK
<1>1. StoreInv => TypeOK
  <2> SUFFICES ASSUME StoreInv PROVE TypeOK
    OBVIOUS
  <2>1. Sound(table) /\ PtrInv /\ FlashInv
    BY DEF StoreInv
  <2>2. /\ table.offset \in 0 .. NVRAM_SPACE /\ DOMAIN table.hash = 1 .. NBuckets
        /\ table.buf \subseteq StringSet
    BY <2>1 DEF Sound, TableSet
  <2>3. Tuples(table) \subseteq TupleSet
    BY <2>1, TupleFacts
  <2>4. \A im : Image(im) => Range(im) \subseteq PairSet
    BY DEF Image, Range
  <2> QED BY <2>1, <2>2, <2>3, <2>4 DEF TypeOK, PtrInv, FlashInv, TupleSet, StringSet,
                                        PairSet, Offsets
<1> QED
  BY <1>1, StoreAlways, PTL

(* After every sequence of operations a variable has one tuple, where      *)
(* lookups search, and a whole string of its own in the used part of       *)
(* nvram_buf, whatever the hash function and the lengths.                  *)
THEOREM TableCorrect == Spec => []TableSound
<1>1. StoreInv => TableSound
  <2> SUFFICES ASSUME Sound(table) PROVE TableSound
    BY DEF StoreInv
  <2>1. ASSUME NEW b \in 1 .. NBuckets, NEW i \in DOMAIN table.hash[b], NEW j \in DOMAIN table.hash[b]
        PROVE  /\ BucketOf[table.hash[b][i].name] = b
               /\ table.hash[b][i].name = table.hash[b][j].name => i = j
    <3>1. Bucket(table.hash[b], b)
      BY DEF Sound
    <3>2. DOMAIN table.hash[b] = 1 .. Len(table.hash[b])
      BY <3>1 DEF Bucket
    <3> QED BY <3>1, <3>2 DEF Bucket
  <2>2. ASSUME NEW t \in Tuples(table)
        PROVE  /\ StringAt(table.buf, t.off) \in Values
               /\ t.off + ValLen[StringAt(table.buf, t.off)] < table.offset
    <3>1. PICK str \in table.buf : str.off = t.off
      BY DEF Sound
    <3>2. StringAt(table.buf, t.off) = str.value
      BY <3>1, StringIs
    <3>3. str.value \in Values
      BY DEF Sound, TableSet, StringSet
    <3> QED BY <3>1, <3>2, <3>3 DEF Sound
  <2>3. \A t, u \in Tuples(table) : t.off = u.off => t = u
    BY DEF Sound
  <2> QED BY <2>1, <2>2, <2>3 DEF TableSound
<1> QED
  BY <1>1, StoreAlways, PTL

(* A pointer into the mapping stays good through any number of sets and    *)
(* unsets, until values move.                                              *)
THEOREM PointersCorrect == Spec => []PointerStable
<1>1. StoreInv => PointerStable
  BY StringIs DEF StoreInv, PtrInv, PointerStable
<1> QED
  BY <1>1, StoreAlways, PTL

(* No operation gives a variable the value of another, however little fits *)
(* into the buffer and the image.                                          *)
THEOREM ValuesCorrect == Spec => NoForeignValue
<1> DEFINE Own(n) ==
      MapOf(table')[n] \in {MapOf(table)[n], Undefined, ImageMap(flash.backup)[n]}
      \/ \E v \in Values : Set(n, v) /\ MapOf(table')[n] = v
<1>1. StoreInv /\ [Next]_vars => [\A n \in Names : Own(n)]_vars
  <2> SUFFICES ASSUME StoreInv, Next, NEW m \in Names PROVE Own(m)
    OBVIOUS
  <2>0. MapOf(table)[m] = _nvram_get(table, m) /\ MapOf(table')[m] = _nvram_get(table', m)
    BY DEF MapOf
  <2>1. ASSUME NEW n \in Names, Unset(n) PROVE Own(m)
    BY <2>0, <2>1, UnsetStep
  <2>2. ASSUME NEW n \in Names, NEW v \in Values, Set(n, v) PROVE Own(m)
    BY <2>0, <2>2, SetStep
  <2>3. ASSUME NEW p \in Procs, NEW n \in Names, Get(p, n) PROVE Own(m)
    BY <2>0, <2>3, GetStep
  <2>4. CASE Commit  BY <2>0, <2>4, CommitStep
  <2>5. CASE Reboot  BY <2>0, <2>5, RebootStep
  <2> QED
    BY <2>1, <2>2, <2>3, <2>4, <2>5 DEF Next
<1> QED
  BY <1>1, StoreAlways, PTL DEF Spec, NoForeignValue
=============================================================================
