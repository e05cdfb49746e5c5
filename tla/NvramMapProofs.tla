--------------------------- MODULE NvramMapProofs ---------------------------
(***************************************************************************)
(* Proofs about NvramStore that count the bytes of an image: what one walk *)
(* of the table wrote, a second walk of the table read back from it writes *)
(* again in whatever order; and when every choice of values fits, nothing  *)
(* is ever lost, so that the table implements NvramMap.                    *)
(***************************************************************************)
EXTENDS NvramStoreProofs, FiniteSetTheorems

Defined(s) == {n \in Names : _nvram_get(s, n) # Undefined}

Named(im) == {im[i].name : i \in 1 .. Len(im)}

Pair(s, n) == [name |-> n, value |-> _nvram_get(s, n)]

(* The strings of the image im take total bytes, and each prefix of it     *)
(* takes no more.                                                          *)
Laid(im, total) ==
    \E a \in [0 .. Len(im) -> 0 .. total] :
      /\ a[0] = 0 /\ a[Len(im)] = total
      /\ \A k \in 1 .. Len(im) : a[k] = a[k - 1] + Size(im[k])

(* An image with each name once that takes at most room bytes.             *)
Listed(im, room) ==
    /\ im \in Seq(PairSet)
    /\ \A i, j \in 1 .. Len(im) : im[i].name = im[j].name => i = j
    /\ \E total \in 0 .. room : Laid(im, total)

(* The variables of s take at most room bytes, in any order: c[S] bytes    *)
(* are enough for the variables in S.                                      *)
Pays(c, s, room) ==
    /\ c \in [SUBSET Defined(s) -> 0 .. room]
    /\ \A S \in SUBSET Defined(s) : \A n \in Defined(s) \ S :
         c[S] + Size(Pair(s, n)) <= c[S \cup {n}]

Affordable(s, room) == \E c : Pays(c, s, room)

-----------------------------------------------------------------------------
LEMMA SizeNat ==
    ASSUME NEW pair \in PairSet
    PROVE  /\ Size(pair) \in Nat /\ pair.name \in Names /\ pair.value \in Values
           /\ ValLen[pair.value] + 1 \in Nat
           /\ ValLen[pair.value] + 1 <= Size(pair)
<1>1. pair.name \in Names /\ pair.value \in Values
  BY DEF PairSet
<1>2. NameLen[pair.name] \in Nat /\ ValLen[pair.value] \in Nat
  BY <1>1, Sizes
<1> QED BY <1>1, <1>2 DEF Size

LEMMA LaidEmpty == Laid(<<>>, 0)
<1> DEFINE a == [k \in 0 .. 0 |-> 0]
<1>1. Len(<<>>) = 0 /\ a \in [0 .. 0 -> 0 .. 0] /\ a[0] = 0
  OBVIOUS
<1> HIDE DEF a
<1>2. Laid(<<>>, 0) <=>
        \E e \in [0 .. 0 -> 0 .. 0] :
          e[0] = 0 /\ e[0] = 0 /\ \A k \in 1 .. 0 : e[k] = e[k - 1] + Size(<<>>[k])
  BY <1>1 DEF Laid
<1>3. \A k \in 1 .. 0 : FALSE
  OBVIOUS
<1> QED BY <1>1, <1>2, <1>3

LEMMA LaidAppend ==
    ASSUME NEW im \in Seq(PairSet), NEW total \in Nat, Laid(im, total), NEW pair \in PairSet
    PROVE  Laid(Append(im, pair), total + Size(pair))
<1> DEFINE n == Len(im)
           next == Append(im, pair)
           sum == total + Size(pair)
<1>1. PICK a \in [0 .. n -> 0 .. total] :
        /\ a[0] = 0 /\ a[n] = total
        /\ \A k \in 1 .. n : a[k] = a[k - 1] + Size(im[k])
  BY DEF Laid
<1>2. n \in Nat /\ Len(next) = n + 1 /\ next[n + 1] = pair /\ \A k \in 1 .. n : next[k] = im[k]
  OBVIOUS
<1>3. Size(pair) \in Nat /\ sum \in Nat /\ total <= sum
  BY SizeNat
<1> DEFINE e == [k \in 0 .. n + 1 |-> IF k <= n THEN a[k] ELSE sum]
<1>4. e \in [0 .. n + 1 -> 0 .. sum]
  <2>1. ASSUME NEW k \in 0 .. n + 1 PROVE (IF k <= n THEN a[k] ELSE sum) \in 0 .. sum
    <3>1. CASE k <= n
      <4>1. k \in 0 .. n  BY <1>2, <3>1
      <4>2. a[k] \in 0 .. total  BY <1>1, <4>1
      <4> QED BY <1>3, <3>1, <4>2
    <3>2. CASE ~ (k <= n)  BY <1>3, <3>2
    <3> QED BY <3>1, <3>2
  <2> QED BY <2>1
<1>5. e[0] = 0 /\ e[n + 1] = sum /\ \A k \in 0 .. n : e[k] = a[k]
  BY <1>1, <1>2
<1> HIDE DEF e, n, next, sum
<1>6. ASSUME NEW k \in 1 .. n + 1 PROVE e[k] = e[k - 1] + Size(next[k])
  <2>1. CASE k = n + 1
    <3>1. k - 1 = n /\ n \in 0 .. n
      BY <1>2, <2>1
    <3> QED BY <1>1, <1>2, <1>5, <2>1, <3>1 DEF sum
  <2>2. CASE k \in 1 .. n
    <3>1. k \in 0 .. n /\ k - 1 \in 0 .. n
      BY <1>2, <2>2
    <3> QED BY <1>1, <1>2, <1>5, <2>2, <3>1
  <2> QED BY <1>2, <2>1, <2>2
<1>7. Laid(next, sum)
  BY <1>2, <1>4, <1>5, <1>6 DEF Laid
<1> QED BY <1>7 DEF next, sum

-----------------------------------------------------------------------------
(* Bytes can be counted in any order: the positions of S take c[S] bytes.  *)
LEMMA AnyOrder ==
    ASSUME NEW im \in Seq(PairSet), NEW total \in Nat, Laid(im, total)
    PROVE  \E c \in [SUBSET (1 .. Len(im)) -> 0 .. total] :
             \A S \in SUBSET (1 .. Len(im)) : \A i \in (1 .. Len(im)) \ S :
               c[S \cup {i}] = c[S] + Size(im[i])
<1> DEFINE m == Len(im)
<1>1. PICK a \in [0 .. m -> 0 .. total] :
        /\ a[0] = 0 /\ a[m] = total
        /\ \A k \in 1 .. m : a[k] = a[k - 1] + Size(im[k])
  BY DEF Laid
<1>2. m \in Nat /\ \A k \in 1 .. m : Size(im[k]) \in Nat
  BY SizeNat
<1> HIDE DEF m
<1> DEFINE Counts(c, k) ==
             /\ c \in [SUBSET (1 .. k) -> 0 .. a[k]]
             /\ \A S \in SUBSET (1 .. k) : \A i \in (1 .. k) \ S :
                  c[S \cup {i}] = c[S] + Size(im[i])
           T == {k \in Nat : k <= m => \E c : Counts(c, k)}
<1>3. 0 \in T
  <2> DEFINE c == [S \in SUBSET (1 .. 0) |-> 0]
  <2>1. 1 .. 0 = {} /\ c \in [SUBSET (1 .. 0) -> 0 .. a[0]]
    BY <1>1
  <2> HIDE DEF c
  <2>2. Counts(c, 0)
    BY <2>1
  <2> HIDE DEF Counts
  <2> QED BY <2>2
<1>4. ASSUME NEW k \in Nat, k \in T PROVE k + 1 \in T
  <2> HIDE DEF Counts
  <2> SUFFICES ASSUME k + 1 <= m PROVE \E c : Counts(c, k + 1)
    OBVIOUS
  <2> USE DEF Counts
  <2>1. k <= m /\ k \in 0 .. m /\ k + 1 \in 0 .. m /\ k + 1 \in 1 .. m /\ k + 1 - 1 = k
    BY <1>2
  <2>2. PICK c : Counts(c, k)
    BY <1>4, <2>1
  <2> DEFINE x == k + 1
             z == Size(im[x])
             e == [S \in SUBSET (1 .. x) |-> IF x \in S THEN c[S \ {x}] + z ELSE c[S]]
  <2>3. z \in Nat /\ a[k] \in Nat /\ a[x] = a[k] + z
    BY <1>1, <1>2, <2>1
  <2>4. \A S \in SUBSET (1 .. x) : S \ {x} \in SUBSET (1 .. k) /\ (x \notin S => S \in SUBSET (1 .. k))
    <3>1. \A i \in 1 .. x : i # x => i \in 1 .. k
      OBVIOUS
    <3> QED BY <3>1
  <2>5. \A S \in SUBSET (1 .. k) : c[S] \in 0 .. a[k]
    BY <2>2
  <2> HIDE DEF z
  <2>6. e \in [SUBSET (1 .. x) -> 0 .. a[x]]
    <3>1. ASSUME NEW S \in SUBSET (1 .. x)
          PROVE  (IF x \in S THEN c[S \ {x}] + z ELSE c[S]) \in 0 .. a[x]
      <4>1. CASE x \in S
        <5>1. c[S \ {x}] \in 0 .. a[k]  BY <2>4, <2>5
        <5> QED BY <2>3, <4>1, <5>1
      <4>2. CASE x \notin S
        <5>1. c[S] \in 0 .. a[k]  BY <2>4, <2>5, <4>2
        <5> QED BY <2>3, <4>2, <5>1
      <4> QED BY <4>1, <4>2
    <3> QED BY <3>1
  <2>7. ASSUME NEW S \in SUBSET (1 .. x), NEW i \in (1 .. x) \ S
        PROVE  e[S \cup {i}] = e[S] + Size(im[i])
    <3> DEFINE U == S \cup {i}
    <3>0. U \in SUBSET (1 .. x) /\ x \in Nat /\ x # k
      OBVIOUS
    <3>1. e[U] = (IF x \in U THEN c[U \ {x}] + z ELSE c[U]) /\ e[S] = (IF x \in S THEN c[S \ {x}] + z ELSE c[S])
      BY <3>0
    <3> HIDE DEF e
    <3>2. CASE i = x
      <4>1. U \ {x} = S /\ x \in U /\ x \notin S
        BY <3>2
      <4> QED BY <3>1, <3>2, <4>1 DEF z
    <3>3. CASE i # x
      <4>1. i \in 1 .. k
        BY <3>3
      <4>2. CASE x \in S
        <5> DEFINE V == S \ {x}
        <5>1. U \ {x} = V \cup {i} /\ x \in U /\ i \in (1 .. k) \ V /\ V \in SUBSET (1 .. k)
          BY <2>4, <3>3, <4>1, <4>2
        <5>2. c[V \cup {i}] = c[V] + Size(im[i])
          BY <2>2, <5>1
        <5>3. c[V] \in Int /\ Size(im[i]) \in Int /\ z \in Int
          <6>1. i \in 1 .. m
            BY <1>2, <2>1, <4>1
          <6>2. c[V] \in 0 .. a[k] /\ Size(im[i]) \in Nat
            BY <1>2, <2>5, <5>1, <6>1
          <6> QED BY <2>3, <6>2
        <5>4. e[U] = c[V] + Size(im[i]) + z /\ e[S] = c[V] + z
          BY <3>1, <4>2, <5>1, <5>2
        <5> HIDE DEF V
        <5> QED BY <5>3, <5>4
      <4>3. CASE x \notin S
        <5>1. x \notin U /\ S \in SUBSET (1 .. k) /\ i \in (1 .. k) \ S
          BY <2>4, <3>3, <4>1, <4>3
        <5>2. c[U] = c[S] + Size(im[i])
          BY <2>2, <5>1
        <5> QED BY <3>1, <4>3, <5>1, <5>2
      <4> QED BY <4>2, <4>3
    <3> QED BY <3>2, <3>3
  <2> HIDE DEF e
  <2>8. Counts(e, x)
    BY <2>6, <2>7
  <2> HIDE DEF Counts
  <2> QED BY <2>8
<1> HIDE DEF T, Counts
<1>5. Nat \subseteq T
  BY <1>3, <1>4, P!Induction
<1>6. PICK c : Counts(c, m)
  BY <1>2, <1>5 DEF T
<1> QED BY <1>1, <1>6 DEF m, Counts

(* A table read back from an image takes no more than the image.           *)
LEMMA ListedAffordable ==
    ASSUME NEW room \in Nat, NEW im, Listed(im, room), NEW s, Sound(s),
           \A n \in Names : _nvram_get(s, n) = ImageMap(im)[n]
    PROVE  Affordable(s, room)
<1>1. PICK total \in 0 .. room : Laid(im, total)
  BY DEF Listed
<1>2. im \in Seq(PairSet) /\ total \in Nat /\ Image(im) /\ Len(im) \in Nat
  BY DEF Listed, Image
<1>3. PICK c \in [SUBSET (1 .. Len(im)) -> 0 .. total] :
             \A S \in SUBSET (1 .. Len(im)) : \A i \in (1 .. Len(im)) \ S :
               c[S \cup {i}] = c[S] + Size(im[i])
  BY <1>1, <1>2, AnyOrder
<1> DEFINE At(S) == {i \in 1 .. Len(im) : im[i].name \in S}
           e == [S \in SUBSET Defined(s) |-> c[At(S)]]
<1>4. e \in [SUBSET Defined(s) -> 0 .. room]
  <2>1. ASSUME NEW S \in SUBSET Defined(s) PROVE c[At(S)] \in 0 .. room
    <3>1. At(S) \in SUBSET (1 .. Len(im))
      OBVIOUS
    <3> HIDE DEF At
    <3>2. c[At(S)] \in 0 .. total
      BY <1>3, <3>1
    <3> QED BY <3>2
  <2> QED BY <2>1
<1>5. ASSUME NEW S \in SUBSET Defined(s), NEW n \in Defined(s) \ S
      PROVE  e[S] + Size(Pair(s, n)) <= e[S \cup {n}]
  <2>1. n \in Names /\ ImageMap(im)[n] # Undefined
    BY DEF Defined
  <2>2. PICK i \in 1 .. Len(im) : im[i].name = n
    BY <1>2, <2>1, ImageMapIs
  <2>3. ImageMap(im)[n] = im[i].value
    BY <1>2, <2>1, <2>2, ImageMapIs
  <2>4. Pair(s, n) = im[i]
    <3>1. im[i] \in PairSet
      BY <1>2
    <3>2. im[i] = [name |-> im[i].name, value |-> im[i].value]
      BY <3>1 DEF PairSet
    <3> QED BY <2>1, <2>2, <2>3, <3>2 DEF Pair
  <2>5. At(S \cup {n}) = At(S) \cup {i} /\ i \notin At(S) /\ At(S) \in SUBSET (1 .. Len(im))
    BY <2>2 DEF Listed
  <2>6. e[S] = c[At(S)] /\ e[S \cup {n}] = c[At(S \cup {n})]
    OBVIOUS
  <2> HIDE DEF At, e
  <2>7. c[At(S \cup {n})] = c[At(S)] + Size(im[i])
    BY <1>3, <2>2, <2>5
  <2>8. c[At(S)] \in Nat /\ Size(im[i]) \in Nat
    BY <1>2, <1>3, <2>5, SizeNat
  <2> QED BY <2>4, <2>6, <2>7, <2>8
<1> HIDE DEF e
<1> QED BY <1>4, <1>5 DEF Affordable, Pays

(* Reading in an image that fits into nvram_buf loses nothing.             *)
LEMMA RehashAll ==
    ASSUME NEW im, Listed(im, NVRAM_SPACE)
    PROVE  /\ Sound(nvram_rehash(im))
           /\ \A n \in Names : _nvram_get(nvram_rehash(im), n) = ImageMap(im)[n]
<1> DEFINE m == Len(im)
<1>0. im \in Seq(PairSet) /\ NVRAM_SPACE \in Nat
  BY Sizes DEF Listed
<1>1. m \in Nat /\ DOMAIN im = 1 .. m /\ \A k \in 1 .. m : im[k] \in PairSet
  BY <1>0
<1>2. PICK total \in 0 .. NVRAM_SPACE : Laid(im, total)
  BY DEF Listed
<1>3. PICK a \in [0 .. m -> 0 .. total] :
        a[0] = 0 /\ \A k \in 1 .. m : a[k] = a[k - 1] + Size(im[k])
  BY <1>2 DEF Laid
<1> HIDE DEF m
<1> DEFINE I(k) == {s \in TableSet :
                      /\ Sound(s) /\ s.offset <= a[k]
                      /\ \A i \in 1 .. k : _nvram_get(s, im[i].name) = im[i].value
                      /\ \A n \in Names : (\A i \in 1 .. k : im[i].name # n) => _nvram_get(s, n) = Undefined}
           J == [k \in 0 .. m |-> I(k)]
<1>4. EmptyTable \in I(0)
  <2>1. EmptyTable.offset = 0
    BY DEF EmptyTable
  <2>2. \A i \in 1 .. 0 : FALSE
    OBVIOUS
  <2> QED BY <1>3, <2>1, <2>2, EmptySound DEF Sound
<1>5. ASSUME NEW k \in 1 .. m, NEW s \in I(k - 1) PROVE SetFrom(s, im[k]) \in I(k)
  <2> DEFINE n == im[k].name
             v == im[k].value
             r == _nvram_set(s, n, v)
  <2>1. /\ n \in Names /\ v \in Values /\ Size(im[k]) \in Nat
        /\ ValLen[v] \in Nat /\ ValLen[v] + 1 <= Size(im[k])
    BY <1>1, SizeNat, Sizes
  <2>2. Sound(s) /\ s.offset <= a[k - 1] /\ s.offset \in Nat
    BY DEF Sound, TableSet
  <2>3. /\ k - 1 \in 0 .. m /\ k \in 0 .. m /\ a[k - 1] \in Nat /\ a[k] \in 0 .. total
        /\ a[k] = a[k - 1] + Size(im[k]) /\ total \in 0 .. NVRAM_SPACE
    <3>1. k - 1 \in 0 .. m /\ k \in 0 .. m
      BY <1>1
    <3> QED BY <1>2, <1>3, <3>1
  <2>4. Room(s, v)
    <3> HIDE DEF I, v
    <3>1. a[k] <= NVRAM_SPACE
      BY <1>0, <2>3
    <3>2. s.offset + ValLen[v] + 1 <= a[k]
      BY <2>1, <2>2, <2>3
    <3>3. s.offset + ValLen[v] + 1 \in Int /\ a[k] \in Int
      BY <2>1, <2>2, <2>3
    <3> QED BY <1>0, <3>1, <3>2, <3>3 DEF Room
  <2>5. Sound(r) /\ r \in TableSet
    BY <2>1, <2>2, <2>4, SetTuples DEF Sound
  <2>6. \A x \in Names : _nvram_get(r, x) = IF x = n THEN v ELSE _nvram_get(s, x)
    BY <2>1, <2>2, <2>4, SetGet
  <2>7. r.offset <= a[k]
    <3>1. _nvram_get(s, n) = v => r = s
      BY <2>1, <2>2, <2>4, SetTuples
    <3>2. _nvram_get(s, n) # v => r.offset = s.offset + ValLen[v] + 1
      BY <2>1, <2>2, <2>4, SetTuples
    <3> HIDE DEF r
    <3>3. CASE r = s  BY <2>1, <2>2, <2>3, <3>3
    <3>4. CASE r.offset = s.offset + ValLen[v] + 1  BY <2>1, <2>2, <2>3, <3>4
    <3> QED BY <3>1, <3>2, <3>3, <3>4
  <2>8. SetFrom(s, im[k]) = r
    BY <2>4 DEF SetFrom
  <2> HIDE DEF r
  <2>9. \A i \in 1 .. k : i = k \/ i \in 1 .. k - 1
    OBVIOUS
  <2>10. k \in 1 .. k /\ \A i \in 1 .. k - 1 : i \in 1 .. k /\ i \in 1 .. m /\ i # k
    BY <1>1
  <2>11. ASSUME NEW i \in 1 .. k PROVE _nvram_get(r, im[i].name) = im[i].value
    <3>1. CASE i = k  BY <2>1, <2>6, <3>1
    <3>2. CASE i \in 1 .. k - 1
      <4>1. im[i].name # n /\ im[i].name \in Names
        BY <1>1, <2>10, <3>2, SizeNat DEF Listed, m
      <4>2. _nvram_get(s, im[i].name) = im[i].value
        BY <3>2
      <4> QED BY <2>6, <4>1, <4>2
    <3> QED BY <2>9, <3>1, <3>2
  <2>12. ASSUME NEW x \in Names, \A i \in 1 .. k : im[i].name # x PROVE _nvram_get(r, x) = Undefined
    <3>1. x # n /\ \A i \in 1 .. k - 1 : im[i].name # x
      BY <2>10, <2>12
    <3>2. _nvram_get(s, x) = Undefined
      BY <3>1
    <3> QED BY <2>6, <3>1, <3>2
  <2> QED BY <2>5, <2>7, <2>8, <2>11, <2>12
<1>6. EmptyTable \in J[0] /\ J[m] = I(m)
  <2> HIDE DEF I
  <2> QED BY <1>1, <1>4
<1>7. \A k \in 1 .. m : \A s \in J[k - 1] : SetFrom(s, im[k]) \in J[k]
  <2> HIDE DEF I
  <2> QED BY <1>1, <1>5
<1> HIDE DEF I, J
<1>8. R!Fold(EmptyTable, im) \in J[m]
  BY <1>1, <1>6, <1>7, R!FoldThrough
<1>9. nvram_rehash(im) \in I(m)
  BY <1>6, <1>8, Folds DEF nvram_rehash
<1>10. Image(im)
  BY <1>0 DEF Listed, Image
<1> DEFINE r == nvram_rehash(im)
<1>11. /\ Sound(r)
       /\ \A i \in 1 .. m : _nvram_get(r, im[i].name) = im[i].value
       /\ \A n \in Names : (\A i \in 1 .. m : im[i].name # n) => _nvram_get(r, n) = Undefined
  BY <1>9 DEF I
<1> HIDE DEF r
<1>12. ASSUME NEW n \in Names PROVE _nvram_get(r, n) = ImageMap(im)[n]
  <2>1. CASE \E i \in 1 .. m : im[i].name = n
    BY <1>10, <1>11, <2>1, ImageMapIs DEF m
  <2>2. CASE \A i \in 1 .. m : im[i].name # n
    BY <1>10, <1>11, <2>2, ImageMapIs DEF m
  <2> QED BY <2>1, <2>2
<1> QED BY <1>11, <1>12 DEF r

-----------------------------------------------------------------------------
(* The names a walk meets: those of a bucket are the variables hashed to   *)
(* it, each once.                                                          *)
LEMMA ListingNames ==
    ASSUME NEW s, Sound(s), NEW b \in 1 .. NBuckets
    PROVE  LET list == Listing(s)[b]
           IN  /\ list \in Seq(Pairs(s)) /\ Len(list) \in Nat /\ DOMAIN list = 1 .. Len(list)
               /\ \A i, j \in 1 .. Len(list) : list[i].name = list[j].name => i = j
               /\ \A i \in 1 .. Len(list) :
                    list[i] \in Pairs(s) /\ list[i].name \in Defined(s) /\ BucketOf[list[i].name] = b
               /\ \A n \in Defined(s) : BucketOf[n] = b => \E i \in 1 .. Len(list) : list[i].name = n
<1> DEFINE list == Listing(s)[b]
           tuples == s.hash[b]
<1>1. /\ list \in Seq(Pairs(s)) /\ Len(list) = Len(tuples)
      /\ \A i \in 1 .. Len(tuples) : list[i].name = tuples[i].name
  BY ListingIs
<1>2. Bucket(tuples, b)
  BY DEF Sound
<1> HIDE DEF list
<1>3. list \in Seq(Pairs(s)) /\ Len(list) \in Nat /\ DOMAIN list = 1 .. Len(list)
  BY <1>1
<1>4. \A i, j \in 1 .. Len(list) : list[i].name = list[j].name => i = j
  BY <1>1, <1>2 DEF Bucket
<1>5. ASSUME NEW i \in 1 .. Len(list)
      PROVE  list[i] \in Pairs(s) /\ list[i].name \in Defined(s) /\ BucketOf[list[i].name] = b
  <2>1. list[i] \in Pairs(s)
    BY <1>3
  <2>2. /\ list[i].name \in Names /\ list[i].value \in Values
        /\ _nvram_get(s, list[i].name) = list[i].value
    BY <2>1 DEF Pairs, PairSet
  <2>3. BucketOf[list[i].name] = b
    BY <1>1, <1>2 DEF Bucket
  <2> QED BY <2>1, <2>2, <2>3, Sizes DEF Defined
<1>6. ASSUME NEW n \in Defined(s), BucketOf[n] = b PROVE \E i \in 1 .. Len(list) : list[i].name = n
  <2>1. n \in Names /\ _nvram_get(s, n) # Undefined
    BY DEF Defined
  <2>2. PICK t \in Tuples(s) : t.name = n
    BY <2>1, GetHolds
  <2>3. t \in Elements(tuples)
    BY <1>6, <2>2, TupleFacts
  <2>4. PICK i \in 1 .. Len(tuples) : tuples[i] = t
    BY <2>3 DEF Elements
  <2> QED BY <1>1, <2>2, <2>4
<1> QED BY <1>3, <1>4, <1>5, <1>6 DEF list

(* A walk writes names once and no more than fits, and everything when     *)
(* that takes no more than there is room for.                              *)
LEMMA WriteOutIs ==
    ASSUME NEW s, Sound(s), NEW start \in Nat, NEW room \in Nat
    PROVE  LET out == WriteOut(s, start, start + room)
           IN  /\ out \in Seq(Pairs(s)) /\ Listed(out, room)
               /\ Affordable(s, room) => Named(out) = Defined(s)
<1> DEFINE K == Pairs(s)
           D == Defined(s)
           c == CHOOSE c : Pays(c, s, room)
           W(N) == {w \in Writing(K) :
                      /\ w.end = start + room
                      /\ Listed(w.out, room) /\ Named(w.out) \subseteq N
                      /\ w.at - start \in 0 .. room /\ Laid(w.out, w.at - start)
                      /\ Affordable(s, room) =>
                           w.full = FALSE /\ N \subseteq Named(w.out) /\ w.at <= start + c[N]}
<1>1. K \in SUBSET PairSet /\ D \in SUBSET Names
  BY DEF Pairs, Defined
<1>2. Affordable(s, room) => Pays(c, s, room)
  BY DEF Affordable
<1>3. ASSUME NEW N \in SUBSET D, NEW w \in W(N), NEW pair \in K, pair.name \in D \ N
      PROVE  Put(w, pair) \in W(N \cup {pair.name})
  <2> DEFINE r == Put(w, pair)
             M == N \cup {pair.name}
  <2>1. /\ w \in Writing(K) /\ w.end = start + room
        /\ Listed(w.out, room) /\ Named(w.out) \subseteq N
        /\ w.at - start \in 0 .. room /\ Laid(w.out, w.at - start)
        /\ Affordable(s, room) => w.full = FALSE /\ N \subseteq Named(w.out) /\ w.at <= start + c[N]
    OBVIOUS
  <2>2. r \in Writing(K)
    BY <1>1, <2>1, PutTyped
  <2>3. pair \in PairSet /\ Size(pair) \in Nat
    BY <1>1, SizeNat
  <2>4. Affordable(s, room) =>
          w.full = FALSE /\ w.at + Size(pair) <= w.end /\ w.at + Size(pair) <= start + c[M]
    <3> SUFFICES ASSUME Affordable(s, room)
                 PROVE  w.full = FALSE /\ w.at + Size(pair) <= w.end /\ w.at + Size(pair) <= start + c[M]
      OBVIOUS
    <3>1. Pair(s, pair.name) = pair
      BY <2>3 DEF Pair, Pairs, PairSet
    <3>2. c[N] + Size(pair) <= c[M] /\ c[M] \in 0 .. room /\ c[N] \in 0 .. room
      <4>1. M \in SUBSET D
        BY <1>3
      <4> HIDE DEF c
      <4> QED BY <1>2, <1>3, <3>1, <4>1 DEF Pays
    <3>3. w.at \in Nat
      BY <2>1 DEF Writing
    <3> HIDE DEF c, W, M
    <3> QED BY <2>1, <2>3, <3>2, <3>3
  <2> HIDE DEF c, W
  <2>5. CASE w.full \/ w.at + Size(pair) > w.end
    <3>1. w.full \in BOOLEAN /\ w.at \in Nat /\ w.end \in Int
      BY <2>1 DEF Writing
    <3>2. ~ Affordable(s, room)
      BY <2>3, <2>4, <2>5, <3>1
    <3>3. r.at = w.at /\ r.end = w.end /\ r.out = w.out
      BY <2>1, <2>5 DEF Put, Writing
    <3> HIDE DEF r
    <3>4. r \in W(M)
      BY <2>1, <2>2, <3>2, <3>3 DEF W
    <3> QED BY <3>4 DEF r
  <2>6. CASE ~ (w.full \/ w.at + Size(pair) > w.end)
    <3>1. w.full = FALSE /\ w.at \in Nat /\ w.end \in Int /\ w.out \in Seq(PairSet)
      BY <2>1, <2>6 DEF Writing, Listed
    <3>2. /\ r.at = w.at + Size(pair) /\ r.end = w.end /\ r.out = Append(w.out, pair)
          /\ r.full = FALSE
      BY <2>1, <2>6, <3>1 DEF Put, Writing
    <3> HIDE DEF r
    <3>3. r.at - start \in 0 .. room /\ r.at - start = (w.at - start) + Size(pair)
      <4> DEFINE a == w.at
                 z == Size(pair)
      <4>1. /\ a \in Nat /\ z \in Nat /\ a - start \in 0 .. room /\ r.at = a + z
            /\ ~ (a + z > start + room)
        BY <2>1, <2>3, <2>6, <3>1, <3>2
      <4> HIDE DEF a, z
      <4>2. (a + z) - start \in 0 .. room /\ (a + z) - start = (a - start) + z
        BY <4>1
      <4> QED BY <4>1, <4>2 DEF a, z
    <3>4. Laid(r.out, r.at - start)
      <4>1. w.at - start \in Nat
        BY <2>1
      <4> QED BY <2>1, <2>3, <3>1, <3>2, <3>3, <4>1, LaidAppend
    <3> DEFINE l == Len(w.out)
    <3>5. /\ l \in Nat /\ Len(r.out) = l + 1 /\ r.out[l + 1] = pair
          /\ r.out \in Seq(PairSet) /\ \A i \in 1 .. l : r.out[i] = w.out[i]
      BY <2>3, <3>1, <3>2
    <3>6. \A i \in 1 .. l : w.out[i].name # pair.name
      BY <1>3, <2>1 DEF Named
    <3>7. ASSUME NEW i \in 1 .. l + 1, NEW j \in 1 .. l + 1, r.out[i].name = r.out[j].name
          PROVE  i = j
      <4>1. (i = l + 1 \/ i \in 1 .. l) /\ (j = l + 1 \/ j \in 1 .. l)
        BY <3>5
      <4>2. \A x, y \in 1 .. l : w.out[x].name = w.out[y].name => x = y
        BY <2>1 DEF Listed
      <4> QED BY <3>5, <3>6, <3>7, <4>1, <4>2
    <3>8. Listed(r.out, room)
      BY <3>3, <3>4, <3>5, <3>7 DEF Listed
    <3>9. Named(r.out) = Named(w.out) \cup {pair.name}
      <4>1. \A i \in 1 .. l + 1 : i = l + 1 \/ i \in 1 .. l
        BY <3>5
      <4>2. l + 1 \in 1 .. l + 1 /\ \A i \in 1 .. l : i \in 1 .. l + 1
        BY <3>5
      <4> QED BY <3>5, <4>1, <4>2 DEF Named
    <3>10. r \in W(M)
      BY <2>1, <2>2, <2>4, <3>2, <3>3, <3>4, <3>8, <3>9 DEF W
    <3> QED BY <3>10 DEF r
  <2> QED BY <2>5, <2>6
<1>4. ASSUME NEW b \in 1 .. NBuckets, NEW N \in SUBSET D, NEW w \in W(N),
             \A n \in N : BucketOf[n] # b
      PROVE  PutBucket(w, Listing(s)[b]) \in W(N \cup {n \in D : BucketOf[n] = b})
  <2> HIDE DEF W
  <2> DEFINE list == Listing(s)[b]
             m == Len(list)
             Upto(k) == N \cup {list[i].name : i \in 1 .. k}
             J == [k \in 0 .. m |-> W(Upto(k))]
             base == [w EXCEPT !.full = FALSE]
  <2>1. /\ list \in Seq(K) /\ m \in Nat /\ DOMAIN list = 1 .. m
        /\ \A i, j \in 1 .. m : list[i].name = list[j].name => i = j
        /\ \A i \in 1 .. m : list[i] \in K /\ list[i].name \in D /\ BucketOf[list[i].name] = b
        /\ \A n \in D : BucketOf[n] = b => \E i \in 1 .. m : list[i].name = n
    BY ListingNames
  <2> HIDE DEF list, m, c, K, D
  <2> USE DEF W
  <2>2. base \in W(Upto(0))
    <3>1. Upto(0) = N
      OBVIOUS
    <3>2. w \in Writing(K)
      OBVIOUS
    <3>3. base \in Writing(K) /\ base.at = w.at /\ base.end = w.end /\ base.out = w.out /\ base.full = FALSE
      BY <3>2 DEF Writing
    <3> HIDE DEF base, Upto
    <3> QED BY <3>1, <3>3
  <2>3. Upto(m) = N \cup {n \in D : BucketOf[n] = b}
    BY <2>1
  <2>4. ASSUME NEW k \in 1 .. m, NEW x \in W(Upto(k - 1)) PROVE Put(x, list[k]) \in W(Upto(k))
    <3>1. Upto(k) = Upto(k - 1) \cup {list[k].name}
      <4>1. \A i : i \in 1 .. k <=> i \in 1 .. k - 1 \/ i = k
        BY <2>1
      <4> QED BY <4>1
    <3>2. Upto(k - 1) \in SUBSET D
      <4>1. \A i \in 1 .. k - 1 : i \in 1 .. m
        BY <2>1
      <4> QED BY <2>1, <4>1
    <3>3. list[k].name \in D \ Upto(k - 1)
      <4>1. \A i \in 1 .. k - 1 : i \in 1 .. m /\ i # k
        BY <2>1
      <4> QED BY <1>4, <2>1, <4>1
    <3> HIDE DEF W, Upto
    <3> QED BY <1>3, <2>1, <3>1, <3>2, <3>3
  <2> HIDE DEF W, Upto, base
  <2>5. base \in J[0] /\ J[m] = W(Upto(m)) /\ \A k \in 1 .. m : \A x \in J[k - 1] : Put(x, list[k]) \in J[k]
    BY <2>1, <2>2, <2>4
  <2> HIDE DEF J
  <2>6. P!Fold(base, list) \in J[m]
    BY <2>1, <2>5, P!FoldThrough
  <2> QED
    BY <2>3, <2>5, <2>6, Folds DEF PutBucket, base, list
<1> DEFINE base == [at |-> start, end |-> start + room, out |-> <<>>, full |-> FALSE]
           lists == Listing(s)
           Seen(b) == {n \in D : BucketOf[n] <= b}
           J == [b \in 0 .. NBuckets |-> W(Seen(b))]
<1>5. NBuckets \in Nat /\ DOMAIN lists = 1 .. NBuckets /\ \A n \in D : BucketOf[n] \in 1 .. NBuckets
  BY <1>1, Sizes, ListingIs
<1>6. base \in W(Seen(0))
  <2>1. Seen(0) = {}
    BY <1>5
  <2>2. base \in Writing(K)
    <3>1. <<>> \in Seq(K)
      OBVIOUS
    <3> QED BY <3>1 DEF Writing
  <2>3. Listed(<<>>, room) /\ Named(<<>>) = {}
    <3>1. <<>> \in Seq(PairSet) /\ Len(<<>>) = 0 /\ 1 .. 0 = {} /\ 0 \in 0 .. room
      OBVIOUS
    <3> QED BY <3>1, LaidEmpty DEF Listed, Named
  <2>4. start - start = 0 /\ 0 \in 0 .. room
    OBVIOUS
  <2>5. Affordable(s, room) => start <= start + c[{}]
    <3> HIDE DEF c
    <3>1. Affordable(s, room) => c[{}] \in 0 .. room
      BY <1>2 DEF Pays
    <3> QED BY <3>1
  <2> HIDE DEF c, Seen
  <2> QED BY <2>1, <2>2, <2>3, <2>4, <2>5, LaidEmpty
<1>7. ASSUME NEW b \in 1 .. NBuckets, NEW w \in W(Seen(b - 1))
      PROVE  PutBucket(w, lists[b]) \in W(Seen(b))
  <2> HIDE DEF W
  <2>1. Seen(b) = Seen(b - 1) \cup {n \in D : BucketOf[n] = b}
    BY <1>5
  <2>2. Seen(b - 1) \in SUBSET D /\ \A n \in Seen(b - 1) : BucketOf[n] # b
    BY <1>5
  <2> HIDE DEF Seen
  <2> QED BY <1>4, <2>1, <2>2
<1> HIDE DEF W, Seen, base, lists
<1>8. /\ base \in J[0] /\ J[NBuckets] = W(Seen(NBuckets))
      /\ \A b \in 1 .. NBuckets : \A w \in J[b - 1] : PutBucket(w, lists[b]) \in J[b]
  BY <1>5, <1>6, <1>7
<1> HIDE DEF J
<1>9. B!Fold(base, lists) \in J[NBuckets]
  BY <1>5, <1>8, B!FoldThrough
<1>10. WriteOut(s, start, start + room) = B!Fold(base, lists).out
  BY Folds DEF WriteOut, base, lists
<1>11. Seen(NBuckets) = D
  BY <1>5 DEF Seen
<1> DEFINE w == B!Fold(base, lists)
<1>12. w \in W(D)
  BY <1>8, <1>9, <1>11
<1> HIDE DEF w
<1>13. /\ w.out \in Seq(K) /\ Listed(w.out, room)
       /\ Affordable(s, room) => Named(w.out) = D
  BY <1>12 DEF W, Writing
<1> QED BY <1>10, <1>13 DEF w

-----------------------------------------------------------------------------
(* The bytes that _nvram_commit has for strings.                           *)
Space == NVRAM_SPACE - 2 - HEADER_SIZE

LEMMA SpaceNat ==
    /\ Space \in Nat /\ HEADER_SIZE \in Nat /\ HEADER_SIZE + Space = NVRAM_SPACE - 2
    /\ NVRAM_SPACE \in Nat /\ NVRAM_SPACE - 1 \in Nat /\ Space <= NVRAM_SPACE - 1
BY SizesAssumption DEF Space

LEMMA ListedMore ==
    ASSUME NEW im, NEW x \in Nat, NEW y \in Nat, x <= y, Listed(im, x)
    PROVE  Listed(im, y)
<1>1. \A total \in 0 .. x : total \in 0 .. y
  OBVIOUS
<1> QED BY <1>1 DEF Listed

LEMMA MapOfIs ==
    ASSUME NEW s, NEW im
    PROVE  /\ \A n \in Names : MapOf(s)[n] = _nvram_get(s, n)
           /\ (\A n \in Names : _nvram_get(s, n) = ImageMap(im)[n]) => MapOf(s) = ImageMap(im)
BY DEF MapOf, ImageMap

(* A walk with room for everything writes the map of the table.            *)
LEMMA WriteOutMap ==
    ASSUME NEW s, Sound(s), NEW start \in Nat, NEW room \in Nat, Affordable(s, room)
    PROVE  ImageMap(WriteOut(s, start, start + room)) = MapOf(s)
<1> DEFINE im == WriteOut(s, start, start + room)
<1>1. im \in Seq(Pairs(s)) /\ Listed(im, room) /\ Named(im) = Defined(s)
  BY WriteOutIs
<1> HIDE DEF im
<1>2. Image(im)
  BY <1>1 DEF Listed, Image
<1>3. ASSUME NEW n \in Names PROVE _nvram_get(s, n) = ImageMap(im)[n]
  <2>1. CASE n \in Named(im)
    <3>1. PICK i \in 1 .. Len(im) : im[i].name = n
      BY <2>1 DEF Named
    <3>2. im[i].value = _nvram_get(s, n)
      BY <1>1, <3>1 DEF Pairs
    <3> QED BY <1>2, <3>1, <3>2, ImageMapIs
  <2>2. CASE n \notin Named(im)
    <3>1. _nvram_get(s, n) = Undefined
      BY <1>1, <2>2 DEF Defined
    <3>2. \A i \in 1 .. Len(im) : im[i].name # n
      BY <2>2 DEF Named
    <3> QED BY <1>2, <3>1, <3>2, ImageMapIs
  <2> QED BY <2>1, <2>2
<1> QED BY <1>3, MapOfIs DEF im

(* What a commit writes is read back whole, and written whole again from   *)
(* the reversed buckets.                                                   *)
LEMMA CommitTwice ==
    ASSUME NEW s, Sound(s)
    PROVE  LET im == CommitImage(s)
               r == _nvram_commit(s)
           IN  /\ Listed(im, Space) /\ Sound(r)
               /\ MapOf(r) = ImageMap(im)
               /\ ImageMap(CommitImage(r)) = ImageMap(im)
<1> DEFINE im == CommitImage(s)
           r == _nvram_commit(s)
<1>1. im = WriteOut(s, HEADER_SIZE, HEADER_SIZE + Space)
  BY SpaceNat DEF CommitImage
<1>2. Listed(im, Space)
  BY <1>1, SpaceNat, WriteOutIs
<1>3. Listed(im, NVRAM_SPACE)
  <2>1. Space <= NVRAM_SPACE
    BY SpaceNat
  <2> QED BY <1>2, <2>1, SpaceNat, ListedMore
<1>4. Sound(r) /\ \A n \in Names : _nvram_get(r, n) = ImageMap(im)[n]
  BY <1>3, RehashAll DEF _nvram_commit
<1> HIDE DEF im, r
<1>5. MapOf(r) = ImageMap(im)
  BY <1>4, MapOfIs
<1>6. Affordable(r, Space)
  BY <1>2, <1>4, SpaceNat, ListedAffordable
<1>7. ImageMap(CommitImage(r)) = MapOf(r)
  <2>1. CommitImage(r) = WriteOut(r, HEADER_SIZE, HEADER_SIZE + Space)
    BY SpaceNat DEF CommitImage
  <2> QED BY <1>4, <1>6, <2>1, SpaceNat, WriteOutMap
<1> QED BY <1>2, <1>4, <1>5, <1>7 DEF im, r

(* The partitions hold the same variables after every commit, also when    *)
(* not all of them fit: the first walk leaves out what does not, and the   *)
(* second finds room for all that is left.                                 *)
THEOREM PartitionsCorrect == Spec => []PartitionsAgree
<1>1. Init => PartitionsAgree
  BY DEF Init, PartitionsAgree
<1>2. StoreInv /\ PartitionsAgree /\ [Next]_vars => PartitionsAgree'
  <2> SUFFICES ASSUME StoreInv, PartitionsAgree, [Next]_vars PROVE PartitionsAgree'
    OBVIOUS
  <2>1. CASE Commit
    <3> DEFINE s == _nvram_commit(table)
    <3>1. ImageMap(CommitImage(s)) = ImageMap(CommitImage(table))
      BY CommitTwice DEF StoreInv
    <3>2. flash' = [backup |-> CommitImage(table), primary |-> CommitImage(s)]
      BY <2>1 DEF Commit
    <3> HIDE DEF s
    <3>3. flash'.backup = CommitImage(table) /\ flash'.primary = CommitImage(s)
      BY <3>2
    <3> QED BY <3>1, <3>3 DEF PartitionsAgree
  <2>2. CASE flash' = flash
    BY <2>2 DEF PartitionsAgree
  <2>3. Commit \/ flash' = flash
    BY DEF Next, vars, Set, Unset, Get, Reboot
  <2> QED BY <2>1, <2>2, <2>3
<1> QED
  BY <1>1, <1>2, StoreAlways, PTL DEF Spec

-----------------------------------------------------------------------------
(* Every choice of values for all the names fits into an image: cost[S]    *)
(* bytes are enough for the longest strings of the names in S.             *)
Fits ==
    \E cost \in [SUBSET Names -> 0 .. Space] :
      \A S \in SUBSET Names : \A n \in Names \ S : \A v \in Values :
        cost[S] + Size([name |-> n, value |-> v]) <= cost[S \cup {n}]

(* A sufficient condition: finitely many names whose strings are bounded.  *)
LEMMA BoundedFits ==
    ASSUME IsFiniteSet(Names), NEW most \in Nat,
           \A n \in Names, v \in Values : Size([name |-> n, value |-> v]) <= most,
           most * Cardinality(Names) <= Space
    PROVE  Fits
<1> DEFINE cost == [S \in SUBSET Names |-> most * Cardinality(S)]
<1>1. ASSUME NEW S \in SUBSET Names PROVE IsFiniteSet(S) /\ Cardinality(S) \in Nat /\ Cardinality(S) <= Cardinality(Names)
  BY FS_Subset, FS_CardinalityType
<1>2. ASSUME NEW S \in SUBSET Names PROVE most * Cardinality(S) \in 0 .. Space
  <2> DEFINE x == Cardinality(S)
             y == Cardinality(Names)
  <2>1. x \in Nat /\ y \in Nat /\ x <= y
    BY <1>1
  <2> HIDE DEF x, y
  <2>2. most * x \in Nat /\ most * x <= most * y /\ most * y \in Nat
    BY <2>1
  <2>3. most * y <= Space
    BY DEF y
  <2>4. most * x \in 0 .. Space
    BY <2>2, <2>3, SpaceNat
  <2> QED BY <2>4 DEF x
<1>3. cost \in [SUBSET Names -> 0 .. Space]
  BY <1>2
<1>4. ASSUME NEW S \in SUBSET Names, NEW n \in Names \ S, NEW v \in Values
      PROVE  cost[S] + Size([name |-> n, value |-> v]) <= cost[S \cup {n}]
  <2> DEFINE pair == [name |-> n, value |-> v]
             x == Cardinality(S)
  <2>1. x \in Nat /\ Cardinality(S \cup {n}) = x + 1
    BY <1>1, FS_AddElement
  <2>2. Size(pair) \in Nat /\ Size(pair) <= most
    BY SizeNat DEF PairSet
  <2>3. cost[S] = most * x /\ cost[S \cup {n}] = most * (x + 1)
    BY <2>1
  <2> HIDE DEF x, pair, cost
  <2>4. most * (x + 1) = most * x + most /\ most * x \in Nat
    BY <2>1
  <2> QED BY <2>2, <2>3, <2>4 DEF pair
<1> HIDE DEF cost
<1> QED BY <1>3, <1>4 DEF Fits

LEMMA FitsAffordable ==
    ASSUME Fits, NEW s, Sound(s), NEW room \in Nat, Space <= room
    PROVE  Affordable(s, room)
<1>1. PICK cost \in [SUBSET Names -> 0 .. Space] :
      \A S \in SUBSET Names : \A n \in Names \ S : \A v \in Values :
        cost[S] + Size([name |-> n, value |-> v]) <= cost[S \cup {n}]
  BY DEF Fits
<1> DEFINE c == [S \in SUBSET Defined(s) |-> cost[S]]
<1>2. ASSUME NEW S \in SUBSET Defined(s) PROVE S \in SUBSET Names /\ cost[S] \in 0 .. room
  <2>1. S \in SUBSET Names
    BY DEF Defined
  <2>2. cost[S] \in 0 .. Space
    BY <1>1, <2>1
  <2> QED BY <2>1, <2>2, SpaceNat
<1>3. c \in [SUBSET Defined(s) -> 0 .. room]
  BY <1>2
<1>4. ASSUME NEW S \in SUBSET Defined(s), NEW n \in Defined(s) \ S
      PROVE  c[S] + Size(Pair(s, n)) <= c[S \cup {n}]
  <2>1. n \in Names \ S /\ _nvram_get(s, n) # Undefined
    BY DEF Defined
  <2>2. _nvram_get(s, n) \in Values
    BY <2>1, GetHolds
  <2>3. cost[S] + Size(Pair(s, n)) <= cost[S \cup {n}]
    BY <1>1, <1>2, <2>1, <2>2 DEF Pair
  <2>4. c[S] = cost[S] /\ c[S \cup {n}] = cost[S \cup {n}]
    OBVIOUS
  <2> QED BY <2>3, <2>4
<1> HIDE DEF c
<1> QED BY <1>3, <1>4 DEF Affordable, Pays

(* When everything fits, a consolidation is invisible and a commit writes  *)
(* the whole map.                                                          *)
LEMMA FitsCommit ==
    ASSUME Fits, NEW s, Sound(s)
    PROVE  /\ ImageMap(CommitImage(s)) = MapOf(s)
           /\ Sound(_nvram_commit(s)) /\ MapOf(_nvram_commit(s)) = MapOf(s)
           /\ Listed(CommitImage(s), NVRAM_SPACE)
<1>1. Affordable(s, Space)
  BY SpaceNat, FitsAffordable
<1>2. CommitImage(s) = WriteOut(s, HEADER_SIZE, HEADER_SIZE + Space)
  BY SpaceNat DEF CommitImage
<1>3. ImageMap(CommitImage(s)) = MapOf(s)
  BY <1>1, <1>2, SpaceNat, WriteOutMap
<1>4. /\ Listed(CommitImage(s), Space) /\ Sound(_nvram_commit(s))
      /\ MapOf(_nvram_commit(s)) = ImageMap(CommitImage(s))
  BY CommitTwice
<1>5. Listed(CommitImage(s), NVRAM_SPACE)
  <2>1. Space <= NVRAM_SPACE
    BY SpaceNat
  <2> QED BY <1>4, <2>1, SpaceNat, ListedMore
<1> QED BY <1>3, <1>4, <1>5

(* nvram show lists every variable.                                        *)
THEOREM GetallCorrect ==
    ASSUME Fits
    PROVE  Spec => []GetallComplete
<1>1. StoreInv => GetallComplete
  <2> SUFFICES ASSUME Sound(table) PROVE GetallComplete
    BY DEF StoreInv
  <2>1. Affordable(table, NVRAM_SPACE - 1)
    BY SpaceNat, FitsAffordable
  <2>2. _nvram_getall(table, NVRAM_SPACE) = WriteOut(table, 0, 0 + (NVRAM_SPACE - 1))
    BY SpaceNat DEF _nvram_getall
  <2> QED BY <2>1, <2>2, SpaceNat, WriteOutMap DEF GetallComplete
<1> QED
  BY <1>1, StoreAlways, PTL
-----------------------------------------------------------------------------
(* The refinement.                                                         *)

LEMMA BecomeMap ==
    ASSUME NEW s, Sound(s), NEW pointers, Become(s, pointers)
    PROVE  MapOf(table') = MapOf(s)
<1>1. table' = Trim(s, pointers)
  BY DEF Become, Trim
<1> QED BY <1>1, TrimGet DEF MapOf

(* nvram_set gives n the value, or is without effect.                      *)
LEMMA SetMap ==
    ASSUME Fits, StoreInv, NEW n \in Names, NEW v \in Values, Set(n, v)
    PROVE  MapOf(table') \in {MapOf(table), [MapOf(table) EXCEPT ![n] = v]}
<1>1. ASSUME NEW s, Sound(s), Room(s, v)
      PROVE  Sound(_nvram_set(s, n, v)) /\ MapOf(_nvram_set(s, n, v)) = [MapOf(s) EXCEPT ![n] = v]
  <2>1. Sound(_nvram_set(s, n, v))
    BY <1>1, SetTuples
  <2>2. \A m \in Names : _nvram_get(_nvram_set(s, n, v), m) = IF m = n THEN v ELSE _nvram_get(s, m)
    BY <1>1, SetGet
  <2> QED BY <2>1, <2>2 DEF MapOf
<1>2. Sound(table)
  BY DEF StoreInv
<1>3. CASE Room(table, v) /\ Become(_nvram_set(table, n, v), ptr)
  BY <1>1, <1>2, <1>3, BecomeMap
<1>4. CASE Become(IF Room(_nvram_commit(table), v) THEN _nvram_set(_nvram_commit(table), n, v)
                  ELSE _nvram_commit(table), Moved)
  <2> DEFINE s == _nvram_commit(table)
  <2>1. Sound(s) /\ MapOf(s) = MapOf(table)
    BY <1>2, FitsCommit
  <2> HIDE DEF s
  <2>2. CASE Room(s, v)
    <3>1. Become(_nvram_set(s, n, v), Moved)
      BY <1>4, <2>2 DEF s
    <3> QED BY <1>1, <2>1, <2>2, <3>1, BecomeMap
  <2>3. CASE ~ Room(s, v)
    <3>1. Become(s, Moved)
      BY <1>4, <2>3 DEF s
    <3> QED BY <2>1, <3>1, BecomeMap
  <2> QED BY <2>2, <2>3
<1>5. CASE UNCHANGED vars
  BY <1>5 DEF vars
<1> QED
  BY <1>3, <1>4, <1>5 DEF Set

(* What is in flash fits into nvram_buf.                                   *)
BackupInv == Listed(flash.backup, NVRAM_SPACE)

LEMMA BackupAlways == Spec => []BackupInv
<1>1. Init => BackupInv
  <2>1. <<>> \in Seq(PairSet) /\ Len(<<>>) = 0 /\ 1 .. 0 = {} /\ 0 \in 0 .. NVRAM_SPACE
    BY SpaceNat
  <2>2. Listed(<<>>, NVRAM_SPACE)
    BY <2>1, LaidEmpty DEF Listed
  <2> QED BY <2>2 DEF Init, BackupInv
<1>2. StoreInv /\ BackupInv /\ [Next]_vars => BackupInv'
  <2> SUFFICES ASSUME StoreInv, BackupInv, [Next]_vars PROVE BackupInv'
    OBVIOUS
  <2>1. CASE Commit
    <3>1. Listed(CommitImage(table), Space) /\ Space <= NVRAM_SPACE
      BY CommitTwice, SpaceNat DEF StoreInv
    <3>2. Listed(CommitImage(table), NVRAM_SPACE)
      BY <3>1, SpaceNat, ListedMore
    <3>3. flash'.backup = CommitImage(table)
      BY <2>1 DEF Commit
    <3> QED BY <3>2, <3>3 DEF BackupInv
  <2>2. CASE flash' = flash
    BY <2>2 DEF BackupInv
  <2>3. Commit \/ flash' = flash
    BY DEF Next, vars, Set, Unset, Get, Reboot
  <2> QED BY <2>1, <2>2, <2>3
<1> QED
  BY <1>1, <1>2, StoreAlways, PTL DEF Spec

(* Every step of the table is a step of the map, or leaves it alone.       *)
LEMMA MapStep ==
    ASSUME Fits, StoreInv, BackupInv, [Next]_vars
    PROVE  [Map!Next]_(Map!vars)
<1> DEFINE map == MapOf(table)
           saved == ImageMap(flash.backup)
<1>1. ASSUME NEW n \in Names, Unset(n) PROVE Map!Unset(n)
  <2>1. \A m \in Names : _nvram_get(table', m) = IF m = n THEN Undefined ELSE _nvram_get(table, m)
    BY <1>1, UnsetStep
  <2>2. MapOf(table') = [MapOf(table) EXCEPT ![n] = Undefined]
    BY <2>1 DEF MapOf
  <2>3. flash' = flash
    BY <1>1 DEF Unset
  <2> QED BY <2>2, <2>3 DEF Map!Unset
<1>2. ASSUME NEW n \in Names, NEW v \in Values, Set(n, v) PROVE Map!Set(n, v) \/ UNCHANGED Map!vars
  <2>1. MapOf(table') \in {MapOf(table), [MapOf(table) EXCEPT ![n] = v]}
    BY <1>2, SetMap
  <2>2. flash' = flash
    BY <1>2 DEF Set, vars
  <2> QED BY <2>1, <2>2 DEF Map!Set, Map!vars
<1>3. ASSUME NEW p \in Procs, NEW n \in Names, Get(p, n) PROVE UNCHANGED Map!vars
  <2>1. \A m \in Names : _nvram_get(table', m) = _nvram_get(table, m)
    BY <1>3, GetStep
  <2>2. MapOf(table') = MapOf(table)
    BY <2>1 DEF MapOf
  <2>3. flash' = flash
    BY <1>3 DEF Get
  <2> QED BY <2>2, <2>3 DEF Map!vars
<1>4. CASE Commit
  <2> DEFINE s == _nvram_commit(table)
  <2>1. /\ ImageMap(CommitImage(table)) = MapOf(table)
        /\ Sound(s) /\ MapOf(s) = MapOf(table)
    BY FitsCommit DEF StoreInv
  <2>2. Sound(_nvram_commit(s)) /\ MapOf(_nvram_commit(s)) = MapOf(s)
    BY <2>1, FitsCommit
  <2>3. flash'.backup = CommitImage(table) /\ Become(_nvram_commit(s), Moved)
    BY <1>4 DEF Commit
  <2> HIDE DEF s
  <2>4. MapOf(table') = MapOf(table)
    BY <2>1, <2>2, <2>3, BecomeMap
  <2>5. ImageMap(flash'.backup) = MapOf(table)
    BY <2>1, <2>3
  <2> QED BY <2>4, <2>5 DEF Map!Commit, Map!Next
<1>5. CASE Reboot
  <2> DEFINE s == nvram_rehash(flash.backup)
  <2>1. Sound(s) /\ \A n \in Names : _nvram_get(s, n) = ImageMap(flash.backup)[n]
    BY RehashAll DEF BackupInv
  <2>2. Become(s, Moved) /\ flash' = flash
    BY <1>5 DEF Reboot
  <2> HIDE DEF s
  <2>3. MapOf(table') = ImageMap(flash.backup)
    BY <2>1, <2>2, BecomeMap, MapOfIs
  <2> QED BY <2>2, <2>3 DEF Map!Reboot, Map!Next
<1>6. CASE UNCHANGED vars
  BY <1>6 DEF vars, Map!vars
<1> QED
  BY <1>1, <1>2, <1>3, <1>4, <1>5, <1>6 DEF Next, Map!Next

(* When everything fits, the table is a map to its users: consolidations   *)
(* are invisible, a set that fails changes nothing, and a reboot brings    *)
(* back what the last commit saw.                                          *)
THEOREM MapCorrect ==
    ASSUME Fits
    PROVE  Spec => MapSpec
<1>1. Init => Map!Init
  <2> SUFFICES ASSUME Init PROVE Map!Init
    OBVIOUS
  <2>1. MapOf(table) = [n \in Names |-> Undefined]
    BY EmptySound DEF Init, MapOf
  <2>2. ImageMap(flash.backup) = MapOf(table)
    <3>1. Image(<<>>) /\ Len(<<>>) = 0 /\ 1 .. 0 = {}
      BY DEF Image
    <3>2. \A n \in Names : ImageMap(<<>>)[n] = Undefined
      BY <3>1, ImageMapIs
    <3>3. ImageMap(<<>>) = [n \in Names |-> Undefined]
      BY <3>2 DEF ImageMap
    <3> QED BY <2>1, <3>3 DEF Init
  <2> QED BY <2>1, <2>2 DEF Map!Init
<1>2. StoreInv /\ BackupInv /\ [Next]_vars => [Map!Next]_(Map!vars)
  BY MapStep
<1> QED
  BY <1>1, <1>2, StoreAlways, BackupAlways, PTL DEF Spec, MapSpec, Map!Spec

(* When everything fits, nvram_unset and nvram_set leave their variable    *)
(* gone, and with the new value or the one it had.                         *)
THEOREM StepsCorrect ==
    ASSUME Fits
    PROVE  Spec => StepsExact
<1> DEFINE Exact == \A n \in Names :
         LET is == _nvram_get(table', n)
         IN  /\ is # Undefined => ~Unset(n)
             /\ \A v \in Values : is \notin {v, _nvram_get(table, n)} => ~Set(n, v)
<1>1. StoreInv => [Exact]_vars
  <2> SUFFICES ASSUME StoreInv, NEW n \in Names
               PROVE  /\ _nvram_get(table', n) # Undefined => ~Unset(n)
                      /\ \A v \in Values :
                           _nvram_get(table', n) \notin {v, _nvram_get(table, n)} => ~Set(n, v)
    OBVIOUS
  <2>1. Unset(n) => _nvram_get(table', n) = Undefined
    BY UnsetStep
  <2>2. ASSUME NEW v \in Values, Set(n, v)
        PROVE  _nvram_get(table', n) \in {v, _nvram_get(table, n)}
    BY <2>2, SetMap DEF MapOf
  <2> QED BY <2>1, <2>2
<1> QED
  BY <1>1, StoreAlways, PTL DEF StepsExact
=============================================================================
