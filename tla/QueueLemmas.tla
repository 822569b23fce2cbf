----------------------------- MODULE QueueLemmas -----------------------------
(***************************************************************************)
(* Families of queues: one sequence per link of the NoC, or per PE.  What  *)
(* an append and a removal do to the set of the items they hold, each with *)
(* the queue it is in, and to the order of two items of one queue.         *)
(***************************************************************************)
EXTENDS Naturals, Sequences, FiniteSetTheorems, TLAPS

Items(q) == UNION {{<<l, q[l][i]>> : i \in DOMAIN q[l]} : l \in DOMAIN q}

\* No two positions hold items of the same key.
Once(q, key) ==
    \A l, m \in DOMAIN q : \A i \in DOMAIN q[l], j \in DOMAIN q[m] :
        key[q[l][i]] = key[q[m][j]] => l = m /\ i = j

\* An item a of a queue that leaves before an item b.
Before(s, a, b) == \E i, j \in DOMAIN s : i < j /\ s[i] = a /\ s[j] = b

Contents(s) == {s[i] : i \in DOMAIN s}

Put(q, l, m) == [q EXCEPT ![l] = Append(@, m)]
Drop(q, l) == [q EXCEPT ![l] = Tail(@)]

-----------------------------------------------------------------------------
\* What an item of a family is.
LEMMA ItemAt ==
    ASSUME NEW I, NEW P, NEW q \in [I -> Seq(P)], NEW x \in Items(q)
    PROVE  /\ x[1] \in I /\ x[2] \in P /\ x = <<x[1], x[2]>>
           /\ \E i \in DOMAIN q[x[1]] : q[x[1]][i] = x[2]
<1>1. PICK l \in I : \E i \in DOMAIN q[l] : x = <<l, q[l][i]>>
  BY DEF Items
<1>2. PICK i \in DOMAIN q[l] : x = <<l, q[l][i]>>
  BY <1>1
<1>3. q[l] \in Seq(P)
  OBVIOUS
<1>4. q[l][i] \in P
  BY <1>3
<1>5. QED BY <1>2, <1>4

\* A position of a queue holds an item.
LEMMA ItemOf ==
    ASSUME NEW I, NEW P, NEW q \in [I -> Seq(P)], NEW l \in I, NEW i \in DOMAIN q[l]
    PROVE  <<l, q[l][i]>> \in Items(q) /\ q[l][i] \in P
<1>1. q[l] \in Seq(P)
  OBVIOUS
<1>2. q[l][i] \in P
  BY <1>1
<1>3. QED BY <1>2 DEF Items

\* An item with a new key joins a queue.
LEMMA PutItem ==
    ASSUME NEW I, NEW P, NEW q \in [I -> Seq(P)], NEW l \in I, NEW m \in P,
           NEW key, Once(q, key), \A x \in Items(q) : key[x[2]] # key[m]
    PROVE  /\ Put(q, l, m) \in [I -> Seq(P)]
           /\ Items(Put(q, l, m)) = Items(q) \cup {<<l, m>>}
           /\ Once(Put(q, l, m), key)
<1> DEFINE r == Put(q, l, m)
<1>1. /\ r \in [I -> Seq(P)] /\ DOMAIN r = I /\ DOMAIN q = I
      /\ \A k \in I : k # l => r[k] = q[k]
      /\ r[l] = Append(q[l], m) /\ q[l] \in Seq(P)
  BY DEF Put
<1> HIDE DEF r
<1>2. /\ DOMAIN r[l] = DOMAIN q[l] \cup {Len(q[l]) + 1}
      /\ Len(q[l]) + 1 \notin DOMAIN q[l]
      /\ r[l][Len(q[l]) + 1] = m
      /\ \A i \in DOMAIN q[l] : r[l][i] = q[l][i]
  BY <1>1
<1>3. ASSUME NEW k \in I, NEW i \in DOMAIN r[k]
      PROVE  \/ k = l /\ i = Len(q[l]) + 1 /\ r[k][i] = m
             \/ i \in DOMAIN q[k] /\ r[k][i] = q[k][i]
  BY <1>1, <1>2
<1>4. ASSUME NEW k \in I, NEW i \in DOMAIN q[k]
      PROVE  i \in DOMAIN r[k] /\ r[k][i] = q[k][i]
  BY <1>1, <1>2
<1>5. Items(r) = Items(q) \cup {<<l, m>>}
  <2>1. ASSUME NEW x \in Items(r) PROVE x \in Items(q) \cup {<<l, m>>}
    <3>1. PICK i \in DOMAIN r[x[1]] : x[1] \in I /\ x = <<x[1], r[x[1]][i]>>
      BY <1>1, ItemAt
    <3>2. QED BY <1>1, <1>3, <3>1 DEF Items
  <2>2. ASSUME NEW x \in Items(q) PROVE x \in Items(r)
    <3>1. PICK i \in DOMAIN q[x[1]] : x[1] \in I /\ x = <<x[1], q[x[1]][i]>>
      BY ItemAt
    <3>2. QED BY <1>1, <1>4, <3>1 DEF Items
  <2>3. <<l, m>> \in Items(r)
    BY <1>1, <1>2 DEF Items
  <2>4. QED BY <2>1, <2>2, <2>3
<1>6. ASSUME NEW k \in I, NEW i \in DOMAIN q[k] PROVE key[q[k][i]] # key[m]
  <2>1. <<k, q[k][i]>> \in Items(q)
    BY ItemOf
  <2>2. QED BY <2>1
<1>7. Once(r, key)
  <2>1. SUFFICES ASSUME NEW k \in I, NEW h \in I, NEW i \in DOMAIN r[k], NEW j \in DOMAIN r[h],
                        key[r[k][i]] = key[r[h][j]]
                 PROVE  k = h /\ i = j
    BY <1>1 DEF Once
  <2>2. CASE k = l /\ i = Len(q[l]) + 1
    BY <1>2, <1>3, <1>6, <2>1, <2>2
  <2>3. CASE h = l /\ j = Len(q[l]) + 1
    BY <1>2, <1>3, <1>6, <2>1, <2>3
  <2>4. CASE ~(k = l /\ i = Len(q[l]) + 1) /\ ~(h = l /\ j = Len(q[l]) + 1)
    <3>1. /\ i \in DOMAIN q[k] /\ r[k][i] = q[k][i]
          /\ j \in DOMAIN q[h] /\ r[h][j] = q[h][j]
      BY <1>3, <2>4
    <3>2. QED BY <1>1, <2>1, <3>1 DEF Once
  <2>5. QED BY <2>2, <2>3, <2>4
<1>8. QED BY <1>1, <1>5, <1>7 DEF r

\* The first item of a queue leaves it.
LEMMA DropItem ==
    ASSUME NEW I, NEW P, NEW q \in [I -> Seq(P)], NEW l \in I, q[l] # <<>>,
           NEW key, Once(q, key)
    PROVE  /\ Head(q[l]) \in P /\ <<l, Head(q[l])>> \in Items(q)
           /\ Drop(q, l) \in [I -> Seq(P)]
           /\ Items(Drop(q, l)) = Items(q) \ {<<l, Head(q[l])>>}
           /\ Once(Drop(q, l), key)
<1> DEFINE r == Drop(q, l)
           m == Head(q[l])
<1>1. /\ r \in [I -> Seq(P)] /\ DOMAIN r = I /\ DOMAIN q = I
      /\ \A k \in I : k # l => r[k] = q[k]
      /\ r[l] = Tail(q[l]) /\ q[l] \in Seq(P)
  BY DEF Drop
<1> HIDE DEF r
<1>2. /\ 1 \in DOMAIN q[l] /\ m = q[l][1] /\ m \in P
      /\ \A i \in DOMAIN r[l] : i \in Nat /\ i # 0 /\ i + 1 \in DOMAIN q[l] /\ r[l][i] = q[l][i + 1]
      /\ \A i \in DOMAIN q[l] : i = 1 \/ (i - 1 \in DOMAIN r[l] /\ r[l][i - 1] = q[l][i])
  BY <1>1
<1>3. <<l, m>> \in Items(q)
  BY <1>2, ItemOf
<1> HIDE DEF m
<1>4. ASSUME NEW x \in Items(r) PROVE x \in Items(q) /\ x # <<l, m>>
  <2>1. PICK i \in DOMAIN r[x[1]] : x[1] \in I /\ x = <<x[1], r[x[1]][i]>>
    BY <1>1, ItemAt, SMTT(30)
  <2>2. CASE x[1] = l
    <3>1. i + 1 \in DOMAIN q[l] /\ i + 1 # 1 /\ x = <<l, q[l][i + 1]>>
      BY <1>2, <2>1, <2>2
    <3>2. q[l][i + 1] # m
      BY <1>1, <1>2, <3>1 DEF Once
    <3>3. QED BY <1>1, <3>1, <3>2 DEF Items
  <2>3. CASE x[1] # l
    BY <1>1, <2>1, <2>3 DEF Items
  <2>4. QED BY <2>2, <2>3
<1>5. ASSUME NEW x \in Items(q), x # <<l, m>> PROVE x \in Items(r)
  <2>1. PICK i \in DOMAIN q[x[1]] : x[1] \in I /\ x = <<x[1], q[x[1]][i]>>
    BY ItemAt
  <2>2. CASE x[1] = l
    <3>1. i - 1 \in DOMAIN r[l] /\ r[l][i - 1] = q[l][i]
      BY <1>2, <1>5, <2>1, <2>2
    <3>2. x = <<l, r[l][i - 1]>>
      BY <2>1, <2>2, <3>1
    <3>3. QED BY <1>1, <3>1, <3>2 DEF Items
  <2>3. CASE x[1] # l
    BY <1>1, <2>1, <2>3 DEF Items
  <2>4. QED BY <2>2, <2>3
<1>6. Once(r, key)
  <2>1. SUFFICES ASSUME NEW k \in I, NEW h \in I, NEW i \in DOMAIN r[k], NEW j \in DOMAIN r[h],
                        key[r[k][i]] = key[r[h][j]]
                 PROVE  k = h /\ i = j
    BY <1>1 DEF Once
  <2>2. CASE k = l /\ h = l
    BY <1>1, <1>2, <2>1, <2>2 DEF Once
  <2>3. CASE k = l /\ h # l
    BY <1>1, <1>2, <2>1, <2>3 DEF Once
  <2>4. CASE k # l /\ h = l
    BY <1>1, <1>2, <2>1, <2>4 DEF Once
  <2>5. CASE k # l /\ h # l
    BY <1>1, <2>1, <2>5 DEF Once
  <2>6. QED BY <2>2, <2>3, <2>4, <2>5
<1>7. Items(r) = Items(q) \ {<<l, m>>}
  BY <1>4, <1>5
<1>8. QED BY <1>1, <1>2, <1>3, <1>6, <1>7 DEF r, m

\* Two items of one key are the same one.
LEMMA SameItem ==
    ASSUME NEW I, NEW P, NEW q \in [I -> Seq(P)], NEW key, Once(q, key),
           NEW x \in Items(q), NEW y \in Items(q), key[x[2]] = key[y[2]]
    PROVE  x = y
<1>1. PICK i \in DOMAIN q[x[1]] : x[1] \in I /\ x = <<x[1], q[x[1]][i]>>
  BY ItemAt
<1>2. PICK j \in DOMAIN q[y[1]] : y[1] \in I /\ y = <<y[1], q[y[1]][j]>>
  BY ItemAt
<1>3. x[1] = y[1] /\ i = j
  BY <1>1, <1>2 DEF Once
<1>4. QED BY <1>1, <1>2, <1>3

-----------------------------------------------------------------------------
\* The order of two items is kept when another one joins the queue.
LEMMA PutBefore ==
    ASSUME NEW I, NEW P, NEW q \in [I -> Seq(P)], NEW l \in I, NEW m \in P, NEW k \in I,
           NEW a, NEW b, Before(q[k], a, b)
    PROVE  Before(Put(q, l, m)[k], a, b)
<1>1. CASE k = l
  <2>1. q[l] \in Seq(P) /\ Put(q, l, m)[k] = Append(q[l], m)
    BY <1>1 DEF Put
  <2>2. \A i \in DOMAIN q[l] : i \in DOMAIN Append(q[l], m) /\ Append(q[l], m)[i] = q[l][i]
    BY <2>1
  <2>3. QED BY <1>1, <2>1, <2>2 DEF Before
<1>2. CASE k # l
  BY <1>2 DEF Put
<1>3. QED BY <1>1, <1>2

\* The item that joins a queue leaves after the ones that are there.
LEMMA PutAfter ==
    ASSUME NEW I, NEW P, NEW q \in [I -> Seq(P)], NEW l \in I, NEW m \in P,
           NEW a, <<l, a>> \in Items(q)
    PROVE  Before(Put(q, l, m)[l], a, m)
<1>1. PICK i \in DOMAIN q[l] : q[l][i] = a
  BY ItemAt
<1>2. q[l] \in Seq(P) /\ Put(q, l, m)[l] = Append(q[l], m)
  BY DEF Put
<1>3. /\ i \in DOMAIN Append(q[l], m) /\ Append(q[l], m)[i] = a
      /\ Len(q[l]) + 1 \in DOMAIN Append(q[l], m) /\ Append(q[l], m)[Len(q[l]) + 1] = m
      /\ i < Len(q[l]) + 1
  BY <1>1, <1>2
<1>4. QED BY <1>2, <1>3 DEF Before

\* It is kept when an item leaves that is not the earlier one.
LEMMA DropBefore ==
    ASSUME NEW I, NEW P, NEW q \in [I -> Seq(P)], NEW l \in I, q[l] # <<>>, NEW k \in I,
           NEW a, NEW b, Before(q[k], a, b), k = l => Head(q[l]) # a
    PROVE  Before(Drop(q, l)[k], a, b)
<1>1. CASE k = l
  <2>1. q[l] \in Seq(P) /\ Drop(q, l)[k] = Tail(q[l]) /\ Head(q[l]) = q[l][1]
    BY <1>1 DEF Drop
  <2>2. PICK i \in DOMAIN q[l], j \in DOMAIN q[l] : i < j /\ q[l][i] = a /\ q[l][j] = b
    BY <1>1 DEF Before
  <2>3. i # 1 /\ j # 1
    BY <1>1, <2>1, <2>2
  <2>4. \A n \in DOMAIN q[l] : n # 1 => n - 1 \in DOMAIN Tail(q[l]) /\ Tail(q[l])[n - 1] = q[l][n]
    BY <2>1
  <2>5. i - 1 < j - 1
    BY <2>1, <2>2
  <2>6. QED BY <2>1, <2>2, <2>3, <2>4, <2>5 DEF Before
<1>2. CASE k # l
  BY <1>2 DEF Drop
<1>3. QED BY <1>1, <1>2

\* Neither is the first item the later one of two.
LEMMA HeadNotLater ==
    ASSUME NEW I, NEW P, NEW q \in [I -> Seq(P)], NEW l \in I, q[l] # <<>>,
           NEW key, Once(q, key), NEW a, NEW b, Before(q[l], a, b)
    PROVE  Head(q[l]) # b
<1>1. q[l] \in Seq(P) /\ 1 \in DOMAIN q[l] /\ Head(q[l]) = q[l][1]
  OBVIOUS
<1>2. PICK i \in DOMAIN q[l], j \in DOMAIN q[l] : i < j /\ q[l][i] = a /\ q[l][j] = b
  BY DEF Before
<1>3. j # 1
  BY <1>1, <1>2
<1>4. QED BY <1>1, <1>2, <1>3 DEF Once

-----------------------------------------------------------------------------
\* What one queue holds, and in which order, with others behind it.
LEMMA Concatenated ==
    ASSUME NEW P, NEW s \in Seq(P), NEW p \in Seq(P), NEW a, NEW b
    PROVE  /\ s \o p \in Seq(P)
           /\ Contents(s \o p) = Contents(s) \cup Contents(p)
           /\ Before(s \o p, a, b) <=>
                  \/ Before(s, a, b) \/ Before(p, a, b)
                  \/ a \in Contents(s) /\ b \in Contents(p)
<1> DEFINE r == s \o p
<1>1. /\ r \in Seq(P) /\ Len(s) \in Nat /\ Len(p) \in Nat
      /\ DOMAIN s = 1..Len(s) /\ DOMAIN p = 1..Len(p) /\ DOMAIN r = 1..(Len(s) + Len(p))
      /\ \A i \in 1..Len(s) : r[i] = s[i]
      /\ \A i \in 1..Len(p) : r[Len(s) + i] = p[i]
  OBVIOUS
<1> HIDE DEF r
<1>2. \A i \in DOMAIN r : i \in DOMAIN s \/ \E k \in DOMAIN p : i = Len(s) + k
  <2> SUFFICES ASSUME NEW i \in DOMAIN r, i \notin DOMAIN s
               PROVE  \E k \in DOMAIN p : i = Len(s) + k
    OBVIOUS
  <2>1. i - Len(s) \in DOMAIN p /\ i = Len(s) + (i - Len(s))
    BY <1>1
  <2>2. QED BY <2>1
<1>3. \A i \in DOMAIN s : i \in DOMAIN r /\ r[i] = s[i]
  BY <1>1
<1>4. \A i \in DOMAIN p : Len(s) + i \in DOMAIN r /\ r[Len(s) + i] = p[i]
  BY <1>1
<1>5. Contents(r) = Contents(s) \cup Contents(p)
  BY <1>2, <1>3, <1>4 DEF Contents
<1>6. ASSUME Before(r, a, b)
      PROVE  Before(s, a, b) \/ Before(p, a, b) \/ (a \in Contents(s) /\ b \in Contents(p))
  <2>1. PICK i, k \in DOMAIN r : i < k /\ r[i] = a /\ r[k] = b
    BY <1>6 DEF Before
  <2>2. CASE i \in DOMAIN s /\ k \in DOMAIN s
    <3>1. s[i] = a /\ s[k] = b
      BY <1>3, <2>1, <2>2
    <3>2. Before(s, a, b)
      BY <2>1, <2>2, <3>1 DEF Before
    <3>3. QED BY <3>2
  <2>3. CASE i \in DOMAIN s /\ k \notin DOMAIN s
    BY <1>2, <1>3, <1>4, <2>1, <2>3 DEF Contents
  <2>4. CASE i \notin DOMAIN s
    <3>1. PICK m \in DOMAIN p : i = Len(s) + m
      BY <1>2, <2>4
    <3>2. k \notin DOMAIN s
      BY <1>1, <2>1, <2>4
    <3>3. PICK n \in DOMAIN p : k = Len(s) + n
      BY <1>2, <3>2
    <3>4. m < n /\ p[m] = a /\ p[n] = b
      BY <1>1, <1>4, <2>1, <3>1, <3>3
    <3>5. Before(p, a, b)
      BY <3>4 DEF Before
    <3>6. QED BY <3>5
  <2>5. QED BY <2>2, <2>3, <2>4
<1>7. Before(s, a, b) => Before(r, a, b)
  BY <1>3 DEF Before
<1>8. ASSUME Before(p, a, b) PROVE Before(r, a, b)
  <2>1. PICK m, n \in DOMAIN p : m < n /\ p[m] = a /\ p[n] = b
    BY <1>8 DEF Before
  <2>2. Len(s) + m < Len(s) + n
    BY <1>1, <2>1
  <2>3. QED BY <1>4, <2>1, <2>2 DEF Before
<1>9. ASSUME a \in Contents(s), b \in Contents(p) PROVE Before(r, a, b)
  <2>1. PICK m \in DOMAIN s, n \in DOMAIN p : s[m] = a /\ p[n] = b
    BY <1>9 DEF Contents
  <2>2. m < Len(s) + n
    BY <1>1
  <2>3. QED BY <1>3, <1>4, <2>1, <2>2 DEF Before
<1>10. QED BY <1>1, <1>5, <1>6, <1>7, <1>8, <1>9 DEF r

\* And without its first item.
LEMMA WithoutHead ==
    ASSUME NEW P, NEW s \in Seq(P), s # <<>>, NEW a, NEW b
    PROVE  /\ Tail(s) \in Seq(P) /\ Head(s) \in P
           /\ Contents(s) = Contents(Tail(s)) \cup {Head(s)}
           /\ Before(Tail(s), a, b) => Before(s, a, b)
           /\ Before(s, a, b) /\ a # Head(s) => Before(Tail(s), a, b)
           /\ a \in Contents(Tail(s)) => Before(s, Head(s), a)
           /\ Before(s, a, Head(s)) => Before(s, Head(s), Head(s))
<1> DEFINE r == Tail(s)
<1>1. /\ r \in Seq(P) /\ Len(s) \in Nat \ {0} /\ Head(s) \in P /\ Head(s) = s[1] /\ 1 \in DOMAIN s
      /\ DOMAIN s = 1..Len(s) /\ DOMAIN r = 1..(Len(s) - 1)
      /\ \A i \in 1..(Len(s) - 1) : r[i] = s[i + 1]
  OBVIOUS
<1> HIDE DEF r
<1>2. \A i \in DOMAIN s : i # 1 => i - 1 \in DOMAIN r /\ r[i - 1] = s[i]
  <2> SUFFICES ASSUME NEW i \in DOMAIN s, i # 1 PROVE i - 1 \in DOMAIN r /\ r[i - 1] = s[i]
    OBVIOUS
  <2>1. i - 1 \in DOMAIN r /\ (i - 1) + 1 = i
    BY <1>1
  <2>2. QED BY <1>1, <2>1
<1>3. \A i \in DOMAIN r : i + 1 \in DOMAIN s /\ r[i] = s[i + 1] /\ 1 < i + 1
  BY <1>1
<1>4. Contents(s) = Contents(r) \cup {s[1]}
  <2>1. Contents(s) \subseteq Contents(r) \cup {s[1]}
    BY <1>2 DEF Contents
  <2>2. Contents(r) \subseteq Contents(s)
    BY <1>3 DEF Contents
  <2>3. QED BY <1>1, <2>1, <2>2 DEF Contents
<1>5. ASSUME Before(r, a, b) PROVE Before(s, a, b)
  <2>1. PICK i, k \in DOMAIN r : i < k /\ r[i] = a /\ r[k] = b
    BY <1>5 DEF Before
  <2>2. i + 1 < k + 1
    BY <1>1, <2>1
  <2>3. QED BY <1>3, <2>1, <2>2 DEF Before
<1>6. ASSUME Before(s, a, b), a # s[1] PROVE Before(r, a, b)
  <2>1. PICK i, k \in DOMAIN s : i < k /\ s[i] = a /\ s[k] = b
    BY <1>6 DEF Before
  <2>2. i # 1 /\ k # 1 /\ i - 1 < k - 1
    BY <1>1, <1>6, <2>1
  <2>3. QED BY <1>2, <2>1, <2>2 DEF Before
<1>7. ASSUME a \in Contents(r) PROVE Before(s, s[1], a)
  BY <1>1, <1>3, <1>7 DEF Contents, Before
<1>8. ASSUME Before(s, a, s[1]) PROVE Before(s, s[1], s[1])
  <2>1. PICK i, k \in DOMAIN s : i < k /\ s[k] = s[1]
    BY <1>8 DEF Before
  <2>2. 1 < k
    BY <1>1, <2>1
  <2>3. QED BY <1>1, <2>1, <2>2 DEF Before
<1>9. QED BY <1>1, <1>4, <1>5, <1>6, <1>7, <1>8 DEF r

-----------------------------------------------------------------------------
\* Pigeonhole: N places cannot hold N distinct members of a set that has at most
\* N members and one that is in no place.
LEMMA NoRoomLeft ==
    ASSUME NEW S, IsFiniteSet(S), NEW N \in Nat, Cardinality(S) <= N,
           NEW f \in [1..N -> S], NEW e \in S, \A i \in 1..N : f[i] # e
    PROVE  \E i, j \in 1..N : i # j /\ f[i] = f[j]
<1> DEFINE T == S \ {e}
<1>1. IsFiniteSet(T) /\ Cardinality(T) = Cardinality(S) - 1
  BY FS_RemoveElement
<1>2. IsFiniteSet(1..N) /\ Cardinality(1..N) = N
  BY FS_Interval
<1>3. Cardinality(T) < Cardinality(1..N)
  BY <1>1, <1>2, FS_CardinalityType
<1>4. f \in [1..N -> T]
  OBVIOUS
<1> HIDE DEF T
<1>5. QED BY <1>1, <1>2, <1>3, <1>4, FS_PigeonHole

=============================================================================
