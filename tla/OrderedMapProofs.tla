-------------------------- MODULE OrderedMapProofs --------------------------
(***************************************************************************)
(* OrderedMap, for every size of table, every set of keys, every hash and  *)
(* every sequence of calls: the table describes the entries, probes find   *)
(* what is there and end, and the answers are those of a map that scans.   *)
(*                                                                         *)
(* The argument is the order robin hood hashing keeps: going round the     *)
(* table, an entry is at most one bucket further from its home than the    *)
(* one before it, and at home if the bucket before is empty (InOrder).     *)
(* From it a probe may stop at the first entry nearer its home than the    *)
(* probe is to its own; place and erase keep it, place by carrying on with *)
(* the entry it moved, erase by moving the run behind the hole one back.   *)
(* Along with it no position is stored twice (Single), and what the table  *)
(* stores (Content) is the bucket of each entry (Wanted).                  *)
(***************************************************************************)
EXTENDS OrderedMap, Induction, SequenceTheorems

-----------------------------------------------------------------------------
(* Going round a table of n buckets.                                       *)

\* Division with a remainder.
LEMMA Euclid ==
  ASSUME NEW x \in Int, NEW n \in Nat \ {0}
  PROVE  x % n \in 0 .. n - 1 /\ \E q \in Int : x = n * q + (x % n)
<1>1. x % n \in 0 .. n - 1
  OBVIOUS
<1>2. \E q \in Int : x = n * q + (x % n)
  <2>1. n \in Int /\ n > 0
    OBVIOUS
  <2> QED BY <2>1, Z3
<1> QED BY <1>1, <1>2

\* The remainder is all that is left of a division.
LEMMA Remainder ==
  ASSUME NEW x \in Int, NEW n \in Nat \ {0}, NEW q \in Int, NEW r \in 0 .. n - 1, x = n * q + r
  PROVE  x % n = r
OBVIOUS

\* Numbers a whole number of rounds apart end in the same bucket.
LEMMA SameBucket ==
  ASSUME NEW x \in Int, NEW n \in Nat \ {0}, NEW q \in Int, NEW y \in Int, y = x + n * q
  PROVE  y % n = x % n
<1>1. PICK p \in Int : x = n * p + (x % n)
  BY Euclid
<1> DEFINE r == x % n
<1>2. r \in 0 .. n - 1
  BY Euclid
<1>3. x = n * p + r
  BY <1>1
<1> HIDE DEF r
<1>4. n * p \in Int /\ n * q \in Int /\ n * (p + q) = n * p + n * q
  OBVIOUS
<1> DEFINE m == p + q
<1>5. m \in Int /\ y = n * m + r
  BY <1>2, <1>3, <1>4
<1> HIDE DEF m
<1>7. y % n = r
  BY <1>2, <1>5, Remainder
<1> QED BY <1>7 DEF r

\* The d-th bucket from home is d from home.
LEMMA ThereAndBack ==
  ASSUME NEW h \in Nat, NEW n \in Nat \ {0}, NEW d \in 0 .. n - 1
  PROVE  (h + d) % n \in 0 .. n - 1 /\ (((h + d) % n) - h) % n = d
<1> DEFINE p == (h + d) % n
           x == h + d
<1>0. x \in Int /\ p = x % n
  OBVIOUS
<1> HIDE DEF x, p
<1>1. p \in 0 .. n - 1
  BY <1>0, Euclid
<1>2. PICK q \in Int : x = n * q + p
  BY <1>0, Euclid
<1> DEFINE m == -q
           y == p - h
<1>3. n * q \in Int /\ n * m = -(n * q)
  OBVIOUS
<1>4. y = d + n * m /\ y \in Int /\ m \in Int /\ d \in Int
  BY <1>1, <1>2, <1>3 DEF x
<1> HIDE DEF y, m
<1>6. y % n = d % n
  BY <1>4, SameBucket
<1>7. d % n = d
  OBVIOUS
<1> QED BY <1>1, <1>6, <1>7 DEF p, y

\* And a bucket is where its distance from home says.
LEMMA BackAndThere ==
  ASSUME NEW h \in Nat, NEW n \in Nat \ {0}, NEW p \in 0 .. n - 1
  PROVE  (p - h) % n \in 0 .. n - 1 /\ (h + ((p - h) % n)) % n = p
<1> DEFINE d == (p - h) % n
           x == p - h
<1>0. x \in Int /\ d = x % n
  OBVIOUS
<1> HIDE DEF x, d
<1>1. d \in 0 .. n - 1
  BY <1>0, Euclid
<1>2. PICK q \in Int : x = n * q + d
  BY <1>0, Euclid
<1> DEFINE m == -q
           y == h + d
<1>3. n * q \in Int /\ n * m = -(n * q)
  OBVIOUS
<1>4. y = p + n * m /\ y \in Int /\ m \in Int /\ p \in Int
  BY <1>1, <1>2, <1>3 DEF x
<1> HIDE DEF y, m
<1>6. y % n = p % n
  BY <1>4, SameBucket
<1>7. p % n = p
  OBVIOUS
<1> QED BY <1>1, <1>6, <1>7 DEF d, y

\* The bucket after the d-th is the next.
LEMMA OneOn ==
  ASSUME NEW h \in Nat, NEW n \in Nat \ {0}, NEW d \in Nat
  PROVE  (((h + d) % n) + 1) % n = (h + (d + 1)) % n
<1> DEFINE p == (h + d) % n
           x == h + d
<1>0. x \in Int /\ p = x % n
  OBVIOUS
<1> HIDE DEF x, p
<1>1. p \in 0 .. n - 1
  BY <1>0, Euclid
<1>2. PICK q \in Int : x = n * q + p
  BY <1>0, Euclid
<1> DEFINE y == h + (d + 1)
           z == p + 1
<1>3. n * q \in Int
  OBVIOUS
<1>4. y = z + n * q /\ y \in Int /\ z \in Int
  BY <1>1, <1>2, <1>3 DEF x
<1> HIDE DEF y, z
<1>6. y % n = z % n
  BY <1>4, SameBucket
<1> QED BY <1>6 DEF p, y, z

\* A round from home is home.
LEMMA OneRound ==
  ASSUME NEW h \in Nat, NEW n \in Nat \ {0}
  PROVE  (h + n) % n = (h + 0) % n
<1>1. h + n = (h + 0) + n * 1 /\ h + n \in Int /\ h + 0 \in Int /\ 1 \in Int
  OBVIOUS
<1> QED BY <1>1, SameBucket

\* The next bucket is one farther from a home, or is it.
LEMMA NextDistance ==
  ASSUME NEW h \in Nat, NEW n \in Nat \ {0}, NEW p \in 0 .. n - 1, NEW q, q = (p + 1) % n
  PROVE  /\ q \in 0 .. n - 1
         /\ (q - h) % n \in 0 .. n - 1 /\ (p - h) % n \in 0 .. n - 1
         /\ (p - h) % n < n - 1 => (q - h) % n = ((p - h) % n) + 1
         /\ (p - h) % n = n - 1 => (q - h) % n = 0
<1> DEFINE d == (p - h) % n
<1>d. d = (p - h) % n
  OBVIOUS
<1> HIDE DEF d
<1>1. d \in 0 .. n - 1 /\ (h + d) % n = p
  <2>1. (p - h) % n \in 0 .. n - 1 /\ (h + ((p - h) % n)) % n = p
    BY BackAndThere
  <2> QED BY <1>d, <2>1, Zenon
<1>2. q \in 0 .. n - 1 /\ (q - h) % n \in 0 .. n - 1
  <2> DEFINE z == p + 1
  <2>1. z \in Int /\ q = z % n
    OBVIOUS
  <2> HIDE DEF z
  <2>2. q \in 0 .. n - 1
    BY <2>1, Euclid
  <2> QED BY <2>2, BackAndThere
<1>3. q = (h + (d + 1)) % n
  BY <1>1, OneOn
<1>4. d < n - 1 => (q - h) % n = d + 1
  <2> SUFFICES ASSUME d < n - 1 PROVE (q - h) % n = d + 1
    OBVIOUS
  <2> DEFINE e == d + 1
  <2>1. e \in 0 .. n - 1
    BY <1>1
  <2>2. q = (h + e) % n
    BY <1>3
  <2> HIDE DEF e
  <2>3. (((h + e) % n) - h) % n = e
    BY <2>1, ThereAndBack
  <2>4. (q - h) % n = e
    BY <2>2, <2>3
  <2> QED BY <2>4 DEF e
<1>5. d = n - 1 => (q - h) % n = 0
  <2> SUFFICES ASSUME d = n - 1 PROVE (q - h) % n = 0
    OBVIOUS
  <2>1. d + 1 = n
    OBVIOUS
  <2>2. q = (h + 0) % n
    BY <1>3, <2>1, OneRound
  <2>3. 0 \in 0 .. n - 1
    OBVIOUS
  <2> DEFINE e == 0
  <2> HIDE DEF e
  <2>4. e \in 0 .. n - 1 /\ q = (h + e) % n
    BY <2>2, <2>3 DEF e
  <2>5. (((h + e) % n) - h) % n = e
    BY <2>4, ThereAndBack
  <2>6. (q - h) % n = e
    BY <2>4, <2>5
  <2> QED BY <2>6 DEF e
<1> QED BY <1>d, <1>1, <1>2, <1>4, <1>5

\* The same, said of names: the d-th bucket from a home, how far a bucket is
\* from one, and the next bucket.
Round(h, d, n) == (h + d) % n
Away(p, h, n)  == (p - h) % n
After(p, n)    == (p + 1) % n

\* The bucket some way from a home is that way from it.
LEMMA RoundFacts ==
  ASSUME NEW n \in Nat \ {0}, NEW h \in Nat, NEW d \in 0 .. n - 1
  PROVE  Round(h, d, n) \in 0 .. n - 1 /\ Away(Round(h, d, n), h, n) = d
BY ThereAndBack DEF Round, Away

\* And going the way a bucket is from a home leads to the bucket.
LEMMA AwayFacts ==
  ASSUME NEW n \in Nat \ {0}, NEW h \in Nat, NEW p \in 0 .. n - 1
  PROVE  Away(p, h, n) \in 0 .. n - 1 /\ Round(h, Away(p, h, n), n) = p
BY BackAndThere DEF Round, Away

\* The next bucket is one further from every home.
LEMMA AfterRound ==
  ASSUME NEW n \in Nat \ {0}, NEW h \in Nat, NEW d \in Nat
  PROVE  After(Round(h, d, n), n) = Round(h, d + 1, n)
BY OneOn DEF After, Round

\* Going round the whole table leads back.
LEMMA WholeRound ==
  ASSUME NEW n \in Nat \ {0}, NEW h \in Nat
  PROVE  Round(h, n, n) = Round(h, 0, n)
BY OneRound DEF Round

\* One bucket on is one further away, but for the last, which is followed by the
\* home itself.
LEMMA AfterAway ==
  ASSUME NEW n \in Nat \ {0}, NEW h \in Nat, NEW p \in 0 .. n - 1
  PROVE  /\ After(p, n) \in 0 .. n - 1
         /\ Away(p, h, n) < n - 1 => Away(After(p, n), h, n) = Away(p, h, n) + 1
         /\ Away(p, h, n) = n - 1 => Away(After(p, n), h, n) = 0
BY NextDistance DEF After, Away

\* No two buckets have the same next, and none is its own.
LEMMA AfterFacts ==
  ASSUME NEW n \in Nat, n >= 2, NEW p \in 0 .. n - 1
  PROVE  /\ After(p, n) # p
         /\ \A q \in 0 .. n - 1 : After(q, n) = After(p, n) => q = p
<1>1. n \in Nat \ {0} /\ p \in Nat /\ 0 \in 0 .. n - 1
  OBVIOUS
<1>2. ASSUME NEW h \in 0 .. n - 1
      PROVE  Away(h, h, n) = 0
  <2>1. h - h = 0 /\ 0 % n = 0
    OBVIOUS
  <2> QED BY <2>1 DEF Away
<1>3. After(p, n) # p
  BY <1>1, <1>2, AfterAway
<1>4. ASSUME NEW q \in 0 .. n - 1, After(q, n) = After(p, n)
      PROVE  q = p
  <2> DEFINE j == After(p, n)
  <2>1. j \in 0 .. n - 1
    BY <1>1, AfterAway
  <2>2. j \in Nat /\ Away(j, j, n) = 0
    BY <1>2, <2>1
  <2>3. Away(p, j, n) \in 0 .. n - 1 /\ Round(j, Away(p, j, n), n) = p
    BY <1>1, <2>2, AwayFacts
  <2>4. Away(q, j, n) \in 0 .. n - 1 /\ Round(j, Away(q, j, n), n) = q
    BY <1>1, <2>2, AwayFacts
  <2>5. Away(p, j, n) < n - 1 => Away(j, j, n) = Away(p, j, n) + 1
    BY <1>1, <2>2, AfterAway
  <2>6. Away(q, j, n) < n - 1 => Away(j, j, n) = Away(q, j, n) + 1
    <3>1. After(q, n) = j
      BY <1>4
    <3>2. Away(q, j, n) < n - 1 => Away(After(q, n), j, n) = Away(q, j, n) + 1
      BY <1>1, <2>2, AfterAway
    <3> QED BY <3>1, <3>2
  <2>7. Away(p, j, n) = n - 1 /\ Away(q, j, n) = n - 1
    BY <2>2, <2>3, <2>4, <2>5, <2>6
  <2> QED BY <2>3, <2>4, <2>7
<1> QED BY <1>3, <1>4

-----------------------------------------------------------------------------
(* Tables.                                                                 *)

Buckets   == [index : 0 .. MaxIndexed, hash : Nat]
\* Tables of n buckets.
Tables(n) == [0 .. n - 1 -> Buckets]

\* How far the entry of a bucket is from home.
Far(t, n, i) == Away(i, t[i].hash, n)

\* j comes next after i in robin hood order.
Follows(t, n, i, j) ==
  ~IsEmpty(t[j]) =>
    /\ IsEmpty(t[i]) => Far(t, n, j) = 0
    /\ ~IsEmpty(t[i]) => Far(t, n, j) <= Far(t, n, i) + 1

InOrder(t, n) == \A i \in 0 .. n - 1 : Follows(t, n, i, After(i, n))

\* No position has two buckets.
Single(t) == \A i, j \in DOMAIN t : ~IsEmpty(t[i]) /\ t[i].index = t[j].index => i = j

\* No bucket has the position of e.
Fresh(t, e) == \A i \in DOMAIN t : t[i].index # e.index

\* What a table holds.
Content(t) == {t[i] : i \in {j \in DOMAIN t : ~IsEmpty(t[j])}}

Sound(t, n) == t \in Tables(n) /\ InOrder(t, n) /\ Single(t)

\* The module's operators on a table of n buckets.
LEMMA WalkFacts ==
  ASSUME NEW n \in Nat \ {0}, NEW t \in Tables(n)
  PROVE  /\ Cap(t) = n
         /\ \A h, d : Walk(t, h, d) = Round(h, d, n)
         /\ \A i : Distance(t, i) = Far(t, n, i)
<1>1. Cap(t) = n
  <2>1. DOMAIN t = 0 .. n - 1
    BY DEF Tables
  <2>2. Cardinality(0 .. n - 1) = n
    BY FS_Interval
  <2> QED BY <2>1, <2>2 DEF Cap
<1> QED BY <1>1 DEF Walk, Distance, Far, Round, Away

\* Where distance says an entry is, seen from its home.
LEMMA FarFacts ==
  ASSUME NEW n \in Nat \ {0}, NEW t \in Tables(n), NEW i \in 0 .. n - 1
  PROVE  /\ t[i] \in Buckets /\ t[i].hash \in Nat
         /\ Far(t, n, i) \in 0 .. n - 1
         /\ Round(t[i].hash, Far(t, n, i), n) = i
<1>1. t[i] \in Buckets /\ t[i].hash \in Nat
  BY DEF Tables, Buckets
<1> QED BY <1>1, AwayFacts DEF Far

\* A probe for an entry that is there meets only entries at least as far from
\* home as it has walked.
LEMMA ChainFacts ==
  ASSUME NEW n \in Nat \ {0}, NEW t \in Tables(n), InOrder(t, n),
         NEW i \in 0 .. n - 1, ~IsEmpty(t[i]), NEW d \in 0 .. Far(t, n, i)
  PROVE  LET at == Round(t[i].hash, d, n) IN
         /\ at \in 0 .. n - 1 /\ ~IsEmpty(t[at]) /\ Far(t, n, at) >= d
<1> DEFINE h    == t[i].hash
           D    == Far(t, n, i)
           Q(e) == LET at == Round(h, e, n) IN
                   at \in 0 .. n - 1 /\ ~IsEmpty(t[at]) /\ Far(t, n, at) >= e
           S    == {k \in 0 .. D : Q(D - k)}
<1>1. h \in Nat /\ D \in 0 .. n - 1 /\ Round(h, D, n) = i
  BY FarFacts
<1>d. D = Far(t, n, i)
  OBVIOUS
<1> HIDE DEF h, D
<1>2. 0 \in S
  <2>1. D - 0 = D
    BY <1>1
  <2>2. Q(D)
    BY <1>1, <1>d
  <2> QED BY <1>1, <2>1, <2>2
<1>3. ASSUME NEW k \in 1 .. D, k - 1 \in S
      PROVE  k \in S
  <2> DEFINE e    == D - k
             at   == Round(h, D - (k - 1), n)
             prev == Round(h, e, n)
  <2>1. e \in 0 .. n - 1 /\ e \in Nat /\ e + 1 = D - (k - 1)
    BY <1>1
  <2>2. at \in 0 .. n - 1 /\ ~IsEmpty(t[at]) /\ Far(t, n, at) >= e + 1
    BY <1>3, <2>1
  <2>3. prev \in 0 .. n - 1
    <3> HIDE DEF e
    <3> QED BY <1>1, <2>1, RoundFacts
  <2>4. After(prev, n) = at
    <3> HIDE DEF e
    <3>1. After(prev, n) = Round(h, e + 1, n)
      BY <1>1, <2>1, AfterRound
    <3> QED BY <2>1, <3>1
  <2> HIDE DEF e, at, prev
  <2>5. Follows(t, n, prev, at)
    BY <2>3, <2>4 DEF InOrder
  <2>6. Far(t, n, prev) \in 0 .. n - 1 /\ Far(t, n, at) \in 0 .. n - 1
    BY <2>2, <2>3, FarFacts
  <2>7. ~IsEmpty(t[prev]) /\ Far(t, n, prev) >= e
    BY <2>1, <2>2, <2>5, <2>6 DEF Follows
  <2> QED BY <1>1, <2>3, <2>7 DEF e, prev
<1>4. 0 .. D \subseteq S
  <2> HIDE DEF S
  <2> QED BY <1>1, <1>2, <1>3, UpToInduction
<1>5. D - d \in 0 .. D /\ D - (D - d) = d
  BY <1>1, <1>d
<1>6. Q(D - (D - d))
  BY <1>4, <1>5
<1>7. Q(d)
  <2> HIDE DEF Q
  <2> QED BY <1>5, <1>6
<1> QED BY <1>7 DEF h

\* With a bucket free, no entry is a whole round from home.
LEMMA ShortWay ==
  ASSUME NEW n \in Nat \ {0}, NEW t \in Tables(n), InOrder(t, n),
         NEW x \in 0 .. n - 1, IsEmpty(t[x]), NEW i \in 0 .. n - 1, ~IsEmpty(t[i])
  PROVE  Far(t, n, i) < n - 1
<1> DEFINE h == t[i].hash
           d == Away(x, h, n)
<1>1. h \in Nat /\ Far(t, n, i) \in 0 .. n - 1
  BY FarFacts
<1>2. d \in 0 .. n - 1 /\ Round(h, d, n) = x
  BY <1>1, AwayFacts
<1> HIDE DEF d
<1>3. ~(d \in 0 .. Far(t, n, i))
  BY <1>2, ChainFacts
<1> QED BY <1>1, <1>2, <1>3

-----------------------------------------------------------------------------
(* Placing.                                                                *)

Stored(u, t, at, c) == u = [t EXCEPT ![at] = c]

\* Storing an entry that no bucket holds leaves the rest as it was.
LEMMA StoreFacts ==
  ASSUME NEW n \in Nat, n >= 2, NEW t \in Tables(n), Single(t), NEW at \in 0 .. n - 1,
         NEW c \in Buckets, ~IsEmpty(c), Fresh(t, c), NEW u, Stored(u, t, at, c)
  PROVE  /\ u \in Tables(n) /\ Single(u)
         /\ u[at] = c /\ \A i \in 0 .. n - 1 : i # at => u[i] = t[i]
         /\ IsEmpty(t[at]) => Content(u) = Content(t) \cup {c}
         /\ ~IsEmpty(t[at]) => Content(u) \cup {t[at]} = Content(t) \cup {c} /\ Fresh(u, t[at])
<1>1. DOMAIN t = 0 .. n - 1
  BY DEF Tables
<1>2. u \in Tables(n)
  BY DEF Tables, Stored
<1>3. DOMAIN u = 0 .. n - 1 /\ u[at] = c /\ \A i \in 0 .. n - 1 : i # at => u[i] = t[i]
  BY <1>1 DEF Stored
<1>4. Single(u)
  BY <1>1, <1>3 DEF Single, Fresh
<1>5. IsEmpty(t[at]) => Content(u) = Content(t) \cup {c}
  BY <1>1, <1>3 DEF Content
<1>6. ~IsEmpty(t[at]) => Content(u) \cup {t[at]} = Content(t) \cup {c}
  <2> SUFFICES ASSUME ~IsEmpty(t[at]) PROVE Content(u) \cup {t[at]} = Content(t) \cup {c}
    OBVIOUS
  <2>1. ASSUME NEW i \in 0 .. n - 1, ~IsEmpty(u[i])
        PROVE  u[i] \in Content(t) \cup {c}
    BY <1>1, <1>3, <2>1 DEF Content
  <2>2. ASSUME NEW i \in 0 .. n - 1, ~IsEmpty(t[i])
        PROVE  t[i] \in Content(u) \cup {t[at]}
    BY <1>1, <1>3, <2>2 DEF Content
  <2>3. c \in Content(u) /\ t[at] \in Content(t)
    BY <1>1, <1>3 DEF Content
  <2>4. Content(u) \subseteq Content(t) \cup {c} /\ Content(t) \subseteq Content(u) \cup {t[at]}
    BY <1>1, <1>3, <2>1, <2>2 DEF Content
  <2> QED BY <2>3, <2>4
<1>7. ~IsEmpty(t[at]) => Fresh(u, t[at])
  BY <1>1, <1>3 DEF Single, Fresh
<1> QED BY <1>2, <1>3, <1>4, <1>5, <1>6, <1>7

\* It keeps robin hood order if the entry comes next after the one before and
\* the one in its way was no farther from home.
LEMMA StoreInOrder ==
  ASSUME NEW n \in Nat, n >= 2, NEW t \in Tables(n), InOrder(t, n), NEW at \in 0 .. n - 1,
         NEW c \in Buckets, ~IsEmpty(c), NEW u \in Tables(n), u[at] = c,
         \A i \in 0 .. n - 1 : i # at => u[i] = t[i],
         NEW a, a = Away(at, c.hash, n),
         \A p \in 0 .. n - 1 : After(p, n) = at /\ a # 0 => ~IsEmpty(t[p]) /\ Far(t, n, p) >= a - 1,
         IsEmpty(t[at]) \/ Far(t, n, at) <= a
  PROVE  InOrder(u, n)
<1> SUFFICES ASSUME NEW i \in 0 .. n - 1 PROVE Follows(u, n, i, After(i, n))
  BY DEF InOrder
<1> DEFINE j == After(i, n)
<1>0. n \in Nat \ {0}
  OBVIOUS
<1>1. j \in 0 .. n - 1 /\ j # i
  <2>1. i \in 0 .. n - 1 /\ 0 \in Nat
    OBVIOUS
  <2> QED BY <1>0, <2>1, AfterAway, AfterFacts
<1>2. Follows(t, n, i, j)
  BY DEF InOrder
<1>j. j = After(i, n)
  OBVIOUS
<1> HIDE DEF j
<1>3. Far(u, n, at) = a /\ a \in 0 .. n - 1
  BY <1>0, FarFacts DEF Far
<1>4. \A k \in 0 .. n - 1 : k # at => u[k] = t[k] /\ Far(u, n, k) = Far(t, n, k)
  BY DEF Far
<1>5. Far(t, n, i) \in 0 .. n - 1 /\ Far(t, n, j) \in 0 .. n - 1
  BY <1>0, <1>1, FarFacts
<1>6. CASE j = at
  <2>1. i # at /\ u[i] = t[i] /\ Far(u, n, i) = Far(t, n, i)
    BY <1>1, <1>4, <1>6
  <2>2. a # 0 => ~IsEmpty(t[i]) /\ Far(t, n, i) >= a - 1
    BY <1>6, <1>j
  <2> QED BY <1>3, <1>5, <1>6, <1>j, <2>1, <2>2 DEF Follows
<1>7. CASE i = at
  <2>1. u[j] = t[j] /\ Far(u, n, j) = Far(t, n, j)
    BY <1>1, <1>4, <1>7
  <2> QED BY <1>2, <1>3, <1>5, <1>7, <1>j, <2>1 DEF Follows
<1>8. CASE i # at /\ j # at
  <2>1. u[i] = t[i] /\ u[j] = t[j] /\ Far(u, n, i) = Far(t, n, i) /\ Far(u, n, j) = Far(t, n, j)
    BY <1>1, <1>4, <1>8
  <2> QED BY <1>2, <1>j, <2>1 DEF Follows
<1> QED BY <1>6, <1>7, <1>8

\* The states of the loop of place.
Steps(n) == [t : Tables(n), carried : Buckets, travelled : Nat, placed : BOOLEAN]

\* The entry that is carried is in no bucket and as far from home as the loop
\* has walked for it, and the bucket before holds one as far, but for a step.
\* The buckets ahead are as they were.
Carrying(s, k, t, e, n) ==
  /\ ~IsEmpty(s.carried) /\ Fresh(s.t, s.carried)
  /\ Content(s.t) \cup {s.carried} = Content(t) \cup {e}
  /\ s.travelled \in 0 .. n - 1
  /\ Round(s.carried.hash, s.travelled, n) = Round(e.hash, k, n)
  /\ \A p \in 0 .. n - 1 : After(p, n) = Round(e.hash, k, n) /\ s.travelled # 0 =>
       ~IsEmpty(s.t[p]) /\ Far(s.t, n, p) >= s.travelled - 1
  /\ \A d \in k .. n - 1 : s.t[Round(e.hash, d, n)] = t[Round(e.hash, d, n)]

Placing(s, k, t, e, n) ==
  /\ s \in Steps(n)
  /\ Sound(s.t, n)
  /\ s.placed => Content(s.t) = Content(t) \cup {e}
  /\ ~s.placed => Carrying(s, k, t, e, n)

\* One step of place: the entry in hand is put down, takes the place of a nearer
\* one or goes on, the order stands, and no entry is lost or doubled.  The step
\* that comes to the free bucket is the last.
LEMMA PlaceStepFacts ==
  ASSUME NEW n \in Nat, n >= 2, NEW t \in Tables(n), NEW e \in Buckets,
         NEW x \in 0 .. n - 1, IsEmpty(t[x]), NEW k \in 0 .. n - 1, k <= Away(x, e.hash, n),
         NEW s, Placing(s, k, t, e, n), ~s.placed, NEW u, u = PlaceStep(s)
  PROVE  /\ Placing(u, k + 1, t, e, n)
         /\ k = Away(x, e.hash, n) => u.placed
<1> DEFINE at     == Round(e.hash, k, n)
           theirs == Far(s.t, n, at)
           T      == s.t
           c      == s.carried
           a      == s.travelled
<1>0. n \in Nat \ {0} /\ e.hash \in Nat
  BY DEF Buckets
<1>1. /\ s \in Steps(n) /\ T \in Tables(n) /\ InOrder(T, n) /\ Single(T)
      /\ c \in Buckets /\ c.hash \in Nat /\ a \in 0 .. n - 1
      /\ ~IsEmpty(c) /\ Fresh(T, c)
  BY DEF Placing, Sound, Carrying, Steps, Buckets
<1>2. /\ Content(T) \cup {c} = Content(t) \cup {e}
      /\ Round(c.hash, a, n) = at
      /\ \A p \in 0 .. n - 1 : After(p, n) = at /\ a # 0 =>
           ~IsEmpty(T[p]) /\ Far(T, n, p) >= a - 1
      /\ \A d \in k .. n - 1 : T[Round(e.hash, d, n)] = t[Round(e.hash, d, n)]
  BY DEF Placing, Carrying
<1>3. at \in 0 .. n - 1 /\ Away(at, e.hash, n) = k
  BY <1>0, RoundFacts
<1>4. Away(at, c.hash, n) = a
  <2> HIDE DEF c, a
  <2>1. Away(Round(c.hash, a, n), c.hash, n) = a
    BY <1>0, <1>1, RoundFacts
  <2> QED BY <1>2, <2>1
<1>5. theirs \in 0 .. n - 1
  BY <1>0, <1>1, <1>3, FarFacts
<1>6. After(at, n) = Round(e.hash, k + 1, n)
  BY <1>0, AfterRound
<1>7. Walk(T, c.hash, a) = at /\ Distance(T, at) = theirs
  BY <1>0, <1>1, <1>2, WalkFacts
<1>8. x = Round(e.hash, Away(x, e.hash, n), n) /\ Away(x, e.hash, n) \in 0 .. n - 1
  BY <1>0, AwayFacts
<1>9. IsEmpty(T[x])
  BY <1>2, <1>8
<1>10. k = Away(x, e.hash, n) => IsEmpty(T[at])
  BY <1>8, <1>9
<1>11. \A d \in k + 1 .. n - 1 : d \in k .. n - 1 /\ Round(e.hash, d, n) # at
  <2> SUFFICES ASSUME NEW d \in k + 1 .. n - 1, Round(e.hash, d, n) = at PROVE FALSE
    OBVIOUS
  <2>1. d \in 0 .. n - 1
    OBVIOUS
  <2>2. Away(Round(e.hash, d, n), e.hash, n) = d
    BY <1>0, <2>1, RoundFacts
  <2> QED BY <1>3, <2>2
<1>12. \A p \in 0 .. n - 1 : After(p, n) = Round(e.hash, k + 1, n) => p = at
  BY <1>3, <1>6, AfterFacts
<1> DEFINE v == [T EXCEPT ![at] = c]
<1>13. /\ v \in Tables(n) /\ Single(v) /\ v[at] = c
       /\ \A i \in 0 .. n - 1 : i # at => v[i] = T[i]
       /\ IsEmpty(T[at]) => Content(v) = Content(T) \cup {c}
       /\ ~IsEmpty(T[at]) => Content(v) \cup {T[at]} = Content(T) \cup {c} /\ Fresh(v, T[at])
  <2>1. Stored(v, T, at, c)
    BY DEF Stored
  <2> HIDE DEF T, c, at, v
  <2> QED BY <1>1, <1>3, <2>1, StoreFacts
<1>14. IsEmpty(T[at]) \/ theirs <= a => InOrder(v, n)
  <2>1. /\ v \in Tables(n) /\ v[at] = c /\ \A i \in 0 .. n - 1 : i # at => v[i] = T[i]
    BY <1>13
  <2>2. theirs = Far(T, n, at)
    OBVIOUS
  <2> HIDE DEF T, c, at, a, v, theirs
  <2> QED BY <1>1, <1>2, <1>3, <1>4, <2>1, <2>2, StoreInOrder
<1>15. Far(v, n, at) = a
  <2> HIDE DEF v
  <2> QED BY <1>4, <1>13 DEF Far
<1>16. CASE IsEmpty(T[at])
  <2>1. u = [s EXCEPT !.t = [@ EXCEPT ![at] = s.carried], !.placed = TRUE]
    BY <1>7, <1>16 DEF PlaceStep
  <2>2. u \in Steps(n) /\ u.t = v /\ u.placed
    <3>1. u = [s EXCEPT !.t = v, !.placed = TRUE]
      BY <2>1
    <3> HIDE DEF v
    <3> QED BY <1>1, <1>13, <3>1 DEF Steps
  <2> HIDE DEF v
  <2>3. Content(v) = Content(t) \cup {e}
    BY <1>2, <1>13, <1>16
  <2> QED BY <1>13, <1>14, <1>16, <2>2, <2>3 DEF Placing, Sound
<1>17. CASE ~IsEmpty(T[at]) /\ theirs < a
  <2>1. u = [s EXCEPT !.t = [@ EXCEPT ![at] = s.carried], !.carried = s.t[at], !.travelled = theirs + 1]
    BY <1>7, <1>17 DEF PlaceStep
  <2>2. T[at] \in Buckets /\ theirs + 1 \in Nat
    BY <1>1, <1>3, <1>5, <1>0, FarFacts
  <2>3. u \in Steps(n) /\ u.t = v /\ u.carried = T[at] /\ u.travelled = theirs + 1 /\ ~u.placed
    <3>1. u = [s EXCEPT !.t = v, !.carried = T[at], !.travelled = theirs + 1]
      BY <2>1
    <3> HIDE DEF v, theirs
    <3> QED BY <1>1, <1>13, <2>2, <3>1 DEF Steps
  <2>4. Content(v) \cup {T[at]} = Content(t) \cup {e}
    BY <1>2, <1>13, <1>17
  <2>5. theirs + 1 \in 0 .. n - 1
    BY <1>1, <1>5, <1>17
  <2>6. Round(T[at].hash, theirs + 1, n) = After(at, n)
    <3>1. T[at].hash \in Nat /\ Round(T[at].hash, theirs, n) = at /\ theirs \in Nat
      BY <1>0, <1>1, <1>3, <1>5, FarFacts
    <3> QED BY <1>0, <3>1, AfterRound
  <2>7. ~IsEmpty(v[at]) /\ Far(v, n, at) >= (theirs + 1) - 1
    BY <1>1, <1>5, <1>13, <1>15, <1>17
  <2>8. \A d \in k + 1 .. n - 1 : v[Round(e.hash, d, n)] = t[Round(e.hash, d, n)]
    <3> SUFFICES ASSUME NEW d \in k + 1 .. n - 1
                 PROVE  v[Round(e.hash, d, n)] = t[Round(e.hash, d, n)]
      OBVIOUS
    <3>1. d \in 0 .. n - 1
      OBVIOUS
    <3>2. Round(e.hash, d, n) \in 0 .. n - 1
      BY <1>0, <3>1, RoundFacts
    <3> QED BY <1>2, <1>11, <1>13, <3>2
  <2> HIDE DEF v, theirs, at, T
  <2>9. Carrying(u, k + 1, t, e, n)
    BY <1>6, <1>12, <1>13, <1>17, <2>3, <2>4, <2>5, <2>6, <2>7, <2>8 DEF Carrying
  <2>10. InOrder(v, n)
    BY <1>14, <1>17, <1>5, <1>1
  <2> QED BY <1>10, <1>13, <1>17, <2>3, <2>9, <2>10 DEF Placing, Sound
<1>18. CASE ~IsEmpty(T[at]) /\ ~(theirs < a)
  <2>1. u = [s EXCEPT !.travelled = @ + 1]
    BY <1>7, <1>18 DEF PlaceStep
  <2>2. u \in Steps(n) /\ u.t = T /\ u.carried = c /\ u.travelled = a + 1 /\ ~u.placed
    BY <1>1, <2>1 DEF Steps
  <2>3. theirs < n - 1
    BY <1>0, <1>1, <1>3, <1>9, <1>18, ShortWay
  <2>4. a + 1 \in 0 .. n - 1 /\ theirs >= (a + 1) - 1
    BY <1>1, <1>5, <1>18, <2>3
  <2>5. Round(c.hash, a + 1, n) = After(at, n)
    <3>1. a \in Nat
      BY <1>1
    <3> HIDE DEF a, c, at
    <3> QED BY <1>0, <1>1, <1>2, <3>1, AfterRound
  <2>6. \A d \in k + 1 .. n - 1 : T[Round(e.hash, d, n)] = t[Round(e.hash, d, n)]
    BY <1>2, <1>11
  <2>7. theirs = Far(T, n, at)
    OBVIOUS
  <2> HIDE DEF theirs, at, T, c, a
  <2>8. Carrying(u, k + 1, t, e, n)
    BY <1>1, <1>2, <1>6, <1>12, <1>18, <2>2, <2>4, <2>5, <2>6, <2>7 DEF Carrying
  <2> QED BY <1>1, <1>10, <1>18, <2>2, <2>8 DEF Placing, Sound
<1> QED BY <1>16, <1>17, <1>18

\* A step of place keeps its types.
LEMMA PlaceStepType ==
  ASSUME NEW n \in Nat \ {0}, NEW s \in Steps(n)
  PROVE  PlaceStep(s) \in Steps(n)
<1> DEFINE at     == Round(s.carried.hash, s.travelled, n)
           theirs == Far(s.t, n, at)
           v      == [s.t EXCEPT ![at] = s.carried]
           u      == PlaceStep(s)
<1>1. /\ s.t \in Tables(n) /\ s.carried \in Buckets /\ s.carried.hash \in Nat
      /\ s.travelled \in Nat /\ s.placed \in BOOLEAN
  BY DEF Steps, Buckets
<1>2. at \in 0 .. n - 1
  <2> DEFINE y == s.carried.hash + s.travelled
  <2>1. y \in Int /\ at = y % n
    BY <1>1 DEF Round
  <2> HIDE DEF y, at
  <2> QED BY <2>1, Euclid
<1>3. Walk(s.t, s.carried.hash, s.travelled) = at /\ Distance(s.t, at) = theirs
  BY <1>1, WalkFacts
<1> HIDE DEF at
<1>4. theirs \in 0 .. n - 1 /\ s.t[at] \in Buckets
  BY <1>1, <1>2, FarFacts
<1>5. v \in Tables(n)
  BY <1>1, <1>2 DEF Tables
<1>6. \/ u = [s EXCEPT !.t = v, !.placed = TRUE]
      \/ u = [s EXCEPT !.t = v, !.carried = s.t[at], !.travelled = theirs + 1]
      \/ u = [s EXCEPT !.travelled = @ + 1]
  BY <1>3 DEF PlaceStep
<1>7. theirs + 1 \in Nat /\ s.travelled + 1 \in Nat
  BY <1>1, <1>4
<1> DEFINE yes == TRUE
           a   == theirs + 1
           b   == s.t[at]
           c   == s.travelled + 1
<1>8. /\ a \in Nat /\ b \in Buckets /\ c \in Nat /\ yes \in BOOLEAN
      /\ \/ u = [s EXCEPT !.t = v, !.placed = yes]
         \/ u = [s EXCEPT !.t = v, !.carried = b, !.travelled = a]
         \/ u = [s EXCEPT !.travelled = c]
  BY <1>4, <1>6, <1>7
<1>u. u = PlaceStep(s)
  OBVIOUS
<1> HIDE DEF v, u, yes, a, b, c
<1>9. s \in Steps(n)
  OBVIOUS
<1>10. u = [s EXCEPT !.t = v, !.placed = yes] => u \in Steps(n)
  BY <1>5, <1>8, <1>9, Zenon DEF Steps
<1>11. u = [s EXCEPT !.t = v, !.carried = b, !.travelled = a] => u \in Steps(n)
  BY <1>5, <1>8, <1>9, Zenon DEF Steps
<1>12. u = [s EXCEPT !.travelled = c] => u \in Steps(n)
  BY <1>8, <1>9, Zenon DEF Steps
<1> QED BY <1>8, <1>10, <1>11, <1>12, <1>u

\* Placing an entry in a table with a bucket free adds it and keeps the order.
LEMMA PlaceFacts ==
  ASSUME NEW n \in Nat, n >= 2, NEW t, Sound(t, n), NEW e \in Buckets, ~IsEmpty(e), Fresh(t, e),
         NEW x \in 0 .. n - 1, IsEmpty(t[x])
  PROVE  Sound(Place(t, e), n) /\ Content(Place(t, e)) = Content(t) \cup {e}
<1> DEFINE first   == [t |-> t, carried |-> e, travelled |-> 0, placed |-> FALSE]
           Step(u) == IF u.placed THEN u ELSE PlaceStep(u)
           X       == Steps(n)
           F       == [k \in 1 .. n |-> [u \in X |-> Step(u)]]
           G(h)    == [k \in 0 .. n |-> IF k = 0 THEN first ELSE Step(h[k - 1])]
           run     == CHOOSE h : h = G(h)
           w       == Away(x, e.hash, n)
<1>n. n \in Nat /\ n \in Nat \ {0}
  OBVIOUS
<1>t. t \in Tables(n)
  BY DEF Sound
<1>1. Place(t, e) = run[n].t
  BY <1>n, <1>t, WalkFacts DEF Place
<1>2. first \in X /\ ~first.placed
  BY <1>t DEF Steps
<1>3. \A u \in X : Step(u) \in X
  BY <1>n, PlaceStepType
<1>4. \A u : u.placed => Step(u) = u
  OBVIOUS
<1>5. \A u : ~u.placed => Step(u) = PlaceStep(u)
  OBVIOUS
<1>6. run = CHOOSE h : h = G(h)
  OBVIOUS
<1>f. first = [t |-> t, carried |-> e, travelled |-> 0, placed |-> FALSE]
  OBVIOUS
<1> HIDE DEF first, Step, run, X
<1>7. \E h : h = G(h)
  <2>1. F \in [1 .. n -> [X -> X]]
    BY <1>3
  <2>2. \A k \in 1 .. n : \A u \in X : F[k][u] = Step(u)
    OBVIOUS
  <2> HIDE DEF F
  <2>3. PICK g : IsRun(g, X, first, n, F)
    BY <1>n, <1>2, <2>1, RunExists
  <2>4. ASSUME NEW k \in 1 .. n
        PROVE  g[k] = Step(g[k - 1])
    <3>1. k - 1 \in 0 .. n
      BY <1>n
    <3> QED BY <2>2, <2>3, <3>1 DEF IsRun
  <2>5. \A k \in 0 .. n : k # 0 => k \in 1 .. n
    OBVIOUS
  <2>6. g = G(g)
    BY <2>3, <2>4, <2>5 DEF IsRun
  <2> QED BY <2>6
<1>8. run = G(run)
  BY <1>6, <1>7
<1>9. run[0] = first /\ \A k \in 1 .. n : run[k] = Step(run[k - 1])
  <2>1. \A k \in 0 .. n : run[k] = IF k = 0 THEN first ELSE Step(run[k - 1])
    BY <1>8
  <2>2. 0 \in 0 .. n /\ \A k \in 1 .. n : k \in 0 .. n /\ k # 0
    BY <1>n
  <2> HIDE DEF G
  <2> QED BY <2>1, <2>2
<1>10. e.hash \in Nat /\ w \in 0 .. n - 1
  <2>1. e.hash \in Nat
    BY DEF Buckets
  <2> QED BY <1>n, <2>1, AwayFacts
<1>w. w = Away(x, e.hash, n)
  OBVIOUS
<1> HIDE DEF w
<1> DEFINE Q(k) == Placing(run[k], k, t, e, n) /\ (~run[k].placed => k <= w)
           S    == {k \in 0 .. n : Q(k)}
<1>11. 0 \in S
  <2>1. first.t = t /\ first.carried = e /\ first.travelled = 0 /\ ~first.placed /\ first \in Steps(n)
    BY <1>2, <1>f DEF X
  <2>2. Carrying(first, 0, t, e, n)
    BY <1>n, <2>1 DEF Carrying
  <2>3. Placing(first, 0, t, e, n)
    BY <2>1, <2>2 DEF Placing
  <2>4. 0 \in 0 .. n /\ 0 <= w
    BY <1>n, <1>10
  <2> QED BY <1>9, <2>3, <2>4
<1>12. ASSUME NEW k \in 1 .. n, k - 1 \in S
       PROVE  k \in S
  <2> DEFINE j == k - 1
             u == run[j]
             v == run[k]
  <2>1. j \in 0 .. n - 1 /\ j + 1 = k /\ v = Step(u)
    BY <1>9
  <2>2. Placing(u, j, t, e, n) /\ (~u.placed => j <= w)
    BY <1>12
  <2> HIDE DEF j, u, v
  <2>3. CASE u.placed
    BY <1>4, <2>1, <2>2, <2>3 DEF Placing, v
  <2>4. CASE ~u.placed
    <3>1. v = PlaceStep(u) /\ j <= w
      BY <1>5, <2>1, <2>2, <2>4
    <3>2. Placing(v, j + 1, t, e, n) /\ (j = w => v.placed)
      BY <1>t, <1>w, <2>1, <2>2, <2>4, <3>1, PlaceStepFacts
    <3>3. ~v.placed => k <= w
      BY <1>10, <2>1, <3>1, <3>2
    <3>4. Placing(v, k, t, e, n)
      BY <2>1, <3>2
    <3> QED BY <3>3, <3>4 DEF v
  <2> QED BY <2>3, <2>4
<1>13. n \in S
  <2> HIDE DEF S
  <2>1. 0 .. n \subseteq S
    BY <1>n, <1>11, <1>12, UpToInduction
  <2> QED BY <1>n, <2>1
<1>14. Placing(run[n], n, t, e, n) /\ (~run[n].placed => n <= w)
  BY <1>13
<1>15. run[n].placed
  BY <1>n, <1>10, <1>14
<1> QED BY <1>1, <1>14, <1>15 DEF Placing

-----------------------------------------------------------------------------
(* Placing a list.                                                         *)

\* Entries whose positions are below m do not fill more than m buckets.
LEMMA HasEmpty ==
  ASSUME NEW n \in Nat, NEW t \in Tables(n), Single(t), NEW m \in Nat, m < n,
         \A b \in Content(t) : b.index \in 0 .. m - 1
  PROVE  \E x \in 0 .. n - 1 : IsEmpty(t[x])
<1> SUFFICES ASSUME \A x \in 0 .. n - 1 : ~IsEmpty(t[x]) PROVE FALSE
  OBVIOUS
<1> DEFINE S == 0 .. n - 1
           T == 0 .. m - 1
           f == [i \in S |-> t[i].index]
<1>1. DOMAIN t = S
  BY DEF Tables
<1>2. f \in [S -> T]
  BY <1>1 DEF Content
<1>3. IsFiniteSet(S) /\ IsFiniteSet(T) /\ Cardinality(S) = n /\ Cardinality(T) = m
  <2>1. 0 \in Int /\ n - 1 \in Int /\ m - 1 \in Int
    OBVIOUS
  <2>2. IsFiniteSet(S) /\ Cardinality(S) = IF 0 > n - 1 THEN 0 ELSE (n - 1) - 0 + 1
    BY <2>1, FS_Interval
  <2>3. IsFiniteSet(T) /\ Cardinality(T) = IF 0 > m - 1 THEN 0 ELSE (m - 1) - 0 + 1
    BY <2>1, FS_Interval
  <2> QED BY <2>2, <2>3
<1>4. \A i, j \in S : f[i] = f[j] => i = j
  BY <1>1 DEF Single
<1> HIDE DEF S, T, f
<1>5. Cardinality(T) < Cardinality(S)
  BY <1>3
<1>6. \E i, j \in S : i # j /\ f[i] = f[j]
  BY <1>2, <1>3, <1>5, FS_PigeonHole
<1> QED BY <1>4, <1>6

\* Nothing is in a new table.
LEMMA NewTable ==
  ASSUME NEW n \in Nat \ {0}, NEW t, t = [i \in 0 .. n - 1 |-> Vacant]
  PROVE  Sound(t, n) /\ Content(t) = {}
<1>1. Vacant \in Buckets /\ IsEmpty(Vacant)
  BY SizesAssumption DEF Vacant, Buckets, IsEmpty, Empty
<1>2. t \in Tables(n) /\ DOMAIN t = 0 .. n - 1 /\ \A i \in 0 .. n - 1 : IsEmpty(t[i])
  BY <1>1 DEF Tables
<1>3. ASSUME NEW i \in 0 .. n - 1
      PROVE  After(i, n) \in 0 .. n - 1
  <2>1. 0 \in Nat
    OBVIOUS
  <2> QED BY <2>1, AfterAway
<1>4. InOrder(t, n)
  BY <1>2, <1>3 DEF InOrder, Follows
<1>5. Single(t) /\ Content(t) = {}
  BY <1>2 DEF Single, Content
<1> QED BY <1>2, <1>4, <1>5 DEF Sound

\* The buckets of a list that are not empty, up to the k-th.
Filled(buckets, k) == {buckets[i] : i \in {j \in 1 .. k : ~IsEmpty(buckets[j])}}

\* A list to place: positions below m, each once.
Placeable(buckets, m) ==
  /\ \A i \in DOMAIN buckets : ~IsEmpty(buckets[i]) => buckets[i].index \in 0 .. m - 1
  /\ \A i, j \in DOMAIN buckets :
       ~IsEmpty(buckets[i]) /\ buckets[i].index = buckets[j].index => i = j

\* u is the table of the first k.
SoFar(u, n, buckets, k) == Sound(u, n) /\ Content(u) = Filled(buckets, k)

\* Placing the next entry of a list.
LEMMA PlaceNext ==
  ASSUME NEW n \in Nat, n >= 2, NEW m \in Nat, m < n, m <= MaxIndexed,
         NEW buckets \in Seq(Buckets), Placeable(buckets, m),
         NEW k \in 1 .. Len(buckets), ~IsEmpty(buckets[k]), NEW u, SoFar(u, n, buckets, k - 1)
  PROVE  SoFar(Place(u, buckets[k]), n, buckets, k)
<1> DEFINE e == buckets[k]
<1>1. u \in Tables(n) /\ DOMAIN u = 0 .. n - 1 /\ Single(u)
  BY DEF SoFar, Sound, Tables
<1>2. DOMAIN buckets = 1 .. Len(buckets) /\ e \in Buckets /\ e.index \in 0 .. m - 1
  BY DEF Placeable
<1>3. ~IsEmpty(e)
  OBVIOUS
<1>4. ASSUME NEW b \in Content(u)
      PROVE  b.index \in 0 .. m - 1 /\ b.index # e.index
  <2>1. PICK i \in 1 .. k - 1 : b = buckets[i] /\ ~IsEmpty(buckets[i])
    BY DEF SoFar, Filled
  <2>2. i \in DOMAIN buckets /\ k \in DOMAIN buckets /\ i # k
    BY <1>2
  <2> QED BY <2>1, <2>2 DEF Placeable
<1>5. Fresh(u, e)
  <2> SUFFICES ASSUME NEW i \in DOMAIN u PROVE u[i].index # e.index
    BY DEF Fresh
  <2>1. CASE IsEmpty(u[i])
    BY <1>3, <2>1 DEF IsEmpty
  <2>2. CASE ~IsEmpty(u[i])
    <3>1. u[i] \in Content(u)
      BY <2>2 DEF Content
    <3> QED BY <1>4, <3>1
  <2> QED BY <2>1, <2>2
<1>6. PICK x \in 0 .. n - 1 : IsEmpty(u[x])
  BY <1>1, <1>4, HasEmpty
<1>7. Sound(u, n)
  BY DEF SoFar
<1>e. e = buckets[k]
  OBVIOUS
<1> HIDE DEF e
<1>8. Sound(Place(u, e), n) /\ Content(Place(u, e)) = Content(u) \cup {e}
  BY <1>2, <1>3, <1>5, <1>6, <1>7, PlaceFacts
<1>9. Filled(buckets, k) = Filled(buckets, k - 1) \cup {e}
  <2>1. 1 .. k = (1 .. k - 1) \cup {k}
    OBVIOUS
  <2> QED BY <1>3, <1>e, <2>1 DEF Filled
<1> QED BY <1>8, <1>9, <1>e DEF SoFar

\* A table that was built one entry at a time.
BuiltUp(g, n, buckets) ==
  /\ g[0] = [i \in 0 .. n - 1 |-> Vacant]
  /\ \A k \in 1 .. Len(buckets) :
       /\ IsEmpty(buckets[k]) => g[k] = g[k - 1]
       /\ ~IsEmpty(buckets[k]) /\ SoFar(g[k - 1], n, buckets, k - 1) =>
            g[k] = Place(g[k - 1], buckets[k])

\* Such a table holds what was placed, at every stage.
LEMMA BuiltUpFacts ==
  ASSUME NEW n \in Nat, n >= 2, NEW m \in Nat, m < n, m <= MaxIndexed,
         NEW buckets \in Seq(Buckets), Placeable(buckets, m), NEW g, BuiltUp(g, n, buckets)
  PROVE  \A k \in 0 .. Len(buckets) : SoFar(g[k], n, buckets, k)
<1> DEFINE len == Len(buckets)
           S   == {k \in 0 .. len : SoFar(g[k], n, buckets, k)}
<1>1. len \in Nat
  OBVIOUS
<1>2. 0 \in S
  <2>1. Sound(g[0], n) /\ Content(g[0]) = {}
    <3>1. g[0] = [i \in 0 .. n - 1 |-> Vacant] /\ n \in Nat \ {0}
      BY DEF BuiltUp
    <3> QED BY <3>1, NewTable
  <2>2. Filled(buckets, 0) = {}
    BY DEF Filled
  <2>3. SoFar(g[0], n, buckets, 0)
    BY <2>1, <2>2 DEF SoFar
  <2> QED BY <1>1, <2>3
<1>3. ASSUME NEW k \in 1 .. len, k - 1 \in S
      PROVE  k \in S
  <2>1. SoFar(g[k - 1], n, buckets, k - 1)
    BY <1>3
  <2> DEFINE u == g[k - 1]
  <2>2. u = g[k - 1]
    OBVIOUS
  <2> HIDE DEF u
  <2>3. CASE IsEmpty(buckets[k])
    <3>1. g[k] = g[k - 1]
      BY <2>3 DEF BuiltUp
    <3>2. Filled(buckets, k) = Filled(buckets, k - 1)
      <4>1. 1 .. k = (1 .. k - 1) \cup {k}
        OBVIOUS
      <4> QED BY <2>3, <4>1 DEF Filled
    <3>3. SoFar(g[k], n, buckets, k)
      BY <2>1, <3>1, <3>2 DEF SoFar
    <3> QED BY <1>1, <3>3
  <2>4. CASE ~IsEmpty(buckets[k])
    <3>1. g[k] = Place(g[k - 1], buckets[k])
      BY <2>1, <2>4 DEF BuiltUp
    <3>2. SoFar(Place(u, buckets[k]), n, buckets, k)
      BY <2>1, <2>2, <2>4, PlaceNext
    <3>3. SoFar(g[k], n, buckets, k)
      BY <2>2, <3>1, <3>2
    <3> QED BY <1>1, <3>3
  <2> QED BY <2>3, <2>4
<1> HIDE DEF S
<1>4. 0 .. len \subseteq S
  BY <1>1, <1>2, <1>3, UpToInduction
<1> QED BY <1>4 DEF S

\* Placing a list in a new table that is wider than the positions.
LEMMA PlacedFacts ==
  ASSUME NEW n \in Nat, n >= 2, NEW m \in Nat, m < n, m <= MaxIndexed,
         NEW buckets \in Seq(Buckets), Placeable(buckets, m)
  PROVE  /\ Sound(Placed(n, buckets), n)
         /\ Content(Placed(n, buckets)) = Filled(buckets, Len(buckets))
<1> DEFINE len     == Len(buckets)
           first   == [i \in 0 .. n - 1 |-> Vacant]
           X       == Tables(n)
           P(u, k) == IF IsEmpty(buckets[k]) THEN u ELSE Place(u, buckets[k])
           F       == [k \in 1 .. len |-> [u \in X |-> IF P(u, k) \in X THEN P(u, k) ELSE u]]
           G(h)    == [k \in 0 .. len |-> IF k = 0 THEN first ELSE P(h[k - 1], k)]
           run     == CHOOSE h : h = G(h)
<1>1. Placed(n, buckets) = run[len] /\ len \in Nat
  BY DEF Placed
<1>2. first \in X
  <2>1. n \in Nat \ {0}
    OBVIOUS
  <2> QED BY <2>1, NewTable DEF Sound
<1>3. run = CHOOSE h : h = G(h)
  OBVIOUS
<1>p. \A u, k : /\ IsEmpty(buckets[k]) => P(u, k) = u
                /\ ~IsEmpty(buckets[k]) => P(u, k) = Place(u, buckets[k])
  OBVIOUS
<1>f. first = [i \in 0 .. n - 1 |-> Vacant]
  OBVIOUS
<1>l. len = Len(buckets)
  OBVIOUS
<1> HIDE DEF run, first, len, P
<1>4. \E h : h = G(h)
  <2>1. F \in [1 .. len -> [X -> X]]
    OBVIOUS
  <2>2. \A k \in 1 .. len : \A u \in X : P(u, k) \in X => F[k][u] = P(u, k)
    OBVIOUS
  <2> HIDE DEF F, X
  <2>3. PICK g : IsRun(g, X, first, len, F)
    BY <1>1, <1>2, <2>1, RunExists
  <2>4. ASSUME NEW k \in 1 .. len, P(g[k - 1], k) \in X
        PROVE  g[k] = P(g[k - 1], k)
    <3>1. k - 1 \in 0 .. len
      BY <1>1
    <3>2. g[k - 1] \in X /\ g[k] = F[k][g[k - 1]]
      BY <2>3, <3>1 DEF IsRun
    <3> QED BY <2>2, <2>4, <3>2
  <2>5. ASSUME NEW k \in 1 .. len, IsEmpty(buckets[k]) \/ SoFar(g[k - 1], n, buckets, k - 1)
        PROVE  P(g[k - 1], k) \in X
    <3> DEFINE u == g[k - 1]
    <3>u. u = g[k - 1]
      OBVIOUS
    <3>x. u \in X
      <4>1. k - 1 \in 0 .. len
        BY <1>1
      <4> QED BY <2>3, <4>1 DEF IsRun
    <3>1. k \in 1 .. Len(buckets)
      BY <1>l
    <3>2. CASE IsEmpty(buckets[k])
      BY <1>p, <3>2, <3>x
    <3>3. CASE ~IsEmpty(buckets[k])
      <4>1. SoFar(u, n, buckets, k - 1)
        BY <2>5, <3>3
      <4> HIDE DEF u
      <4>2. SoFar(Place(u, buckets[k]), n, buckets, k)
        BY <3>1, <3>3, <4>1, PlaceNext
      <4> QED BY <1>p, <3>3, <3>u, <4>2 DEF SoFar, Sound, X
    <3> QED BY <3>2, <3>3
  <2>6. BuiltUp(g, n, buckets)
    <3>1. ASSUME NEW k \in 1 .. len, IsEmpty(buckets[k])
          PROVE  g[k] = g[k - 1]
      BY <1>p, <2>4, <2>5, <3>1
    <3>2. ASSUME NEW k \in 1 .. len, ~IsEmpty(buckets[k]), SoFar(g[k - 1], n, buckets, k - 1)
          PROVE  g[k] = Place(g[k - 1], buckets[k])
      BY <1>p, <2>4, <2>5, <3>2
    <3> QED BY <1>f, <1>l, <2>3, <3>1, <3>2 DEF BuiltUp, IsRun
  <2>7. \A k \in 0 .. len : SoFar(g[k], n, buckets, k)
    BY <1>l, <2>6, BuiltUpFacts
  <2>8. ASSUME NEW k \in 0 .. len
        PROVE  g[k] = IF k = 0 THEN first ELSE P(g[k - 1], k)
    <3>1. CASE k = 0
      BY <2>3, <3>1 DEF IsRun
    <3>2. CASE k # 0
      <4>1. k \in 1 .. len /\ k - 1 \in 0 .. len
        BY <1>1, <3>2
      <4>2. P(g[k - 1], k) \in X
        BY <2>5, <2>7, <4>1
      <4>3. g[k] = P(g[k - 1], k)
        BY <2>4, <4>1, <4>2
      <4> QED BY <3>2, <4>3
    <3> QED BY <3>1, <3>2
  <2>9. g = G(g)
    BY <2>3, <2>8 DEF IsRun
  <2> QED BY <2>9
<1>5. run = G(run)
  BY <1>3, <1>4
<1>6. BuiltUp(run, n, buckets)
  <2>1. \A k \in 0 .. len : run[k] = IF k = 0 THEN first ELSE P(run[k - 1], k)
    BY <1>5
  <2>2. 0 \in 0 .. len /\ \A k \in 1 .. len : k \in 0 .. len /\ k # 0
    BY <1>1
  <2>3. run[0] = first /\ \A k \in 1 .. len : run[k] = P(run[k - 1], k)
    <3> HIDE DEF G
    <3> QED BY <2>1, <2>2
  <2> QED BY <1>f, <1>l, <1>p, <2>3 DEF BuiltUp
<1>7. SoFar(run[len], n, buckets, len)
  <2>1. len \in 0 .. Len(buckets)
    BY <1>1, <1>l
  <2> QED BY <1>6, <2>1, BuiltUpFacts
<1> QED BY <1>1, <1>7, <1>l DEF SoFar

-----------------------------------------------------------------------------
(* Sizes, and tables built from the entries.                               *)

\* The least of a set of numbers is in it and is its least.
LEMMA LeastFacts ==
  ASSUME NEW S, S \subseteq Nat, S # {}
  PROVE  Least(S) \in S /\ \A k \in S : Least(S) <= k
<1>1. \E i \in S : \A j \in S : i <= j
  BY LeastElement
<1> QED BY <1>1 DEF Least

\* A table at its limit has a bucket free, and one of twice as many has room
\* for one more.
LEMMA LoadFacts ==
  ASSUME NEW n \in Nat, n >= 4
  PROVE  /\ LoadLimit(n) \in Nat /\ LoadLimit(n) < n
         /\ 2 * n \in Nat /\ LoadLimit(n) + 1 <= LoadLimit(2 * n)
BY DEF LoadLimit

\* The table for a number of entries has room for them.
LEMMA BucketsForFacts ==
  ASSUME NEW count \in Nat
  PROVE  /\ BucketsFor(count) \in Nat /\ BucketsFor(count) >= 4
         /\ count <= LoadLimit(BucketsFor(count))
<1> DEFINE Step(b) == 2 * b
           X       == Nat
           F       == [k \in 1 .. count |-> [b \in X |-> Step(b)]]
           G(h)    == [e \in 0 .. count |-> IF e = 0 THEN MinBuckets ELSE Step(h[e - 1])]
           run     == CHOOSE h : h = G(h)
           fits    == {e \in 0 .. count : count <= LoadLimit(run[e])}
<1>1. BucketsFor(count) = run[Least(fits)]
  BY DEF BucketsFor
<1>2. MinBuckets \in X /\ MinBuckets >= 4
  BY SizesAssumption
<1>3. run = CHOOSE h : h = G(h)
  OBVIOUS
<1> HIDE DEF run
<1>4. \E h : h = G(h)
  <2>1. F \in [1 .. count -> [X -> X]]
    OBVIOUS
  <2>2. \A k \in 1 .. count : \A b \in X : F[k][b] = Step(b)
    OBVIOUS
  <2> HIDE DEF F, X, Step
  <2>3. PICK g : IsRun(g, X, MinBuckets, count, F)
    BY <1>2, <2>1, RunExists
  <2>4. ASSUME NEW k \in 1 .. count
        PROVE  g[k] = Step(g[k - 1])
    <3>1. k - 1 \in 0 .. count
      OBVIOUS
    <3> QED BY <2>2, <2>3, <3>1 DEF IsRun
  <2>5. \A k \in 0 .. count : k # 0 => k \in 1 .. count
    OBVIOUS
  <2>6. g = G(g)
    BY <2>3, <2>4, <2>5 DEF IsRun
  <2> QED BY <2>6
<1>5. run = G(run)
  BY <1>3, <1>4
<1>6. run[0] = MinBuckets /\ \A k \in 1 .. count : run[k] = Step(run[k - 1])
  <2>1. \A k \in 0 .. count : run[k] = IF k = 0 THEN MinBuckets ELSE Step(run[k - 1])
    BY <1>5
  <2>2. 0 \in 0 .. count /\ \A k \in 1 .. count : k \in 0 .. count /\ k # 0
    OBVIOUS
  <2> HIDE DEF G, Step
  <2> QED BY <2>1, <2>2
<1> DEFINE S == {e \in 0 .. count : run[e] \in Nat /\ run[e] >= 4 * (e + 1)}
<1>7. 0 .. count \subseteq S
  <2>1. 0 \in S
    BY <1>2, <1>6
  <2>2. ASSUME NEW k \in 1 .. count, k - 1 \in S
        PROVE  k \in S
    <3>1. run[k] = 2 * run[k - 1] /\ run[k - 1] \in Nat /\ run[k - 1] >= 4 * ((k - 1) + 1)
      BY <1>6, <2>2
    <3> QED BY <3>1
  <2> HIDE DEF S
  <2> QED BY <2>1, <2>2, UpToInduction
<1>8. \A e \in 0 .. count : run[e] \in Nat /\ run[e] >= 4 * (e + 1)
  BY <1>7
<1>9. fits \subseteq Nat /\ fits # {}
  <2>1. run[count] \in Nat /\ run[count] >= 4 * (count + 1)
    BY <1>8
  <2>2. count <= LoadLimit(run[count])
    BY <2>1 DEF LoadLimit
  <2>3. count \in fits
    BY <2>2
  <2> QED BY <2>3
<1>10. Least(fits) \in fits
  <2> HIDE DEF fits
  <2> QED BY <1>9, LeastFacts
<1>11. run[Least(fits)] \in Nat /\ run[Least(fits)] >= 4 /\ count <= LoadLimit(run[Least(fits)])
  <2> DEFINE e == Least(fits)
  <2>1. e \in 0 .. count /\ count <= LoadLimit(run[e])
    BY <1>10
  <2> HIDE DEF e
  <2>2. run[e] \in Nat /\ run[e] >= 4 * (e + 1)
    BY <1>8, <2>1
  <2>3. run[e] >= 4
    BY <2>1, <2>2
  <2> QED BY <2>1, <2>2, <2>3 DEF e
<1> QED BY <1>1, <1>11

\* What a table is to hold.
Wanted(es, hash) == {[index |-> i - 1, hash |-> hash[es[i][1]]] : i \in DOMAIN es}

\* The table t of n buckets describes the entries.
Describes(t, n, es, hash) ==
  /\ n \in Nat /\ n >= 4 /\ Len(es) <= LoadLimit(n)
  /\ Sound(t, n) /\ Content(t) = Wanted(es, hash)

EntryLists == Seq(Key \X Value)
Hashes     == [Key -> Nat]

\* The bucket an entry is placed as.
LEMMA BucketForFacts ==
  ASSUME NEW es \in EntryLists, Len(es) <= MaxIndexed, hashKey \in Hashes,
         NEW i \in DOMAIN es
  PROVE  /\ BucketFor(es, i - 1) = [index |-> i - 1, hash |-> hashKey[es[i][1]]]
         /\ BucketFor(es, i - 1) \in Buckets
         /\ BucketFor(es, i - 1).index = i - 1 /\ i - 1 \in 0 .. Len(es) - 1
         /\ ~IsEmpty(BucketFor(es, i - 1))
<1>1. i \in 1 .. Len(es) /\ es[i] \in Key \X Value /\ Len(es) \in Nat /\ MaxIndexed \in Nat
  BY SizesAssumption DEF EntryLists
<1>2. es[i][1] \in Key
  BY <1>1
<1>3. hashKey[es[i][1]] \in Nat
  BY <1>2 DEF Hashes
<1>4. BucketFor(es, i - 1) = [index |-> i - 1, hash |-> hashKey[es[i][1]]]
  <2>1. (i - 1) + 1 = i
    BY <1>1
  <2> QED BY <2>1 DEF BucketFor
<1>5. i - 1 \in 0 .. Len(es) - 1 /\ i - 1 \in 0 .. MaxIndexed /\ i - 1 # MaxIndexed
  BY <1>1
<1> QED BY <1>3, <1>4, <1>5 DEF Buckets, IsEmpty, Empty

\* Rebuilding describes the entries.
LEMMA RebuiltFacts ==
  ASSUME NEW es \in EntryLists, Len(es) <= MaxIndexed, hashKey \in Hashes
  PROVE  Describes(Rebuilt(es), BucketsFor(Len(es)), es, hashKey)
<1> DEFINE m       == Len(es)
           n       == BucketsFor(m)
           buckets == [i \in DOMAIN es |-> BucketFor(es, i - 1)]
<1>1. m \in Nat /\ DOMAIN es = 1 .. m /\ m <= MaxIndexed
  BY DEF EntryLists
<1>2. n \in Nat /\ n >= 4 /\ m <= LoadLimit(n)
  <2> HIDE DEF m
  <2> QED BY <1>1, BucketsForFacts
<1>3. n >= 2 /\ m < n
  <2>1. LoadLimit(n) \in Nat /\ LoadLimit(n) < n
    BY <1>2, LoadFacts
  <2> QED BY <1>1, <1>2, <2>1
<1>4. buckets \in Seq(Buckets) /\ Len(buckets) = m /\ DOMAIN buckets = 1 .. m
  <2>1. \A i \in 1 .. m : BucketFor(es, i - 1) \in Buckets
    BY <1>1, BucketForFacts
  <2> QED BY <1>1, <2>1
<1>5. \A i \in 1 .. m : /\ buckets[i] = [index |-> i - 1, hash |-> hashKey[es[i][1]]]
                        /\ buckets[i].index = i - 1 /\ i - 1 \in 0 .. m - 1 /\ ~IsEmpty(buckets[i])
  BY <1>1, BucketForFacts
<1>6. Rebuilt(es) = Placed(n, buckets)
  BY DEF Rebuilt
<1>e. m = Len(es)
  OBVIOUS
<1> HIDE DEF buckets, n, m
<1>7. Placeable(buckets, m)
  BY <1>1, <1>4, <1>5 DEF Placeable
<1>8. Sound(Placed(n, buckets), n) /\ Content(Placed(n, buckets)) = Filled(buckets, m)
  BY <1>1, <1>2, <1>3, <1>4, <1>7, PlacedFacts
<1>9. Filled(buckets, m) = Wanted(es, hashKey)
  <2>1. Wanted(es, hashKey) = {buckets[i] : i \in 1 .. m}
    BY <1>1, <1>5 DEF Wanted
  <2>2. {j \in 1 .. m : ~IsEmpty(buckets[j])} = 1 .. m
    BY <1>5
  <2> QED BY <2>1, <2>2 DEF Filled
<1> QED BY <1>2, <1>6, <1>8, <1>9, <1>e DEF Describes, n

\* Growing keeps what there is.
LEMMA GrownFacts ==
  ASSUME NEW n \in Nat, n >= 2, NEW t, Sound(t, n), NEW m \in Nat, m < 2 * n, m <= MaxIndexed,
         \A b \in Content(t) : b.index \in 0 .. m - 1
  PROVE  Sound(Grown(t), 2 * n) /\ Content(Grown(t)) = Content(t)
<1> DEFINE buckets == [i \in 1 .. n |-> t[i - 1]]
           w       == 2 * n
<1>1. t \in Tables(n) /\ DOMAIN t = 0 .. n - 1 /\ Single(t) /\ n \in Nat \ {0}
  BY DEF Sound, Tables
<1>2. Grown(t) = Placed(w, buckets)
  BY <1>1, WalkFacts DEF Grown
<1>3. w \in Nat /\ w >= 2 /\ m < w
  OBVIOUS
<1>4. \A i \in 1 .. n : i - 1 \in 0 .. n - 1 /\ buckets[i] = t[i - 1]
  OBVIOUS
<1>5. \A j \in 0 .. n - 1 : j + 1 \in 1 .. n /\ buckets[j + 1] = t[j]
  OBVIOUS
<1>6. buckets \in Seq(Buckets) /\ Len(buckets) = n /\ DOMAIN buckets = 1 .. n
  BY <1>1, <1>4 DEF Tables
<1> HIDE DEF buckets, w
<1>7. Placeable(buckets, m)
  <2>1. ASSUME NEW i \in 1 .. n, ~IsEmpty(buckets[i])
        PROVE  buckets[i].index \in 0 .. m - 1
    <3>1. t[i - 1] \in Content(t)
      BY <1>1, <1>4, <2>1 DEF Content
    <3> QED BY <1>4, <3>1
  <2>2. ASSUME NEW i \in 1 .. n, NEW j \in 1 .. n, ~IsEmpty(buckets[i]),
               buckets[i].index = buckets[j].index
        PROVE  i = j
    <3>1. i - 1 = j - 1
      BY <1>1, <1>4, <2>2 DEF Single
    <3> QED BY <3>1
  <2> QED BY <1>6, <2>1, <2>2 DEF Placeable
<1>8. Sound(Placed(w, buckets), w) /\ Content(Placed(w, buckets)) = Filled(buckets, n)
  BY <1>3, <1>6, <1>7, PlacedFacts
<1>9. Filled(buckets, n) = Content(t)
  <2>1. Filled(buckets, n) \subseteq Content(t)
    BY <1>1, <1>4 DEF Filled, Content
  <2>2. Content(t) \subseteq Filled(buckets, n)
    BY <1>1, <1>5 DEF Filled, Content
  <2> QED BY <2>1, <2>2
<1> QED BY <1>2, <1>8, <1>9 DEF w

-----------------------------------------------------------------------------
(* Probing a table that describes the entries.                             *)

\* No two entries have one key.
Distinct(es) == \A i, j \in DOMAIN es : es[i][1] = es[j][1] => i = j

\* Every bucket in use has the hash of the key at its position.
LEMMA UsedBucket ==
  ASSUME NEW es \in EntryLists, NEW hash \in Hashes, NEW t, NEW n, Describes(t, n, es, hash),
         NEW x \in 0 .. n - 1, ~IsEmpty(t[x])
  PROVE  /\ t[x].index \in 0 .. Len(es) - 1 /\ t[x].index + 1 \in DOMAIN es
         /\ es[t[x].index + 1][1] \in Key
         /\ t[x].hash = hash[es[t[x].index + 1][1]]
<1>1. DOMAIN t = 0 .. n - 1
  BY DEF Describes, Sound, Tables
<1>2. t[x] \in Wanted(es, hash)
  BY <1>1 DEF Describes, Content
<1>3. PICK i \in DOMAIN es : t[x] = [index |-> i - 1, hash |-> hash[es[i][1]]]
  BY <1>2 DEF Wanted
<1>4. i \in 1 .. Len(es) /\ Len(es) \in Nat /\ es[i] \in Key \X Value
  BY DEF EntryLists
<1>5. t[x].index = i - 1 /\ t[x].hash = hash[es[i][1]] /\ (i - 1) + 1 = i /\ es[i][1] \in Key
  BY <1>3, <1>4
<1>6. i - 1 \in 0 .. Len(es) - 1
  BY <1>4
<1> QED BY <1>5, <1>6

\* Every position has a bucket.
LEMMA BucketThere ==
  ASSUME NEW es \in EntryLists, Len(es) <= MaxIndexed, NEW hash, NEW t, NEW n,
         Describes(t, n, es, hash), NEW i \in DOMAIN es
  PROVE  \E x \in 0 .. n - 1 : t[x] = [index |-> i - 1, hash |-> hash[es[i][1]]] /\ ~IsEmpty(t[x])
<1>1. DOMAIN t = 0 .. n - 1
  BY DEF Describes, Sound, Tables
<1>2. [index |-> i - 1, hash |-> hash[es[i][1]]] \in Wanted(es, hash)
  BY DEF Wanted
<1>3. [index |-> i - 1, hash |-> hash[es[i][1]]] \in Content(t)
  BY <1>2 DEF Describes
<1> QED BY <1>1, <1>3 DEF Content

\* Some bucket is free.
LEMMA RoomLeft ==
  ASSUME NEW es \in EntryLists, NEW hash \in Hashes, NEW t, NEW n, Describes(t, n, es, hash)
  PROVE  \E x \in 0 .. n - 1 : IsEmpty(t[x])
<1> DEFINE m == Len(es)
<1>1. m \in Nat
  BY DEF EntryLists
<1>2. n \in Nat /\ n >= 4 /\ m <= LoadLimit(n) /\ t \in Tables(n) /\ Single(t) /\ DOMAIN t = 0 .. n - 1
  BY DEF Describes, Sound, Tables
<1>3. m < n
  <2>1. LoadLimit(n) \in Nat /\ LoadLimit(n) < n
    BY <1>2, LoadFacts
  <2> QED BY <1>1, <1>2, <2>1
<1>4. ASSUME NEW b \in Content(t)
      PROVE  b.index \in 0 .. m - 1
  <2>1. PICK x \in 0 .. n - 1 : b = t[x] /\ ~IsEmpty(t[x])
    BY <1>2 DEF Content
  <2> QED BY <2>1, UsedBucket
<1> HIDE DEF m
<1> QED BY <1>1, <1>2, <1>3, <1>4, HasEmpty

\* Whatever the key, the walk ends.
LEMMA ProbeEnds ==
  ASSUME NEW es \in EntryLists, NEW hash \in Hashes, NEW t, NEW n, Describes(t, n, es, hash),
         NEW h \in Nat
  PROVE  ProbeStops(t, h) # {}
<1>1. n \in Nat \ {0} /\ t \in Tables(n)
  BY DEF Describes, Sound
<1>2. PICK x \in 0 .. n - 1 : IsEmpty(t[x])
  BY RoomLeft
<1> DEFINE d == Away(x, h, n)
<1>3. d \in 0 .. n - 1 /\ Round(h, d, n) = x
  BY <1>1, AwayFacts
<1> HIDE DEF d
<1>4. Cap(t) = n /\ Walk(t, h, d) = Round(h, d, n)
  BY <1>1, WalkFacts
<1>5. d \in ProbeStops(t, h)
  BY <1>2, <1>3, <1>4 DEF ProbeStops
<1> QED BY <1>5

\* The walk from an entry's home meets it, where its distance says and nowhere
\* else, before it stops.
LEMMA OneHit ==
  ASSUME NEW n \in Nat \ {0}, NEW t, Sound(t, n), NEW x \in 0 .. n - 1, ~IsEmpty(t[x]),
         NEW h, h = t[x].hash, NEW D, D = Far(t, n, x)
  PROVE  /\ D \in 0 .. Cap(t) - 1 /\ Walk(t, h, D) = x
         /\ \A d \in 0 .. Cap(t) - 1 : t[Walk(t, h, d)].index = t[x].index => d = D
         /\ \A d \in ProbeStops(t, h) : ~(d <= D)
<1>1. t \in Tables(n) /\ DOMAIN t = 0 .. n - 1 /\ Single(t) /\ InOrder(t, n)
  BY DEF Sound, Tables
<1>2. Cap(t) = n /\ \A d : Walk(t, h, d) = Round(h, d, n)
  BY <1>1, WalkFacts
<1>3. h \in Nat /\ D \in 0 .. n - 1 /\ Round(h, D, n) = x
  BY <1>1, FarFacts
<1>4. ASSUME NEW d \in 0 .. n - 1, t[Round(h, d, n)].index = t[x].index
      PROVE  d = D
  <2>1. Round(h, d, n) \in 0 .. n - 1 /\ Away(Round(h, d, n), h, n) = d
    BY <1>3, RoundFacts
  <2>2. Round(h, d, n) = x
    BY <1>1, <1>4, <2>1 DEF Single
  <2> QED BY <2>1, <2>2 DEF Far
<1>5. ASSUME NEW d \in ProbeStops(t, h), d <= D
      PROVE  FALSE
  <2> DEFINE at == Round(h, d, n)
  <2>1. d \in 0 .. D /\ d \in 0 .. n - 1
    BY <1>2, <1>3, <1>5 DEF ProbeStops
  <2>2. IsEmpty(t[at]) \/ Distance(t, at) < d
    BY <1>2, <1>5 DEF ProbeStops
  <2>3. Distance(t, at) = Far(t, n, at)
    BY <1>1, WalkFacts
  <2>4. at \in 0 .. n - 1 /\ ~IsEmpty(t[at]) /\ Far(t, n, at) >= d
    BY <1>1, <2>1, ChainFacts
  <2>5. Far(t, n, at) \in 0 .. n - 1
    BY <1>1, <2>4, FarFacts
  <2> HIDE DEF at
  <2> QED BY <2>1, <2>2, <2>3, <2>4, <2>5
<1> QED BY <1>2, <1>3, <1>4, <1>5

\* The least of one number.
LEMMA LeastOne ==
  ASSUME NEW D \in Nat
  PROVE  Least({D}) = D
BY DEF Least

\* find finds the position of a key, and nothing for a key that is not there.
LEMMA FindFacts ==
  ASSUME NEW es \in EntryLists, Len(es) <= MaxIndexed, Distinct(es), hashKey \in Hashes,
         NEW t, NEW n, Describes(t, n, es, hashKey), NEW key \in Key
  PROVE  /\ \A i \in DOMAIN es : es[i][1] = key => Find(t, es, key) = i - 1
         /\ (\A i \in DOMAIN es : es[i][1] # key) => Find(t, es, key) = NotFound
<1> DEFINE h     == hashKey[key]
           stops == ProbeStops(t, h)
           hits  == {d \in 0 .. Cap(t) - 1 :
                       LET b == t[Walk(t, h, d)] IN
                       ~IsEmpty(b) /\ b.hash = h /\ es[b.index + 1][1] = key}
<1>1. Find(t, es, key) = IF hits = {} \/ \E d \in stops : d <= Least(hits)
                         THEN NotFound ELSE t[Walk(t, h, Least(hits))].index
  BY DEF Find
<1>2. n \in Nat \ {0} /\ Sound(t, n) /\ t \in Tables(n)
  BY DEF Describes, Sound
<1>3. h \in Nat
  BY DEF Hashes
<1>4. Cap(t) = n /\ \A d : Walk(t, h, d) = Round(h, d, n)
  BY <1>2, WalkFacts
<1>5. ASSUME NEW d \in hits
      PROVE  \E i \in DOMAIN es : es[i][1] = key /\ t[Walk(t, h, d)].index = i - 1
  <2> DEFINE x == Walk(t, h, d)
  <2>1. d \in 0 .. n - 1 /\ ~IsEmpty(t[x]) /\ es[t[x].index + 1][1] = key
    BY <1>4
  <2>2. x \in 0 .. n - 1
    <3>1. x = Round(h, d, n)
      BY <1>4
    <3> HIDE DEF x, h
    <3>2. Round(h, d, n) \in 0 .. n - 1
      BY <1>2, <1>3, <2>1, RoundFacts
    <3> QED BY <3>1, <3>2
  <2> HIDE DEF x
  <2>3. t[x].index \in 0 .. Len(es) - 1 /\ t[x].index + 1 \in DOMAIN es
    BY <2>1, <2>2, UsedBucket
  <2>4. Len(es) \in Nat
    BY DEF EntryLists
  <2>5. t[x].index = (t[x].index + 1) - 1
    BY <2>3, <2>4
  <2> QED BY <2>1, <2>3, <2>5 DEF x
<1>6. ASSUME \A i \in DOMAIN es : es[i][1] # key
      PROVE  Find(t, es, key) = NotFound
  <2>1. hits = {}
    <3> HIDE DEF hits
    <3> QED BY <1>5, <1>6
  <2> QED BY <1>1, <2>1
<1>7. ASSUME NEW i \in DOMAIN es, es[i][1] = key
      PROVE  Find(t, es, key) = i - 1
  <2>1. PICK x \in 0 .. n - 1 : t[x] = [index |-> i - 1, hash |-> h] /\ ~IsEmpty(t[x])
    BY <1>7, BucketThere
  <2>2. t[x].index = i - 1 /\ t[x].hash = h
    BY <2>1
  <2>3. (i - 1) + 1 = i
    BY DEF EntryLists
  <2> DEFINE D == Far(t, n, x)
  <2>4. /\ D \in 0 .. Cap(t) - 1 /\ Walk(t, h, D) = x
        /\ \A d \in 0 .. Cap(t) - 1 : t[Walk(t, h, d)].index = t[x].index => d = D
        /\ \A d \in stops : ~(d <= D)
    <3>1. D = Far(t, n, x) /\ h = t[x].hash
      BY <2>2
    <3> DEFINE hh == h
    <3>2. hh = h /\ D = Far(t, n, x) /\ hh = t[x].hash
      BY <3>1
    <3> HIDE DEF D, hh
    <3>3. /\ D \in 0 .. Cap(t) - 1 /\ Walk(t, hh, D) = x
          /\ \A d \in 0 .. Cap(t) - 1 : t[Walk(t, hh, d)].index = t[x].index => d = D
          /\ \A d \in ProbeStops(t, hh) : ~(d <= D)
      BY <1>2, <2>1, <3>2, OneHit
    <3> QED BY <3>2, <3>3
  <2> HIDE DEF D, stops
  <2>5. D \in hits
    BY <1>7, <2>1, <2>2, <2>3, <2>4
  <2>6. ASSUME NEW d \in hits
        PROVE  d = D
    <3>1. PICK j \in DOMAIN es : es[j][1] = key /\ t[Walk(t, h, d)].index = j - 1
      BY <1>5
    <3>2. j = i
      BY <1>7, <3>1 DEF Distinct
    <3>3. d \in 0 .. Cap(t) - 1
      OBVIOUS
    <3> QED BY <2>2, <2>4, <3>1, <3>2, <3>3
  <2> HIDE DEF hits
  <2>7. hits = {D}
    BY <2>5, <2>6
  <2>8. Least(hits) = D
    <3>1. D \in Nat
      BY <1>2, <1>4, <2>4
    <3> QED BY <2>7, <3>1, LeastOne
  <2> QED BY <1>1, <2>2, <2>4, <2>7, <2>8
<1> QED BY <1>6, <1>7

\* bucket_of finds the bucket of a position.
LEMMA BucketOfFacts ==
  ASSUME NEW es \in EntryLists, Len(es) <= MaxIndexed, hashKey \in Hashes,
         NEW t, NEW n, Describes(t, n, es, hashKey), NEW i \in DOMAIN es,
         NEW x, x = BucketOf(t, es, i - 1)
  PROVE  x \in 0 .. n - 1 /\ ~IsEmpty(t[x]) /\ t[x].index = i - 1
<1> DEFINE h    == hashKey[es[i][1]]
           hits == {d \in 0 .. Cap(t) - 1 : t[Walk(t, h, d)].index = i - 1}
<1>1. BucketOf(t, es, i - 1) = Walk(t, h, Least(hits))
  <2>1. (i - 1) + 1 = i
    BY DEF EntryLists
  <2> QED BY <2>1 DEF BucketOf
<1>2. n \in Nat \ {0} /\ Sound(t, n) /\ t \in Tables(n)
  BY DEF Describes, Sound
<1>3. PICK y \in 0 .. n - 1 : t[y] = [index |-> i - 1, hash |-> h] /\ ~IsEmpty(t[y])
  BY BucketThere
<1>4. t[y].index = i - 1 /\ t[y].hash = h
  BY <1>3
<1> DEFINE D == Far(t, n, y)
<1>5. /\ D \in 0 .. Cap(t) - 1 /\ Walk(t, h, D) = y
      /\ \A d \in 0 .. Cap(t) - 1 : t[Walk(t, h, d)].index = t[y].index => d = D
  <2>1. D = Far(t, n, y) /\ h = t[y].hash
    BY <1>4
  <2> HIDE DEF D, h
  <2> QED BY <1>2, <1>3, <2>1, OneHit
<1> HIDE DEF D
<1>6. hits = {D}
  BY <1>4, <1>5
<1>7. D \in Nat
  BY <1>2, <1>5, WalkFacts
<1> HIDE DEF hits
<1>8. Least(hits) = D
  BY <1>6, <1>7, LeastOne
<1> QED BY <1>1, <1>3, <1>4, <1>5, <1>8

-----------------------------------------------------------------------------
(* Erasing.                                                                *)

\* What erase makes of t: the run after the hole ends at an empty bucket or an
\* entry at home, each bucket before it takes its successor's entry, and the
\* last of them is left empty.
Erased(u, t, n, at, run) ==
  /\ run \in 1 .. n - 1
  /\ \A d \in 1 .. run - 1 : ~IsEmpty(t[Round(at, d, n)]) /\ Far(t, n, Round(at, d, n)) # 0
  /\ IsEmpty(t[Round(at, run, n)]) \/ Far(t, n, Round(at, run, n)) = 0
  /\ DOMAIN u = 0 .. n - 1 /\ u = [i \in 0 .. n - 1 |-> u[i]]
  /\ \A i \in 0 .. n - 1 :
       /\ Away(i, at, n) < run - 1 => u[i] = t[After(i, n)]
       /\ Away(i, at, n) = run - 1 => u[i] = Vacant
       /\ Away(i, at, n) > run - 1 => u[i] = t[i]

\* erase moves the run behind the hole one back, and nothing else.
LEMMA EraseShape ==
  ASSUME NEW n \in Nat, n >= 2, NEW t \in Tables(n), NEW at \in 0 .. n - 1, ~IsEmpty(t[at]),
         NEW x \in 0 .. n - 1, IsEmpty(t[x])
  PROVE  \E run : Erased(Erase(t, at), t, n, at, run)
<1> DEFINE ends == {d \in 1 .. n : LET i == (at + d) % n IN IsEmpty(t[i]) \/ Distance(t, i) = 0}
           run  == Least(ends)
           u    == Erase(t, at)
<1>1. n \in Nat \ {0} /\ at \in Nat /\ DOMAIN t = 0 .. n - 1 /\ Cap(t) = n
  BY WalkFacts DEF Tables
<1>2. \A d \in 1 .. n : d \in ends <=> IsEmpty(t[Round(at, d, n)]) \/ Far(t, n, Round(at, d, n)) = 0
  BY <1>1, WalkFacts DEF Round
<1>3. u = [i \in 0 .. n - 1 |->
             CASE Away(i, at, n) < run - 1 -> t[After(i, n)]
               [] Away(i, at, n) = run - 1 -> Vacant
               [] Away(i, at, n) > run - 1 -> t[i]]
  BY <1>1 DEF Erase, Away, After
<1>s. ends \subseteq 1 .. n
  OBVIOUS
<1>r. run = Least(ends)
  OBVIOUS
<1> HIDE DEF ends, run, u
<1> DEFINE d == Away(x, at, n)
<1>4. d \in 1 .. n - 1 /\ d \in ends
  <2>1. d \in 0 .. n - 1 /\ Round(at, d, n) = x
    BY <1>1, AwayFacts
  <2>2. d # 0
    <3>1. (at + 0) % n = at
      <4>1. at + 0 = at /\ at % n = at
        OBVIOUS
      <4> QED BY <4>1
    <3>2. Round(at, 0, n) = at
      BY <3>1 DEF Round
    <3> HIDE DEF d
    <3> QED BY <2>1, <3>2
  <2> HIDE DEF d
  <2> QED BY <1>2, <2>1, <2>2
<1>5. run \in ends /\ \A k \in ends : run <= k
  <2>1. ends \subseteq Nat /\ ends # {}
    BY <1>4, <1>s
  <2> QED BY <1>r, <2>1, LeastFacts
<1>6. run \in 1 .. n - 1
  <2> HIDE DEF d
  <2> QED BY <1>4, <1>5, <1>s
<1>7. \A k \in 1 .. run - 1 : ~IsEmpty(t[Round(at, k, n)]) /\ Far(t, n, Round(at, k, n)) # 0
  <2> SUFFICES ASSUME NEW k \in 1 .. run - 1,
                      IsEmpty(t[Round(at, k, n)]) \/ Far(t, n, Round(at, k, n)) = 0
               PROVE  FALSE
    OBVIOUS
  <2>1. k \in 1 .. n
    BY <1>6
  <2>2. run <= k
    BY <1>2, <1>5, <2>1
  <2> QED BY <1>6, <2>2
<1>8. IsEmpty(t[Round(at, run, n)]) \/ Far(t, n, Round(at, run, n)) = 0
  BY <1>2, <1>5, <1>s
<1>9. ASSUME NEW i \in 0 .. n - 1
      PROVE  /\ Away(i, at, n) < run - 1 => u[i] = t[After(i, n)]
             /\ Away(i, at, n) = run - 1 => u[i] = Vacant
             /\ Away(i, at, n) > run - 1 => u[i] = t[i]
  <2> DEFINE a == Away(i, at, n)
  <2>1. a \in 0 .. n - 1
    BY <1>1, AwayFacts
  <2>2. u[i] = CASE a < run - 1 -> t[After(i, n)]
                 [] a = run - 1 -> Vacant
                 [] a > run - 1 -> t[i]
    BY <1>3
  <2> HIDE DEF a
  <2>3. /\ a < run - 1 => u[i] = t[After(i, n)]
        /\ a = run - 1 => u[i] = Vacant
        /\ a > run - 1 => u[i] = t[i]
    BY <1>6, <2>1, <2>2
  <2> QED BY <2>3 DEF a
<1>10. DOMAIN u = 0 .. n - 1 /\ u = [i \in 0 .. n - 1 |-> u[i]]
  <2> DEFINE val(i) == CASE Away(i, at, n) < run - 1 -> t[After(i, n)]
                         [] Away(i, at, n) = run - 1 -> Vacant
                         [] Away(i, at, n) > run - 1 -> t[i]
  <2>1. u = [i \in 0 .. n - 1 |-> val(i)]
    BY <1>3
  <2> HIDE DEF val
  <2> QED BY <2>1
<1>11. Erased(u, t, n, at, run)
  BY <1>6, <1>7, <1>8, <1>9, <1>10 DEF Erased
<1> QED BY <1>11 DEF u

\* An entry that moved back is one nearer home.
LEMMA MovedBack ==
  ASSUME NEW n \in Nat, n >= 2, NEW t \in Tables(n), NEW at \in 0 .. n - 1, NEW run, NEW u,
         Erased(u, t, n, at, run), NEW i \in 0 .. n - 1, Away(i, at, n) < run - 1,
         NEW j, j = After(i, n)
  PROVE  /\ j \in 0 .. n - 1 /\ Away(j, at, n) = Away(i, at, n) + 1
         /\ ~IsEmpty(t[j]) /\ u[i] = t[j]
         /\ Far(u, n, i) \in 0 .. n - 1 /\ Far(t, n, j) = Far(u, n, i) + 1
<1> DEFINE d == Away(i, at, n)
<1>1. n \in Nat \ {0} /\ at \in Nat /\ run \in 1 .. n - 1
  BY DEF Erased
<1>2. d \in 0 .. n - 1
  BY <1>1, AwayFacts
<1>3. d < run - 1
  OBVIOUS
<1>4. j \in 0 .. n - 1 /\ Away(j, at, n) = d + 1
  <2>1. d < n - 1
    <3> HIDE DEF d
    <3> QED BY <1>1, <1>2, <1>3
  <2> QED BY <1>1, <2>1, AfterAway
<1>d. d = Away(i, at, n)
  OBVIOUS
<1> HIDE DEF d
<1>5. d + 1 \in 1 .. run - 1
  BY <1>1, <1>2, <1>3
<1>6. Round(at, d + 1, n) = j
  BY <1>1, <1>4, AwayFacts
<1>7. ~IsEmpty(t[j]) /\ Far(t, n, j) # 0
  BY <1>5, <1>6 DEF Erased
<1>8. u[i] = t[j]
  BY <1>3, <1>d DEF Erased
<1> DEFINE h == t[j].hash
<1>9. h \in Nat /\ Far(t, n, j) \in 0 .. n - 1
  BY <1>1, <1>4, FarFacts
<1>10. Far(t, n, j) = Away(j, h, n) /\ Far(u, n, i) = Away(i, h, n)
  BY <1>8 DEF Far
<1> HIDE DEF h
<1>11. Away(i, h, n) \in 0 .. n - 1
  BY <1>1, <1>9, AwayFacts
<1>12. /\ Away(i, h, n) < n - 1 => Away(j, h, n) = Away(i, h, n) + 1
       /\ Away(i, h, n) = n - 1 => Away(j, h, n) = 0
  BY <1>1, <1>9, AfterAway
<1>13. Away(j, h, n) = Away(i, h, n) + 1
  BY <1>1, <1>7, <1>10, <1>11, <1>12
<1> QED BY <1>4, <1>7, <1>8, <1>10, <1>11, <1>13, <1>d

\* Erasing leaves robin hood order.
LEMMA ErasedInOrder ==
  ASSUME NEW n \in Nat, n >= 2, NEW t \in Tables(n), InOrder(t, n), NEW at \in 0 .. n - 1,
         ~IsEmpty(t[at]), NEW run, NEW u, Erased(u, t, n, at, run)
  PROVE  InOrder(u, n)
<1> SUFFICES ASSUME NEW i \in 0 .. n - 1 PROVE Follows(u, n, i, After(i, n))
  BY DEF InOrder
<1> DEFINE j == After(i, n)
           d == Away(i, at, n)
           e == Away(j, at, n)
<1>1. n \in Nat \ {0} /\ at \in Nat /\ run \in 1 .. n - 1
  BY DEF Erased
<1>2. d \in 0 .. n - 1 /\ j \in 0 .. n - 1 /\ (d < n - 1 => e = d + 1) /\ (d = n - 1 => e = 0)
  BY <1>1, AwayFacts, AfterAway
<1>3. IsEmpty(Vacant)
  BY DEF IsEmpty, Vacant
<1>4. /\ d < run - 1 => u[i] = t[j]
      /\ d = run - 1 => u[i] = Vacant
      /\ d > run - 1 => u[i] = t[i]
      /\ e = run - 1 => u[j] = Vacant
      /\ e > run - 1 => u[j] = t[j]
  BY <1>2 DEF Erased
<1>5. Follows(t, n, i, j)
  BY DEF InOrder
<1>6. CASE d + 1 < run - 1
  <2> DEFINE k == After(j, n)
  <2>1. e = d + 1 /\ e < run - 1 /\ d < run - 1
    <3> HIDE DEF d, e, j
    <3> QED BY <1>1, <1>2, <1>6
  <2>2. ~IsEmpty(t[j]) /\ u[i] = t[j] /\ Far(u, n, i) \in 0 .. n - 1 /\ Far(t, n, j) = Far(u, n, i) + 1
    <3>1. Away(i, at, n) < run - 1 /\ j = After(i, n)
      BY <2>1
    <3> HIDE DEF j
    <3> QED BY <3>1, MovedBack
  <2>3. /\ k \in 0 .. n - 1 /\ u[j] = t[k]
        /\ Far(u, n, j) \in 0 .. n - 1 /\ Far(t, n, k) = Far(u, n, j) + 1
    <3>1. Away(j, at, n) < run - 1 /\ k = After(j, n)
      BY <2>1
    <3> HIDE DEF j, k
    <3> QED BY <1>2, <3>1, MovedBack
  <2>4. Follows(t, n, j, k)
    BY <1>2 DEF InOrder
  <2> HIDE DEF j, k, d, e
  <2>5. ~IsEmpty(u[i]) /\ (~IsEmpty(u[j]) => Far(u, n, j) <= Far(u, n, i) + 1)
    <3>1. IsEmpty(u[j]) \/ Far(t, n, k) <= Far(t, n, j) + 1
      BY <2>2, <2>3, <2>4 DEF Follows
    <3> QED BY <2>2, <2>3, <3>1
  <2> QED BY <2>5 DEF Follows, j
<1>7. CASE d + 1 = run - 1
  <2>1. e = run - 1
    <3> HIDE DEF d, e, j
    <3> QED BY <1>1, <1>2, <1>7
  <2> QED BY <1>3, <1>4, <2>1 DEF Follows
<1>8. CASE d = run - 1
  <2>1. e = run /\ e > run - 1
    <3> HIDE DEF d, e, j
    <3> QED BY <1>1, <1>2, <1>8
  <2>2. Round(at, run, n) = j
    BY <1>1, <1>2, <2>1, AwayFacts
  <2>3. u[j] = t[j] /\ IsEmpty(u[i])
    BY <1>3, <1>4, <1>8, <2>1
  <2>4. IsEmpty(t[j]) \/ Far(t, n, j) = 0
    BY <2>2 DEF Erased
  <2>5. Far(u, n, j) = Far(t, n, j)
    BY <2>3 DEF Far
  <2> QED BY <2>3, <2>4, <2>5 DEF Follows
<1>9. CASE d > run - 1 /\ d < n - 1
  <2>1. e > run - 1
    <3> HIDE DEF d, e, j
    <3> QED BY <1>1, <1>2, <1>9
  <2>2. u[j] = t[j] /\ u[i] = t[i]
    BY <1>4, <1>9, <2>1
  <2>3. Far(u, n, j) = Far(t, n, j) /\ Far(u, n, i) = Far(t, n, i)
    BY <2>2 DEF Far
  <2> QED BY <1>5, <2>2, <2>3 DEF Follows
<1>10. CASE d = n - 1
  <2>1. d > run - 1 /\ e = 0
    <3> HIDE DEF d, e, j
    <3> QED BY <1>1, <1>2, <1>10
  <2>2. Round(at, 0, n) = j /\ Round(at, 0, n) = at
    <3>1. Round(at, 0, n) = j
      BY <1>1, <1>2, <2>1, AwayFacts
    <3>2. at + 0 = at /\ at % n = at
      OBVIOUS
    <3>3. Round(at, 0, n) = at
      BY <3>2 DEF Round
    <3> QED BY <3>1, <3>3
  <2>3. ~IsEmpty(t[j]) /\ u[i] = t[i]
    BY <1>4, <2>1, <2>2
  <2>4. Far(u, n, i) = Far(t, n, i)
    BY <2>3 DEF Far
  <2>5. Far(t, n, i) \in 0 .. n - 1 /\ Far(t, n, j) \in 0 .. n - 1
    BY <1>1, <1>2, FarFacts
  <2>6. CASE run = 1
    BY <1>3, <1>4, <2>1, <2>6 DEF Follows
  <2>7. CASE run # 1
    <3> DEFINE k == After(j, n)
    <3>1. e < run - 1
      <4> HIDE DEF d, e, j
      <4> QED BY <1>1, <2>1, <2>7
    <3>2. /\ k \in 0 .. n - 1 /\ u[j] = t[k] /\ ~IsEmpty(t[k])
          /\ Far(u, n, j) \in 0 .. n - 1 /\ Far(t, n, k) = Far(u, n, j) + 1
      <4>1. Away(j, at, n) < run - 1 /\ k = After(j, n)
        BY <3>1
      <4> HIDE DEF j, k
      <4> QED BY <1>2, <4>1, MovedBack
    <3>3. Follows(t, n, j, k)
      BY <1>2 DEF InOrder
    <3>j. j = After(i, n)
      OBVIOUS
    <3> HIDE DEF j, k, d, e
    <3>4. Far(t, n, k) <= Far(t, n, j) + 1
      BY <2>3, <3>2, <3>3 DEF Follows
    <3>5. Far(u, n, j) <= Far(t, n, j)
      BY <2>5, <3>2, <3>4
    <3>6. CASE IsEmpty(t[i])
      <4>1. Far(t, n, j) = 0
        BY <1>5, <2>3, <3>6 DEF Follows
      <4>2. Far(u, n, j) = 0
        BY <3>2, <3>5, <4>1
      <4> QED BY <2>3, <3>6, <3>j, <4>2 DEF Follows
    <3>7. CASE ~IsEmpty(t[i])
      <4>1. Far(t, n, j) <= Far(t, n, i) + 1
        BY <1>5, <2>3, <3>7 DEF Follows
      <4>2. Far(u, n, j) <= Far(u, n, i) + 1
        BY <2>4, <2>5, <3>2, <3>5, <4>1
      <4> QED BY <2>3, <3>7, <3>j, <4>2 DEF Follows
    <3> QED BY <3>6, <3>7
  <2> QED BY <2>6, <2>7
<1>11. \/ d + 1 < run - 1 \/ d + 1 = run - 1 \/ d = run - 1
       \/ (d > run - 1 /\ d < n - 1) \/ d = n - 1
  <2> HIDE DEF d, e, j
  <2> QED BY <1>1, <1>2
<1> QED BY <1>6, <1>7, <1>8, <1>9, <1>10, <1>11

\* The bucket whose entry a bucket has after erase, if any.
Source(i, n, at, run) == IF Away(i, at, n) < run - 1 THEN After(i, n) ELSE i

\* Every entry there is after erase came from one bucket before it.
LEMMA SourceFacts ==
  ASSUME NEW n \in Nat, n >= 2, NEW t \in Tables(n), NEW at \in 0 .. n - 1,
         NEW run, NEW u, Erased(u, t, n, at, run), NEW i \in 0 .. n - 1, ~IsEmpty(u[i]),
         NEW k, k = Source(i, n, at, run)
  PROVE  /\ k \in 0 .. n - 1 /\ u[i] = t[k] /\ Away(k, at, n) \in 1 .. n - 1
         /\ Away(i, at, n) < run - 1 => Away(k, at, n) < run
         /\ ~(Away(i, at, n) < run - 1) => Away(k, at, n) >= run
<1> DEFINE d == Away(i, at, n)
<1>1. n \in Nat \ {0} /\ at \in Nat /\ run \in 1 .. n - 1
  BY DEF Erased
<1>2. d \in 0 .. n - 1
  BY <1>1, AwayFacts
<1>3. CASE d < run - 1
  <2>1. k = After(i, n)
    BY <1>3 DEF Source
  <2>2. k \in 0 .. n - 1 /\ Away(k, at, n) = d + 1 /\ u[i] = t[k]
    BY <1>3, <2>1, MovedBack
  <2>3. d + 1 \in 1 .. n - 1 /\ d + 1 < run
    <3> HIDE DEF d
    <3> QED BY <1>1, <1>2, <1>3
  <2> QED BY <1>3, <2>2, <2>3
<1>4. CASE ~(d < run - 1)
  <2>1. k = i
    BY <1>4 DEF Source
  <2>2. d # run - 1
    BY DEF Erased, IsEmpty, Vacant
  <2>3. d > run - 1 /\ d >= run /\ d \in 1 .. n - 1
    <3> HIDE DEF d
    <3> QED BY <1>1, <1>2, <1>4, <2>2
  <2>4. u[i] = t[i]
    BY <2>3 DEF Erased
  <2> QED BY <1>4, <2>1, <2>3, <2>4
<1> QED BY <1>3, <1>4

\* Erasing takes the one entry out.
LEMMA EraseFacts ==
  ASSUME NEW n \in Nat, n >= 2, NEW t, Sound(t, n), NEW at \in 0 .. n - 1, ~IsEmpty(t[at]),
         NEW x \in 0 .. n - 1, IsEmpty(t[x])
  PROVE  Sound(Erase(t, at), n) /\ Content(Erase(t, at)) = Content(t) \ {t[at]}
<1> DEFINE u == Erase(t, at)
<1>1. /\ t \in Tables(n) /\ DOMAIN t = 0 .. n - 1 /\ InOrder(t, n) /\ Single(t)
      /\ n \in Nat \ {0} /\ at \in Nat
  BY DEF Sound, Tables
<1>2. PICK run : Erased(u, t, n, at, run)
  BY <1>1, EraseShape
<1>u. u = Erase(t, at)
  OBVIOUS
<1> HIDE DEF u
<1>3. DOMAIN u = 0 .. n - 1 /\ run \in 1 .. n - 1
  BY <1>2 DEF Erased
<1> DEFINE Src(i) == Source(i, n, at, run)
<1>4. \A i \in 0 .. n - 1 : ~IsEmpty(u[i]) =>
        /\ Src(i) \in 0 .. n - 1 /\ u[i] = t[Src(i)] /\ Away(Src(i), at, n) \in 1 .. n - 1
        /\ Away(i, at, n) < run - 1 => Away(Src(i), at, n) < run
        /\ ~(Away(i, at, n) < run - 1) => Away(Src(i), at, n) >= run
  BY <1>1, <1>2, SourceFacts
<1>5. u \in Tables(n)
  <2>1. Vacant \in Buckets
    BY SizesAssumption DEF Vacant, Buckets, Empty
  <2>2. ASSUME NEW i \in 0 .. n - 1
        PROVE  u[i] \in Buckets
    <3>1. After(i, n) \in 0 .. n - 1 /\ Away(i, at, n) \in 0 .. n - 1
      BY <1>1, AwayFacts, AfterAway
    <3>2. Away(i, at, n) < run - 1 \/ Away(i, at, n) = run - 1 \/ Away(i, at, n) > run - 1
      BY <1>3, <3>1
    <3>3. u[i] = t[After(i, n)] \/ u[i] = Vacant \/ u[i] = t[i]
      BY <1>2, <3>2 DEF Erased
    <3> QED BY <1>1, <2>1, <3>1, <3>3 DEF Tables
  <2>3. u = [i \in 0 .. n - 1 |-> u[i]]
    BY <1>2 DEF Erased
  <2> QED BY <2>2, <2>3 DEF Tables
<1>6. InOrder(u, n)
  BY <1>1, <1>2, ErasedInOrder
<1>7. Single(u)
  <2> SUFFICES ASSUME NEW i \in 0 .. n - 1, NEW j \in 0 .. n - 1, ~IsEmpty(u[i]),
                      u[i].index = u[j].index
               PROVE  i = j
    BY <1>3 DEF Single
  <2>1. ~IsEmpty(u[j])
    BY DEF IsEmpty
  <2>2. Src(i) = Src(j)
    <3> HIDE DEF Src
    <3> QED BY <1>1, <1>4, <2>1 DEF Single, IsEmpty
  <2>3. CASE Away(i, at, n) < run - 1 /\ Away(j, at, n) < run - 1
    <3>1. After(i, n) = After(j, n)
      BY <2>2, <2>3 DEF Source
    <3> QED BY <3>1, AfterFacts
  <2>4. CASE ~(Away(i, at, n) < run - 1) /\ ~(Away(j, at, n) < run - 1)
    BY <2>2, <2>4 DEF Source
  <2>5. CASE \/ Away(i, at, n) < run - 1 /\ ~(Away(j, at, n) < run - 1)
             \/ ~(Away(i, at, n) < run - 1) /\ Away(j, at, n) < run - 1
    <3> DEFINE w == Away(Src(i), at, n)
    <3>0. w = Away(Src(j), at, n) /\ w \in 1 .. n - 1
      <4> HIDE DEF Src
      <4> QED BY <1>4, <2>2
    <3>1. w < run /\ w >= run
      <4>1. CASE Away(i, at, n) < run - 1 /\ ~(Away(j, at, n) < run - 1)
        <5>1. w < run
          BY <1>4, <4>1
        <5>2. Away(Src(j), at, n) >= run
          <6> HIDE DEF Src, w
          <6> QED BY <1>4, <2>1, <4>1
        <5> QED BY <3>0, <5>1, <5>2
      <4>2. CASE ~(Away(i, at, n) < run - 1) /\ Away(j, at, n) < run - 1
        <5>1. w >= run
          BY <1>4, <4>2
        <5>2. Away(Src(j), at, n) < run
          <6> HIDE DEF Src, w
          <6> QED BY <1>4, <2>1, <4>2
        <5> QED BY <3>0, <5>1, <5>2
      <4> QED BY <2>5, <4>1, <4>2
    <3> HIDE DEF w
    <3> QED BY <1>3, <3>0, <3>1
  <2> QED BY <2>3, <2>4, <2>5
<1>8. Away(at, at, n) = 0
  <2>1. at - at = 0 /\ 0 % n = 0
    OBVIOUS
  <2> QED BY <2>1 DEF Away
<1>9. Content(u) \subseteq Content(t) \ {t[at]}
  <2> SUFFICES ASSUME NEW i \in 0 .. n - 1, ~IsEmpty(u[i])
               PROVE  u[i] \in Content(t) /\ u[i] # t[at]
    BY <1>3 DEF Content
  <2> DEFINE k == Src(i)
  <2>1. k \in 0 .. n - 1 /\ u[i] = t[k] /\ Away(k, at, n) \in 1 .. n - 1
    <3> HIDE DEF Src
    <3> QED BY <1>4
  <2> HIDE DEF k
  <2>2. k # at
    BY <1>8, <2>1
  <2>3. t[k] # t[at]
    BY <1>1, <2>1, <2>2 DEF Single
  <2> QED BY <1>1, <2>1, <2>3 DEF Content
<1>10. Content(t) \ {t[at]} \subseteq Content(u)
  <2> SUFFICES ASSUME NEW k \in 0 .. n - 1, ~IsEmpty(t[k]), t[k] # t[at]
               PROVE  t[k] \in Content(u)
    BY <1>1 DEF Content
  <2> DEFINE c == Away(k, at, n)
  <2>1. c \in 0 .. n - 1 /\ Round(at, c, n) = k
    BY <1>1, AwayFacts
  <2>2. c # 0
    <3>1. at + 0 = at /\ at % n = at
      OBVIOUS
    <3>2. Round(at, 0, n) = at
      BY <3>1 DEF Round
    <3> HIDE DEF c
    <3> QED BY <2>1, <3>2
  <2>3. CASE c > run - 1
    <3>1. u[k] = t[k]
      BY <1>2, <2>3 DEF Erased
    <3> QED BY <1>3, <3>1 DEF Content
  <2>4. CASE ~(c > run - 1)
    <3> DEFINE b == c - 1
               i == Round(at, b, n)
    <3>c. c = Away(k, at, n)
      OBVIOUS
    <3> HIDE DEF c
    <3>1. b \in 0 .. n - 1 /\ b \in Nat /\ b + 1 = c /\ b < run - 1
      BY <1>3, <2>1, <2>2, <2>4
    <3> HIDE DEF b
    <3>2. i \in 0 .. n - 1 /\ Away(i, at, n) = b
      BY <1>1, <3>1, RoundFacts
    <3>3. After(i, n) = k
      BY <1>1, <2>1, <3>1, AfterRound
    <3> HIDE DEF i
    <3>4. u[i] = t[k]
      BY <1>2, <3>1, <3>2, <3>3 DEF Erased
    <3> QED BY <1>3, <3>2, <3>4 DEF Content
  <2> QED BY <2>3, <2>4
<1> QED BY <1>5, <1>6, <1>7, <1>9, <1>10, <1>u DEF Sound

-----------------------------------------------------------------------------
(* Taking an entry out, and adding one.                                    *)

\* What shift_down_above makes of a bucket.
Lowered(b, pos) == IF b.index > pos THEN [b EXCEPT !.index = @ - 1] ELSE b

\* Lowering leaves the hash and takes one off a position above the hole.
LEMMA LoweredFacts ==
  ASSUME NEW b \in Buckets, NEW pos \in Nat, ~IsEmpty(b), b.index # pos
  PROVE  /\ Lowered(b, pos) \in Buckets /\ Lowered(b, pos).hash = b.hash /\ ~IsEmpty(Lowered(b, pos))
         /\ b.index > pos => Lowered(b, pos).index = b.index - 1
         /\ b.index < pos => Lowered(b, pos).index = b.index
<1>1. b.index \in 0 .. MaxIndexed /\ b.hash \in Nat /\ MaxIndexed \in Nat /\ b.index # MaxIndexed
  BY SizesAssumption DEF Buckets, IsEmpty, Empty
<1>2. CASE b.index > pos
  <2> DEFINE k == b.index - 1
  <2>1. k \in 0 .. MaxIndexed /\ k # MaxIndexed
    BY <1>1, <1>2
  <2>2. Lowered(b, pos) = [b EXCEPT !.index = k]
    BY <1>2 DEF Lowered
  <2>k. k = b.index - 1
    OBVIOUS
  <2> HIDE DEF k
  <2>3. Lowered(b, pos) \in Buckets
    <3>1. b \in Buckets
      OBVIOUS
    <3> QED BY <2>1, <2>2, <3>1, Zenon DEF Buckets
  <2>4. Lowered(b, pos).hash = b.hash /\ Lowered(b, pos).index = k
    BY <2>2 DEF Buckets
  <2> QED BY <1>1, <1>2, <2>1, <2>3, <2>4, <2>k DEF IsEmpty, Empty
<1>3. CASE ~(b.index > pos)
  BY <1>1, <1>3 DEF Lowered
<1> QED BY <1>2, <1>3

\* Lowering the positions above one that no bucket has.
LEMMA ShiftFacts ==
  ASSUME NEW n \in Nat \ {0}, NEW t, Sound(t, n), NEW pos \in Nat,
         \A b \in Content(t) : b.index # pos
  PROVE  /\ Sound(ShiftDownAbove(t, pos), n)
         /\ Content(ShiftDownAbove(t, pos)) = {Lowered(b, pos) : b \in Content(t)}
<1> DEFINE u == ShiftDownAbove(t, pos)
<1>1. t \in Tables(n) /\ DOMAIN t = 0 .. n - 1 /\ InOrder(t, n) /\ Single(t)
  BY DEF Sound, Tables
<1>2. DOMAIN u = 0 .. n - 1 /\ u = [i \in 0 .. n - 1 |-> u[i]]
  BY <1>1 DEF ShiftDownAbove
<1>3. ASSUME NEW i \in 0 .. n - 1
      PROVE  /\ IsEmpty(t[i]) => u[i] = t[i]
             /\ ~IsEmpty(t[i]) => u[i] = Lowered(t[i], pos)
  BY <1>1 DEF ShiftDownAbove, Lowered
<1> HIDE DEF u
<1>4. ASSUME NEW i \in 0 .. n - 1
      PROVE  /\ u[i] \in Buckets /\ u[i].hash = t[i].hash /\ (IsEmpty(u[i]) <=> IsEmpty(t[i]))
             /\ ~IsEmpty(t[i]) => t[i].index \in Nat /\ t[i].index # pos
             /\ ~IsEmpty(t[i]) /\ t[i].index > pos => u[i].index = t[i].index - 1
             /\ ~IsEmpty(t[i]) /\ t[i].index < pos => u[i].index = t[i].index
  <2> DEFINE b == t[i]
  <2>1. b \in Buckets
    BY <1>1 DEF Tables
  <2>2. CASE IsEmpty(b)
    BY <1>3, <2>1, <2>2
  <2>3. CASE ~IsEmpty(b)
    <3>1. b.index # pos
      BY <1>1, <2>3 DEF Content
    <3>2. u[i] = Lowered(b, pos)
      BY <1>3, <2>3
    <3>3. b.index \in Nat
      BY <2>1 DEF Buckets
    <3> DEFINE c == Lowered(b, pos)
    <3> HIDE DEF b
    <3>4. /\ c \in Buckets /\ c.hash = b.hash /\ ~IsEmpty(c)
          /\ b.index > pos => c.index = b.index - 1
          /\ b.index < pos => c.index = b.index
      BY <2>1, <2>3, <3>1, LoweredFacts
    <3> HIDE DEF c
    <3>5. u[i] = c
      BY <3>2 DEF c
    <3> QED BY <2>3, <3>1, <3>3, <3>4, <3>5 DEF b
  <2> QED BY <2>2, <2>3
<1>5. u \in Tables(n)
  BY <1>2, <1>4 DEF Tables
<1>6. InOrder(u, n)
  <2> SUFFICES ASSUME NEW i \in 0 .. n - 1 PROVE Follows(u, n, i, After(i, n))
    BY DEF InOrder
  <2> DEFINE j == After(i, n)
  <2>1. j \in 0 .. n - 1
    <3>1. 0 \in Nat
      OBVIOUS
    <3> QED BY <3>1, AfterAway
  <2>2. Follows(t, n, i, j)
    BY <1>1 DEF InOrder
  <2>3. Far(u, n, i) = Far(t, n, i) /\ Far(u, n, j) = Far(t, n, j)
    BY <1>4, <2>1 DEF Far
  <2> HIDE DEF j
  <2>4. Follows(u, n, i, j)
    BY <1>4, <2>1, <2>2, <2>3 DEF Follows
  <2> QED BY <2>4 DEF j
<1>7. Single(u)
  <2> SUFFICES ASSUME NEW i \in 0 .. n - 1, NEW j \in 0 .. n - 1, ~IsEmpty(u[i]),
                      u[i].index = u[j].index
               PROVE  i = j
    BY <1>2 DEF Single
  <2>1. ~IsEmpty(u[j])
    BY DEF IsEmpty
  <2>2. ~IsEmpty(t[i]) /\ ~IsEmpty(t[j])
    BY <1>4, <2>1
  <2> DEFINE a == t[i].index
             b == t[j].index
  <2>3. /\ a \in Nat /\ b \in Nat /\ a # pos /\ b # pos
        /\ a > pos => u[i].index = a - 1
        /\ a < pos => u[i].index = a
        /\ b > pos => u[j].index = b - 1
        /\ b < pos => u[j].index = b
    BY <1>4, <2>2
  <2> HIDE DEF a, b
  <2>4. a = b
    BY <2>3
  <2> QED BY <1>1, <2>2, <2>4 DEF Single, a, b
<1>8. Content(u) = {Lowered(b, pos) : b \in Content(t)}
  <2>1. ASSUME NEW i \in 0 .. n - 1, ~IsEmpty(u[i])
        PROVE  u[i] \in {Lowered(b, pos) : b \in Content(t)}
    <3>1. ~IsEmpty(t[i]) /\ u[i] = Lowered(t[i], pos)
      BY <1>3, <1>4, <2>1
    <3> QED BY <1>1, <3>1 DEF Content
  <2>2. ASSUME NEW i \in 0 .. n - 1, ~IsEmpty(t[i])
        PROVE  Lowered(t[i], pos) \in Content(u)
    <3>1. ~IsEmpty(u[i]) /\ u[i] = Lowered(t[i], pos)
      BY <1>3, <1>4, <2>2
    <3> QED BY <1>2, <3>1 DEF Content
  <2>3. Content(u) \subseteq {Lowered(b, pos) : b \in Content(t)}
    BY <1>2, <2>1 DEF Content
  <2>4. {Lowered(b, pos) : b \in Content(t)} \subseteq Content(u)
    BY <1>1, <2>2 DEF Content
  <2> QED BY <2>3, <2>4
<1> QED BY <1>5, <1>6, <1>7, <1>8 DEF Sound, u

\* What RemoveAt leaves of the entries.
LEMMA RemoveAtFacts ==
  ASSUME NEW es \in EntryLists, NEW i \in DOMAIN es, NEW rest, rest = RemoveAt(es, i)
  PROVE  /\ rest \in EntryLists /\ Len(rest) = Len(es) - 1 /\ DOMAIN rest = 1 .. Len(es) - 1
         /\ \A k \in 1 .. Len(es) - 1 :
              /\ k < i => rest[k] = es[k]
              /\ k >= i => rest[k] = es[k + 1]
<1>1. es \in Seq(Key \X Value) /\ i \in 1 .. Len(es) /\ Len(es) \in Nat
  BY DEF EntryLists
<1> DEFINE a == SubSeq(es, 1, i - 1)
           b == SubSeq(es, i + 1, Len(es))
<1>2. rest = a \o b
  BY DEF RemoveAt
<1>3. a \in Seq(Key \X Value) /\ Len(a) = i - 1 /\ \A k \in 1 .. i - 1 : a[k] = es[k]
  BY <1>1
<1>4. b \in Seq(Key \X Value) /\ Len(b) = Len(es) - i /\ \A k \in 1 .. Len(es) - i : b[k] = es[i + k]
  BY <1>1
<1> HIDE DEF a, b
<1>5. rest \in Seq(Key \X Value) /\ Len(rest) = Len(es) - 1
  BY <1>1, <1>2, <1>3, <1>4
<1>6. ASSUME NEW k \in 1 .. Len(es) - 1, k < i
      PROVE  rest[k] = es[k]
  BY <1>1, <1>2, <1>3, <1>4, <1>6
<1>7. ASSUME NEW k \in 1 .. Len(es) - 1, k >= i
      PROVE  rest[k] = es[k + 1]
  <2>1. rest[k] = b[k - (i - 1)]
    <3>1. k \in 1 .. Len(a) + Len(b) /\ k > Len(a)
      BY <1>1, <1>3, <1>4, <1>7
    <3>2. (a \o b)[k] = b[k - Len(a)]
      <4>1. a \in Seq(Key \X Value) /\ b \in Seq(Key \X Value)
        BY <1>3, <1>4
      <4>2. \A j \in 1 .. Len(a) + Len(b) :
              (a \o b)[j] = IF j <= Len(a) THEN a[j] ELSE b[j - Len(a)]
        BY <4>1, ConcatProperties
      <4>3. ~(k <= Len(a))
        BY <3>1, <1>3, <1>1
      <4> QED BY <3>1, <4>2, <4>3
    <3> QED BY <1>2, <1>3, <3>2
  <2>2. k - (i - 1) \in 1 .. Len(es) - i /\ i + (k - (i - 1)) = k + 1
    BY <1>1, <1>7
  <2> QED BY <1>4, <2>1, <2>2
<1> QED BY <1>5, <1>6, <1>7 DEF EntryLists

\* The table repaired after a removal describes what is left.
LEMMA RepairFacts ==
  ASSUME NEW es \in EntryLists, Len(es) <= MaxIndexed, hashKey \in Hashes,
         NEW t, NEW n, Describes(t, n, es, hashKey), NEW i \in DOMAIN es
  PROVE  Describes(ShiftDownAbove(Erase(t, BucketOf(t, es, i - 1)), i - 1), n, RemoveAt(es, i), hashKey)
<1> DEFINE x    == BucketOf(t, es, i - 1)
           u    == Erase(t, x)
           pos  == i - 1
           v    == ShiftDownAbove(u, pos)
           rest == RemoveAt(es, i)
           m    == Len(es)
<1>1. /\ n \in Nat /\ n >= 4 /\ n >= 2 /\ n \in Nat \ {0} /\ m <= LoadLimit(n)
      /\ Sound(t, n) /\ Content(t) = Wanted(es, hashKey) /\ Single(t) /\ DOMAIN t = 0 .. n - 1
  BY DEF Describes, Sound, Tables
<1>2. m \in Nat /\ DOMAIN es = 1 .. m /\ i \in 1 .. m /\ pos \in Nat
  BY DEF EntryLists
<1>3. x \in 0 .. n - 1 /\ ~IsEmpty(t[x]) /\ t[x].index = pos
  <2>1. x = BucketOf(t, es, i - 1)
    OBVIOUS
  <2> HIDE DEF x
  <2> QED BY <2>1, BucketOfFacts
<1>4. PICK y \in 0 .. n - 1 : IsEmpty(t[y])
  BY RoomLeft
<1>5. Sound(u, n) /\ Content(u) = Content(t) \ {t[x]}
  <2> HIDE DEF x
  <2> QED BY <1>1, <1>3, <1>4, EraseFacts
<1> HIDE DEF x, u
<1>6. \A b \in Content(u) : b.index # pos
  <2> SUFFICES ASSUME NEW b \in Content(t), b # t[x], b.index = pos PROVE FALSE
    BY <1>5
  <2>1. PICK z \in 0 .. n - 1 : b = t[z] /\ ~IsEmpty(t[z])
    BY <1>1 DEF Content
  <2>2. z = x
    BY <1>1, <1>3, <2>1 DEF Single
  <2> QED BY <2>1, <2>2
<1>p. pos = i - 1
  OBVIOUS
<1> HIDE DEF pos
<1>7. Sound(v, n) /\ Content(v) = {Lowered(b, pos) : b \in Content(u)}
  BY <1>1, <1>2, <1>5, <1>6, ShiftFacts
<1> DEFINE W(k) == [index |-> k - 1, hash |-> hashKey[es[k][1]]]
           R(k) == [index |-> k - 1, hash |-> hashKey[rest[k][1]]]
<1>8. /\ rest \in EntryLists /\ Len(rest) = m - 1 /\ DOMAIN rest = 1 .. m - 1
      /\ \A k \in 1 .. m - 1 : /\ k < i => rest[k] = es[k]
                               /\ k >= i => rest[k] = es[k + 1]
  BY RemoveAtFacts
<1> HIDE DEF rest, v
<1>9. Content(u) = {W(k) : k \in (1 .. m) \ {i}}
  <2>1. Content(t) = {W(k) : k \in 1 .. m}
    BY <1>1, <1>2 DEF Wanted
  <2>2. t[x] = W(i)
    <3>1. t[x] \in Content(t)
      BY <1>1, <1>3 DEF Content
    <3>2. PICK k \in 1 .. m : t[x] = W(k)
      BY <2>1, <3>1
    <3>3. k - 1 = i - 1
      BY <1>3, <1>p, <3>2
    <3>4. k = i
      BY <1>2, <3>3
    <3> QED BY <3>2, <3>4
  <2>3. \A k \in 1 .. m : W(k) = W(i) => k = i
    <3> SUFFICES ASSUME NEW k \in 1 .. m, W(k) = W(i) PROVE k = i
      OBVIOUS
    <3>1. W(k).index = k - 1 /\ W(i).index = i - 1
      OBVIOUS
    <3>2. k - 1 = i - 1
      BY <3>1
    <3> QED BY <1>2, <3>2
  <2> HIDE DEF W
  <2> QED BY <1>2, <1>5, <2>1, <2>2, <2>3
<1>10. \A k \in (1 .. m) \ {i} : /\ k < i => k \in 1 .. m - 1 /\ Lowered(W(k), pos) = R(k)
                                 /\ k > i => k - 1 \in 1 .. m - 1 /\ Lowered(W(k), pos) = R(k - 1)
  <2> SUFFICES ASSUME NEW k \in (1 .. m) \ {i}
               PROVE  /\ k < i => k \in 1 .. m - 1 /\ Lowered(W(k), pos) = R(k)
                      /\ k > i => k - 1 \in 1 .. m - 1 /\ Lowered(W(k), pos) = R(k - 1)
    OBVIOUS
  <2>1. ASSUME k < i
        PROVE  k \in 1 .. m - 1 /\ Lowered(W(k), pos) = R(k)
    <3>1. k \in 1 .. m - 1 /\ ~(k - 1 > pos)
      BY <1>2, <1>p, <2>1
    <3>2. rest[k] = es[k]
      BY <1>8, <2>1, <3>1
    <3>3. W(k) = R(k) /\ ~(W(k).index > pos)
      BY <3>1, <3>2
    <3> HIDE DEF W, R
    <3> QED BY <3>1, <3>3 DEF Lowered
  <2>2. ASSUME k > i
        PROVE  k - 1 \in 1 .. m - 1 /\ Lowered(W(k), pos) = R(k - 1)
    <3>1. k - 1 \in 1 .. m - 1 /\ k - 1 > pos /\ k - 1 >= i /\ (k - 1) + 1 = k
      BY <1>2, <1>p, <2>2
    <3>2. rest[k - 1] = es[k]
      BY <1>8, <3>1
    <3>3. W(k).index > pos
      BY <3>1
    <3>4. [W(k) EXCEPT !.index = @ - 1] = R(k - 1)
      BY <3>2
    <3> HIDE DEF W, R
    <3> QED BY <3>1, <3>3, <3>4 DEF Lowered
  <2> QED BY <2>1, <2>2
<1>11. Content(v) = {R(k) : k \in 1 .. m - 1}
  <2>1. ASSUME NEW k \in (1 .. m) \ {i}
        PROVE  Lowered(W(k), pos) \in {R(j) : j \in 1 .. m - 1}
    <3>1. k < i \/ k > i
      BY <1>2
    <3> HIDE DEF W, R
    <3> QED BY <1>10, <3>1
  <2>2. ASSUME NEW j \in 1 .. m - 1
        PROVE  \E k \in (1 .. m) \ {i} : R(j) = Lowered(W(k), pos)
    <3>1. CASE j < i
      <4>1. j \in (1 .. m) \ {i}
        BY <1>2, <3>1
      <4> HIDE DEF W, R
      <4> QED BY <1>10, <3>1, <4>1
    <3>2. CASE ~(j < i)
      <4> DEFINE k == j + 1
      <4>1. k \in (1 .. m) \ {i} /\ k > i /\ k - 1 = j
        BY <1>2, <3>2
      <4> HIDE DEF W, R, k
      <4> QED BY <1>10, <4>1
    <3> QED BY <3>1, <3>2
  <2> HIDE DEF W, R
  <2> QED BY <1>7, <1>9, <2>1, <2>2
<1>12. Content(v) = Wanted(rest, hashKey)
  BY <1>8, <1>11 DEF Wanted
<1>13. m - 1 <= LoadLimit(n)
  <2>1. LoadLimit(n) \in Nat
    BY <1>1, LoadFacts
  <2> HIDE DEF m
  <2> QED BY <1>1, <1>2, <2>1
<1>14. Describes(v, n, rest, hashKey)
  BY <1>1, <1>7, <1>8, <1>12, <1>13 DEF Describes
<1> QED BY <1>14, <1>p DEF v, u, x, rest

\* Placing the bucket of an entry that was pushed, in a table that has grown
\* if it had to, describes the longer list.
LEMMA PushFacts ==
  ASSUME NEW es \in EntryLists, hashKey \in Hashes, NEW t, NEW n, Describes(t, n, es, hashKey),
         NEW e \in Key \X Value, NEW longer, longer = Append(es, e), Len(longer) <= MaxIndexed
  PROVE  \E w : Describes(Place(IF Len(longer) > LoadLimit(Cap(t)) THEN Grown(t) ELSE t,
                                BucketFor(longer, Len(longer) - 1)), w, longer, hashKey)
<1> DEFINE m == Len(es)
           b == BucketFor(longer, Len(longer) - 1)
           s == IF Len(longer) > LoadLimit(Cap(t)) THEN Grown(t) ELSE t
           w == IF Len(longer) > LoadLimit(n) THEN 2 * n ELSE n
<1>1. /\ n \in Nat /\ n >= 4 /\ m <= LoadLimit(n)
      /\ Sound(t, n) /\ Content(t) = Wanted(es, hashKey) /\ t \in Tables(n) /\ DOMAIN t = 0 .. n - 1
  BY DEF Describes, Sound, Tables
<1>2. /\ m \in Nat /\ DOMAIN es = 1 .. m /\ longer \in EntryLists /\ Len(longer) = m + 1
      /\ DOMAIN longer = 1 .. m + 1 /\ \A k \in 1 .. m : longer[k] = es[k]
  BY DEF EntryLists
<1>3. Cap(t) = n
  <2>1. n \in Nat \ {0}
    BY <1>1
  <2> QED BY <1>1, <2>1, WalkFacts
<1>4. LoadLimit(n) \in Nat /\ LoadLimit(n) < n /\ 2 * n \in Nat /\ LoadLimit(n) + 1 <= LoadLimit(2 * n)
  BY <1>1, LoadFacts
<1>5. m < n /\ m < 2 * n /\ m <= MaxIndexed /\ m # MaxIndexed /\ MaxIndexed \in Nat
  <2> HIDE DEF m
  <2> QED BY <1>1, <1>2, <1>4, SizesAssumption
<1>6. \A c \in Content(t) : c.index \in 0 .. m - 1
  <2> SUFFICES ASSUME NEW x \in 0 .. n - 1, ~IsEmpty(t[x]) PROVE t[x].index \in 0 .. m - 1
    BY <1>1 DEF Content
  <2> QED BY UsedBucket
<1>7. Sound(Grown(t), 2 * n) /\ Content(Grown(t)) = Content(t)
  <2>1. n >= 2
    BY <1>1
  <2> HIDE DEF m
  <2> QED BY <1>1, <1>2, <1>5, <1>6, <2>1, GrownFacts
<1>8. /\ w \in Nat /\ w >= 4 /\ w >= 2 /\ m < w /\ m + 1 <= LoadLimit(w)
      /\ Sound(s, w) /\ Content(s) = Content(t)
  <2>1. CASE Len(longer) > LoadLimit(n)
    <3>1. w = 2 * n /\ s = Grown(t)
      BY <1>3, <2>1
    <3>2. 2 * n >= 4 /\ 2 * n >= 2 /\ m + 1 <= LoadLimit(2 * n)
      <4> DEFINE z == LoadLimit(2 * n)
      <4>1. z \in Nat
        BY <1>4 DEF LoadLimit
      <4>2. LoadLimit(n) + 1 <= z
        BY <1>4
      <4> HIDE DEF z, m
      <4>3. m + 1 <= z
        BY <1>1, <1>2, <1>4, <4>1, <4>2
      <4> QED BY <1>1, <4>3 DEF z
    <3> HIDE DEF m, w, s
    <3> QED BY <1>4, <1>5, <1>7, <3>1, <3>2
  <2>2. CASE ~(Len(longer) > LoadLimit(n))
    <3>1. w = n /\ s = t
      BY <1>3, <2>2
    <3>2. m + 1 <= LoadLimit(n)
      BY <1>2, <1>4, <2>2
    <3> HIDE DEF m, w, s
    <3> QED BY <1>1, <1>5, <3>1, <3>2
  <2> QED BY <2>1, <2>2
<1>9. /\ b = [index |-> m, hash |-> hashKey[longer[m + 1][1]]] /\ b \in Buckets
      /\ b.index = m /\ ~IsEmpty(b)
  <2> DEFINE i == m + 1
  <2>1. i \in DOMAIN longer /\ i - 1 = m
    BY <1>2
  <2> HIDE DEF i
  <2>2. /\ BucketFor(longer, i - 1) = [index |-> i - 1, hash |-> hashKey[longer[i][1]]]
        /\ BucketFor(longer, i - 1) \in Buckets
        /\ BucketFor(longer, i - 1).index = i - 1 /\ ~IsEmpty(BucketFor(longer, i - 1))
    BY <1>2, <2>1, BucketForFacts
  <2>3. b = BucketFor(longer, i - 1)
    BY <1>2, <2>1
  <2> QED BY <2>1, <2>2, <2>3 DEF i
<1> HIDE DEF s, w
<1>10. Single(s) /\ s \in Tables(w) /\ DOMAIN s = 0 .. w - 1
  BY <1>8 DEF Sound, Tables
<1>11. Fresh(s, b)
  <2> SUFFICES ASSUME NEW x \in 0 .. w - 1, s[x].index = m PROVE FALSE
    BY <1>9, <1>10 DEF Fresh
  <2>1. ~IsEmpty(s[x])
    BY <1>5 DEF IsEmpty, Empty
  <2>2. s[x] \in Content(t)
    BY <1>8, <1>10, <2>1 DEF Content
  <2>3. s[x].index \in 0 .. m - 1
    BY <1>6, <2>2
  <2> HIDE DEF m
  <2> QED BY <1>2, <2>3
<1>12. PICK x \in 0 .. w - 1 : IsEmpty(s[x])
  <2>1. \A c \in Content(s) : c.index \in 0 .. m - 1
    BY <1>6, <1>8
  <2> HIDE DEF m
  <2> QED BY <1>2, <1>8, <1>10, <2>1, HasEmpty
<1>b. b = BucketFor(longer, Len(longer) - 1)
  OBVIOUS
<1> HIDE DEF b
<1>13. Sound(Place(s, b), w) /\ Content(Place(s, b)) = Content(s) \cup {b}
  BY <1>8, <1>9, <1>11, <1>12, PlaceFacts
<1>14. Wanted(es, hashKey) \cup {b} = Wanted(longer, hashKey)
  <2>1. Wanted(longer, hashKey) = {[index |-> k - 1, hash |-> hashKey[longer[k][1]]] : k \in 1 .. m + 1}
    BY <1>2 DEF Wanted
  <2>2. Wanted(es, hashKey) = {[index |-> k - 1, hash |-> hashKey[longer[k][1]]] : k \in 1 .. m}
    BY <1>2 DEF Wanted
  <2>3. 1 .. m + 1 = (1 .. m) \cup {m + 1} /\ (m + 1) - 1 = m
    BY <1>2
  <2>4. b = [index |-> (m + 1) - 1, hash |-> hashKey[longer[m + 1][1]]]
    BY <1>9, <2>3
  <2> HIDE DEF m
  <2> QED BY <2>1, <2>2, <2>3, <2>4
<1>15. Describes(Place(s, b), w, longer, hashKey)
  <2>1. Content(Place(s, b)) = Wanted(longer, hashKey)
    BY <1>1, <1>8, <1>13, <1>14
  <2> QED BY <1>2, <1>8, <1>13, <2>1 DEF Describes
<1> QED BY <1>15, <1>b DEF s

-----------------------------------------------------------------------------
(* Putting a set in order.                                                 *)

\* A set that a rank orders.
Ranked(set, rank) ==
  /\ IsFiniteSet(set)
  /\ \A i \in set : rank[i] \in Nat
  /\ \A i, j \in set : rank[i] = rank[j] => i = j

\* The members ranked before i.
Lower(set, rank, i) == {j \in set : rank[j] < rank[i]}

\* Members of a higher rank have more below them.
LEMMA LowerFacts ==
  ASSUME NEW set, NEW rank, Ranked(set, rank), NEW i \in set
  PROVE  /\ Cardinality(Lower(set, rank, i)) \in 0 .. Cardinality(set) - 1
         /\ \A j \in set : rank[i] < rank[j] =>
              Cardinality(Lower(set, rank, i)) < Cardinality(Lower(set, rank, j))
<1>1. \A k \in set : IsFiniteSet(Lower(set, rank, k)) /\ Cardinality(Lower(set, rank, k)) \in Nat
  <2> SUFFICES ASSUME NEW k \in set
               PROVE  IsFiniteSet(Lower(set, rank, k)) /\ Cardinality(Lower(set, rank, k)) \in Nat
    OBVIOUS
  <2>1. Lower(set, rank, k) \in SUBSET set /\ IsFiniteSet(set)
    BY DEF Lower, Ranked
  <2>2. IsFiniteSet(Lower(set, rank, k))
    BY <2>1, FS_Subset
  <2> QED BY <2>2, FS_CardinalityType
<1>2. Cardinality(set) \in Nat /\ IsFiniteSet(set)
  BY FS_CardinalityType DEF Ranked
<1>3. Cardinality(Lower(set, rank, i)) <= Cardinality(set) - 1
  <2> DEFINE others == set \ {i}
  <2>1. IsFiniteSet(others) /\ Cardinality(others) = Cardinality(set) - 1
    BY <1>2, FS_RemoveElement
  <2>2. Lower(set, rank, i) \in SUBSET others
    BY DEF Lower, Ranked
  <2> HIDE DEF others
  <2>3. Cardinality(Lower(set, rank, i)) <= Cardinality(others)
    BY <2>1, <2>2, FS_Subset
  <2> QED BY <2>1, <2>3
<1>4. ASSUME NEW j \in set, rank[i] < rank[j]
      PROVE  Cardinality(Lower(set, rank, i)) < Cardinality(Lower(set, rank, j))
  <2> DEFINE a == Lower(set, rank, i)
             b == Lower(set, rank, j)
             c == a \cup {i}
  <2>1. i \notin a /\ c \in SUBSET b
    BY <1>4 DEF Lower, Ranked
  <2>2. IsFiniteSet(a) /\ IsFiniteSet(b) /\ Cardinality(a) \in Nat /\ Cardinality(b) \in Nat
    BY <1>1
  <2> HIDE DEF a, b
  <2>3. Cardinality(c) = Cardinality(a) + 1
    BY <2>1, <2>2, FS_AddElement
  <2> HIDE DEF c
  <2>4. Cardinality(c) <= Cardinality(b)
    BY <2>1, <2>2, FS_Subset
  <2>5. Cardinality(a) < Cardinality(b)
    BY <2>2, <2>3, <2>4
  <2> QED BY <2>5 DEF a, b
<1> QED BY <1>1, <1>2, <1>3, <1>4

\* The order has every member once, from the lowest rank to the highest.
LEMMA OrderedFacts ==
  ASSUME NEW set, NEW rank, Ranked(set, rank), NEW order, order = Ordered(set, rank)
  PROVE  /\ Cardinality(set) \in Nat /\ DOMAIN order = 1 .. Cardinality(set)
         /\ order = [k \in 1 .. Cardinality(set) |-> order[k]]
         /\ \A k \in DOMAIN order :
              order[k] \in set /\ Cardinality(Lower(set, rank, order[k])) = k - 1
         /\ \A i \in set : \E k \in DOMAIN order : order[k] = i
         /\ \A j, k \in DOMAIN order : j < k => rank[order[j]] < rank[order[k]]
<1> DEFINE N    == Cardinality(set)
           r(i) == Cardinality(Lower(set, rank, i))
           T    == 0 .. N - 1
           f    == [i \in set |-> r(i)]
<1>1. N \in Nat /\ IsFiniteSet(set)
  BY FS_CardinalityType DEF Ranked
<1>2. \A i \in set : r(i) \in T /\ \A j \in set : rank[i] < rank[j] => r(i) < r(j)
  BY LowerFacts
<1>3. \A i, j \in set : r(i) = r(j) => i = j
  <2> SUFFICES ASSUME NEW i \in set, NEW j \in set, r(i) = r(j), i # j PROVE FALSE
    OBVIOUS
  <2>1. rank[i] \in Nat /\ rank[j] \in Nat /\ rank[i] # rank[j]
    BY DEF Ranked
  <2>2. rank[i] < rank[j] \/ rank[j] < rank[i]
    BY <2>1
  <2>3. r(i) \in T /\ r(j) \in T /\ (r(i) < r(j) \/ r(j) < r(i))
    <3> HIDE DEF r, T
    <3> QED BY <1>2, <2>2
  <2> HIDE DEF r
  <2> QED BY <2>3
<1>4. IsFiniteSet(T) /\ Cardinality(T) = N
  <2>1. 0 \in Int /\ N - 1 \in Int
    BY <1>1
  <2>2. IsFiniteSet(T) /\ Cardinality(T) = IF 0 > N - 1 THEN 0 ELSE (N - 1) - 0 + 1
    BY <2>1, FS_Interval
  <2> HIDE DEF N
  <2> QED BY <1>1, <2>2
<1>5. \A k \in T : \E i \in set : r(i) = k
  <2>1. f \in [set -> T]
    BY <1>2
  <2>2. f \in Injection(set, T)
    <3>1. DOMAIN f = set /\ \A i \in set : f[i] = r(i)
      OBVIOUS
    <3> HIDE DEF f, r
    <3> QED BY <1>3, <2>1, <3>1 DEF Injection, IsInjective
  <2>3. \A i \in set : f[i] = r(i)
    OBVIOUS
  <2> HIDE DEF f, T, r
  <2>4. f \in Surjection(set, T)
    BY <1>4, <2>2, FS_Injection
  <2> QED BY <2>3, <2>4 DEF Surjection
<1>6. order = [k \in 1 .. N |-> CHOOSE i \in set : r(i) = k - 1]
  BY DEF Ordered, Lower
<1>7. DOMAIN order = 1 .. N
  BY <1>6
<1>8. order = [k \in 1 .. N |-> order[k]]
  <2> DEFINE val(k) == CHOOSE i \in set : r(i) = k - 1
  <2>1. order = [k \in 1 .. N |-> val(k)]
    BY <1>6
  <2> HIDE DEF val
  <2> QED BY <2>1
<1>9. ASSUME NEW k \in 1 .. N
      PROVE  order[k] \in set /\ r(order[k]) = k - 1
  <2>1. k - 1 \in T
    BY <1>1
  <2>2. \E i \in set : r(i) = k - 1
    BY <1>5, <2>1
  <2>3. order[k] = CHOOSE i \in set : r(i) = k - 1
    BY <1>6
  <2> HIDE DEF r
  <2> QED BY <2>2, <2>3
<1> HIDE DEF T
<1>10. ASSUME NEW i \in set
       PROVE  \E k \in 1 .. N : order[k] = i
  <2> DEFINE k == r(i) + 1
  <2>1. k \in 1 .. N /\ k - 1 = r(i)
    <3>1. r(i) \in 0 .. N - 1
      BY <1>2 DEF T
    <3> HIDE DEF r, N
    <3> QED BY <1>1, <3>1
  <2> HIDE DEF k
  <2>2. order[k] \in set /\ r(order[k]) = r(i)
    BY <1>9, <2>1
  <2> HIDE DEF r
  <2> QED BY <1>3, <2>1, <2>2
<1>11. ASSUME NEW j \in 1 .. N, NEW k \in 1 .. N, j < k
       PROVE  rank[order[j]] < rank[order[k]]
  <2> DEFINE a == order[j]
             b == order[k]
  <2>1. a \in set /\ b \in set /\ r(a) = j - 1 /\ r(b) = k - 1
    BY <1>9
  <2> HIDE DEF a, b
  <2>2. rank[a] \in Nat /\ rank[b] \in Nat
    BY <2>1 DEF Ranked
  <2>3. r(a) < r(b)
    BY <1>11, <2>1
  <2>4. rank[a] # rank[b]
    <3> SUFFICES ASSUME rank[a] = rank[b] PROVE FALSE
      OBVIOUS
    <3>1. a = b
      BY <2>1 DEF Ranked
    <3>2. r(a) \in Nat
      BY <2>1
    <3> HIDE DEF r
    <3> QED BY <2>3, <3>1, <3>2
  <2>5. ~(rank[b] < rank[a])
    <3> SUFFICES ASSUME rank[b] < rank[a] PROVE FALSE
      OBVIOUS
    <3>1. r(b) < r(a)
      BY <1>2, <2>1
    <3>2. r(a) \in Int /\ r(b) \in Int
      BY <2>1
    <3> HIDE DEF r
    <3> QED BY <2>3, <3>1, <3>2
  <2>6. rank[a] < rank[b]
    BY <2>2, <2>4, <2>5
  <2> QED BY <2>6 DEF a, b
<1> QED BY <1>1, <1>7, <1>8, <1>9, <1>10, <1>11

\* The entries at some of their positions, in some order.
LEMMA ArrangedFacts ==
  ASSUME NEW es \in EntryLists, Distinct(es), NEW set, set \subseteq DOMAIN es,
         NEW rank, Ranked(set, rank), NEW order, order = Ordered(set, rank),
         NEW list, list = Arranged(es, order)
  PROVE  /\ list \in EntryLists /\ Distinct(list)
         /\ Len(list) = Cardinality(set) /\ DOMAIN list = DOMAIN order
         /\ Range(list) = {es[i] : i \in set}
         /\ \A k \in DOMAIN list : order[k] \in DOMAIN es /\ list[k] = es[order[k]]
<1> DEFINE N == Cardinality(set)
<1>1. /\ N \in Nat /\ DOMAIN order = 1 .. N
      /\ \A k \in 1 .. N : order[k] \in set
      /\ \A i \in set : \E k \in 1 .. N : order[k] = i
      /\ \A j, k \in 1 .. N : j < k => rank[order[j]] < rank[order[k]]
  BY OrderedFacts
<1>2. es \in Seq(Key \X Value) /\ DOMAIN es = 1 .. Len(es)
  BY DEF EntryLists
<1>3. list = [k \in 1 .. N |-> es[order[k]]]
  BY <1>1 DEF Arranged
<1> HIDE DEF N
<1>4. \A k \in 1 .. N : order[k] \in DOMAIN es /\ es[order[k]] \in Key \X Value
  BY <1>1, <1>2
<1>5. list \in Seq(Key \X Value) /\ Len(list) = N /\ DOMAIN list = 1 .. N
  BY <1>1, <1>3, <1>4
<1>6. Distinct(list)
  <2> SUFFICES ASSUME NEW j \in 1 .. N, NEW k \in 1 .. N, list[j][1] = list[k][1] PROVE j = k
    BY <1>5 DEF Distinct
  <2>1. order[j] = order[k]
    BY <1>3, <1>4 DEF Distinct
  <2>2. ~(rank[order[j]] < rank[order[k]]) /\ ~(rank[order[k]] < rank[order[j]])
    <3>1. rank[order[j]] \in Nat
      BY <1>1 DEF Ranked
    <3> QED BY <2>1, <3>1
  <2>3. ~(j < k) /\ ~(k < j)
    BY <1>1, <2>2
  <2> QED BY <1>1, <2>3
<1>7. Range(list) = {es[i] : i \in set}
  BY <1>1, <1>3, <1>5 DEF Range
<1> QED BY <1>1, <1>3, <1>4, <1>5, <1>6, <1>7 DEF EntryLists, N

\* retain keeps the entries it is told to, in their order.
LEMMA KeptFacts ==
  ASSUME NEW es \in EntryLists, Distinct(es), NEW kept, NEW list, list = KeptOf(es, kept)
  PROVE  /\ list \in EntryLists /\ Distinct(list) /\ Len(list) <= Len(es)
         /\ Len(list) = Len(es) => list = es
         /\ Range(list) = {e \in Range(es) : e[1] \in kept}
         /\ \A j, k \in DOMAIN list : j < k =>
              \E p, q \in DOMAIN es : p < q /\ list[j] = es[p] /\ list[k] = es[q]
<1> DEFINE set   == {i \in DOMAIN es : es[i][1] \in kept}
           rank  == [i \in DOMAIN es |-> i]
           order == Ordered(set, rank)
           m     == Len(es)
<1>1. m \in Nat /\ DOMAIN es = 1 .. m /\ es \in Seq(Key \X Value)
  BY DEF EntryLists
<1>2. IsFiniteSet(1 .. m) /\ Cardinality(1 .. m) = m
  <2>1. 1 \in Int /\ m \in Int
    BY <1>1
  <2>2. IsFiniteSet(1 .. m) /\ Cardinality(1 .. m) = IF 1 > m THEN 0 ELSE m - 1 + 1
    BY <2>1, FS_Interval
  <2> HIDE DEF m
  <2> QED BY <1>1, <2>2
<1>3. set \in SUBSET (1 .. m)
  BY <1>1
<1>s. set = {i \in 1 .. m : es[i][1] \in kept}
  BY <1>1
<1>r. \A i \in 1 .. m : rank[i] = i
  BY <1>1
<1>4. list = Arranged(es, order)
  BY DEF KeptOf
<1>o. order = Ordered(set, rank)
  OBVIOUS
<1> HIDE DEF set, rank, order, m
<1>5. /\ IsFiniteSet(set) /\ Cardinality(set) <= m
      /\ Cardinality(set) = m => set = 1 .. m
  BY <1>2, <1>3, FS_Subset
<1>6. Ranked(set, rank)
  BY <1>1, <1>3, <1>5, <1>r DEF Ranked
<1>7. /\ list \in EntryLists /\ Distinct(list)
      /\ Len(list) = Cardinality(set) /\ DOMAIN list = DOMAIN order
      /\ Range(list) = {es[i] : i \in set}
      /\ \A k \in DOMAIN list : order[k] \in DOMAIN es /\ list[k] = es[order[k]]
  <2>1. set \subseteq DOMAIN es
    BY <1>1, <1>3
  <2> QED BY <1>4, <1>6, <1>o, <2>1, ArrangedFacts
<1>8. /\ DOMAIN order = 1 .. Cardinality(set)
      /\ \A k \in DOMAIN order :
           order[k] \in set /\ Cardinality(Lower(set, rank, order[k])) = k - 1
      /\ \A j, k \in DOMAIN order : j < k => rank[order[j]] < rank[order[k]]
  BY <1>6, <1>o, OrderedFacts
<1>9. Range(list) = {e \in Range(es) : e[1] \in kept}
  BY <1>1, <1>7, <1>s DEF Range
<1>10. ASSUME NEW j \in DOMAIN list, NEW k \in DOMAIN list, j < k
       PROVE  \E p, q \in DOMAIN es : p < q /\ list[j] = es[p] /\ list[k] = es[q]
  <2>1. order[j] < order[k]
    BY <1>1, <1>7, <1>8, <1>10, <1>r
  <2> QED BY <1>7, <2>1
<1>11. ASSUME Len(list) = m
       PROVE  list = es
  <2>1. set = 1 .. m /\ Cardinality(set) = m
    BY <1>5, <1>7, <1>11
  <2>2. ASSUME NEW k \in 1 .. m
        PROVE  order[k] = k
    <3> DEFINE i == order[k]
    <3>1. i \in 1 .. m /\ Cardinality(Lower(set, rank, i)) = k - 1
      BY <1>8, <2>1
    <3> HIDE DEF i
    <3>2. Lower(set, rank, i) = 1 .. i - 1
      BY <1>1, <1>r, <2>1, <3>1 DEF Lower
    <3>3. Cardinality(1 .. i - 1) = i - 1
      <4>1. 1 \in Int /\ i - 1 \in Int
        BY <3>1
      <4>2. Cardinality(1 .. i - 1) = IF 1 > i - 1 THEN 0 ELSE (i - 1) - 1 + 1
        BY <4>1, FS_Interval
      <4> QED BY <1>1, <3>1, <4>2
    <3> QED BY <1>1, <3>1, <3>2, <3>3 DEF i
  <2>3. list \in Seq(Key \X Value) /\ Len(list) = Len(es) /\ DOMAIN list = 1 .. m
    BY <1>7, <1>8, <1>11, <2>1 DEF EntryLists, m
  <2>4. \A k \in 1 .. m : list[k] = es[k]
    BY <1>7, <2>2, <2>3
  <2> QED BY <1>1, <2>3, <2>4
<1> QED BY <1>5, <1>7, <1>9, <1>10, <1>11 DEF m

\* A sort orders the entries by key, and keeps them all.
LEMMA SortedFacts ==
  ASSUME NEW es \in EntryLists, Distinct(es), NEW list, list = SortedByKey(es)
  PROVE  /\ list \in EntryLists /\ Distinct(list) /\ Len(list) = Len(es)
         /\ Range(list) = Range(es)
         /\ \A j, k \in DOMAIN list : j < k => list[j][1] < list[k][1]
<1> DEFINE set   == DOMAIN es
           rank  == [i \in DOMAIN es |-> es[i][1]]
           order == Ordered(set, rank)
           m     == Len(es)
<1>1. m \in Nat /\ set = 1 .. m /\ \A i \in set : es[i] \in Key \X Value
  BY DEF EntryLists
<1>2. IsFiniteSet(set) /\ Cardinality(set) = m
  <2>1. 1 \in Int /\ m \in Int
    BY <1>1
  <2>2. IsFiniteSet(1 .. m) /\ Cardinality(1 .. m) = IF 1 > m THEN 0 ELSE m - 1 + 1
    BY <2>1, FS_Interval
  <2> HIDE DEF m
  <2> QED BY <1>1, <2>2
<1>3. \A i \in set : rank[i] = es[i][1] /\ es[i][1] \in Nat
  BY <1>1, KeyAssumption
<1>4. list = Arranged(es, order)
  BY DEF SortedByKey
<1>o. order = Ordered(set, rank) /\ set \subseteq DOMAIN es /\ m = Len(es) /\ set = DOMAIN es
  OBVIOUS
<1> HIDE DEF set, rank, order, m
<1>5. Ranked(set, rank)
  BY <1>2, <1>3, <1>o DEF Ranked, Distinct
<1>6. /\ list \in EntryLists /\ Distinct(list)
      /\ Len(list) = Cardinality(set) /\ DOMAIN list = DOMAIN order
      /\ Range(list) = {es[i] : i \in set}
      /\ \A k \in DOMAIN list : order[k] \in DOMAIN es /\ list[k] = es[order[k]]
  BY <1>4, <1>5, <1>o, ArrangedFacts
<1>7. \A j, k \in DOMAIN order : j < k => rank[order[j]] < rank[order[k]]
  BY <1>5, <1>o, OrderedFacts
<1>8. Range(list) = Range(es)
  BY <1>6, <1>o DEF Range
<1>9. ASSUME NEW j \in DOMAIN list, NEW k \in DOMAIN list, j < k
      PROVE  list[j][1] < list[k][1]
  <2>1. rank[order[j]] < rank[order[k]]
    BY <1>6, <1>7, <1>9
  <2>2. order[j] \in set /\ order[k] \in set
    BY <1>6, <1>o
  <2> QED BY <1>3, <1>6, <2>1, <2>2
<1> QED BY <1>2, <1>6, <1>8, <1>9, <1>o

-----------------------------------------------------------------------------
(* The invariant.                                                          *)

\* The invariant, of any entries, table and hash: the keys are distinct, the table
\* is there when it should be, and describes the entries.
MapOk(es, t, hash) ==
  /\ hash \in Hashes /\ es \in EntryLists /\ Distinct(es)
  /\ t = NoTable <=> Len(es) <= LinearMax \/ Len(es) > MaxIndexed
  /\ t # NoTable => \E n : Describes(t, n, es, hash)

MapInv == MapOk(entries, table, hashKey)

\* A table that describes entries is a table.
LEMMA TableIsThere ==
  ASSUME NEW t, NEW n, NEW es, NEW hash, Describes(t, n, es, hash)
  PROVE  t # NoTable
<1>1. n \in Nat /\ n >= 4 /\ DOMAIN t = 0 .. n - 1
  BY DEF Describes, Sound, Tables
<1>2. 0 \in DOMAIN t
  BY <1>1
<1>3. DOMAIN NoTable = {}
  BY DEF NoTable
<1> QED BY <1>2, <1>3

\* reindex makes the invariant hold of any entries.
LEMMA ReindexFacts ==
  ASSUME NEW es \in EntryLists, Distinct(es), hashKey \in Hashes, NEW t
  PROVE  MapOk(es, Reindex(t, es), hashKey)
<1>1. CASE Len(es) <= LinearMax \/ Len(es) > MaxIndexed
  BY <1>1 DEF MapOk, Reindex
<1>2. CASE ~(Len(es) <= LinearMax \/ Len(es) > MaxIndexed)
  <2>1. Reindex(t, es) = Rebuilt(es)
    BY <1>2 DEF Reindex
  <2>2. Len(es) <= MaxIndexed
    <3>1. Len(es) \in Nat /\ MaxIndexed \in Nat
      BY SizesAssumption DEF EntryLists
    <3> QED BY <1>2, <3>1
  <2>3. Describes(Rebuilt(es), BucketsFor(Len(es)), es, hashKey)
    BY <2>2, RebuiltFacts
  <2>4. Rebuilt(es) # NoTable
    BY <2>3, TableIsThere
  <2> QED BY <1>2, <2>1, <2>3, <2>4 DEF MapOk
<1> QED BY <1>1, <1>2

\* push_new keeps the invariant: the table is extended in place, grown, built for
\* the first time or given up, each when it should be.
LEMMA PushNewFacts ==
  ASSUME NEW es, NEW t, MapOk(es, t, hashKey), NEW e \in Key \X Value,
         \A i \in DOMAIN es : es[i][1] # e[1], NEW longer, longer = Append(es, e)
  PROVE  MapOk(longer, PushNew(t, longer), hashKey)
<1> DEFINE m == Len(es)
<1>1. /\ hashKey \in Hashes /\ es \in EntryLists /\ Distinct(es)
      /\ t = NoTable <=> m <= LinearMax \/ m > MaxIndexed
      /\ t # NoTable => \E n : Describes(t, n, es, hashKey)
  BY DEF MapOk
<1>2. /\ m \in Nat /\ DOMAIN es = 1 .. m /\ longer \in EntryLists /\ Len(longer) = m + 1
      /\ DOMAIN longer = 1 .. m + 1 /\ longer[m + 1] = e /\ \A k \in 1 .. m : longer[k] = es[k]
  BY <1>1 DEF EntryLists
<1>3. LinearMax \in Nat /\ MaxIndexed \in Nat /\ LinearMax < MaxIndexed
  BY SizesAssumption
<1> HIDE DEF m
<1>4. Distinct(longer)
  <2> SUFFICES ASSUME NEW i \in 1 .. m + 1, NEW j \in 1 .. m + 1, longer[i][1] = longer[j][1]
               PROVE  i = j
    BY <1>2 DEF Distinct
  <2>1. (i \in 1 .. m \/ i = m + 1) /\ (j \in 1 .. m \/ j = m + 1)
    BY <1>2
  <2>2. ~(i \in 1 .. m /\ j = m + 1) /\ ~(j \in 1 .. m /\ i = m + 1)
    BY <1>2
  <2>3. CASE i \in 1 .. m /\ j \in 1 .. m
    BY <1>1, <1>2, <2>3 DEF Distinct
  <2> QED BY <2>1, <2>2, <2>3
<1>5. CASE m + 1 <= LinearMax
  <2>1. t = NoTable
    BY <1>1, <1>2, <1>3, <1>5
  <2>2. PushNew(t, longer) = t
    <3>1. Len(longer) <= LinearMax /\ ~(Len(longer) > LinearMax)
      BY <1>2, <1>3, <1>5
    <3> QED BY <3>1 DEF PushNew
  <2> QED BY <1>1, <1>2, <1>4, <1>5, <2>1, <2>2 DEF MapOk
<1>6. CASE m + 1 > MaxIndexed
  <2>1. ~(Len(longer) <= LinearMax)
    BY <1>2, <1>3, <1>6
  <2>2. Len(longer) > LinearMax /\ Len(longer) > MaxIndexed
    BY <1>2, <1>3, <1>6
  <2>3. ~(Len(longer) <= MaxIndexed)
    BY <1>2, <1>3, <1>6
  <2>4. PushNew(t, longer) = NoTable
    BY <2>1, <2>2, <2>3 DEF PushNew
  <2> QED BY <1>1, <1>2, <1>4, <2>2, <2>4 DEF MapOk
<1>7. CASE ~(m + 1 <= LinearMax) /\ ~(m + 1 > MaxIndexed) /\ t # NoTable
  <2>1. /\ ~(Len(longer) <= LinearMax) /\ Len(longer) > LinearMax
        /\ ~(Len(longer) > MaxIndexed) /\ Len(longer) <= MaxIndexed
    BY <1>2, <1>3, <1>7
  <2> DEFINE u == Place(IF Len(longer) > LoadLimit(Cap(t)) THEN Grown(t) ELSE t,
                        BucketFor(longer, Len(longer) - 1))
  <2>2. PushNew(t, longer) = u
    BY <1>7, <2>1 DEF PushNew
  <2>3. PICK n : Describes(t, n, es, hashKey)
    BY <1>1, <1>7
  <2>4. PICK w : Describes(u, w, longer, hashKey)
    BY <1>1, <2>1, <2>3, PushFacts
  <2> HIDE DEF u
  <2>5. u # NoTable
    BY <2>4, TableIsThere
  <2> QED BY <1>1, <1>2, <1>4, <2>1, <2>2, <2>4, <2>5 DEF MapOk
<1>8. CASE ~(m + 1 <= LinearMax) /\ ~(m + 1 > MaxIndexed) /\ t = NoTable
  <2>1. /\ ~(Len(longer) <= LinearMax) /\ ~(Len(longer) > MaxIndexed)
    BY <1>2, <1>3, <1>8
  <2>2. PushNew(t, longer) = Reindex(t, longer)
    BY <1>8, <2>1 DEF PushNew
  <2> QED BY <1>1, <1>2, <1>4, <2>2, ReindexFacts
<1> QED BY <1>5, <1>6, <1>7, <1>8

\* remove_at keeps it: the entry is erased and the positions above it lowered, or
\* the table is no longer worth having.
LEMMA RemoveAtPosFacts ==
  ASSUME NEW es, NEW t, MapOk(es, t, hashKey), NEW i \in DOMAIN es
  PROVE  MapOk(RemoveAt(es, i), RemoveAtPos(t, es, i - 1), hashKey)
<1> DEFINE m    == Len(es)
           rest == RemoveAt(es, i)
<1>1. /\ hashKey \in Hashes /\ es \in EntryLists /\ Distinct(es)
      /\ t = NoTable <=> m <= LinearMax \/ m > MaxIndexed
      /\ t # NoTable => \E n : Describes(t, n, es, hashKey)
  BY DEF MapOk
<1>2. m \in Nat /\ DOMAIN es = 1 .. m /\ i \in 1 .. m
  BY <1>1 DEF EntryLists
<1>3. LinearMax \in Nat /\ MaxIndexed \in Nat /\ LinearMax < MaxIndexed
  BY SizesAssumption
<1>4. /\ rest \in EntryLists /\ Len(rest) = m - 1 /\ DOMAIN rest = 1 .. m - 1
      /\ \A k \in 1 .. m - 1 : /\ k < i => rest[k] = es[k]
                               /\ k >= i => rest[k] = es[k + 1]
  BY <1>1, RemoveAtFacts
<1>r. rest = RemoveAt(es, i) /\ m = Len(es)
  OBVIOUS
<1> HIDE DEF m, rest
<1>5. Distinct(rest)
  <2> SUFFICES ASSUME NEW j \in 1 .. m - 1, NEW k \in 1 .. m - 1, rest[j][1] = rest[k][1]
               PROVE  j = k
    BY <1>4 DEF Distinct
  <2> DEFINE a == IF j < i THEN j ELSE j + 1
             b == IF k < i THEN k ELSE k + 1
  <2>1. a \in 1 .. m /\ b \in 1 .. m /\ (a = b => j = k)
    BY <1>2
  <2>2. rest[j] = es[a] /\ rest[k] = es[b]
    BY <1>2, <1>4
  <2> HIDE DEF a, b
  <2>3. a = b
    BY <1>1, <1>2, <2>1, <2>2 DEF Distinct
  <2> QED BY <2>1, <2>3
<1>6. CASE m - 1 > LinearMax /\ t # NoTable
  <2> DEFINE u == ShiftDownAbove(Erase(t, BucketOf(t, es, i - 1)), i - 1)
  <2>1. RemoveAtPos(t, es, i - 1) = u
    BY <1>6, <1>r DEF RemoveAtPos
  <2>2. PICK n : Describes(t, n, es, hashKey)
    BY <1>1, <1>6
  <2>3. m <= MaxIndexed
    BY <1>1, <1>2, <1>3, <1>6
  <2>4. Describes(u, n, rest, hashKey)
    BY <1>1, <1>r, <2>2, <2>3, RepairFacts
  <2> HIDE DEF u
  <2>5. u # NoTable
    BY <2>4, TableIsThere
  <2>6. ~(Len(rest) <= LinearMax \/ Len(rest) > MaxIndexed)
    BY <1>2, <1>3, <1>4, <1>6, <2>3
  <2> QED BY <1>1, <1>4, <1>5, <1>r, <2>1, <2>4, <2>5, <2>6 DEF MapOk
<1>7. CASE ~(m - 1 > LinearMax /\ t # NoTable)
  <2>1. RemoveAtPos(t, es, i - 1) = Reindex(t, rest)
    <3>1. (i - 1) + 1 = i
      BY <1>2
    <3> QED BY <1>7, <1>r, <3>1 DEF RemoveAtPos
  <2> QED BY <1>1, <1>4, <1>5, <1>r, <2>1, ReindexFacts
<1> QED BY <1>6, <1>7

\* locate finds the position of a key, and nothing for a key that is not there.
LEMMA LocateFacts ==
  ASSUME MapInv, NEW key \in Key
  PROVE  /\ \A i \in DOMAIN entries : entries[i][1] = key => Locate(key) = i - 1
         /\ (\A i \in DOMAIN entries : entries[i][1] # key) => Locate(key) = NotFound
<1> DEFINE at == {i \in DOMAIN entries : entries[i][1] = key}
<1>1. /\ hashKey \in Hashes /\ entries \in EntryLists /\ Distinct(entries)
      /\ table = NoTable <=> Len(entries) <= LinearMax \/ Len(entries) > MaxIndexed
      /\ table # NoTable => \E n : Describes(table, n, entries, hashKey)
  BY DEF MapInv, MapOk
<1>2. CASE table # NoTable
  <2>1. Locate(key) = Find(table, entries, key)
    BY <1>2 DEF Locate
  <2>2. PICK n : Describes(table, n, entries, hashKey)
    BY <1>1, <1>2
  <2>3. Len(entries) <= MaxIndexed
    <3>1. Len(entries) \in Nat /\ MaxIndexed \in Nat
      BY <1>1, SizesAssumption DEF EntryLists
    <3> QED BY <1>1, <1>2, <3>1
  <2> QED BY <1>1, <2>1, <2>2, <2>3, FindFacts
<1>3. CASE table = NoTable
  <2>1. ASSUME NEW i \in DOMAIN entries, entries[i][1] = key
        PROVE  Locate(key) = i - 1
    <3>1. i \in at /\ at # {}
      BY <2>1
    <3>2. at = {i}
      BY <1>1, <2>1 DEF Distinct
    <3>3. Locate(key) = Least(at) - 1
      BY <1>3, <3>1 DEF Locate
    <3>4. i \in Nat
      BY <1>1 DEF EntryLists
    <3> HIDE DEF at
    <3>5. Least(at) = i
      BY <3>2, <3>4, LeastOne
    <3> QED BY <3>3, <3>5
  <2>2. ASSUME \A i \in DOMAIN entries : entries[i][1] # key
        PROVE  Locate(key) = NotFound
    <3>1. at = {}
      BY <2>2
    <3> QED BY <1>3, <3>1 DEF Locate
  <2> QED BY <2>1, <2>2
<1> QED BY <1>2, <1>3

\* What is at a key's position, or that it has none.
LEMMA Located ==
  ASSUME MapInv, NEW key \in Key
  PROVE  /\ Locate(key) # NotFound =>
              /\ Locate(key) + 1 \in DOMAIN entries /\ entries[Locate(key) + 1][1] = key
              /\ (Locate(key) + 1) - 1 = Locate(key)
         /\ Locate(key) = NotFound => \A i \in DOMAIN entries : entries[i][1] # key
<1>1. /\ \A i \in DOMAIN entries : entries[i][1] = key => Locate(key) = i - 1
      /\ (\A i \in DOMAIN entries : entries[i][1] # key) => Locate(key) = NotFound
  BY LocateFacts
<1>2. \A i \in DOMAIN entries : i \in Nat /\ i >= 1
  BY DEF MapInv, MapOk, EntryLists
<1>3. ASSUME NEW i \in DOMAIN entries, entries[i][1] = key
      PROVE  /\ Locate(key) = i - 1 /\ Locate(key) # NotFound
             /\ Locate(key) + 1 = i /\ (Locate(key) + 1) - 1 = Locate(key)
  BY <1>1, <1>2, <1>3 DEF NotFound
<1> QED BY <1>1, <1>3

\* new is es with v for the value of entry i.
Updated(new, es, i, v) == new = [es EXCEPT ![i][2] = v]

\* A new value for an entry changes nothing the table goes by.
LEMMA UpdateFacts ==
  ASSUME NEW es, NEW t, NEW hash, MapOk(es, t, hash), NEW i \in DOMAIN es, NEW v \in Value,
         NEW new, Updated(new, es, i, v)
  PROVE  MapOk(new, t, hash) /\ new = [es EXCEPT ![i] = <<es[i][1], v>>]
<1>1. /\ es \in Seq(Key \X Value) /\ Len(es) \in Nat /\ DOMAIN es = 1 .. Len(es) /\ Distinct(es)
  BY DEF MapOk, EntryLists
<1> DEFINE e == <<es[i][1], v>>
<1>2. [es[i] EXCEPT ![2] = v] = e /\ e \in Key \X Value /\ e[1] = es[i][1]
  <2>1. es[i] \in Key \X Value
    BY <1>1
  <2>2. PICK a \in Key, b \in Value : es[i] = <<a, b>>
    BY <2>1
  <2>3. [<<a, b>> EXCEPT ![2] = v] = <<a, v>>
    OBVIOUS
  <2>4. <<a, b>>[1] = a
    OBVIOUS
  <2> QED BY <2>2, <2>3, <2>4
<1>3. new = [es EXCEPT ![i] = e]
  BY <1>2 DEF Updated
<1> HIDE DEF e
<1>4. /\ new \in Seq(Key \X Value) /\ Len(new) = Len(es) /\ DOMAIN new = DOMAIN es
      /\ \A k \in DOMAIN es : new[k][1] = es[k][1]
  <2>1. i \in 1 .. Len(es)
    BY <1>1
  <2>2. /\ [es EXCEPT ![i] = e] \in Seq(Key \X Value) /\ Len([es EXCEPT ![i] = e]) = Len(es)
        /\ \A k \in 1 .. Len(es) : [es EXCEPT ![i] = e][k] = IF k = i THEN e ELSE es[k]
    BY <1>1, <1>2, <2>1, ExceptSeq
  <2>3. new \in Seq(Key \X Value) /\ Len(new) = Len(es)
    BY <1>3, <2>2
  <2>4. DOMAIN new = DOMAIN es
    BY <1>1, <2>3
  <2>5. \A k \in DOMAIN es : new[k][1] = es[k][1]
    BY <1>1, <1>2, <1>3, <2>2
  <2> QED BY <2>3, <2>4, <2>5
<1>5. Wanted(new, hash) = Wanted(es, hash) /\ Distinct(new)
  BY <1>1, <1>4 DEF Wanted, Distinct
<1>6. \A n : Describes(t, n, es, hash) => Describes(t, n, new, hash)
  BY <1>4, <1>5 DEF Describes
<1>7. new \in EntryLists
  BY <1>4 DEF EntryLists
<1>8. MapOk(new, t, hash)
  BY <1>4, <1>5, <1>6, <1>7 DEF MapOk
<1> QED BY <1>3, <1>8 DEF e

\* A new map has no entries and no table.
LEMMA MapInvInit == Init => MapInv
<1> SUFFICES ASSUME Init PROVE MapInv
  OBVIOUS
<1>1. entries = <<>> /\ table = NoTable /\ hashKey \in Hashes /\ 0 <= LinearMax
  BY SizesAssumption DEF Init, Hashes
<1>2. entries \in EntryLists /\ Len(entries) = 0 /\ Distinct(entries)
  BY <1>1 DEF EntryLists, Distinct
<1> QED BY <1>1, <1>2 DEF MapInv, MapOk

\* Every call of the map keeps the invariant, a retain that unwinds and its rebuild
\* included.
LEMMA MapInvNext == MapInv /\ [Next]_omvars => MapInv'
<1> SUFFICES ASSUME MapInv, [Next]_omvars PROVE MapInv'
  OBVIOUS
<1>1. /\ MapOk(entries, table, hashKey)
      /\ hashKey \in Hashes /\ entries \in EntryLists /\ Distinct(entries)
  BY DEF MapInv, MapOk
<1>2. SUFFICES hashKey' = hashKey /\ MapOk(entries', table', hashKey)
  BY DEF MapInv
<1>3. ASSUME NEW key \in Key, Get(key)
      PROVE  hashKey' = hashKey /\ MapOk(entries', table', hashKey)
  BY <1>1, <1>3 DEF Get
<1>4. ASSUME NEW key \in Key, RemoveEntry(key)
      PROVE  hashKey' = hashKey /\ MapOk(entries', table', hashKey)
  <2> DEFINE pos == Locate(key)
  <2>1. CASE pos = NotFound
    BY <1>1, <1>4, <2>1 DEF RemoveEntry
  <2>2. CASE pos # NotFound
    <3> DEFINE i == pos + 1
    <3>1. i \in DOMAIN entries /\ i - 1 = pos
      BY <2>2, Located
    <3>2. /\ entries' = RemoveAt(entries, i) /\ table' = RemoveAtPos(table, entries, pos)
          /\ hashKey' = hashKey
      BY <1>4, <2>2 DEF RemoveEntry
    <3> HIDE DEF i, pos
    <3>3. MapOk(RemoveAt(entries, i), RemoveAtPos(table, entries, i - 1), hashKey)
      BY <1>1, <3>1, RemoveAtPosFacts
    <3> QED BY <3>1, <3>2, <3>3
  <2> QED BY <2>1, <2>2
<1>5. ASSUME NEW key \in Key, NEW value \in Value, Insert(key, value)
      PROVE  hashKey' = hashKey /\ MapOk(entries', table', hashKey)
  <2> DEFINE pos == Locate(key)
  <2>1. CASE pos # NotFound
    <3> DEFINE i == pos + 1
    <3>1. i \in DOMAIN entries
      BY <2>1, Located
    <3>2. entries' = [entries EXCEPT ![i][2] = value] /\ table' = table /\ hashKey' = hashKey
      BY <1>5, <2>1 DEF Insert
    <3> HIDE DEF i, pos
    <3> DEFINE new == entries'
    <3>n. Updated(new, entries, i, value)
      BY <3>2 DEF Updated
    <3> HIDE DEF new
    <3>u. MapOk(new, table, hashKey)
      BY <1>1, <3>1, <3>n, UpdateFacts
    <3>3. MapOk(entries', table, hashKey)
      BY <3>u DEF new
    <3> QED BY <3>2, <3>3
  <2>2. CASE pos = NotFound
    <3> DEFINE e == <<key, value>>
    <3>1. e \in Key \X Value /\ e[1] = key
      OBVIOUS
    <3>2. entries' = Append(entries, e) /\ table' = PushNew(table, entries') /\ hashKey' = hashKey
      BY <1>5, <2>2 DEF Insert
    <3>3. \A i \in DOMAIN entries : entries[i][1] # e[1]
      BY <2>2, <3>1, Located
    <3> HIDE DEF e, pos
    <3>4. MapOk(entries', PushNew(table, entries'), hashKey)
      BY <1>1, <3>1, <3>2, <3>3, PushNewFacts
    <3> QED BY <3>2, <3>4
  <2> QED BY <2>1, <2>2
<1>6. ASSUME NEW kept, Retain(kept)
      PROVE  hashKey' = hashKey /\ MapOk(entries', table', hashKey)
  <2>1. /\ entries' = KeptOf(entries, kept) /\ hashKey' = hashKey
        /\ table' = IF Len(entries') # Len(entries) THEN Reindex(table, entries') ELSE table
    BY <1>6 DEF Retain
  <2>2. /\ entries' \in EntryLists /\ Distinct(entries')
        /\ Len(entries') = Len(entries) => entries' = entries
    BY <1>1, <2>1, KeptFacts
  <2>3. CASE Len(entries') = Len(entries)
    BY <1>1, <2>1, <2>2, <2>3
  <2>4. CASE Len(entries') # Len(entries)
    <3>1. MapOk(entries', Reindex(table, entries'), hashKey)
      BY <1>1, <2>2, ReindexFacts
    <3> QED BY <2>1, <2>4, <3>1
  <2> QED BY <2>3, <2>4
<1>7. ASSUME SortKeys
      PROVE  hashKey' = hashKey /\ MapOk(entries', table', hashKey)
  <2>1. entries' = SortedByKey(entries) /\ hashKey' = hashKey /\ table' = Reindex(table, entries')
    BY <1>7 DEF SortKeys
  <2>2. entries' \in EntryLists /\ Distinct(entries')
    BY <1>1, <2>1, SortedFacts
  <2>3. MapOk(entries', Reindex(table, entries'), hashKey)
    BY <1>1, <2>2, ReindexFacts
  <2> QED BY <2>1, <2>3
<1>8. ASSUME Clear
      PROVE  hashKey' = hashKey /\ MapOk(entries', table', hashKey)
  <2>1. entries' = <<>> /\ table' = NoTable /\ hashKey' = hashKey /\ 0 <= LinearMax
    BY <1>8, SizesAssumption DEF Clear
  <2>2. entries' \in EntryLists /\ Len(entries') = 0 /\ Distinct(entries')
    BY <2>1 DEF EntryLists, Distinct
  <2> QED BY <1>1, <2>1, <2>2 DEF MapOk
<1>9. ASSUME UNCHANGED omvars
      PROVE  hashKey' = hashKey /\ MapOk(entries', table', hashKey)
  BY <1>1, <1>9 DEF omvars
<1> QED BY <1>3, <1>4, <1>5, <1>6, <1>7, <1>8, <1>9 DEF Next

-----------------------------------------------------------------------------
(* The theorems.                                                           *)

\* Whatever is called, and however often: keys are distinct, the table is there
\* exactly when the sizes ask for it, and it stores each entry once, in robin hood
\* order, with its hash and its position (OrderedMap's fields in map.rs).
THEOREM MapStands == Spec => []MapInv
BY MapInvInit, MapInvNext, PTL DEF Spec

\* As many buckets are in use as there are entries.
LEMMA UsedCount ==
  ASSUME NEW es \in EntryLists, Len(es) <= MaxIndexed, NEW hash \in Hashes, NEW t, NEW n,
         Describes(t, n, es, hash), NEW used, used = {i \in DOMAIN t : ~IsEmpty(t[i])}
  PROVE  Cardinality(used) = Len(es)
<1> DEFINE m == Len(es)
           f == [x \in used |-> t[x].index + 1]
<1>1. m \in Nat /\ DOMAIN es = 1 .. m
  BY DEF EntryLists
<1>2. n \in Nat /\ DOMAIN t = 0 .. n - 1 /\ Single(t)
  BY DEF Describes, Sound, Tables
<1>3. IsFiniteSet(used)
  <2>1. 0 \in Int /\ n - 1 \in Int /\ used \in SUBSET (0 .. n - 1)
    BY <1>2
  <2>2. IsFiniteSet(0 .. n - 1)
    BY <2>1, FS_Interval
  <2> QED BY <2>1, <2>2, FS_Subset
<1>4. \A x \in used : x \in 0 .. n - 1 /\ ~IsEmpty(t[x]) /\ t[x].index \in 0 .. m - 1
  BY <1>2, UsedBucket
<1>5. f \in [used -> 1 .. m] /\ \A x \in used : f[x] = t[x].index + 1
  BY <1>1, <1>4
<1>6. \A x, y \in used : f[x] = f[y] => x = y
  <2> SUFFICES ASSUME NEW x \in used, NEW y \in used, f[x] = f[y] PROVE x = y
    OBVIOUS
  <2>1. t[x].index = t[y].index
    BY <1>1, <1>4, <1>5
  <2> QED BY <1>2, <1>4, <2>1 DEF Single
<1>7. ASSUME NEW i \in 1 .. m
      PROVE  \E x \in used : f[x] = i
  <2>1. PICK x \in 0 .. n - 1 : t[x] = [index |-> i - 1, hash |-> hash[es[i][1]]] /\ ~IsEmpty(t[x])
    BY <1>1, BucketThere
  <2>2. x \in used /\ t[x].index = i - 1
    BY <1>2, <2>1
  <2> QED BY <1>5, <2>2
<1> HIDE DEF f, m
<1>8. f \in Bijection(used, 1 .. m)
  BY <1>5, <1>6, <1>7 DEF Bijection, Injection, Surjection, IsInjective
<1>9. Cardinality(1 .. m) = Cardinality(used)
  BY <1>3, <1>8, FS_Bijection DEF ExistsBijection
<1>10. Cardinality(1 .. m) = m
  <2>1. 1 \in Int /\ m \in Int
    BY <1>1
  <2>2. Cardinality(1 .. m) = IF 1 > m THEN 0 ELSE m - 1 + 1
    BY <2>1, FS_Interval
  <2> QED BY <1>1, <2>2
<1> QED BY <1>9, <1>10 DEF m

\* What the invariant says of the table is what the runs check of it.
LEMMA DescribesFromInv == MapInv => TableDescribesEntries
<1> SUFFICES ASSUME MapInv PROVE TableDescribesEntries
  OBVIOUS
<1>1. /\ hashKey \in Hashes /\ entries \in EntryLists /\ Distinct(entries)
      /\ table = NoTable <=> Len(entries) <= LinearMax \/ Len(entries) > MaxIndexed
      /\ table # NoTable => \E n : Describes(table, n, entries, hashKey)
  BY DEF MapInv, MapOk
<1> DEFINE used == {i \in DOMAIN table : ~IsEmpty(table[i])}
<1>2. ASSUME table # NoTable
      PROVE  /\ Cardinality(used) = Len(entries)
             /\ {table[i] : i \in used} = {BucketFor(entries, i - 1) : i \in DOMAIN entries}
  <2>1. PICK n : Describes(table, n, entries, hashKey)
    BY <1>1, <1>2
  <2>2. Len(entries) <= MaxIndexed
    <3>1. Len(entries) \in Nat /\ MaxIndexed \in Nat
      BY <1>1, SizesAssumption DEF EntryLists
    <3> QED BY <1>1, <1>2, <3>1
  <2>3. Cardinality(used) = Len(entries)
    BY <1>1, <2>1, <2>2, UsedCount
  <2>4. {table[i] : i \in used} = Wanted(entries, hashKey)
    BY <2>1 DEF Describes, Content
  <2>5. \A i \in DOMAIN entries :
          BucketFor(entries, i - 1) = [index |-> i - 1, hash |-> hashKey[entries[i][1]]]
    BY <1>1, <2>2, BucketForFacts
  <2>6. {BucketFor(entries, i - 1) : i \in DOMAIN entries} = Wanted(entries, hashKey)
    BY <2>5 DEF Wanted
  <2> QED BY <2>3, <2>4, <2>6
<1> QED BY <1>1, <1>2 DEF TableDescribesEntries

\* And so is what it says of probes.
LEMMA ProbesFromInv == MapInv => ProbesAreRight
<1> SUFFICES ASSUME MapInv PROVE ProbesAreRight
  OBVIOUS
<1>1. /\ hashKey \in Hashes /\ entries \in EntryLists
      /\ table # NoTable => \E n : Describes(table, n, entries, hashKey)
  BY DEF MapInv, MapOk
<1>2. CASE table = NoTable
  <2>1. DOMAIN table = {}
    BY <1>2 DEF NoTable
  <2> QED BY <1>2, <2>1 DEF ProbesAreRight, EveryProbeStops, BucketsInOrder
<1>3. CASE table # NoTable
  <2>1. PICK n : Describes(table, n, entries, hashKey)
    BY <1>1, <1>3
  <2>2. /\ n \in Nat \ {0} /\ Len(entries) <= LoadLimit(n) /\ table \in Tables(n)
        /\ DOMAIN table = 0 .. n - 1 /\ InOrder(table, n)
    BY <2>1 DEF Describes, Sound, Tables
  <2>3. Cap(table) = n /\ \A i : Distance(table, i) = Far(table, n, i)
    BY <2>2, WalkFacts
  <2>4. \A key \in Key : ProbeStops(table, hashKey[key]) # {}
    <3>1. \A key \in Key : hashKey[key] \in Nat
      BY <1>1 DEF Hashes
    <3> QED BY <1>1, <2>1, <3>1, ProbeEnds
  <2>5. BucketsInOrder
    <3> SUFFICES ASSUME NEW i \in 0 .. n - 1, NEW next, next = (i + 1) % Cap(table),
                        ~IsEmpty(table[next])
                 PROVE  Distance(table, next) <= IF IsEmpty(table[i]) THEN 0
                                                 ELSE Distance(table, i) + 1
      BY <2>2 DEF BucketsInOrder
    <3>1. next = After(i, n)
      BY <2>3 DEF After
    <3>2. next \in 0 .. n - 1
      <4>1. 0 \in Nat
        OBVIOUS
      <4> QED BY <2>2, <3>1, <4>1, AfterAway
    <3>3. Follows(table, n, i, next)
      BY <2>2, <3>1 DEF InOrder
    <3>4. Far(table, n, next) \in 0 .. n - 1
      BY <2>2, <3>2, FarFacts
    <3> QED BY <2>3, <3>3, <3>4 DEF Follows
  <2> QED BY <2>2, <2>3, <2>4, <2>5, <1>3 DEF ProbesAreRight, EveryProbeStops
<1> QED BY <1>2, <1>3

\* After every operation of OrderedMap the table describes the entries that are
\* there, and there is one exactly when the sizes ask for it.
THEOREM MapIsDescribed == Spec => []TableDescribesEntries
BY MapStands, DescribesFromInv, PTL

\* A probe of HashTable::find walks no further than the key it seeks can be, and
\* always comes to an end.
THEOREM MapProbesAreRight == Spec => []ProbesAreRight
BY MapStands, ProbesFromInv, PTL

-----------------------------------------------------------------------------
(* The map answers as one that scans.                                      *)

\* What locate finds is what a scan of the entries finds.
LEMMA ScanFacts ==
  ASSUME MapInv, NEW key \in Key
  PROVE  /\ Scanned!Holds(key) <=> Locate(key) # NotFound
         /\ Scanned!Holds(key) => Locate(key) + 1 = Scanned!Where(key)
         /\ Scanned!ValueOf(key) = ValueAt(Locate(key))
<1>1. /\ Locate(key) # NotFound =>
           /\ Locate(key) + 1 \in DOMAIN entries /\ entries[Locate(key) + 1][1] = key
      /\ Locate(key) = NotFound => \A i \in DOMAIN entries : entries[i][1] # key
  BY Located
<1>2. Distinct(entries)
  BY DEF MapInv, MapOk
<1>3. CASE Locate(key) = NotFound
  <2>1. ~Scanned!Holds(key)
    BY <1>1, <1>3 DEF Scanned!Holds, Scanned!Positions
  <2>2. Scanned!ValueOf(key) = None /\ ValueAt(Locate(key)) = None
    BY <1>3, <2>1 DEF Scanned!ValueOf, Scanned!None, None, ValueAt
  <2> QED BY <1>3, <2>1, <2>2
<1>4. CASE Locate(key) # NotFound
  <2> DEFINE i == Locate(key) + 1
  <2>1. i \in DOMAIN entries /\ entries[i][1] = key
    BY <1>1, <1>4
  <2>i. i = Locate(key) + 1
    OBVIOUS
  <2> HIDE DEF i
  <2>2. Scanned!Positions(key) = {i}
    BY <1>2, <2>1 DEF Scanned!Positions, Distinct
  <2>3. Scanned!Holds(key) /\ Scanned!Where(key) = i
    BY <2>2 DEF Scanned!Holds, Scanned!Where
  <2>4. Scanned!ValueOf(key) = ValueAt(Locate(key))
    BY <1>4, <2>3, <2>i DEF Scanned!ValueOf, Scanned!Some, Some, ValueAt
  <2> QED BY <1>4, <2>3, <2>4, <2>i
<1> QED BY <1>3, <1>4

\* Every step of the map is one of the map that scans.
LEMMA ScanStep == MapInv /\ [Next]_omvars => [Scanned!Next]_(Scanned!mvars)
<1> SUFFICES ASSUME MapInv, [Next]_omvars PROVE [Scanned!Next]_(Scanned!mvars)
  OBVIOUS
<1>1. MapOk(entries, table, hashKey) /\ entries \in EntryLists /\ Distinct(entries)
  BY DEF MapInv, MapOk
<1>2. ASSUME NEW key \in Key, Get(key)
      PROVE  Scanned!Get(key)
  BY <1>2, ScanFacts DEF Get, Scanned!Get, Returns, Scanned!Returns
<1>3. ASSUME NEW key \in Key, RemoveEntry(key)
      PROVE  Scanned!RemoveEntry(key)
  <2>1. /\ Scanned!Holds(key) <=> Locate(key) # NotFound
        /\ Scanned!Holds(key) => Locate(key) + 1 = Scanned!Where(key)
        /\ Scanned!ValueOf(key) = ValueAt(Locate(key))
    BY ScanFacts
  <2>2. ret' = ValueAt(Locate(key))
    BY <1>3 DEF RemoveEntry, Returns
  <2>3. entries' = IF Locate(key) # NotFound THEN RemoveAt(entries, Locate(key) + 1) ELSE entries
    BY <1>3 DEF RemoveEntry
  <2> QED BY <2>1, <2>2, <2>3 DEF Scanned!RemoveEntry, Scanned!Returns, Scanned!RemoveAt, RemoveAt
<1>4. ASSUME NEW key \in Key, NEW value \in Value, Insert(key, value)
      PROVE  Scanned!Insert(key, value)
  <2>1. /\ Scanned!Holds(key) <=> Locate(key) # NotFound
        /\ Scanned!Holds(key) => Locate(key) + 1 = Scanned!Where(key)
        /\ Scanned!ValueOf(key) = ValueAt(Locate(key))
    BY ScanFacts
  <2>2. ret' = ValueAt(Locate(key))
    BY <1>4 DEF Insert, Returns
  <2>3. CASE Locate(key) = NotFound
    <3>1. entries' = Append(entries, <<key, value>>)
      BY <1>4, <2>3 DEF Insert
    <3> QED BY <2>1, <2>2, <2>3, <3>1 DEF Scanned!Insert, Scanned!Returns
  <2>4. CASE Locate(key) # NotFound
    <3> DEFINE i == Locate(key) + 1
    <3>1. i \in DOMAIN entries /\ entries[i][1] = key
      BY <2>4, Located
    <3>2. entries' = [entries EXCEPT ![i][2] = value]
      BY <1>4, <2>4 DEF Insert
    <3>i. i = Scanned!Where(key)
      BY <2>1, <2>4
    <3> HIDE DEF i
    <3> DEFINE new == entries'
    <3>n. Updated(new, entries, i, value)
      BY <3>2 DEF Updated
    <3> HIDE DEF new
    <3>u. new = [entries EXCEPT ![i] = <<entries[i][1], value>>]
      BY <1>1, <3>1, <3>n, UpdateFacts
    <3>3. entries' = [entries EXCEPT ![i] = <<entries[i][1], value>>]
      BY <3>u DEF new
    <3>4. entries' = [entries EXCEPT ![Scanned!Where(key)] = <<key, value>>]
      BY <3>1, <3>3, <3>i
    <3> QED BY <2>1, <2>2, <2>4, <3>4 DEF Scanned!Insert, Scanned!Returns
  <2> QED BY <2>3, <2>4
<1>5. ASSUME NEW kept, Retain(kept)
      PROVE  Scanned!Retain(kept)
  <2>1. entries' = KeptOf(entries, kept) /\ ret' = None
    BY <1>5 DEF Retain, Returns
  <2>2. /\ Range(entries') = {e \in Range(entries) : e[1] \in kept}
        /\ \A j, k \in DOMAIN entries' : j < k =>
             \E p, q \in DOMAIN entries : p < q /\ entries'[j] = entries[p] /\ entries'[k] = entries[q]
    BY <1>1, <2>1, KeptFacts
  <2>3. ASSUME NEW p \in DOMAIN entries
        PROVE  Scanned!Where(entries[p][1]) = p
    <3>1. Scanned!Positions(entries[p][1]) = {p}
      BY <1>1 DEF Scanned!Positions, Distinct
    <3> QED BY <3>1 DEF Scanned!Where
  <2>4. ASSUME NEW j \in DOMAIN entries', NEW k \in DOMAIN entries', j < k
        PROVE  Scanned!Where(entries'[j][1]) < Scanned!Where(entries'[k][1])
    <3>1. PICK p \in DOMAIN entries, q \in DOMAIN entries :
            p < q /\ entries'[j] = entries[p] /\ entries'[k] = entries[q]
      BY <2>2, <2>4
    <3>2. Scanned!Where(entries[p][1]) = p /\ Scanned!Where(entries[q][1]) = q
      BY <2>3
    <3> QED BY <3>1, <3>2
  <2> QED BY <2>1, <2>2, <2>4 
       DEF Scanned!Retain, Scanned!Returns, Scanned!None, None, Scanned!Range, Range
<1>6. ASSUME SortKeys
      PROVE  Scanned!SortKeys
  <2>1. entries' = SortedByKey(entries) /\ ret' = None
    BY <1>6 DEF SortKeys, Returns
  <2>2. /\ Range(entries') = Range(entries)
        /\ \A j, k \in DOMAIN entries' : j < k => entries'[j][1] < entries'[k][1]
    BY <1>1, <2>1, SortedFacts
  <2> QED BY <2>1, <2>2 
       DEF Scanned!SortKeys, Scanned!Returns, Scanned!None, None, Scanned!Range, Range
<1>7. ASSUME Clear
      PROVE  Scanned!Clear
  BY <1>7 DEF Clear, Returns, Scanned!Clear, Scanned!Returns, Scanned!None, None
<1>8. ASSUME UNCHANGED omvars
      PROVE  UNCHANGED Scanned!mvars
  BY <1>8 DEF omvars, Scanned!mvars
<1> QED BY <1>2, <1>3, <1>4, <1>5, <1>6, <1>7, <1>8 DEF Next, Scanned!Next

\* OrderedMap answers every call as a list of entries that is scanned would: the
\* table is invisible.
THEOREM MapIsScanned == Spec => ImplementsMap
<1>1. Init => Scanned!Init
  BY DEF Init, Scanned!Init, None, Scanned!None
<1> QED BY <1>1, ScanStep, MapStands, PTL DEF Spec, ImplementsMap, Scanned!Spec
=============================================================================
