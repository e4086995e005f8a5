----------------------------- MODULE HistoryProofs -----------------------------
(***************************************************************************)
(* No message is printed twice, and none that was there the whole time is  *)
(* missed, for any pages, any limit and any workspace that messages come   *)
(* to and go from while they are read.  What is read is kept apart from    *)
(* what is not by the cursor: older or newer than it, of a channel that is *)
(* left or not, ranked above or below the next page.                       *)
(***************************************************************************)
EXTENDS History, FiniteSetTheorems, SequenceTheorems, TLAPS

(* What lies below each element of a finite linear order counts through it.  *)
LEMMA Ranks ==
  ASSUME NEW S, IsFiniteSet(S), NEW below \in [S -> SUBSET S],
         \A x \in S : x \notin below[x],
         \A x, y \in S : x # y => \/ x \in below[y] /\ below[x] \subseteq below[y]
                                  \/ y \in below[x] /\ below[y] \subseteq below[x]
  PROVE  /\ Cardinality(S) \in Nat
         /\ \A x \in S : Cardinality(below[x]) \in 0..(Cardinality(S) - 1)
         /\ \A x, y \in S : x \in below[y] => Cardinality(below[x]) < Cardinality(below[y])
         /\ \A x, y \in S : Cardinality(below[x]) = Cardinality(below[y]) => x = y
         /\ \A n \in 0..(Cardinality(S) - 1) : \E x \in S : Cardinality(below[x]) = n
<1> DEFINE size == Cardinality(S)
           rank == [x \in S |-> Cardinality(below[x])]
<1>1. size \in Nat
  BY FS_CardinalityType
<1>2. \A x \in S : IsFiniteSet(below[x]) /\ rank[x] \in Nat
  BY FS_Subset, FS_CardinalityType
<1>3. ASSUME NEW x \in S PROVE rank[x] \in 0..(size - 1)
  <2>1. rank[x] <= size /\ (size = rank[x] => S = below[x])
    BY FS_Subset
  <2>2. rank[x] # size
    BY <2>1
  <2> HIDE DEF size, rank
  <2> QED BY <1>1, <1>2, <2>1, <2>2
<1>4. ASSUME NEW x \in S, NEW y \in S, x \in below[y] PROVE rank[x] < rank[y]
  <2>1. below[x] \subseteq below[y] /\ x \notin below[x]
    BY <1>4
  <2>2. rank[x] <= rank[y] /\ (rank[y] = rank[x] => below[y] = below[x])
    BY <1>2, <2>1, FS_Subset
  <2>3. rank[x] # rank[y]
    BY <1>4, <2>1, <2>2
  <2> HIDE DEF rank
  <2> QED BY <1>2, <2>2, <2>3
<1>5. ASSUME NEW x \in S, NEW y \in S, rank[x] = rank[y] PROVE x = y
  <2>1. x \notin below[y] /\ y \notin below[x]
    <3> HIDE DEF rank
    <3> QED BY <1>2, <1>4, <1>5
  <2> QED BY <2>1
<1>6. ASSUME NEW n \in 0..(size - 1) PROVE \E x \in S : rank[x] = n
  <2>1. IsFiniteSet(0..(size - 1)) /\ Cardinality(0..(size - 1)) = size
    <3> HIDE DEF size
    <3>1. 0 \in Int /\ size - 1 \in Int
      BY <1>1
    <3>2. IsFiniteSet(0..(size - 1))
          /\ Cardinality(0..(size - 1)) = IF 0 > size - 1 THEN 0 ELSE (size - 1) - 0 + 1
      BY <3>1, FS_Interval
    <3> QED BY <1>1, <3>2
  <2>2. rank \in Injection(S, 0..(size - 1))
    <3>1. rank \in [S -> 0..(size - 1)]
      BY <1>3
    <3> HIDE DEF rank
    <3> QED BY <1>5, <3>1 DEF Injection, IsInjective
  <2>3. rank \in Surjection(S, 0..(size - 1))
    <3> HIDE DEF rank
    <3> QED BY <2>1, <2>2, FS_Injection
  <2> HIDE DEF rank, size
  <2> QED BY <1>6, <2>3 DEF Surjection
<1> HIDE DEF size
<1>7. /\ \A x \in S : Cardinality(below[x]) \in 0..(size - 1)
      /\ \A n \in 0..(size - 1) : \E x \in S : Cardinality(below[x]) = n
  BY <1>3, <1>6
<1>8. /\ \A x, y \in S : x \in below[y] => Cardinality(below[x]) < Cardinality(below[y])
      /\ \A x, y \in S : Cardinality(below[x]) = Cardinality(below[y]) => x = y
  BY <1>4, <1>5
<1> QED BY <1>1, <1>7, <1>8 DEF size

(* A timestamp names one message of a set.                                   *)
Unique(messages) == \A m, n \in messages : m.ts = n.ts => m = n

(* NewestFirst lists a set, each message once, the newest first.             *)
LEMMA NewestFirstLists ==
  ASSUME NEW S \in SUBSET Messages, IsFiniteSet(S), Unique(S)
  PROVE  LET s == NewestFirst(S) IN
         /\ Cardinality(S) \in Nat /\ s \in Seq(S) /\ Len(s) = Cardinality(S)
         /\ \A i \in DOMAIN s : Cardinality({x \in S : x.ts > s[i].ts}) = i - 1
         /\ \A m \in S : \E i \in DOMAIN s : s[i] = m
         /\ \A i, j \in DOMAIN s : i < j => s[i].ts > s[j].ts
<1> DEFINE below == [m \in S |-> {x \in S : x.ts > m.ts}]
           n == Cardinality(S)
           s == NewestFirst(S)
<1>1. \A m \in S : m.ts \in Nat
  BY DEF Messages
<1>2. below \in [S -> SUBSET S]
  OBVIOUS
<1>3. \A x \in S : x \notin below[x]
  BY <1>1
<1>4. \A x, y \in S : x # y => \/ x \in below[y] /\ below[x] \subseteq below[y]
                               \/ y \in below[x] /\ below[y] \subseteq below[x]
  BY <1>1 DEF Unique
<1> HIDE DEF below
<1>5. /\ n \in Nat
      /\ \A x \in S : Cardinality(below[x]) \in 0..(n - 1)
      /\ \A x, y \in S : x \in below[y] => Cardinality(below[x]) < Cardinality(below[y])
      /\ \A x, y \in S : Cardinality(below[x]) = Cardinality(below[y]) => x = y
      /\ \A k \in 0..(n - 1) : \E x \in S : Cardinality(below[x]) = k
  BY <1>2, <1>3, <1>4, Ranks
<1>6. \A m \in S : {x \in S : x.ts > m.ts} = below[m]
  BY DEF below
<1> HIDE DEF n
<1>7. s = [i \in 1..n |-> CHOOSE m \in S : Cardinality({x \in S : x.ts > m.ts}) = i - 1]
  BY DEF NewestFirst, n
<1>8. ASSUME NEW i \in 1..n
      PROVE  s[i] \in S /\ Cardinality(below[s[i]]) = i - 1
  <2>1. i - 1 \in 0..(n - 1)
    BY <1>5
  <2>2. \E x \in S : Cardinality({y \in S : y.ts > x.ts}) = i - 1
    BY <1>5, <1>6, <2>1
  <2>3. s[i] = CHOOSE m \in S : Cardinality({x \in S : x.ts > m.ts}) = i - 1
    BY <1>7
  <2>4. s[i] \in S /\ Cardinality({y \in S : y.ts > s[i].ts}) = i - 1
    BY <2>2, <2>3
  <2> QED BY <1>6, <2>4
<1>9. s \in Seq(S) /\ Len(s) = n /\ DOMAIN s = 1..n
  <2>1. DOMAIN s = 1..n /\ s \in [1..n -> S]
    <3>1. s = [i \in 1..n |-> s[i]]
      BY <1>7
    <3> HIDE DEF s
    <3> QED BY <1>8, <3>1
  <2> HIDE DEF s
  <2> QED BY <1>5, <2>1
<1> HIDE DEF s
<1>10. ASSUME NEW m \in S PROVE \E i \in 1..n : s[i] = m
  <2>1. Cardinality(below[m]) + 1 \in 1..n
    BY <1>5
  <2>2. Cardinality(below[s[Cardinality(below[m]) + 1]]) = Cardinality(below[m])
        /\ s[Cardinality(below[m]) + 1] \in S
    BY <1>5, <1>8, <2>1
  <2> QED BY <1>5, <2>1, <2>2
<1>11. ASSUME NEW i \in 1..n, NEW j \in 1..n, i < j PROVE s[i].ts > s[j].ts
  <2>1. s[i] \in S /\ s[j] \in S /\ Cardinality(below[s[i]]) = i - 1
        /\ Cardinality(below[s[j]]) = j - 1
    BY <1>8
  <2>2. s[i] # s[j] /\ s[j] \notin below[s[i]]
    BY <1>5, <1>11, <2>1
  <2> QED BY <1>4, <1>6, <2>1, <2>2
<1> QED BY <1>5, <1>6, <1>8, <1>9, <1>10, <1>11 DEF n, s

(* No two messages of a sequence have the same timestamp.                    *)
Distinct(messages) ==
  \A i, j \in DOMAIN messages : i # j => messages[i].ts # messages[j].ts

(* sortChronological puts the same messages in order.                        *)
LEMMA SortedIs ==
  ASSUME NEW s \in Seq(Messages), Distinct(s)
  PROVE  LET t == SortChronological(s) IN
         /\ t \in Seq(Messages) /\ Len(t) = Len(s) /\ Distinct(t)
         /\ \A i \in DOMAIN t : \E j \in DOMAIN s : t[i] = s[j]
         /\ \A j \in DOMAIN s : \E i \in DOMAIN t : t[i] = s[j]
<1> DEFINE below == [i \in DOMAIN s |-> Leading(s, i)]
           n == Len(s)
           t == SortChronological(s)
<1>1. n \in Nat /\ DOMAIN s = 1..n /\ \A i \in 1..n : s[i] \in Messages /\ s[i].ts \in Nat
  <2>1. n \in Nat /\ DOMAIN s = 1..n /\ \A i \in 1..n : s[i] \in Messages
    OBVIOUS
  <2>2. \A m \in Messages : m.ts \in Nat
    BY DEF Messages
  <2> QED BY <2>1, <2>2
<1>2. IsFiniteSet(1..n) /\ Cardinality(1..n) = n
  <2> HIDE DEF n
  <2>1. /\ IsFiniteSet(1..n)
        /\ Cardinality(1..n) = IF 1 > n THEN 0 ELSE n - 1 + 1
    BY <1>1, FS_Interval
  <2> QED BY <1>1, <2>1
<1>3. below \in [1..n -> SUBSET (1..n)]
  BY <1>1 DEF Leading
<1>4. \A i \in 1..n : below[i] = {j \in 1..n : s[j].ts < s[i].ts}
  BY <1>1 DEF Leading, Distinct
<1> HIDE DEF below
<1>5. \A x \in 1..n : x \notin below[x]
  BY <1>1, <1>4
<1>6. \A x, y \in 1..n : x # y => \/ x \in below[y] /\ below[x] \subseteq below[y]
                                  \/ y \in below[x] /\ below[y] \subseteq below[x]
  <2> SUFFICES ASSUME NEW x \in 1..n, NEW y \in 1..n, x # y
               PROVE  \/ x \in below[y] /\ below[x] \subseteq below[y]
                      \/ y \in below[x] /\ below[y] \subseteq below[x]
    OBVIOUS
  <2>1. s[x].ts # s[y].ts /\ s[x].ts \in Nat /\ s[y].ts \in Nat
    BY <1>1 DEF Distinct
  <2>2. CASE s[x].ts < s[y].ts
    BY <1>1, <1>4, <2>2
  <2>3. CASE s[y].ts < s[x].ts
    BY <1>1, <1>4, <2>3
  <2> QED BY <2>1, <2>2, <2>3
<1> HIDE DEF n
<1>7. /\ \A x \in 1..n : Cardinality(below[x]) \in 0..(n - 1)
      /\ \A x, y \in 1..n : Cardinality(below[x]) = Cardinality(below[y]) => x = y
      /\ \A k \in 0..(n - 1) : \E x \in 1..n : Cardinality(below[x]) = k
  <2> DEFINE S == 1..n
  <2>1. IsFiniteSet(S) /\ Cardinality(S) = n /\ below \in [S -> SUBSET S]
    BY <1>2, <1>3
  <2>2. /\ \A x \in S : x \notin below[x]
        /\ \A x, y \in S : x # y => \/ x \in below[y] /\ below[x] \subseteq below[y]
                                    \/ y \in below[x] /\ below[y] \subseteq below[x]
    BY <1>5, <1>6
  <2> HIDE DEF S
  <2>3. /\ \A x \in S : Cardinality(below[x]) \in 0..(Cardinality(S) - 1)
        /\ \A x, y \in S : Cardinality(below[x]) = Cardinality(below[y]) => x = y
        /\ \A k \in 0..(Cardinality(S) - 1) : \E x \in S : Cardinality(below[x]) = k
    BY <2>1, <2>2, Ranks
  <2>4. /\ \A x \in S : Cardinality(below[x]) \in 0..(n - 1)
        /\ \A x, y \in S : Cardinality(below[x]) = Cardinality(below[y]) => x = y
        /\ \A k \in 0..(n - 1) : \E x \in S : Cardinality(below[x]) = k
    BY <2>1, <2>3
  <2> QED BY <2>4 DEF S
<1> DEFINE at == [k \in 1..n |-> CHOOSE i \in 1..n : Cardinality(below[i]) = k - 1]
<1>8. ASSUME NEW k \in 1..n
      PROVE  at[k] \in 1..n /\ Cardinality(below[at[k]]) = k - 1
  <2>1. k - 1 \in 0..(n - 1)
    BY <1>1
  <2>2. \E x \in 1..n : Cardinality(below[x]) = k - 1
    BY <1>7, <2>1
  <2> QED BY <2>2
<1>9. t = [k \in 1..n |-> s[at[k]]]
  <2>1. \A i \in 1..n : Leading(s, i) = below[i]
    BY <1>1 DEF below
  <2>2. ASSUME NEW k \in 1..n
        PROVE  at[k] = CHOOSE i \in DOMAIN s : Cardinality(Leading(s, i)) = k - 1
    <3>1. \A i \in 1..n : Cardinality(below[i]) = k - 1 <=> Cardinality(Leading(s, i)) = k - 1
      BY <2>1
    <3>2. (CHOOSE i \in 1..n : Cardinality(below[i]) = k - 1)
            = CHOOSE i \in 1..n : Cardinality(Leading(s, i)) = k - 1
      BY <3>1
    <3> QED BY <1>1, <3>2
  <2> DEFINE pick(k) == CHOOSE i \in DOMAIN s : Cardinality(Leading(s, i)) = k - 1
  <2>3. t = [k \in DOMAIN s |-> s[pick(k)]]
    BY DEF SortChronological
  <2> HIDE DEF at, t
  <2>4. \A k \in 1..n : pick(k) = at[k]
    BY <2>2
  <2> HIDE DEF pick
  <2> QED BY <1>1, <2>3, <2>4
<1> HIDE DEF at, t
<1>10. \A k, l \in 1..n : at[k] = at[l] => k = l
  <2> SUFFICES ASSUME NEW k \in 1..n, NEW l \in 1..n, at[k] = at[l] PROVE k = l
    OBVIOUS
  <2>1. k - 1 = l - 1
    BY <1>8
  <2> QED BY <2>1
<1>11. \A i \in 1..n : \E k \in 1..n : at[k] = i
  <2> SUFFICES ASSUME NEW i \in 1..n PROVE \E k \in 1..n : at[k] = i
    OBVIOUS
  <2>1. PICK c \in 0..(n - 1) : Cardinality(below[i]) = c
    BY <1>7
  <2>2. c + 1 \in 1..n /\ (c + 1) - 1 = c
    BY <1>1
  <2>3. at[c + 1] \in 1..n /\ Cardinality(below[at[c + 1]]) = c
    BY <1>8, <2>2
  <2> QED BY <1>7, <2>1, <2>2, <2>3
<1>12. t \in Seq(Messages) /\ Len(t) = n /\ DOMAIN t = 1..n
  <2>1. DOMAIN t = 1..n /\ t \in [1..n -> Messages]
    BY <1>1, <1>8, <1>9
  <2> QED BY <1>1, <2>1
<1>13. Distinct(t)
  <2>1. \A k \in 1..n : t[k] = s[at[k]] /\ at[k] \in DOMAIN s
    BY <1>1, <1>8, <1>9
  <2> QED BY <1>10, <1>12, <2>1 DEF Distinct
<1>14. \A k \in DOMAIN t : \E j \in DOMAIN s : t[k] = s[j]
  BY <1>1, <1>8, <1>9, <1>12
<1>15. \A j \in DOMAIN s : \E k \in DOMAIN t : t[k] = s[j]
  BY <1>1, <1>9, <1>11, <1>12
<1> QED BY <1>12, <1>13, <1>14, <1>15 DEF n, t

(* The messages of two lists, one after the other.                           *)
LEMMA Joined ==
  ASSUME NEW s \in Seq(Messages), NEW t \in Seq(Messages)
  PROVE  /\ s \o t \in Seq(Messages)
         /\ ToSet(s \o t) = ToSet(s) \cup ToSet(t)
         /\ Distinct(s) /\ Distinct(t) /\ (\A m \in ToSet(s), n \in ToSet(t) : m.ts # n.ts)
              => Distinct(s \o t)
<1> DEFINE r == s \o t
           k == Len(s)
           l == Len(t)
<1>1. /\ k \in Nat /\ l \in Nat /\ r \in Seq(Messages) /\ Len(r) = k + l
      /\ DOMAIN s = 1..k /\ DOMAIN t = 1..l /\ DOMAIN r = 1..(k + l)
  OBVIOUS
<1>2. /\ \A i \in 1..k : r[i] = s[i]
      /\ \A i \in (k + 1)..(k + l) : r[i] = t[i - k]
  OBVIOUS
<1> HIDE DEF r, k, l
<1>3. ToSet(r) = ToSet(s) \cup ToSet(t)
  <2>1. ASSUME NEW i \in 1..(k + l)
        PROVE  r[i] \in ToSet(s) \cup ToSet(t)
    <3>1. CASE i \in 1..k
      BY <1>1, <1>2, <3>1 DEF ToSet
    <3>2. CASE i \in (k + 1)..(k + l)
      <4>1. i - k \in 1..l
        BY <1>1, <3>2
      <4> QED BY <1>1, <1>2, <3>2, <4>1 DEF ToSet
    <3> QED BY <1>1, <3>1, <3>2
  <2>2. ASSUME NEW i \in 1..k PROVE s[i] \in ToSet(r)
    <3>1. i \in 1..(k + l)
      BY <1>1
    <3> QED BY <1>1, <1>2, <3>1 DEF ToSet
  <2>3. ASSUME NEW i \in 1..l PROVE t[i] \in ToSet(r)
    <3>1. k + i \in (k + 1)..(k + l) /\ k + i \in 1..(k + l) /\ (k + i) - k = i
      BY <1>1
    <3>2. r[k + i] = t[i]
      BY <1>2, <3>1
    <3> QED BY <1>1, <3>1, <3>2 DEF ToSet
  <2> QED BY <1>1, <2>1, <2>2, <2>3 DEF ToSet
<1>4. ASSUME Distinct(s), Distinct(t), \A m \in ToSet(s), n \in ToSet(t) : m.ts # n.ts
      PROVE  Distinct(r)
  <2>1. \A i \in 1..k : s[i] \in ToSet(s)
    BY <1>1 DEF ToSet
  <2>2. \A i \in 1..l : t[i] \in ToSet(t)
    BY <1>1 DEF ToSet
  <2> SUFFICES ASSUME NEW i \in 1..(k + l), NEW j \in 1..(k + l), i # j
               PROVE  r[i].ts # r[j].ts
    BY <1>1 DEF Distinct
  <2>3. CASE i \in 1..k /\ j \in 1..k
    BY <1>1, <1>2, <1>4, <2>3 DEF Distinct
  <2>4. CASE i \in (k + 1)..(k + l) /\ j \in (k + 1)..(k + l)
    <3>1. i - k \in 1..l /\ j - k \in 1..l /\ i - k # j - k
      BY <1>1, <2>4
    <3>2. r[i] = t[i - k] /\ r[j] = t[j - k]
      BY <1>2, <2>4
    <3>3. t[i - k].ts # t[j - k].ts
      BY <1>1, <1>4, <3>1 DEF Distinct
    <3> QED BY <3>2, <3>3
  <2>5. CASE i \in 1..k /\ j \in (k + 1)..(k + l)
    <3>1. j - k \in 1..l
      BY <1>1, <2>5
    <3>2. r[i] \in ToSet(s) /\ r[j] \in ToSet(t)
      BY <1>2, <2>1, <2>2, <2>5, <3>1
    <3> QED BY <1>4, <3>2
  <2>6. CASE j \in 1..k /\ i \in (k + 1)..(k + l)
    <3>1. i - k \in 1..l
      BY <1>1, <2>6
    <3>2. r[j] \in ToSet(s) /\ r[i] \in ToSet(t)
      BY <1>2, <2>1, <2>2, <2>6, <3>1
    <3> QED BY <1>4, <3>2
  <2> QED BY <1>1, <2>3, <2>4, <2>5, <2>6
<1> QED BY <1>1, <1>3, <1>4 DEF r

(* A stretch of a list.                                                      *)
LEMMA Stretch ==
  ASSUME NEW s \in Seq(Messages), NEW first \in Nat \ {0}, NEW last \in Int, last <= Len(s)
  PROVE  LET t == SubSeq(s, first, last) IN
         /\ t \in Seq(Messages)
         /\ Len(t) = IF first <= last THEN last - first + 1 ELSE 0
         /\ \A i \in DOMAIN t : first + i - 1 \in DOMAIN s /\ t[i] = s[first + i - 1]
                                /\ first + i - 1 <= last
         /\ ToSet(t) \subseteq ToSet(s)
         /\ Distinct(s) => Distinct(t)
<1> DEFINE t == SubSeq(s, first, last)
<1>1. \A i \in first..last : i \in DOMAIN s /\ s[i] \in Messages
  OBVIOUS
<1>2. /\ t \in Seq(Messages)
      /\ Len(t) = IF first <= last THEN last - first + 1 ELSE 0
      /\ \A i \in 1..(last - first + 1) : t[i] = s[first + i - 1]
  BY <1>1, SubSeqProperties
<1>3. DOMAIN t = 1..Len(t)
  BY <1>2
<1> HIDE DEF t
<1>4. ASSUME NEW i \in DOMAIN t
      PROVE  first + i - 1 \in DOMAIN s /\ t[i] = s[first + i - 1] /\ first + i - 1 <= last
  <2>1. i \in 1..(last - first + 1) /\ first + i - 1 \in first..last
    BY <1>2, <1>3
  <2> QED BY <1>1, <1>2, <2>1
<1>5. ToSet(t) \subseteq ToSet(s)
  BY <1>4 DEF ToSet
<1>6. ASSUME Distinct(s) PROVE Distinct(t)
  <2> SUFFICES ASSUME NEW i \in DOMAIN t, NEW j \in DOMAIN t, i # j PROVE t[i].ts # t[j].ts
    BY DEF Distinct
  <2>1. first + i - 1 # first + j - 1
    BY <1>2, <1>3
  <2> QED BY <1>4, <1>6, <2>1 DEF Distinct
<1> QED BY <1>2, <1>4, <1>5, <1>6 DEF t

(* A list read backwards.                                                    *)
LEMMA Reversed ==
  ASSUME NEW s \in Seq(Messages), Distinct(s)
  PROVE  /\ Reverse(s) \in Seq(Messages) /\ Distinct(Reverse(s))
         /\ ToSet(Reverse(s)) = ToSet(s) /\ Len(Reverse(s)) = Len(s)
<1> DEFINE n == Len(s)
           t == Reverse(s)
<1>1. n \in Nat /\ DOMAIN s = 1..n /\ \A i \in 1..n : s[i] \in Messages
  OBVIOUS
<1>2. t = [i \in 1..n |-> s[(n - i) + 1]]
  BY DEF Reverse
<1> HIDE DEF n, t
<1>3. \A i \in 1..n : (n - i) + 1 \in 1..n /\ n - ((n - i) + 1) + 1 = i
  BY <1>1
<1>4. t \in [1..n -> Messages] /\ DOMAIN t = 1..n
  BY <1>1, <1>2, <1>3
<1>5. t \in Seq(Messages) /\ Len(t) = n
  BY <1>1, <1>4
<1>6. Distinct(t)
  <2> SUFFICES ASSUME NEW i \in 1..n, NEW j \in 1..n, i # j PROVE t[i].ts # t[j].ts
    BY <1>4 DEF Distinct
  <2>1. (n - i) + 1 # (n - j) + 1
    BY <1>1
  <2>2. t[i] = s[(n - i) + 1] /\ t[j] = s[(n - j) + 1]
    BY <1>2
  <2> QED BY <1>1, <1>3, <2>1, <2>2 DEF Distinct
<1>7. ToSet(t) = ToSet(s)
  <2>1. \A i \in 1..n : t[i] \in ToSet(s)
    BY <1>1, <1>2, <1>3 DEF ToSet
  <2>2. ASSUME NEW i \in 1..n PROVE s[i] \in ToSet(t)
    <3>1. t[(n - i) + 1] = s[n - ((n - i) + 1) + 1] /\ (n - i) + 1 \in DOMAIN t
      BY <1>2, <1>3, <1>4
    <3> QED BY <1>3, <3>1 DEF ToSet
  <2> QED BY <1>1, <1>4, <2>1, <2>2 DEF ToSet
<1> QED BY <1>5, <1>6, <1>7 DEF n, t

-----------------------------------------------------------------------------
(* What is there, and what was read of it.                                   *)
Posted == Start \cup {Arrivals[i] : i \in 1..arrived}
Ever == Start \cup {Arrivals[i] : i \in DOMAIN Arrivals}

(* React changes a message into another one, in its reactions alone.         *)
Same(m, n) == /\ m.ts = n.ts /\ m.ch = n.ch /\ m.root = n.root
              /\ m.author = n.author /\ m.text = n.text

(* A message that there was, as far as it cannot change.                     *)
Known(m) == \E n \in Ever : Same(m, n)

(* What the workspace keeps.                                                 *)
WorldInv ==
  /\ arrived \in 0..Len(Arrivals)
  /\ there \subseteq Messages /\ IsFiniteSet(there) /\ Unique(there)
  /\ \A m \in there : \E n \in Posted : Same(m, n)

(* The types of what a command remembers.                                    *)
Places == {"list", "scan", "scanning", "find", "findInThread", "findRoot", "thread",
           "files", "search", "hydrate", "done", "failed", "missing"}

ReadTypes ==
  /\ req \in Requests /\ pc \in Places /\ cursor \in Nat
  /\ pc \in {"files", "search"} => cursor >= 1
  /\ chan \in Seq(STRING) /\ out \in Seq(Messages) /\ queue \in Seq(Messages)
  /\ \A m \in ToSet(out) \cup ToSet(queue) : Known(m)

(* Where each kind of command can be.                                        *)
PlaceFits ==
  /\ pc = "list" => req.kind = "list"
  /\ pc \in {"scan", "scanning"} => req.kind = "scan"
  /\ pc \in {"find", "findInThread", "findRoot", "thread"} => req.kind \in {"find", "thread"}
  /\ pc = "files" => req.kind = "files"
  /\ pc \in {"search", "hydrate"} => req.kind = "search"

(* Each timestamp that was read names one message of one channel.            *)
LEMMA EverUnique == Unique(Ever) /\ Ever \subseteq Messages
<1>1. Start \subseteq Messages /\ \A i \in DOMAIN Arrivals : Arrivals[i] \in Messages
  BY MessageAssumption
<1>2. ASSUME NEW m \in Ever, NEW n \in Ever, m.ts = n.ts PROVE m = n
  <2>1. \A x \in Messages : x.ts \in Nat
    BY DEF Messages
  <2>2. CASE m \in Start /\ n \in Start
    BY <1>2, <2>2, MessageAssumption
  <2>3. CASE m \in Start /\ n \notin Start
    BY <1>1, <1>2, <2>1, <2>3, HistoryAssumption DEF Ever
  <2>4. CASE m \notin Start /\ n \in Start
    BY <1>1, <1>2, <2>1, <2>4, HistoryAssumption DEF Ever
  <2>5. CASE m \notin Start /\ n \notin Start
    <3>1. PICK i \in DOMAIN Arrivals : m = Arrivals[i]
      BY <2>5 DEF Ever
    <3>2. PICK j \in DOMAIN Arrivals : n = Arrivals[j]
      BY <2>5 DEF Ever
    <3>3. i \in Nat /\ j \in Nat
      BY MessageAssumption
    <3>4. ~(i < j) /\ ~(j < i)
      BY <1>1, <1>2, <2>1, <3>1, <3>2, HistoryAssumption
    <3> QED BY <3>1, <3>2, <3>3, <3>4
  <2> QED BY <2>2, <2>3, <2>4, <2>5
<1> QED BY <1>1, <1>2 DEF Unique, Ever

(* So does each that is there.                                               *)
LEMMA ThereIsKnown ==
  ASSUME WorldInv
  PROVE  /\ \A m \in there : Known(m)
         /\ \A m, n : Known(m) /\ Known(n) /\ m.ts = n.ts => Same(m, n)
<1>1. Posted \subseteq Ever
  <2>1. 1..arrived \subseteq DOMAIN Arrivals
    BY MessageAssumption DEF WorldInv
  <2> QED BY <2>1 DEF Posted, Ever
<1>2. \A m \in there : Known(m)
  BY <1>1 DEF WorldInv, Known
<1>3. ASSUME NEW m, NEW n, Known(m), Known(n), m.ts = n.ts PROVE Same(m, n)
  <2>1. PICK u \in Ever : Same(m, u)
    BY <1>3 DEF Known
  <2>2. PICK v \in Ever : Same(n, v)
    BY <1>3 DEF Known
  <2>3. u = v
    BY <1>3, <2>1, <2>2, EverUnique DEF Same, Unique
  <2> QED BY <2>1, <2>2, <2>3 DEF Same
<1> QED BY <1>2, <1>3

(* The world goes its own way.                                               *)
LEMMA WorldInit == Init => WorldInv
<1> SUFFICES ASSUME Init PROVE WorldInv
  OBVIOUS
<1>1. there = Start /\ arrived = 0 /\ Len(Arrivals) \in Nat
  BY MessageAssumption DEF Init
<1>2. Posted = Start
  BY <1>1 DEF Posted
<1> QED BY <1>1, <1>2, MessageAssumption DEF WorldInv, Unique, Same

(* Deleting and reacting leave the messages what they were.                  *)
Shrinks == arrived' = arrived /\ \A n \in there' : \E m \in there : Same(n, m)

LEMMA ChangesShrink ==
  ASSUME WorldInv, Delete \/ React
  PROVE  Shrinks /\ there' \subseteq Messages /\ IsFiniteSet(there') /\ Unique(there')
         /\ UNCHANGED <<req, readVars>>
<1>1. CASE Delete
  <2>1. PICK d \in there : there' = there \ {d}
    BY <1>1 DEF Delete
  <2>2. arrived' = arrived /\ UNCHANGED <<req, readVars>>
    BY <1>1 DEF Delete
  <2>3. IsFiniteSet(there')
    BY <2>1, FS_Subset DEF WorldInv
  <2>4. there' \subseteq Messages /\ Unique(there')
    BY <2>1 DEF WorldInv, Unique
  <2>5. \A n \in there' : \E m \in there : Same(n, m)
    BY <2>1 DEF Same
  <2> QED BY <2>2, <2>3, <2>4, <2>5 DEF Shrinks
<1>2. CASE React
  <2>1. PICK d \in there : there' = (there \ {d}) \cup {[d EXCEPT !.reacted = ~d.reacted]}
    BY <1>2 DEF React
  <2> DEFINE r == [d EXCEPT !.reacted = ~d.reacted]
  <2>2. arrived' = arrived /\ UNCHANGED <<req, readVars>>
    BY <1>2 DEF React
  <2>3. r \in Messages /\ Same(r, d)
    <3>1. d \in Messages
      BY <2>1 DEF WorldInv
    <3>2. (~d.reacted) \in BOOLEAN
      OBVIOUS
    <3>3. \A b \in BOOLEAN : [d EXCEPT !.reacted = b] \in Messages /\ Same([d EXCEPT !.reacted = b], d)
      BY <3>1 DEF Messages, Same
    <3> QED BY <3>2, <3>3
  <2> HIDE DEF r
  <2>4. there' = (there \ {d}) \cup {r}
    BY <2>1 DEF r
  <2>5. IsFiniteSet(there')
    <3>1. IsFiniteSet(there \ {d})
      BY FS_Subset DEF WorldInv
    <3> QED BY <2>4, <3>1, FS_AddElement
  <2>6. there' \subseteq Messages /\ Unique(there')
    BY <2>1, <2>3, <2>4 DEF WorldInv, Unique, Same
  <2>7. \A n \in there' : \E m \in there : Same(n, m)
    BY <2>1, <2>3, <2>4 DEF Same
  <2> QED BY <2>2, <2>5, <2>6, <2>7 DEF Shrinks
<1> QED BY <1>1, <1>2

(* The workspace keeps it.                                                   *)
LEMMA WorldNext == WorldInv /\ [Next]_vars => WorldInv'
<1> SUFFICES ASSUME WorldInv, [Next]_vars PROVE WorldInv'
  OBVIOUS
<1>1. CASE UNCHANGED worldVars
  BY <1>1 DEF worldVars, WorldInv, Unique, Posted, Same
<1>2. CASE Post
  <2> DEFINE a == Arrivals[arrived + 1]
  <2>1. arrived < Len(Arrivals) /\ arrived' = arrived + 1 /\ there' = there \cup {a}
    BY <1>2 DEF Post
  <2>2. arrived \in Nat /\ Len(Arrivals) \in Nat /\ arrived' \in 0..Len(Arrivals)
        /\ arrived + 1 \in DOMAIN Arrivals
    BY <2>1, MessageAssumption DEF WorldInv
  <2>3. a \in Messages
    BY <2>2, MessageAssumption
  <2>4. Posted \subseteq Posted' /\ a \in Posted'
    <3>1. 1..arrived \subseteq 1..arrived' /\ arrived + 1 \in 1..arrived'
      BY <2>1, <2>2
    <3> QED BY <3>1 DEF Posted
  <2>5. \A m \in there : m.ts < a.ts
    <3>1. \A m \in Posted : m.ts < a.ts
      <4>1. \A m \in Start : m.ts < a.ts
        BY <2>2, HistoryAssumption
      <4>2. \A i \in 1..arrived : i \in DOMAIN Arrivals /\ i < arrived + 1
        BY <2>1, <2>2
      <4>3. \A i \in 1..arrived : Arrivals[i].ts < a.ts
        BY <2>2, <4>2, HistoryAssumption
      <4> QED BY <4>1, <4>3 DEF Posted
    <3> QED BY <3>1 DEF WorldInv, Same
  <2> HIDE DEF a
  <2>6. there' \subseteq Messages
    BY <2>1, <2>3 DEF WorldInv
  <2>7. IsFiniteSet(there')
    BY <2>1, FS_AddElement DEF WorldInv
  <2>8. Unique(there')
    <3>1. \A m \in Messages : m.ts \in Nat
      BY DEF Messages
    <3>2. \A m \in there : m.ts \in Nat /\ m.ts # a.ts
      BY <2>3, <2>5, <3>1 DEF WorldInv
    <3> QED BY <2>1, <3>2 DEF WorldInv, Unique
  <2>9. ASSUME NEW m \in there' PROVE \E n \in Posted' : Same(m, n)
    BY <2>1, <2>4 DEF WorldInv, Same
  <2>10. \A m \in there' : \E n \in Posted' : Same(m, n)
    BY <2>9
  <2> QED BY <2>2, <2>6, <2>7, <2>8, <2>10 DEF WorldInv, Unique, Same
<1>3. CASE Delete \/ React
  <2>1. Shrinks /\ there' \subseteq Messages /\ IsFiniteSet(there') /\ Unique(there')
    BY <1>3, ChangesShrink
  <2>2. Posted' = Posted
    BY <2>1 DEF Shrinks, Posted
  <2>3. \A m \in there' : \E n \in Posted : Same(m, n)
    BY <2>1 DEF Shrinks, WorldInv, Same
  <2> QED BY <2>1, <2>2, <2>3 DEF WorldInv, Shrinks, Unique, Same
<1> QED BY <1>1, <1>2, <1>3 DEF Next, Reading, RequestFails, Over, FilesPage, SearchPage,
           FetchSearchMessage, ListPage, NewScanFilter, ScanPage, FindInHistory, FindInThread,
           FindRoot, ThreadPage, vars

-----------------------------------------------------------------------------
(* A page of what there is.                                                  *)
LEMMA PageOfThere ==
  ASSUME WorldInv, NEW S \in SUBSET there
  PROVE  LET page == NewestFirst(S) IN
         /\ IsFiniteSet(S) /\ Unique(S) /\ S \subseteq Messages
         /\ page \in Seq(Messages) /\ Distinct(page) /\ ToSet(page) = S
         /\ Len(page) = Cardinality(S) /\ (page = << >> <=> S = {})
         /\ \A i \in DOMAIN page : Cardinality({x \in S : x.ts > page[i].ts}) = i - 1
         /\ \A i, j \in DOMAIN page : i < j => page[i].ts > page[j].ts
         /\ S # {} => /\ page[1] \in S /\ \A m \in S : m.ts <= page[1].ts
                      /\ Last(page) \in S /\ \A m \in S : Last(page).ts <= m.ts
<1> DEFINE page == NewestFirst(S)
           n == Cardinality(S)
<1>1. S \subseteq Messages /\ IsFiniteSet(S) /\ Unique(S) /\ \A m \in S : m.ts \in Nat
  BY FS_Subset DEF WorldInv, Unique, Messages
<1>2. /\ n \in Nat /\ page \in Seq(S) /\ Len(page) = n
      /\ \A i \in DOMAIN page : Cardinality({x \in S : x.ts > page[i].ts}) = i - 1
      /\ \A m \in S : \E i \in DOMAIN page : page[i] = m
      /\ \A i, j \in DOMAIN page : i < j => page[i].ts > page[j].ts
  BY <1>1, NewestFirstLists
<1> HIDE DEF page, n
<1>3. page \in Seq(Messages) /\ DOMAIN page = 1..n /\ \A i \in 1..n : page[i] \in S
  BY <1>1, <1>2
<1>4. ToSet(page) = S
  BY <1>2, <1>3 DEF ToSet
<1>5. Distinct(page)
  <2> SUFFICES ASSUME NEW i \in 1..n, NEW j \in 1..n, i # j PROVE page[i].ts # page[j].ts
    BY <1>3 DEF Distinct
  <2>1. page[i].ts \in Nat /\ page[j].ts \in Nat /\ (i < j \/ j < i)
    BY <1>1, <1>2, <1>3
  <2> QED BY <1>2, <1>3, <2>1
<1>6. page = << >> <=> S = {}
  BY <1>2, <1>3, <1>4 DEF ToSet
<1>7. ASSUME S # {}
      PROVE  /\ page[1] \in S /\ \A m \in S : m.ts <= page[1].ts
             /\ Last(page) \in S /\ \A m \in S : Last(page).ts <= m.ts
  <2>1. n >= 1 /\ 1 \in 1..n /\ n \in 1..n
    BY <1>2, <1>3, <1>6, <1>7
  <2>2. Last(page) = page[n]
    BY <1>2 DEF Last
  <2>3. ASSUME NEW m \in S PROVE page[n].ts <= m.ts /\ m.ts <= page[1].ts
    <3>1. PICK i \in 1..n : page[i] = m
      BY <1>2, <1>3
    <3>2. (i = n \/ i < n) /\ (i = 1 \/ 1 < i)
      BY <1>2
    <3>3. page[n].ts \in Nat /\ page[1].ts \in Nat /\ m.ts \in Nat
      BY <1>1, <1>3, <2>1
    <3>4. page[n].ts <= m.ts
      BY <1>2, <1>3, <2>1, <3>1, <3>2, <3>3
    <3>5. m.ts <= page[1].ts
      BY <1>2, <1>3, <2>1, <3>1, <3>2, <3>3
    <3> QED BY <3>4, <3>5
  <2> QED BY <1>3, <2>1, <2>2, <2>3
<1> QED BY <1>1, <1>2, <1>3, <1>4, <1>5, <1>6, <1>7 DEF page, n

(* What the requests answer.                                                 *)
LEMMA Answered ==
  ASSUME WorldInv, NEW ch, NEW newest, NEW oldest, NEW inclusive, NEW thread, NEW from, NEW n
  PROVE  /\ SlackHistory(ch, newest, oldest, inclusive, n) \subseteq there
         /\ \A m \in SlackHistory(ch, newest, oldest, inclusive, n) :
              m.ch = ch /\ Before(m, newest, inclusive)
         /\ SlackReplies(ch, thread, from, n) \subseteq there
         /\ \A m \in SlackReplies(ch, thread, from, n) : m.ts > from
<1>1. TopLevel(ch) \subseteq there /\ \A m \in TopLevel(ch) : m.ch = ch
  BY DEF TopLevel
<1> QED BY <1>1 DEF SlackHistory, Newest, SlackReplies

-----------------------------------------------------------------------------
(* A list of channels that names each once.                                  *)
NoneTwice(channels) == \A i, j \in DOMAIN channels : i # j => channels[i] # channels[j]

(* Nothing is read twice.  Walking by page number this is so as long as      *)
(* nothing is posted, walking channels as long as each is named once.        *)
Steady == /\ arrived = 0 \/ req.kind \notin {"files", "search"}
          /\ req.kind \in {"scan", "files"} => NoneTwice(req.channels)

(* Where a timestamp is in a listing, and what is listed by page number.     *)
Rank(messages, ts) == Cardinality({x \in messages : x.ts > ts})

FilesOf(ch) == {m \in TopLevel(ch) : /\ After(m, req.oldest, TRUE) /\ Before(m, req.before, TRUE)
                                     /\ req.user # NoUser => m.author = req.user}
Matching == {m \in there : m.text}

(* The channels left were not read.                                          *)
ChannelInv ==
  /\ chan # << >> /\ NoneTwice(chan)
  /\ \A m \in ToSet(out) : \A i \in 2..Len(chan) : m.ch # chan[i]

(* What was read, against where the next page starts.                        *)
OnceInv ==
  /\ Distinct(out)
  /\ pc \in {"scan", "find", "findInThread", "findRoot", "search"} => out = << >>
  /\ pc = "list" => \/ out = << >>
                     \/ /\ HasReactionFilters /\ cursor # NoTS
                        /\ \A m \in ToSet(out) : m.ts >= cursor
  /\ pc \in {"scan", "scanning", "files"} => ChannelInv
  /\ pc = "scanning" =>
       \A m \in ToSet(out) : m.ch = chan[1] => cursor # NoTS /\ m.ts >= cursor
  /\ pc = "thread" => \A m \in ToSet(out) : m.ts <= cursor
  /\ pc = "files" =>
       \A m \in ToSet(out) :
         m.ch = chan[1] => Rank(FilesOf(chan[1]), m.ts) < (cursor - 1) * PageLimit
  /\ pc \in {"search", "hydrate"} => Distinct(queue)
  /\ pc = "search" =>
       \A m \in ToSet(queue) : Rank(Matching, m.ts) < (cursor - 1) * SearchPageSize
  /\ pc = "hydrate" => \A m \in ToSet(out), n \in ToSet(queue) : m.ts # n.ts

IInv == WorldInv /\ ReadTypes /\ PlaceFits /\ (Steady => OnceInv)

(* The start.                                                                *)
LEMMA NothingRead == ToSet(<< >>) = {} /\ Distinct(<< >>)
BY DEF ToSet, Distinct

LEMMA InitIInv == Init => IInv
<1> SUFFICES ASSUME Init PROVE IInv
  OBVIOUS
<1>1. /\ req \in Requests /\ req \in Commands
      /\ pc = IF req.kind = "thread" THEN "find" ELSE req.kind
      /\ chan = req.channels /\ queue = << >> /\ out = << >>
      /\ cursor = IF req.kind \in {"files", "search"} THEN 1 ELSE req.latest
  BY CommandAssumption DEF Init
<1>2. /\ req.kind \in {"list", "scan", "files", "search", "find", "thread"}
      /\ req.channels \in Seq(STRING) /\ req.latest \in Nat
  BY <1>1 DEF Commands
<1>3. ReadTypes
  BY <1>1, <1>2, NothingRead DEF ReadTypes, Places
<1>4. PlaceFits
  BY <1>1, <1>2 DEF PlaceFits
<1>5. ASSUME Steady PROVE OnceInv
  <2>1. req.kind \in {"scan", "files"} => ChannelInv
    BY <1>1, <1>5, NothingRead, CommandAssumption DEF Steady, ChannelInv
  <2> QED BY <1>1, <1>2, <2>1, NothingRead DEF OnceInv
<1> QED BY <1>3, <1>4, <1>5, WorldInit DEF IInv

(* What is asked for, and what was read, are of their types.                 *)
LEMMA LimitIs == ASSUME ReadTypes PROVE Limit \in Nat \ {0} /\ req \in Commands
<1>1. req \in Commands
  BY CommandAssumption DEF ReadTypes
<1>2. req.limit \in Nat
  BY <1>1 DEF Commands
<1> QED BY <1>1, <1>2 DEF Limit, ClampInt

(* What is read of a page is known, and as it was when it was read.          *)
LEMMA ReadOn ==
  ASSUME WorldInv, ReadTypes, NEW t \in Seq(Messages), ToSet(t) \subseteq there
  PROVE  /\ out \o t \in Seq(Messages)
         /\ ToSet(out \o t) = ToSet(out) \cup ToSet(t)
         /\ \A m \in ToSet(out \o t) : Known(m)
<1>1. out \o t \in Seq(Messages) /\ ToSet(out \o t) = ToSet(out) \cup ToSet(t)
  BY Joined DEF ReadTypes
<1> QED BY <1>1, ThereIsKnown DEF ReadTypes

LEMMA ReadAreMessages ==
  ASSUME ReadTypes
  PROVE  \A m \in ToSet(out) \cup ToSet(queue) : m \in Messages /\ m.ts \in Nat \ {0}
<1>1. \A m \in ToSet(out) \cup ToSet(queue) : m \in Messages
  BY DEF ReadTypes, ToSet
<1> QED BY <1>1 DEF Messages, NoTS

(* A page of a list is older than all before it, and ends where the cursor   *)
(* goes.                                                                     *)
LEMMA ListStep ==
  ASSUME IInv, ListPage
  PROVE  ReadTypes' /\ PlaceFits' /\ OnceInv'
<1> DEFINE got == SlackHistory(req.ch, cursor, req.oldest, req.inclusive, HistoryPageLimit)
           page == NewestFirst(got)
           passed == {m \in got : PassesReactionNameFilters(m)}
           passing == NewestFirst(passed)
           more == Limit - Len(out)
           fresh == SubSeq(passing, 1, IF Len(passing) < more THEN Len(passing) ELSE more)
           taken == out \o fresh
<1>1. /\ pc = "list"
      /\ \/ pc' = "done" /\ out' = SortChronological(taken) /\ cursor' = cursor
         \/ /\ page # << >> /\ HasReactionFilters
            /\ out' = taken /\ cursor' = Last(page).ts /\ pc' = pc
      /\ UNCHANGED <<worldVars, req, chan, filterUser, root, queue>>
  BY DEF ListPage, Return, NextLatest
<1>2. /\ WorldInv /\ ReadTypes /\ req.kind = "list" /\ req \in Commands /\ Limit \in Nat
      /\ OnceInv
  BY <1>1, LimitIs DEF IInv, PlaceFits, Steady
<1>3. got \subseteq there /\ \A m \in got : Before(m, cursor, req.inclusive)
  BY <1>2, Answered
<1> HIDE DEF got
<1>4. passed \subseteq there /\ passed \subseteq got
  BY <1>3
<1> HIDE DEF passed
<1>5. passing \in Seq(Messages) /\ Distinct(passing) /\ ToSet(passing) = passed
  BY <1>2, <1>4, PageOfThere
<1> HIDE DEF passing
<1>6. fresh \in Seq(Messages) /\ Distinct(fresh) /\ ToSet(fresh) \subseteq passed
  <2>1. Len(out) \in Nat /\ Len(passing) \in Nat
    BY <1>2, <1>5 DEF ReadTypes
  <2> DEFINE k == IF Len(passing) < more THEN Len(passing) ELSE more
  <2>2. k \in Int /\ k <= Len(passing)
    BY <1>2, <2>1
  <2> HIDE DEF k
  <2>3. fresh = SubSeq(passing, 1, k)
    BY DEF k
  <2> HIDE DEF fresh
  <2> QED BY <1>5, <2>2, <2>3, Stretch
<1> HIDE DEF fresh, more
<1>7. /\ taken \in Seq(Messages) /\ ToSet(taken) = ToSet(out) \cup ToSet(fresh)
      /\ \A m \in ToSet(taken) : Known(m)
  BY <1>2, <1>4, <1>6, ReadOn
<1>8. \A m \in there : m.ts \in Nat \ {0}
  BY <1>2 DEF WorldInv, Messages, NoTS
<1>9. ASSUME NEW m \in ToSet(out)
      PROVE  HasReactionFilters /\ cursor # NoTS /\ m.ts >= cursor
  BY <1>1, <1>2, <1>9, NothingRead DEF OnceInv
<1>10. ASSUME NEW m \in ToSet(out), NEW n \in got PROVE m.ts > n.ts /\ m.ts \in Nat
  <2>1. ~req.inclusive
    BY <1>2, <1>9, <1>10, CommandAssumption DEF HasReactionFilters, ReadTypes
  <2>2. n.ts < cursor /\ n.ts \in Nat /\ cursor \in Nat
    BY <1>2, <1>3, <1>8, <1>9, <1>10, <2>1 DEF Before, ReadTypes
  <2>3. m.ts \in Nat
    BY <1>2, <1>10, ReadAreMessages
  <2> QED BY <1>9, <1>10, <2>2, <2>3
<1>11. Distinct(taken)
  <2>1. \A m \in ToSet(out), n \in ToSet(fresh) : m.ts # n.ts
    BY <1>4, <1>6, <1>10, <1>8, <1>3
  <2>2. out \in Seq(Messages) /\ Distinct(out)
    BY <1>2 DEF ReadTypes, OnceInv
  <2> QED BY <1>6, <2>1, <2>2, Joined
<1> HIDE DEF taken
<1>12. CASE pc' = "done" /\ out' = SortChronological(taken) /\ cursor' = cursor
  <2>1. /\ out' \in Seq(Messages) /\ Distinct(out')
        /\ \A i \in DOMAIN out' : \E j \in DOMAIN taken : out'[i] = taken[j]
    BY <1>7, <1>11, <1>12, SortedIs
  <2>2. ToSet(out') \subseteq ToSet(taken)
    BY <2>1 DEF ToSet
  <2>3. ReadTypes'
    <3>1. \A m \in ToSet(out') \cup ToSet(queue) : Known(m)
      BY <1>2, <1>7, <2>2 DEF ReadTypes
    <3> QED BY <1>1, <1>2, <1>12, <2>1, <3>1 DEF ReadTypes, Places, Known, Ever
  <2> QED BY <1>1, <1>12, <2>1, <2>3 DEF PlaceFits, OnceInv
<1>13. CASE /\ page # << >> /\ HasReactionFilters
            /\ out' = taken /\ cursor' = Last(page).ts /\ pc' = pc
  <2>1. Last(page) \in got /\ \A m \in got : Last(page).ts <= m.ts
    <3>1. (page = << >> <=> got = {})
          /\ (got # {} => Last(page) \in got /\ \A m \in got : Last(page).ts <= m.ts)
      BY <1>2, <1>3, PageOfThere
    <3> QED BY <1>13, <3>1
  <2>2. cursor' \in Nat /\ cursor' # NoTS
    BY <1>3, <1>8, <1>13, <2>1 DEF NoTS
  <2>3. \A m \in ToSet(out') : m.ts >= cursor'
    <3>1. \A m \in ToSet(out) : m.ts >= Last(page).ts
      <4>1. \A m \in ToSet(out) : m.ts > Last(page).ts /\ m.ts \in Nat
        BY <1>10, <2>1
      <4>2. Last(page).ts \in Nat
        BY <1>13, <2>2
      <4> QED BY <4>1, <4>2
    <3>2. \A m \in ToSet(fresh) : m.ts >= Last(page).ts
      <4>1. \A m \in ToSet(fresh) : m \in got /\ m.ts \in Nat
        BY <1>3, <1>4, <1>6, <1>8
      <4>2. Last(page).ts \in Nat
        BY <1>13, <2>2
      <4> QED BY <2>1, <4>1, <4>2
    <3> QED BY <1>7, <1>13, <3>1, <3>2
  <2>4. ReadTypes'
    BY <1>1, <1>2, <1>7, <1>13, <2>2 DEF ReadTypes, Known, Ever
  <2>5. OnceInv'
    BY <1>1, <1>11, <1>13, <2>2, <2>3 DEF OnceInv, HasReactionFilters
  <2> QED BY <1>1, <1>2, <1>13, <2>4, <2>5 DEF PlaceFits
<1> QED BY <1>1, <1>12, <1>13

(* A page that is not the last has a newest message.                         *)
LEMMA FullPage ==
  ASSUME WorldInv, NEW page \in SUBSET there, ~LastPage(page)
  PROVE  /\ \E m \in page : m.ts = LastTS(page)
         /\ \A m \in page : m.ts <= LastTS(page)
         /\ LastTS(page) \in Nat
<1>1. page # {} /\ IsFiniteSet(page)
  <2>1. IsFiniteSet(page)
    BY PageOfThere
  <2>2. Cardinality({}) = 0 /\ PageLimit \in Nat \ {0}
    BY FS_EmptySet, HistoryAssumption
  <2> QED BY <2>1, <2>2 DEF LastPage
<1> DEFINE first == NewestFirst(page)[1]
<1>2. first \in page /\ \A m \in page : m.ts <= first.ts
  BY <1>1, PageOfThere
<1> HIDE DEF first
<1>3. \E t \in TSOf(page) : \A u \in TSOf(page) : u <= t
  BY <1>2 DEF TSOf
<1>4. LastTS(page) \in TSOf(page) /\ \A u \in TSOf(page) : u <= LastTS(page)
  BY <1>3 DEF LastTS
<1>5. \A m \in page : m.ts \in Nat
  BY DEF WorldInv, Messages
<1> QED BY <1>4, <1>5 DEF TSOf

(* A list of one message.                                                    *)
LEMMA OneRead ==
  ASSUME NEW m \in Messages
  PROVE  <<m>> \in Seq(Messages) /\ Distinct(<<m>>) /\ ToSet(<<m>>) = {m}
BY DEF Distinct, ToSet

(* What is found is known.                                                   *)
LEMMA FoundStep ==
  ASSUME IInv, pc \in {"find", "findInThread", "findRoot"}, NEW m \in there, Found(m),
         UNCHANGED <<worldVars, req, chan, filterUser, queue>>
  PROVE  ReadTypes' /\ PlaceFits' /\ OnceInv'
<1>1. /\ WorldInv /\ ReadTypes /\ req.kind \in {"find", "thread"} /\ OnceInv
  BY DEF IInv, PlaceFits, Steady
<1>2. UNCHANGED <<there, arrived, req, chan, queue>> /\ NoTS \in Nat
  BY DEF worldVars, NoTS
<1>3. CASE req.kind = "find"
  <2>1. pc' = "done" /\ out' = <<m>> /\ cursor' = cursor
    BY <1>3 DEF Found
  <2>2. m \in Messages /\ Known(m)
    BY <1>1, ThereIsKnown DEF WorldInv
  <2>3. ReadTypes'
    BY <1>1, <1>2, <2>1, <2>2, OneRead DEF ReadTypes, Places, Known, Ever
  <2> QED BY <1>2, <2>1, <2>2, <2>3, OneRead DEF PlaceFits, OnceInv
<1>4. CASE req.kind # "find"
  <2>1. pc' = "thread" /\ out' = out /\ cursor' = NoTS
    BY <1>4 DEF Found
  <2>2. out = << >>
    BY <1>1 DEF OnceInv
  <2>3. ReadTypes'
    BY <1>1, <1>2, <2>1 DEF ReadTypes, Places, Known, Ever
  <2> QED BY <1>1, <1>2, <2>1, <2>2, <2>3, NothingRead DEF PlaceFits, OnceInv
<1> QED BY <1>3, <1>4

(* A lookup goes on with nothing read yet.                                   *)
LEMMA GoesOn ==
  ASSUME IInv, pc \in {"find", "findInThread", "findRoot"},
         pc' \in {"findInThread", "findRoot", "missing"}, cursor' \in Nat, out' = out,
         UNCHANGED <<worldVars, req, chan, filterUser, queue>>
  PROVE  ReadTypes' /\ PlaceFits' /\ OnceInv'
<1>1. /\ ReadTypes /\ req.kind \in {"find", "thread"} /\ OnceInv
  BY DEF IInv, PlaceFits, Steady
<1>2. UNCHANGED <<there, arrived, req, chan, queue>> /\ out = << >>
  BY <1>1 DEF worldVars, OnceInv
<1>3. ReadTypes'
  BY <1>1, <1>2 DEF ReadTypes, Places, Known, Ever
<1> QED BY <1>1, <1>2, <1>3, NothingRead DEF PlaceFits, OnceInv

(* The three lookups.                                                        *)
LEMMA FindStep ==
  ASSUME IInv, FindInHistory \/ FindInThread \/ FindRoot
  PROVE  ReadTypes' /\ PlaceFits' /\ OnceInv'
<1>1. WorldInv /\ ReadTypes /\ NoTS \in Nat
  BY DEF IInv, NoTS
<1>2. CASE FindInHistory
  <2> DEFINE hits == {m \in SlackHistory(req.ch, req.target, NoTS, TRUE, 5) : m.ts = req.target}
  <2>1. hits \subseteq there
    BY <1>1 DEF SlackHistory, Newest, TopLevel
  <2>2. CASE hits # {}
    <3>1. PICK m \in hits : Found(m)
      BY <1>2, <2>2 DEF FindInHistory
    <3> QED BY <1>2, <2>1, <3>1, FoundStep DEF FindInHistory
  <2>3. CASE hits = {}
    BY <1>1, <1>2, <2>3, GoesOn DEF FindInHistory
  <2> QED BY <2>2, <2>3
<1>3. CASE FindInThread
  <2> DEFINE page == SlackReplies(req.ch, req.hint, cursor, PageLimit)
             hits == {m \in page : m.ts = req.target}
  <2>1. page \subseteq there /\ hits \subseteq there
    BY <1>1, Answered
  <2>2. CASE hits # {}
    <3>1. PICK m \in hits : Found(m)
      BY <1>3, <2>2 DEF FindInThread
    <3> QED BY <1>3, <2>1, <3>1, FoundStep DEF FindInThread
  <2>3. CASE hits = {} /\ ~LastPage(page)
    <3>1. pc = "findInThread" /\ pc' = pc /\ out' = out /\ cursor' = LastTS(page)
          /\ UNCHANGED <<worldVars, req, chan, filterUser, queue>>
      BY <1>3, <2>3 DEF FindInThread
    <3>2. LastTS(page) \in Nat
      BY <1>1, <2>1, <2>3, FullPage
    <3> QED BY <3>1, <3>2, GoesOn
  <2>4. CASE hits = {} /\ LastPage(page)
    <3>1. pc = "findInThread" /\ pc' = "findRoot" /\ UNCHANGED <<cursor, out>>
          /\ UNCHANGED <<worldVars, req, chan, filterUser, queue>>
      BY <1>3, <2>4 DEF FindInThread
    <3>2. cursor' \in Nat
      BY <1>1, <3>1 DEF ReadTypes
    <3> QED BY <3>1, <3>2, GoesOn
  <2> QED BY <2>2, <2>3, <2>4
<1>4. CASE FindRoot
  <2> DEFINE roots == {m \in SlackReplies(req.ch, req.target, NoTS, 1) : m.ts = req.target}
  <2>1. roots \subseteq there
    BY <1>1, Answered
  <2>2. CASE roots # {} /\ Found(CHOOSE m \in roots : TRUE)
    <3>1. PICK m \in roots : Found(m)
      BY <2>2
    <3> QED BY <1>4, <2>1, <3>1, FoundStep DEF FindRoot
  <2>3. CASE NotFound
    <3>1. cursor' \in Nat
      BY <1>1, <2>3 DEF ReadTypes, NotFound
    <3> QED BY <1>4, <2>3, <3>1, GoesOn DEF FindRoot, NotFound
  <2> QED BY <1>4, <2>2, <2>3 DEF FindRoot
<1> QED BY <1>2, <1>3, <1>4

(* A page of a thread is newer than all before it.                           *)
LEMMA ThreadStep ==
  ASSUME IInv, ThreadPage
  PROVE  ReadTypes' /\ PlaceFits' /\ OnceInv'
<1> DEFINE page == SlackReplies(req.ch, root, cursor, PageLimit)
           fresh == Reverse(NewestFirst(page))
           all == out \o fresh
<1>1. /\ pc = "thread"
      /\ \/ pc' = "done" /\ out' = SortChronological(all) /\ cursor' = cursor
         \/ ~LastPage(page) /\ out' = all /\ cursor' = LastTS(page) /\ pc' = pc
      /\ UNCHANGED <<worldVars, req, chan, filterUser, root, queue>>
  BY DEF ThreadPage, Return
<1>2. WorldInv /\ ReadTypes /\ req.kind \in {"find", "thread"} /\ OnceInv
  BY <1>1 DEF IInv, PlaceFits, Steady
<1>3. page \subseteq there /\ \A m \in page : m.ts > cursor
  BY <1>2, Answered
<1> HIDE DEF page
<1>4. fresh \in Seq(Messages) /\ Distinct(fresh) /\ ToSet(fresh) = page
  <2>1. NewestFirst(page) \in Seq(Messages) /\ Distinct(NewestFirst(page))
        /\ ToSet(NewestFirst(page)) = page
    BY <1>2, <1>3, PageOfThere
  <2> QED BY <2>1, Reversed
<1> HIDE DEF fresh
<1>5. /\ all \in Seq(Messages) /\ ToSet(all) = ToSet(out) \cup page
      /\ \A m \in ToSet(all) : Known(m)
  BY <1>2, <1>3, <1>4, ReadOn
<1>6. /\ \A m \in page : m.ts \in Nat
      /\ \A m \in ToSet(out) : m.ts \in Nat /\ m.ts <= cursor
      /\ cursor \in Nat
  BY <1>1, <1>2, <1>3, ReadAreMessages DEF WorldInv, Messages, OnceInv, ReadTypes
<1>7. Distinct(all)
  <2>1. \A m \in ToSet(out), n \in ToSet(fresh) : m.ts # n.ts
    BY <1>3, <1>4, <1>6
  <2>2. out \in Seq(Messages) /\ Distinct(out)
    BY <1>2 DEF ReadTypes, OnceInv
  <2> QED BY <1>4, <2>1, <2>2, Joined
<1> HIDE DEF all
<1>8. CASE pc' = "done" /\ out' = SortChronological(all) /\ cursor' = cursor
  <2>1. /\ out' \in Seq(Messages) /\ Distinct(out')
        /\ \A i \in DOMAIN out' : \E j \in DOMAIN all : out'[i] = all[j]
    BY <1>5, <1>7, <1>8, SortedIs
  <2>2. ToSet(out') \subseteq ToSet(all)
    BY <2>1 DEF ToSet
  <2>3. ReadTypes'
    <3>1. \A m \in ToSet(out') \cup ToSet(queue) : Known(m)
      BY <1>2, <1>5, <2>2 DEF ReadTypes
    <3> QED BY <1>1, <1>2, <1>8, <2>1, <3>1 DEF ReadTypes, Places, Known, Ever
  <2> QED BY <1>1, <1>8, <2>1, <2>3 DEF PlaceFits, OnceInv
<1>9. CASE ~LastPage(page) /\ out' = all /\ cursor' = LastTS(page) /\ pc' = pc
  <2>1. /\ LastTS(page) \in Nat /\ \A m \in page : m.ts <= LastTS(page)
        /\ \E m \in page : m.ts = LastTS(page)
    BY <1>2, <1>3, <1>9, FullPage
  <2>2. LastTS(page) >= cursor
    BY <1>3, <1>6, <2>1
  <2>3. \A m \in ToSet(out') : m.ts <= cursor'
    <3>1. \A m \in ToSet(out) : m.ts <= LastTS(page)
      BY <1>6, <2>1, <2>2
    <3> QED BY <1>5, <1>9, <2>1, <3>1
  <2>4. ReadTypes'
    BY <1>1, <1>2, <1>5, <1>9, <2>1 DEF ReadTypes, Known, Ever
  <2> QED BY <1>1, <1>2, <1>7, <1>9, <2>3, <2>4 DEF PlaceFits, OnceInv
<1> QED BY <1>1, <1>8, <1>9

(* The channels left.                                                        *)
LEMMA ChannelsLeft ==
  ASSUME chan \in Seq(STRING), chan # << >>
  PROVE  /\ Head(chan) = chan[1] /\ Tail(chan) \in Seq(STRING)
         /\ Len(Tail(chan)) = Len(chan) - 1
         /\ \A i \in 1..Len(Tail(chan)) : Tail(chan)[i] = chan[i + 1]
         /\ NoneTwice(chan) => NoneTwice(Tail(chan))
<1>1. /\ Tail(chan) \in Seq(STRING) /\ Len(Tail(chan)) = Len(chan) - 1
      /\ \A i \in 1..Len(Tail(chan)) : Tail(chan)[i] = chan[i + 1]
  BY HeadTailProperties
<1>2. Head(chan) = chan[1]
  OBVIOUS
<1>3. ASSUME NoneTwice(chan) PROVE NoneTwice(Tail(chan))
  <2> DEFINE rest == Tail(chan)
  <2>1. DOMAIN rest = 1..Len(rest) /\ DOMAIN chan = 1..Len(chan) /\ Len(chan) \in Nat
    BY <1>1
  <2> HIDE DEF rest
  <2> SUFFICES ASSUME NEW i \in DOMAIN rest, NEW j \in DOMAIN rest, i # j
               PROVE  rest[i] # rest[j]
    BY DEF NoneTwice, rest
  <2>2. i + 1 \in DOMAIN chan /\ j + 1 \in DOMAIN chan /\ i + 1 # j + 1
    BY <1>1, <2>1 DEF rest
  <2>3. rest[i] = chan[i + 1] /\ rest[j] = chan[j + 1]
    BY <1>1, <2>1 DEF rest
  <2> QED BY <1>3, <2>2, <2>3 DEF NoneTwice
<1> QED BY <1>1, <1>2, <1>3

(* Going on to the next channel, with what was read of this one.             *)
LEMMA ChannelIsRead ==
  ASSUME ReadTypes, ChannelInv, NEW got, \A m \in got : m.ch = Head(chan),
         Len(chan) > 1, chan' = Tail(chan), ToSet(out') \subseteq ToSet(out) \cup got
  PROVE  ChannelInv' /\ \A m \in ToSet(out') : m.ch # chan'[1]
<1> DEFINE rest == Tail(chan)
<1>1. /\ Head(chan) = chan[1] /\ rest \in Seq(STRING) /\ Len(rest) = Len(chan) - 1
      /\ \A i \in 1..Len(rest) : rest[i] = chan[i + 1]
      /\ NoneTwice(rest)
  BY ChannelsLeft DEF ReadTypes, ChannelInv
<1>2. Len(chan) \in Nat /\ DOMAIN chan = 1..Len(chan)
  BY DEF ReadTypes
<1> HIDE DEF rest
<1>3. ASSUME NEW m \in ToSet(out'), NEW i \in 1..Len(rest) PROVE m.ch # rest[i]
  <2>1. i + 1 \in 2..Len(chan) /\ i + 1 \in DOMAIN chan /\ 1 \in DOMAIN chan /\ i + 1 # 1
    BY <1>1, <1>2
  <2>2. CASE m \in ToSet(out)
    BY <1>1, <2>1, <2>2 DEF ChannelInv
  <2>3. CASE m \in got
    <3>1. m.ch = chan[1] /\ rest[i] = chan[i + 1]
      BY <1>1, <2>3
    <3>2. chan[1] # chan[i + 1]
      BY <2>1 DEF ChannelInv, NoneTwice
    <3> QED BY <3>1, <3>2
  <2> QED BY <1>3, <2>2, <2>3
<1>4. chan' = rest /\ rest # << >> /\ 1 \in 1..Len(rest) /\ 2..Len(rest) \subseteq 1..Len(rest)
  <2>1. Len(rest) \in Nat /\ Len(rest) >= 1
    BY <1>1, <1>2
  <2>2. rest # << >>
    <3>1. Len(<< >>) = 0
      OBVIOUS
    <3> QED BY <2>1, <3>1
  <2>3. chan' = rest
    BY DEF rest
  <2> QED BY <2>1, <2>2, <2>3
<1> QED BY <1>1, <1>3, <1>4 DEF ChannelInv, NoneTwice

(* Staying in it.                                                            *)
LEMMA ChannelStays ==
  ASSUME ReadTypes, ChannelInv, NEW got, \A m \in got : m.ch = Head(chan),
         chan' = chan, ToSet(out') \subseteq ToSet(out) \cup got
  PROVE  ChannelInv'
<1>1. Head(chan) = chan[1] /\ DOMAIN chan = 1..Len(chan) /\ Len(chan) \in Nat
  BY ChannelsLeft DEF ReadTypes, ChannelInv
<1>2. ASSUME NEW m \in got, NEW i \in 2..Len(chan) PROVE m.ch # chan[i]
  <2>1. i \in DOMAIN chan /\ 1 \in DOMAIN chan /\ i # 1
    BY <1>1
  <2> QED BY <1>1, <2>1 DEF ChannelInv, NoneTwice
<1> QED BY <1>2 DEF ChannelInv, NoneTwice

(* Messages of two channels have two timestamps.                             *)
LEMMA OtherChannels ==
  ASSUME WorldInv, ReadTypes, NEW m \in ToSet(out), NEW n \in there, m.ch # n.ch
  PROVE  m.ts # n.ts
BY ThereIsKnown DEF ReadTypes, Same

(* A scan starts over in its first channel.                                  *)
LEMMA FilterStep ==
  ASSUME IInv, NewScanFilter
  PROVE  ReadTypes' /\ PlaceFits' /\ (Steady' => OnceInv')
<1>1. /\ pc = "scan" /\ pc' = "scanning" /\ cursor' = NoTS
      /\ UNCHANGED <<arrived, req, chan, queue, out>> /\ NoTS \in Nat
  BY DEF NewScanFilter, worldVars, NoTS
<1>2. ReadTypes /\ req.kind = "scan" /\ (Steady' => OnceInv)
  BY <1>1 DEF IInv, PlaceFits, Steady
<1>3. ReadTypes'
  BY <1>1, <1>2 DEF ReadTypes, Places, Known, Ever
<1>4. ASSUME Steady' PROVE OnceInv'
  <2>1. out = << >> /\ ChannelInv
    BY <1>1, <1>2, <1>4 DEF OnceInv
  <2> QED BY <1>1, <2>1, NothingRead DEF OnceInv, ChannelInv
<1> QED BY <1>1, <1>2, <1>3, <1>4 DEF PlaceFits

(* A page of a scan is older than all of its channel before it.              *)
LEMMA ScanStep ==
  ASSUME IInv, ScanPage
  PROVE  ReadTypes' /\ PlaceFits' /\ (Steady' => OnceInv')
<1> DEFINE got == SlackHistory(Head(chan), cursor, NoTS, FALSE, PageLimit)
           page == NewestFirst(got)
           kept == {m \in InWindow(got) : Keep(m)}
           hits == NewestFirst(kept)
           more == Limit - Len(out)
           fresh == SubSeq(hits, 1, IF Len(hits) >= more THEN more ELSE Len(hits))
<1>1. /\ pc = "scanning" /\ out' = out \o fresh
      /\ \/ pc' = "done" /\ UNCHANGED <<chan, cursor>>
         \/ pc' = pc /\ Len(chan) > 1 /\ chan' = Tail(chan) /\ cursor' = NoTS
         \/ got # {} /\ cursor' = Last(page).ts /\ UNCHANGED <<pc, chan>>
      /\ UNCHANGED <<worldVars, req, filterUser, root, queue>>
  <2>1. pc = "scanning" /\ UNCHANGED <<worldVars, req, filterUser, root, queue>>
    BY DEF ScanPage
  <2>2. out' = out \o fresh
    BY DEF ScanPage
  <2>3. \/ pc' = "done" /\ UNCHANGED <<chan, cursor>>
        \/ NextChannel
        \/ got # {} /\ cursor' = Last(page).ts /\ UNCHANGED <<pc, chan>>
    BY DEF ScanPage, NextLatest
  <2>4. Len(chan) \in Nat
    BY DEF IInv, ReadTypes
  <2> HIDE DEF got, page, fresh
  <2>5. NextChannel => \/ pc' = "done" /\ UNCHANGED <<chan, cursor>>
                       \/ pc' = pc /\ Len(chan) > 1 /\ chan' = Tail(chan) /\ cursor' = NoTS
    BY <2>4 DEF NextChannel
  <2> QED BY <2>1, <2>2, <2>3, <2>5
<1>2. /\ WorldInv /\ ReadTypes /\ req.kind = "scan" /\ Limit \in Nat /\ (Steady' => OnceInv)
  BY <1>1, LimitIs DEF IInv, PlaceFits, Steady, worldVars
<1>3. NoTS \in Nat /\ cursor \in Nat
  BY <1>2 DEF ReadTypes, NoTS
<1>4. got \subseteq there /\ \A m \in got : m.ch = Head(chan) /\ (cursor = NoTS \/ m.ts < cursor)
  BY DEF SlackHistory, Newest, TopLevel, Before
<1> HIDE DEF got
<1>5. kept \subseteq there /\ kept \subseteq got
  BY <1>4 DEF InWindow
<1> HIDE DEF kept
<1>6. hits \in Seq(Messages) /\ Distinct(hits) /\ ToSet(hits) = kept
  BY <1>2, <1>5, PageOfThere
<1> HIDE DEF hits
<1>7. fresh \in Seq(Messages) /\ Distinct(fresh) /\ ToSet(fresh) \subseteq kept
  <2>1. Len(out) \in Nat /\ Len(hits) \in Nat
    BY <1>2, <1>6 DEF ReadTypes
  <2> DEFINE k == IF Len(hits) >= more THEN more ELSE Len(hits)
  <2>2. k \in Int /\ k <= Len(hits)
    BY <1>2, <2>1
  <2> HIDE DEF k
  <2>3. fresh = SubSeq(hits, 1, k)
    BY DEF k
  <2> HIDE DEF fresh
  <2> QED BY <1>6, <2>2, <2>3, Stretch
<1> HIDE DEF fresh, more
<1>8. /\ out' \in Seq(Messages) /\ ToSet(out') = ToSet(out) \cup ToSet(fresh)
      /\ \A m \in ToSet(out') : Known(m)
  BY <1>1, <1>2, <1>5, <1>7, ReadOn
<1>9. \A m \in got : m.ts \in Nat \ {0}
  BY <1>2, <1>4 DEF WorldInv, Messages, NoTS
<1>10. got # {} => Last(page) \in got /\ \A m \in got : Last(page).ts <= m.ts
  BY <1>2, <1>4, PageOfThere
<1> HIDE DEF page
<1>11. ReadTypes'
  <2>1. cursor' \in Nat /\ chan' \in Seq(STRING) /\ pc' \in Places \ {"files", "search"}
    <3>1. CASE pc' = "done" /\ UNCHANGED <<chan, cursor>>
      BY <1>2, <3>1 DEF ReadTypes, Places
    <3>2. CASE pc' = pc /\ Len(chan) > 1 /\ chan' = Tail(chan) /\ cursor' = NoTS
      <4>1. chan # << >>
        BY <3>2
      <4> QED BY <1>1, <1>2, <1>3, <3>2, <4>1, ChannelsLeft DEF ReadTypes
    <3>3. CASE got # {} /\ cursor' = Last(page).ts /\ UNCHANGED <<pc, chan>>
      BY <1>1, <1>2, <1>9, <1>10, <3>3 DEF ReadTypes
    <3> QED BY <1>1, <3>1, <3>2, <3>3
  <2> QED BY <1>1, <1>2, <1>8, <2>1 DEF ReadTypes, Known, Ever
<1>12. PlaceFits'
  BY <1>1, <1>2 DEF PlaceFits
<1>13. ASSUME Steady' PROVE OnceInv'
  <2>1. OnceInv /\ ChannelInv /\ Head(chan) = chan[1]
    BY <1>1, <1>2, <1>13, ChannelsLeft DEF OnceInv, ReadTypes, ChannelInv
  <2>2. \A m \in ToSet(out) :
          m.ts \in Nat /\ (m.ch = chan[1] => cursor # NoTS /\ m.ts >= cursor)
    BY <1>1, <1>2, <2>1, ReadAreMessages DEF OnceInv
  <2>3. Distinct(out')
    <3>1. ASSUME NEW m \in ToSet(out), NEW n \in ToSet(fresh) PROVE m.ts # n.ts
      <4>1. n \in got /\ n \in there /\ n.ch = chan[1]
        BY <1>4, <1>5, <1>7, <2>1
      <4>2. CASE m.ch = chan[1]
        BY <1>3, <1>4, <1>9, <2>2, <4>1, <4>2
      <4>3. CASE m.ch # chan[1]
        BY <1>2, <4>1, <4>3, OtherChannels
      <4> QED BY <4>2, <4>3
    <3>2. out \in Seq(Messages) /\ Distinct(out)
      BY <1>2, <2>1 DEF ReadTypes, OnceInv
    <3> QED BY <1>1, <1>7, <3>1, <3>2, Joined
  <2>4. ToSet(out') \subseteq ToSet(out) \cup got /\ \A m \in got : m.ch = Head(chan)
    BY <1>4, <1>5, <1>7, <1>8
  <2>5. CASE pc' = "done" /\ UNCHANGED <<chan, cursor>>
    BY <2>3, <2>5 DEF OnceInv
  <2>6. CASE pc' = pc /\ Len(chan) > 1 /\ chan' = Tail(chan) /\ cursor' = NoTS
    <3>1. ChannelInv' /\ \A m \in ToSet(out') : m.ch # chan'[1]
      BY <1>2, <2>1, <2>4, <2>6, ChannelIsRead
    <3> QED BY <1>1, <2>3, <2>6, <3>1 DEF OnceInv
  <2>7. CASE got # {} /\ cursor' = Last(page).ts /\ UNCHANGED <<pc, chan>>
    <3>1. Last(page).ts \in Nat /\ Last(page).ts # NoTS
      BY <1>9, <1>10, <2>7 DEF NoTS
    <3>2. ChannelInv'
      BY <1>2, <2>1, <2>4, <2>7, ChannelStays
    <3>3. ASSUME NEW m \in ToSet(out'), m.ch = chan[1] PROVE m.ts >= cursor'
      <4>1. CASE m \in got
        BY <1>9, <1>10, <2>7, <3>1, <4>1
      <4>2. CASE m \in ToSet(out)
        <5>1. m.ts \in Nat /\ m.ts >= cursor /\ cursor # NoTS
          BY <2>2, <3>3, <4>2
        <5>2. Last(page).ts < cursor
          BY <1>4, <1>10, <2>7, <5>1
        <5> QED BY <1>3, <2>7, <3>1, <5>1, <5>2
      <4> QED BY <2>4, <3>3, <4>1, <4>2
    <3> QED BY <1>1, <2>3, <2>7, <3>1, <3>2, <3>3 DEF OnceInv
  <2> QED BY <1>1, <2>5, <2>6, <2>7
<1> QED BY <1>11, <1>12, <1>13

(* A page of a listing: what ranks from its first place to its last.         *)
LEMMA PageLists ==
  ASSUME WorldInv, NEW S \in SUBSET there, NEW n \in Nat \ {0}, NEW size \in Nat \ {0}
  PROVE  LET page == PageOf(NewestFirst(S), n, size) IN
         /\ page \in Seq(Messages) /\ Distinct(page) /\ ToSet(page) \subseteq S
         /\ \A m \in ToSet(page) :
              (n - 1) * size <= Rank(S, m.ts) /\ Rank(S, m.ts) < n * size
<1> DEFINE items == NewestFirst(S)
           k == n * size
           first == (n - 1) * size + 1
           last == IF n * size < Len(items) THEN n * size ELSE Len(items)
           page == SubSeq(items, first, last)
<1>1. /\ items \in Seq(Messages) /\ Distinct(items) /\ ToSet(items) = S
      /\ \A i \in DOMAIN items : Cardinality({x \in S : x.ts > items[i].ts}) = i - 1
  BY PageOfThere
<1> HIDE DEF items
<1>2. PageOf(items, n, size) = page
  BY DEF PageOf
<1>3. k \in Nat
  OBVIOUS
<1>33. \E j \in Nat : first = j + 1 /\ j = (n - 1) * size
  OBVIOUS
<1>4. Len(items) \in Nat /\ DOMAIN items = 1..Len(items)
  BY <1>1
<1>5. last \in Int /\ last <= Len(items) /\ last <= k
  <2>1. last = IF k < Len(items) THEN k ELSE Len(items)
    OBVIOUS
  <2>2. Len(items) \in Int /\ k \in Int
    BY <1>3, <1>4
  <2> HIDE DEF last, k, first
  <2>3. CASE k < Len(items)
    BY <2>1, <2>2, <2>3
  <2>4. CASE ~(k < Len(items))
    BY <2>1, <2>2, <2>4
  <2> QED BY <2>3, <2>4
<1> HIDE DEF k, first, last
<1>6. first \in Nat \ {0} /\ first - 1 = (n - 1) * size
  <2>1. PICK j \in Nat : first = j + 1 /\ j = (n - 1) * size
    BY <1>33
  <2>2. first - 1 = j
    BY <2>1
  <2> QED BY <2>1, <2>2
<1>7. /\ page \in Seq(Messages) /\ ToSet(page) \subseteq ToSet(items) /\ Distinct(page)
      /\ \A i \in DOMAIN page : first + i - 1 \in DOMAIN items
                                /\ page[i] = items[first + i - 1] /\ first + i - 1 <= last
  BY <1>1, <1>5, <1>6, Stretch
<1> HIDE DEF page
<1>8. ASSUME NEW m \in ToSet(page) PROVE first - 1 <= Rank(S, m.ts) /\ Rank(S, m.ts) < k
  <2>1. PICK i \in DOMAIN page : m = page[i]
    BY DEF ToSet
  <2>2. i \in Nat /\ i >= 1
    BY <1>7
  <2>3. Rank(S, m.ts) = (first + i - 1) - 1
    BY <1>1, <1>7, <2>1 DEF Rank
  <2>4. first + i - 1 <= last
    BY <1>7
  <2> QED BY <1>3, <1>5, <1>6, <2>2, <2>3, <2>4
<1>9. \A m \in ToSet(page) : (n - 1) * size <= Rank(S, m.ts) /\ Rank(S, m.ts) < n * size
  <2>1. \A m \in ToSet(page) : first - 1 <= Rank(S, m.ts) /\ Rank(S, m.ts) < k
    BY <1>8
  <2>2. k = n * size
    BY DEF k
  <2> QED BY <1>6, <2>1, <2>2
<1> QED BY <1>1, <1>2, <1>7, <1>9 DEF items

(* Removing messages lowers ranks.                                           *)
LEMMA Fewer ==
  ASSUME NEW A, NEW B, IsFiniteSet(B), Unique(A), \A n \in A : \E m \in B : Same(n, m), NEW t
  PROVE  Rank(A, t) \in Nat /\ Rank(B, t) \in Nat /\ Rank(A, t) <= Rank(B, t)
<1> DEFINE X == {x \in A : x.ts > t}
           Y == {x \in B : x.ts > t}
           f == [x \in X |-> CHOOSE m \in Y : Same(x, m)]
<1>1. \A x \in X : \E m \in Y : Same(x, m)
  BY DEF Same
<1>2. \A x \in X : f[x] \in Y /\ Same(x, f[x])
  BY <1>1
<1>3. \A x, y \in X : x.ts = y.ts => x = y
  BY DEF Unique
<1>4. f \in [X -> Y]
  BY <1>2
<1>5. IsFiniteSet(Y)
  BY FS_Subset
<1> HIDE DEF f, X, Y
<1>6. f \in Injection(X, Y)
  BY <1>2, <1>3, <1>4 DEF Injection, IsInjective, Same
<1>7. IsFiniteSet(X) /\ Cardinality(X) <= Cardinality(Y)
  BY <1>5, <1>6, FS_Injection
<1>8. Cardinality(X) \in Nat /\ Cardinality(Y) \in Nat
  BY <1>5, <1>7, FS_CardinalityType
<1> QED BY <1>7, <1>8 DEF Rank, X, Y

(* Page numbers.                                                             *)
LEMMA Pages ==
  ASSUME NEW n \in Nat \ {0}, NEW size \in Nat
  PROVE  /\ (n - 1) * size \in Nat /\ n * size \in Nat
         /\ (n - 1) * size <= n * size
         /\ (n + 1) - 1 = n
<1>1. PICK p \in Nat : n = p + 1
  <2>1. n - 1 \in Nat /\ n = (n - 1) + 1
    OBVIOUS
  <2> QED BY <2>1
<1>2. n * size = p * size + size
  BY <1>1
<1>3. p * size \in Nat /\ n - 1 = p
  BY <1>1
<1> QED BY <1>2, <1>3

(* A numbered page ranks below all of its channel before it.                 *)
LEMMA FilesStep ==
  ASSUME IInv, FilesPage
  PROVE  ReadTypes' /\ PlaceFits' /\ (Steady' => OnceInv')
<1> DEFINE files == FilesOf(Head(chan))
           page == PageOf(NewestFirst(files), cursor, PageLimit)
           texts == {m \in ToSet(page) : m.text}
           named == NewestFirst(texts)
           more == Limit - Len(out)
           fresh == SubSeq(named, 1, IF Len(named) >= more THEN more ELSE Len(named))
<1>1. /\ pc = "files" /\ out' = out \o fresh
      /\ \/ pc' = "done" /\ UNCHANGED <<chan, cursor>>
         \/ pc' = pc /\ Len(chan) > 1 /\ chan' = Tail(chan) /\ cursor' = 1
         \/ cursor' = cursor + 1 /\ UNCHANGED <<pc, chan>>
      /\ UNCHANGED <<worldVars, req, filterUser, root, queue>>
  <2>1. pc = "files" /\ UNCHANGED <<worldVars, req, filterUser, root, queue>>
    BY DEF FilesPage
  <2>2. out' = out \o fresh
    BY DEF FilesPage, FilesOf
  <2>3. Len(chan) \in Nat
    BY DEF IInv, ReadTypes
  <2>4. \/ pc' = "done" /\ UNCHANGED <<chan, cursor>>
        \/ pc' = pc /\ ~(Len(chan) <= 1) /\ chan' = Tail(chan) /\ cursor' = 1
        \/ cursor' = cursor + 1 /\ UNCHANGED <<pc, chan>>
    BY DEF FilesPage
  <2> HIDE DEF fresh
  <2> QED BY <2>1, <2>2, <2>3, <2>4
<1>2. /\ WorldInv /\ ReadTypes /\ req.kind = "files" /\ Limit \in Nat
      /\ Steady => OnceInv
      /\ cursor \in Nat \ {0} /\ PageLimit \in Nat \ {0}
  <2>1. WorldInv /\ ReadTypes /\ req.kind = "files" /\ Limit \in Nat /\ (Steady => OnceInv)
    BY <1>1, LimitIs DEF IInv, PlaceFits
  <2>2. cursor \in Nat /\ cursor >= 1
    BY <1>1, <2>1 DEF ReadTypes
  <2> QED BY <2>1, <2>2, HistoryAssumption
<1>3. files \subseteq there /\ \A m \in files : m.ch = Head(chan)
  BY DEF FilesOf, TopLevel
<1> HIDE DEF files
<1>4. /\ page \in Seq(Messages) /\ ToSet(page) \subseteq files
      /\ \A m \in ToSet(page) : /\ (cursor - 1) * PageLimit <= Rank(files, m.ts)
                                /\ Rank(files, m.ts) < cursor * PageLimit
  BY <1>2, <1>3, PageLists
<1> HIDE DEF page
<1>5. texts \subseteq there /\ texts \subseteq ToSet(page)
  BY <1>3, <1>4
<1> HIDE DEF texts
<1>6. named \in Seq(Messages) /\ Distinct(named) /\ ToSet(named) = texts
  BY <1>2, <1>5, PageOfThere
<1> HIDE DEF named
<1>7. fresh \in Seq(Messages) /\ Distinct(fresh) /\ ToSet(fresh) \subseteq texts
  <2>1. Len(out) \in Nat /\ Len(named) \in Nat
    BY <1>2, <1>6 DEF ReadTypes
  <2> DEFINE k == IF Len(named) >= more THEN more ELSE Len(named)
  <2>2. k \in Int /\ k <= Len(named)
    BY <1>2, <2>1
  <2> HIDE DEF k
  <2>3. fresh = SubSeq(named, 1, k)
    BY DEF k
  <2> HIDE DEF fresh
  <2> QED BY <1>6, <2>2, <2>3, Stretch
<1> HIDE DEF fresh, more
<1>8. /\ out' \in Seq(Messages) /\ ToSet(out') = ToSet(out) \cup ToSet(fresh)
      /\ \A m \in ToSet(out') : Known(m)
  BY <1>1, <1>2, <1>5, <1>7, ReadOn
<1>9. ReadTypes'
  <2>1. /\ cursor' \in Nat /\ cursor' >= 1
        /\ chan' \in Seq(STRING) /\ pc' \in Places
    <3>1. CASE pc' = "done" /\ UNCHANGED <<chan, cursor>>
      BY <1>2, <3>1 DEF ReadTypes, Places
    <3>2. CASE pc' = pc /\ Len(chan) > 1 /\ chan' = Tail(chan) /\ cursor' = 1
      <4>1. chan # << >>
        BY <3>2
      <4> QED BY <1>2, <3>2, <4>1, ChannelsLeft DEF ReadTypes
    <3>3. CASE cursor' = cursor + 1 /\ UNCHANGED <<pc, chan>>
      BY <1>2, <3>3 DEF ReadTypes
    <3> QED BY <1>1, <3>1, <3>2, <3>3
  <2> QED BY <1>1, <1>2, <1>8, <2>1 DEF ReadTypes, Known, Ever
<1>10. PlaceFits'
  BY <1>1, <1>2 DEF PlaceFits
<1>11. ASSUME Steady' PROVE OnceInv'
  <2>1. OnceInv /\ Steady
    BY <1>1, <1>2, <1>11 DEF Steady, worldVars
  <2>2. ChannelInv /\ Head(chan) = chan[1]
    BY <1>1, <1>2, <2>1, ChannelsLeft DEF OnceInv, ReadTypes, ChannelInv
  <2>3. \A ts : Rank(files, ts) \in Nat
    <3>1. IsFiniteSet(files) /\ Unique(files)
      BY <1>2, <1>3, PageOfThere
    <3> QED BY <3>1, Fewer DEF Same
  <2>4. /\ (cursor - 1) * PageLimit \in Nat /\ cursor * PageLimit \in Nat
        /\ (cursor - 1) * PageLimit <= cursor * PageLimit /\ (cursor + 1) - 1 = cursor
    BY <1>2, Pages
  <2>5. \A m \in ToSet(out) : m.ch = chan[1] => Rank(files, m.ts) < (cursor - 1) * PageLimit
    BY <1>1, <2>1, <2>2 DEF OnceInv, files
  <2>6. \A m \in ToSet(fresh) : /\ m \in there /\ m.ch = chan[1]
                                /\ (cursor - 1) * PageLimit <= Rank(files, m.ts)
                                /\ Rank(files, m.ts) < cursor * PageLimit
    BY <1>3, <1>4, <1>5, <1>7, <2>2
  <2> DEFINE low == (cursor - 1) * PageLimit
             high == cursor * PageLimit
  <2>7. \A m \in ToSet(out) : m.ch = chan[1] => Rank(files, m.ts) < low
    BY <2>5
  <2>8. \A m \in ToSet(fresh) : /\ m \in there /\ m.ch = chan[1]
                                /\ low <= Rank(files, m.ts) /\ Rank(files, m.ts) < high
    BY <2>6
  <2>9. low \in Nat /\ high \in Nat /\ low <= high
    BY <2>4
  <2> HIDE DEF low, high
  <2>10. Distinct(out')
    <3>1. ASSUME NEW m \in ToSet(out), NEW n \in ToSet(fresh) PROVE m.ts # n.ts
      <4>1. CASE m.ch = chan[1]
        BY <2>3, <2>7, <2>8, <2>9, <4>1
      <4>2. CASE m.ch # chan[1]
        BY <1>2, <2>8, <4>2, OtherChannels
      <4> QED BY <4>1, <4>2
    <3>2. out \in Seq(Messages) /\ Distinct(out)
      BY <1>2, <2>1 DEF ReadTypes, OnceInv
    <3> QED BY <1>1, <1>7, <3>1, <3>2, Joined
  <2>11. ToSet(out') \subseteq ToSet(out) \cup files /\ \A m \in files : m.ch = Head(chan)
    BY <1>3, <1>4, <1>5, <1>7, <1>8
  <2>12. CASE pc' = "done" /\ UNCHANGED <<chan, cursor>>
    BY <2>10, <2>12 DEF OnceInv
  <2>13. CASE pc' = pc /\ Len(chan) > 1 /\ chan' = Tail(chan) /\ cursor' = 1
    <3>1. ChannelInv' /\ \A m \in ToSet(out') : m.ch # chan'[1]
      BY <1>2, <2>2, <2>11, <2>13, ChannelIsRead
    <3> QED BY <1>1, <2>10, <2>13, <3>1 DEF OnceInv
  <2>14. CASE cursor' = cursor + 1 /\ UNCHANGED <<pc, chan>>
    <3>1. ChannelInv'
      BY <1>2, <2>2, <2>11, <2>14, ChannelStays
    <3>2. \A m \in ToSet(out') : m.ch = chan[1] => Rank(files, m.ts) < high
      BY <1>8, <2>3, <2>7, <2>8, <2>9
    <3>3. high = (cursor' - 1) * PageLimit
      BY <2>4, <2>14 DEF high
    <3>4. files = FilesOf(chan[1])'
      <4>1. chan' = chan /\ there' = there /\ req' = req
        BY <1>1, <2>14 DEF worldVars
      <4>2. files = FilesOf(chan[1])
        BY <2>2 DEF files
      <4> QED BY <4>1, <4>2 DEF FilesOf, TopLevel, After, Before
    <3>5. \A m \in ToSet(out') : m.ch = chan'[1]
             => Rank(FilesOf(chan[1])', m.ts) < (cursor' - 1) * PageLimit
      BY <2>14, <3>2, <3>3, <3>4
    <3> QED BY <1>1, <2>10, <2>14, <3>1, <3>5 DEF OnceInv
  <2> QED BY <1>1, <2>12, <2>13, <2>14
<1> QED BY <1>9, <1>10, <1>11

(* So does a page of matches, below those that wait to be fetched.           *)
LEMMA SearchStep ==
  ASSUME IInv, SearchPage
  PROVE  ReadTypes' /\ PlaceFits' /\ (Steady' => OnceInv')
<1> DEFINE page == PageOf(NewestFirst(Matching), cursor, SearchPageSize)
           got == queue \o page
           kept == SubSeq(got, 1, IF Len(got) < Limit THEN Len(got) ELSE Limit)
           low == (cursor - 1) * SearchPageSize
           high == cursor * SearchPageSize
<1>1. /\ pc = "search" /\ queue' = kept /\ out' = out
      /\ \/ pc' = "hydrate" /\ cursor' = cursor
         \/ pc' = pc /\ cursor' = cursor + 1
      /\ UNCHANGED <<there, arrived, req, chan>>
  BY DEF SearchPage, Matching, worldVars
<1>2. /\ WorldInv /\ ReadTypes /\ req.kind = "search" /\ Limit \in Nat \ {0}
      /\ cursor \in Nat \ {0} /\ SearchPageSize \in Nat \ {0}
  <2>1. WorldInv /\ ReadTypes /\ req.kind = "search" /\ Limit \in Nat \ {0}
    BY <1>1, LimitIs DEF IInv, PlaceFits
  <2>2. cursor \in Nat /\ cursor >= 1
    BY <1>1, <2>1 DEF ReadTypes
  <2>3. SearchPageSize \in Nat \ {0}
    BY <2>1, HistoryAssumption DEF SearchPageSize, ClampInt
  <2> QED BY <2>1, <2>2, <2>3
<1>3. /\ low \in Nat /\ high \in Nat /\ low <= high /\ (cursor + 1) - 1 = cursor
      /\ Matching \subseteq there
  BY <1>2, Pages DEF Matching
<1>4. /\ page \in Seq(Messages) /\ Distinct(page) /\ ToSet(page) \subseteq Matching
      /\ \A m \in ToSet(page) : low <= Rank(Matching, m.ts) /\ Rank(Matching, m.ts) < high
  BY <1>2, <1>3, PageLists
<1>5. \A ts : Rank(Matching, ts) \in Nat
  <2>1. IsFiniteSet(Matching) /\ Unique(Matching)
    BY <1>2, <1>3, PageOfThere
  <2> QED BY <2>1, Fewer DEF Same
<1>6. high = ((cursor + 1) - 1) * SearchPageSize
  BY <1>3
<1> HIDE DEF page, low, high
<1>7. got \in Seq(Messages) /\ ToSet(got) = ToSet(queue) \cup ToSet(page)
  BY <1>2, <1>4, Joined DEF ReadTypes
<1> HIDE DEF got
<1>8. kept \in Seq(Messages) /\ ToSet(kept) \subseteq ToSet(got) /\ (Distinct(got) => Distinct(kept))
  <2> DEFINE k == IF Len(got) < Limit THEN Len(got) ELSE Limit
  <2>1. k \in Int /\ k <= Len(got)
    BY <1>2, <1>7
  <2>2. kept = SubSeq(got, 1, k)
    OBVIOUS
  <2> HIDE DEF k, kept
  <2> QED BY <1>7, <2>1, <2>2, Stretch
<1> HIDE DEF kept
<1>9. ReadTypes'
  <2>1. \A m \in ToSet(out') \cup ToSet(queue') : Known(m)
    BY <1>1, <1>2, <1>3, <1>4, <1>7, <1>8, ThereIsKnown DEF ReadTypes
  <2>2. queue' \in Seq(Messages) /\ cursor' \in Nat /\ cursor' >= 1 /\ pc' \in Places
    BY <1>1, <1>2, <1>8 DEF ReadTypes, Places
  <2> QED BY <1>1, <1>2, <2>1, <2>2 DEF ReadTypes, Known, Ever
<1>10. PlaceFits'
  BY <1>1, <1>2 DEF PlaceFits
<1>11. ASSUME Steady' PROVE OnceInv'
  <2>1. /\ Distinct(out) /\ out = << >> /\ Distinct(queue)
        /\ \A m \in ToSet(queue) : Rank(Matching, m.ts) < low
    BY <1>1, <1>11, NothingRead DEF IInv, Steady, OnceInv, low
  <2>2. Distinct(got)
    <3>1. \A m \in ToSet(queue), n \in ToSet(page) : m.ts # n.ts
      BY <1>3, <1>4, <1>5, <2>1
    <3> QED BY <1>2, <1>4, <2>1, <3>1, Joined DEF ReadTypes, got
  <2>3. Distinct(queue')
    BY <1>1, <1>8, <2>2
  <2>4. CASE pc' = "hydrate" /\ cursor' = cursor
    BY <1>1, <2>1, <2>3, <2>4, NothingRead DEF OnceInv
  <2>5. CASE pc' = pc /\ cursor' = cursor + 1
    <3>1. \A m \in ToSet(queue') : Rank(Matching, m.ts) < high
      BY <1>1, <1>3, <1>4, <1>5, <1>7, <1>8, <2>1
    <3>2. Matching' = Matching /\ SearchPageSize' = SearchPageSize
      BY <1>1 DEF Matching, SearchPageSize, Limit
    <3>3. \A m \in ToSet(queue') : Rank(Matching', m.ts) < (cursor' - 1) * SearchPageSize'
      BY <1>6, <2>5, <3>1, <3>2
    <3> QED BY <1>1, <2>1, <2>3, <2>5, <3>3 DEF OnceInv
  <2> QED BY <1>1, <2>4, <2>5
<1> QED BY <1>9, <1>10, <1>11

(* A list and its tail.                                                      *)
LEMMA TailOf ==
  ASSUME NEW s \in Seq(Messages), s # << >>
  PROVE  /\ Head(s) \in ToSet(s) /\ Tail(s) \in Seq(Messages)
         /\ ToSet(Tail(s)) \subseteq ToSet(s)
         /\ Distinct(s) => /\ Distinct(Tail(s))
                           /\ \A m \in ToSet(Tail(s)) : m.ts # Head(s).ts
<1> DEFINE rest == Tail(s)
<1>1. /\ rest \in Seq(Messages) /\ Len(rest) = Len(s) - 1
      /\ \A i \in 1..Len(rest) : rest[i] = s[i + 1]
  BY HeadTailProperties
<1>2. Len(s) \in Nat /\ Len(s) >= 1 /\ DOMAIN s = 1..Len(s) /\ Head(s) = s[1]
  OBVIOUS
<1>3. DOMAIN rest = 1..Len(rest)
  BY <1>1
<1> HIDE DEF rest
<1>4. \A i \in DOMAIN rest : i + 1 \in DOMAIN s /\ i + 1 # 1 /\ rest[i] = s[i + 1]
  BY <1>1, <1>2, <1>3
<1>5. 1 \in DOMAIN s
  BY <1>2
<1>6. ASSUME Distinct(s) PROVE Distinct(rest)
  <2> SUFFICES ASSUME NEW i \in DOMAIN rest, NEW j \in DOMAIN rest, i # j
               PROVE  rest[i].ts # rest[j].ts
    BY DEF Distinct
  <2>1. i + 1 # j + 1
    BY <1>3
  <2> QED BY <1>4, <1>6, <2>1 DEF Distinct
<1>7. ASSUME Distinct(s), NEW m \in ToSet(rest) PROVE m.ts # Head(s).ts
  <2>1. PICK i \in DOMAIN rest : m = rest[i]
    BY <1>7 DEF ToSet
  <2> QED BY <1>2, <1>4, <1>5, <1>7, <2>1 DEF Distinct
<1>8. ToSet(rest) \subseteq ToSet(s) /\ Head(s) \in ToSet(s)
  BY <1>2, <1>4, <1>5 DEF ToSet
<1> QED BY <1>1, <1>6, <1>7, <1>8 DEF rest

(* Fetching moves a match from what waits to what was read, or drops it.     *)
LEMMA FetchStep ==
  ASSUME IInv, FetchSearchMessage
  PROVE  ReadTypes' /\ PlaceFits' /\ (Steady' => OnceInv')
<1> DEFINE h == Head(queue)
           found == CHOOSE m \in there : m.ts = h.ts
<1>1. /\ pc = "hydrate" /\ UNCHANGED <<there, arrived, req, chan, cursor>>
      /\ \/ queue = << >> /\ pc' = "done" /\ queue' = queue /\ out' = out
         \/ queue # << >> /\ queue' = Tail(queue) /\ pc' = pc /\ out' = out
         \/ /\ queue # << >> /\ queue' = Tail(queue) /\ pc' = pc
            /\ h.ts \in TSOf(there) /\ out' = Append(out, found)
  BY DEF FetchSearchMessage, worldVars
<1>2. /\ WorldInv /\ ReadTypes /\ req.kind = "search" /\ (Steady' => OnceInv)
      /\ queue \in Seq(Messages) /\ out \in Seq(Messages)
  BY <1>1 DEF IInv, PlaceFits, ReadTypes, Steady
<1>3. CASE queue = << >> /\ pc' = "done" /\ queue' = queue /\ out' = out
  <2>1. ReadTypes'
    BY <1>1, <1>2, <1>3 DEF ReadTypes, Places, Known, Ever
  <2> QED BY <1>1, <1>2, <1>3, <2>1 DEF PlaceFits, OnceInv
<1>4. CASE queue # << >> /\ queue' = Tail(queue) /\ pc' = pc /\ out' = out
  <2>1. /\ queue' \in Seq(Messages) /\ ToSet(queue') \subseteq ToSet(queue)
        /\ Distinct(queue) => Distinct(queue')
    BY <1>2, <1>4, TailOf
  <2>2. ReadTypes'
    BY <1>1, <1>2, <1>4, <2>1 DEF ReadTypes, Known, Ever
  <2> QED BY <1>1, <1>2, <1>4, <2>1, <2>2 DEF PlaceFits, OnceInv
<1>5. CASE /\ queue # << >> /\ queue' = Tail(queue) /\ pc' = pc
           /\ h.ts \in TSOf(there) /\ out' = Append(out, found)
  <2>1. /\ h \in ToSet(queue) /\ queue' \in Seq(Messages) /\ ToSet(queue') \subseteq ToSet(queue)
        /\ Distinct(queue) => Distinct(queue') /\ \A m \in ToSet(queue') : m.ts # h.ts
    BY <1>2, <1>5, TailOf
  <2>2. found \in there /\ found.ts = h.ts
    BY <1>5 DEF TSOf
  <2> HIDE DEF h, found
  <2>3. out' = out \o <<found>>
    BY <1>2, <1>5
  <2>4. found \in Messages /\ <<found>> \in Seq(Messages) /\ ToSet(<<found>>) = {found}
        /\ Distinct(<<found>>)
    BY <1>2, <2>2, OneRead DEF WorldInv
  <2>5. /\ out' \in Seq(Messages) /\ ToSet(out') = ToSet(out) \cup {found}
        /\ \A m \in ToSet(out') : Known(m)
    BY <1>2, <2>2, <2>3, <2>4, ReadOn
  <2>6. ReadTypes'
    BY <1>1, <1>2, <1>5, <2>1, <2>5 DEF ReadTypes, Known, Ever
  <2>7. ASSUME Steady' PROVE OnceInv'
    <3>1. /\ Distinct(out) /\ Distinct(queue)
          /\ \A m \in ToSet(out), n \in ToSet(queue) : m.ts # n.ts
      BY <1>1, <1>2, <2>7 DEF OnceInv
    <3>2. Distinct(out')
      BY <1>2, <2>1, <2>2, <2>3, <2>4, <3>1, Joined
    <3>3. \A m \in ToSet(out'), n \in ToSet(queue') : m.ts # n.ts
      BY <2>1, <2>2, <2>5, <3>1
    <3> QED BY <1>1, <1>5, <2>1, <3>1, <3>2, <3>3 DEF OnceInv
  <2> QED BY <1>1, <1>2, <1>5, <2>6, <2>7 DEF PlaceFits
<1> QED BY <1>1, <1>3, <1>4, <1>5

(* A failed request prints nothing.                                          *)
LEMMA FailStep ==
  ASSUME IInv, RequestFails
  PROVE  ReadTypes' /\ PlaceFits' /\ OnceInv'
<1>1. pc' = "failed" /\ out' = << >> /\ UNCHANGED <<there, arrived, req, chan, cursor, queue>>
  BY DEF RequestFails, worldVars
<1>2. ReadTypes'
  BY <1>1, NothingRead DEF IInv, ReadTypes, Places, Known, Ever
<1> QED BY <1>1, <1>2, NothingRead DEF PlaceFits, OnceInv

(* What others do leaves a command where it was.                             *)
LEMMA CommandKept ==
  ASSUME IInv, UNCHANGED <<req, readVars>>
  PROVE  ReadTypes' /\ PlaceFits'
BY DEF IInv, readVars, ReadTypes, PlaceFits, Known, Ever, Same

(* What is posted shifts the numbered pages alone.                           *)
LEMMA PostStep ==
  ASSUME IInv, Post
  PROVE  ReadTypes' /\ PlaceFits' /\ (Steady' => OnceInv')
<1>1. UNCHANGED <<req, readVars>> /\ arrived' = arrived + 1 /\ arrived \in Nat
  <2>1. Len(Arrivals) \in Nat
    BY MessageAssumption
  <2> QED BY <2>1 DEF Post, IInv, WorldInv
<1>2. ReadTypes' /\ PlaceFits'
  BY <1>1, CommandKept
<1>3. ASSUME Steady' PROVE OnceInv'
  <2>1. req.kind \notin {"files", "search"} /\ Steady
    BY <1>1, <1>3 DEF Steady
  <2>2. OnceInv /\ pc \notin {"files", "search", "hydrate"}
    BY <1>1, <1>3, <2>1 DEF IInv, PlaceFits, Steady
  <2> QED BY <1>1, <2>2 DEF readVars, OnceInv, ChannelInv, HasReactionFilters
<1> QED BY <1>2, <1>3

(* What is deleted moves what is left toward pages already read.             *)
LEMMA ChangeStep ==
  ASSUME IInv, Delete \/ React
  PROVE  ReadTypes' /\ PlaceFits' /\ (Steady' => OnceInv')
<1>1. /\ arrived' = arrived /\ \A n \in there' : \E m \in there : Same(n, m)
      /\ Unique(there') /\ UNCHANGED <<req, readVars>> /\ WorldInv
  BY ChangesShrink DEF IInv, Shrinks
<1>2. ReadTypes' /\ PlaceFits'
  BY <1>1, CommandKept
<1>3. ASSUME NEW ts, NEW ch
      PROVE  /\ Rank(FilesOf(ch)', ts) \in Nat /\ Rank(FilesOf(ch), ts) \in Nat
             /\ Rank(FilesOf(ch)', ts) <= Rank(FilesOf(ch), ts)
             /\ Rank(Matching', ts) \in Nat /\ Rank(Matching, ts) \in Nat
             /\ Rank(Matching', ts) <= Rank(Matching, ts)
  <2>1. FilesOf(ch) \subseteq there /\ Matching \subseteq there
        /\ FilesOf(ch)' \subseteq there' /\ Matching' \subseteq there'
    BY DEF FilesOf, TopLevel, Matching
  <2>2. IsFiniteSet(FilesOf(ch)) /\ IsFiniteSet(Matching)
    BY <1>1, <2>1, FS_Subset DEF WorldInv
  <2>3. Unique(FilesOf(ch)') /\ Unique(Matching')
    BY <1>1, <2>1 DEF Unique
  <2>4. \A n \in FilesOf(ch)' : \E m \in FilesOf(ch) : Same(n, m)
    <3> SUFFICES ASSUME NEW n \in FilesOf(ch)' PROVE \E m \in FilesOf(ch) : Same(n, m)
      OBVIOUS
    <3>1. PICK m \in there : Same(n, m)
      BY <1>1, <2>1
    <3>2. m \in FilesOf(ch)
      BY <1>1, <3>1 DEF FilesOf, TopLevel, Same, After, Before
    <3> QED BY <3>1, <3>2
  <2>5. \A n \in Matching' : \E m \in Matching : Same(n, m)
    BY <1>1 DEF Matching, Same
  <2> QED BY <2>2, <2>3, <2>4, <2>5, Fewer
<1>4. ASSUME Steady' PROVE OnceInv'
  <2>1. OnceInv /\ WorldInv /\ ReadTypes /\ PlaceFits /\ req \in Commands /\ Limit \in Nat \ {0}
    BY <1>1, <1>4, LimitIs DEF IInv, Steady
  <2>2. pc = "files" =>
          \A m \in ToSet(out) : m.ch = chan[1]
             => Rank(FilesOf(chan[1])', m.ts) < (cursor - 1) * PageLimit
    <3> SUFFICES ASSUME pc = "files", NEW m \in ToSet(out), m.ch = chan[1]
                 PROVE  Rank(FilesOf(chan[1])', m.ts) < (cursor - 1) * PageLimit
      OBVIOUS
    <3> DEFINE low == (cursor - 1) * PageLimit
    <3>1. Rank(FilesOf(chan[1]), m.ts) < low
      BY <2>1 DEF OnceInv
    <3>2. low \in Nat
      BY <2>1, HistoryAssumption, Pages DEF ReadTypes
    <3> HIDE DEF low
    <3>3. Rank(FilesOf(chan[1])', m.ts) < low
      <4> DEFINE now == Rank(FilesOf(chan[1])', m.ts)
                 was == Rank(FilesOf(chan[1]), m.ts)
      <4>1. now \in Nat /\ was \in Nat /\ now <= was
        BY <1>1, <1>3 DEF readVars
      <4> HIDE DEF now, was
      <4>2. was < low
        BY <3>1 DEF was
      <4>3. now < low
        BY <3>2, <4>1, <4>2
      <4> QED BY <4>3 DEF now
    <3> QED BY <3>3 DEF low
  <2>3. pc = "search" =>
          \A m \in ToSet(queue) : Rank(Matching', m.ts) < (cursor - 1) * SearchPageSize
    <3> SUFFICES ASSUME pc = "search", NEW m \in ToSet(queue)
                 PROVE  Rank(Matching', m.ts) < (cursor - 1) * SearchPageSize
      OBVIOUS
    <3> DEFINE low == (cursor - 1) * SearchPageSize
    <3>1. Rank(Matching, m.ts) < low
      BY <2>1 DEF OnceInv
    <3>2. low \in Nat
      <4>1. SearchPageSize \in Nat
        BY <2>1, HistoryAssumption DEF SearchPageSize, ClampInt
      <4>2. cursor \in Nat \ {0}
        BY <2>1 DEF ReadTypes
      <4> QED BY <4>1, <4>2, Pages
    <3> HIDE DEF low
    <3>3. Rank(Matching', m.ts) < low
      BY <1>3, <3>1, <3>2
    <3> QED BY <3>3 DEF low
  <2>4. SearchPageSize' = SearchPageSize /\ HasReactionFilters' = HasReactionFilters
    BY <1>1 DEF SearchPageSize, Limit, HasReactionFilters
  <2>5. ChannelInv' <=> ChannelInv
    BY <1>1 DEF readVars, ChannelInv
  <2> QED BY <1>1, <2>1, <2>2, <2>3, <2>4, <2>5 DEF readVars, OnceInv
<1> QED BY <1>2, <1>4

(* Every step keeps it.                                                      *)
LEMMA NextIInv == IInv /\ [Next]_vars => IInv'
<1> SUFFICES ASSUME IInv, [Next]_vars PROVE IInv'
  OBVIOUS
<1>1. WorldInv'
  BY WorldNext DEF IInv
<1>2. CASE ListPage
  BY <1>1, <1>2, ListStep DEF IInv
<1>3. CASE NewScanFilter
  BY <1>1, <1>3, FilterStep DEF IInv
<1>4. CASE ScanPage
  BY <1>1, <1>4, ScanStep DEF IInv
<1>5. CASE FilesPage
  BY <1>1, <1>5, FilesStep DEF IInv
<1>6. CASE SearchPage
  BY <1>1, <1>6, SearchStep DEF IInv
<1>7. CASE FetchSearchMessage
  BY <1>1, <1>7, FetchStep DEF IInv
<1>8. CASE FindInHistory \/ FindInThread \/ FindRoot
  BY <1>1, <1>8, FindStep DEF IInv
<1>9. CASE ThreadPage
  BY <1>1, <1>9, ThreadStep DEF IInv
<1>10. CASE RequestFails
  BY <1>1, <1>10, FailStep DEF IInv
<1>11. CASE Post
  BY <1>1, <1>11, PostStep DEF IInv
<1>12. CASE Delete \/ React
  BY <1>1, <1>12, ChangeStep DEF IInv
<1>13. CASE UNCHANGED vars
  <2>1. UNCHANGED <<there, arrived, req, readVars>>
    BY <1>13 DEF vars, worldVars
  <2>2. ReadTypes' /\ PlaceFits'
    BY <2>1, CommandKept
  <2>3. Steady' => OnceInv'
    BY <2>1 DEF IInv, readVars, Steady, OnceInv, ChannelInv, HasReactionFilters, Rank, FilesOf,
                TopLevel, Matching, SearchPageSize, Limit, After, Before
  <2> QED BY <1>1, <2>2, <2>3 DEF IInv
<1> QED BY <1>2, <1>3, <1>4, <1>5, <1>6, <1>7, <1>8, <1>9, <1>10, <1>11, <1>12, <1>13
        DEF Next, Reading, Over

(* The channels of every command are named once.                            *)
OneEach == \A r \in Requests : NoneTwice(r.channels)

(* No message is printed twice, whatever the command, its filters and its    *)
(* limit, and whatever is posted, deleted or reacted to between its pages;   *)
(* the two walks by page number promise it while nothing is posted           *)
(* (FetchChannelHistory, FetchThread, searchMessagesInChannels,              *)
(* searchFilesInChannels, searchPaged).  A channel named twice is read twice *)
(* (resolveChannelIDs), hence OneEach.                                       *)
THEOREM ReadsAreOnce == OneEach => (Spec => []PrintedOnce)
<1>1. OneEach /\ IInv => PrintedOnce
  <2> SUFFICES ASSUME OneEach, IInv, ~(req.kind \in {"files", "search"} /\ arrived > 0)
               PROVE  Distinct(out)
    BY DEF PrintedOnce, Distinct
  <2>1. arrived = 0 \/ req.kind \notin {"files", "search"}
    BY MessageAssumption DEF IInv, WorldInv
  <2>2. Steady
    BY <2>1 DEF IInv, ReadTypes, OneEach, Steady
  <2> QED BY <2>2 DEF IInv, OnceInv
<1> SUFFICES ASSUME OneEach PROVE Spec => []PrintedOnce
  OBVIOUS
<1>2. IInv => PrintedOnce
  BY <1>1
<1> QED BY <1>2, InitIInv, NextIInv, PTL DEF Spec

-----------------------------------------------------------------------------
(* What a page of the first n leaves comes after all of it, and it is full.  *)
LEMMA Reach ==
  ASSUME NEW S, IsFiniteSet(S), NEW below \in [S -> SUBSET S],
         \A x \in S : x \notin below[x],
         \A x, y \in S : x # y => \/ x \in below[y] /\ below[x] \subseteq below[y]
                                  \/ y \in below[x] /\ below[y] \subseteq below[x],
         NEW n \in Nat, NEW got \in SUBSET S, \A x \in S : x \in got <=> Cardinality(below[x]) < n
  PROVE  \A m \in S \ got :
           Cardinality(got) \in Nat /\ Cardinality(got) >= n /\ \A x \in got : x \in below[m]
<1> SUFFICES ASSUME NEW m \in S \ got
             PROVE  /\ Cardinality(got) \in Nat /\ Cardinality(got) >= n
                    /\ \A x \in got : x \in below[m]
  OBVIOUS
<1> DEFINE size == Cardinality(S)
<1>1. /\ size \in Nat
      /\ \A x \in S : Cardinality(below[x]) \in 0..(size - 1)
      /\ \A x, y \in S : x \in below[y] => Cardinality(below[x]) < Cardinality(below[y])
      /\ \A x, y \in S : Cardinality(below[x]) = Cardinality(below[y]) => x = y
      /\ \A k \in 0..(size - 1) : \E x \in S : Cardinality(below[x]) = k
  BY Ranks
<1> HIDE DEF size
<1>2. Cardinality(below[m]) >= n
  BY <1>1
<1>3. n \in 0..(size - 1)
  BY <1>1, <1>2
<1>4. PICK last \in S : Cardinality(below[last]) = n
  BY <1>1, <1>3
<1>5. below[last] \subseteq got
  BY <1>1, <1>4
<1>6. IsFiniteSet(got) /\ got \subseteq S
  BY FS_Subset
<1>7. Cardinality(below[last]) <= Cardinality(got) /\ Cardinality(got) \in Nat
  BY <1>5, <1>6, FS_Subset, FS_CardinalityType
<1>8. ASSUME NEW x \in got PROVE x \in below[m]
  <2>1. Cardinality(below[x]) < n /\ x \in S /\ x # m
    BY <1>6
  <2>2. m \notin below[x]
    BY <1>1, <1>2, <2>1
  <2> QED BY <2>1, <2>2
<1> QED BY <1>4, <1>7, <1>8

(* The newest n of what there is, and what they leave.                       *)
LEMMA NewestPage ==
  ASSUME WorldInv, NEW S \in SUBSET there, NEW n \in Nat, NEW m \in S \ Newest(S, n)
  PROVE  /\ Cardinality(Newest(S, n)) \in Nat /\ Cardinality(Newest(S, n)) >= n
         /\ \A x \in Newest(S, n) : x.ts > m.ts
<1> DEFINE below == [x \in S |-> {y \in S : y.ts > x.ts}]
           got == Newest(S, n)
<1>1. IsFiniteSet(S) /\ \A x \in S : x.ts \in Nat
  BY FS_Subset DEF WorldInv, Messages
<1>2. below \in [S -> SUBSET S] /\ \A x \in S : x \notin below[x]
  BY <1>1
<1>3. \A x, y \in S : x # y => \/ x \in below[y] /\ below[x] \subseteq below[y]
                               \/ y \in below[x] /\ below[y] \subseteq below[x]
  BY <1>1 DEF WorldInv, Unique
<1>4. \A x \in S : x \in got <=> Cardinality(below[x]) < n
  BY DEF Newest
<1>5. \A x \in S : x \in below[m] => x.ts > m.ts
  OBVIOUS
<1>6. got \subseteq S
  BY DEF Newest
<1> HIDE DEF below, got
<1>7. \A l \in S \ got :
        Cardinality(got) \in Nat /\ Cardinality(got) >= n /\ \A x \in got : x \in below[l]
  <2>1. IsFiniteSet(S) /\ got \in SUBSET S /\ below \in [S -> SUBSET S]
    BY <1>1, <1>2, <1>6
  <2>2. \A x \in S : x \notin below[x]
    BY <1>2
  <2>3. n \in Nat
    OBVIOUS
  <2> QED BY ONLY <1>3, <1>4, <2>1, <2>2, <2>3, Reach
<1> QED BY <1>5, <1>6, <1>7 DEF got

(* The oldest n, and what they leave.                                        *)
LEMMA OldestPage ==
  ASSUME WorldInv, NEW S \in SUBSET there, NEW n \in Nat, NEW got,
         got = {x \in S : Cardinality({y \in S : y.ts < x.ts}) < n}, NEW m \in S \ got
  PROVE  /\ Cardinality(got) \in Nat /\ Cardinality(got) >= n
         /\ \A x \in got : x.ts < m.ts
<1> DEFINE below == [x \in S |-> {y \in S : y.ts < x.ts}]
<1>1. IsFiniteSet(S) /\ \A x \in S : x.ts \in Nat
  BY FS_Subset DEF WorldInv, Messages
<1>2. below \in [S -> SUBSET S] /\ \A x \in S : x \notin below[x]
  BY <1>1
<1>3. \A x, y \in S : x # y => \/ x \in below[y] /\ below[x] \subseteq below[y]
                               \/ y \in below[x] /\ below[y] \subseteq below[x]
  BY <1>1 DEF WorldInv, Unique
<1>4. \A x \in S : x \in got <=> Cardinality(below[x]) < n
  OBVIOUS
<1>5. \A x \in S : x \in below[m] => x.ts < m.ts
  OBVIOUS
<1>6. got \subseteq S
  OBVIOUS
<1> HIDE DEF below
<1>7. \A l \in S \ got :
        Cardinality(got) \in Nat /\ Cardinality(got) >= n /\ \A x \in got : x \in below[l]
  <2>1. IsFiniteSet(S) /\ got \in SUBSET S /\ below \in [S -> SUBSET S]
    BY <1>1, <1>2, <1>6
  <2>2. \A x \in S : x \notin below[x]
    BY <1>2
  <2>3. n \in Nat
    OBVIOUS
  <2> QED BY ONLY <1>3, <1>4, <2>1, <2>2, <2>3, Reach
<1> QED BY <1>5, <1>6, <1>7

(* The first of a page, newest first, and what they leave of it.             *)
LEMMA FirstOf ==
  ASSUME WorldInv, NEW S \in SUBSET there, NEW k \in Nat, k <= Len(NewestFirst(S)),
         NEW m \in S, m \notin ToSet(SubSeq(NewestFirst(S), 1, k))
  PROVE  k < Len(NewestFirst(S)) /\ \A x \in ToSet(SubSeq(NewestFirst(S), 1, k)) : x.ts > m.ts
<1> DEFINE s == NewestFirst(S)
           t == SubSeq(s, 1, k)
<1>1. /\ s \in Seq(Messages) /\ ToSet(s) = S
      /\ \A i, j \in DOMAIN s : i < j => s[i].ts > s[j].ts
  BY PageOfThere
<1> HIDE DEF s
<1>2. Len(s) \in Nat /\ DOMAIN s = 1..Len(s) /\ k <= Len(s)
  BY <1>1 DEF s
<1>3. /\ t \in Seq(Messages) /\ Len(t) = k
      /\ \A i \in DOMAIN t : i \in DOMAIN s /\ t[i] = s[i] /\ i <= k
  <2>1. /\ t \in Seq(Messages) /\ Len(t) = IF 1 <= k THEN k - 1 + 1 ELSE 0
        /\ \A i \in DOMAIN t : 1 + i - 1 \in DOMAIN s /\ t[i] = s[1 + i - 1] /\ 1 + i - 1 <= k
    BY <1>1, <1>2, Stretch
  <2> HIDE DEF t
  <2>2. DOMAIN t = 1..Len(t) /\ Len(t) = k
    BY <2>1
  <2>3. \A i \in DOMAIN t : 1 + i - 1 = i
    BY <2>2
  <2> QED BY <2>1, <2>2, <2>3
<1> HIDE DEF t
<1>4. DOMAIN t = 1..k
  BY <1>3
<1>5. PICK j \in 1..Len(s) : s[j] = m
  BY <1>1, <1>2 DEF ToSet
<1>6. j \notin 1..k
  <2> SUFFICES ASSUME j \in 1..k PROVE FALSE
    OBVIOUS
  <2>1. t[j] = m
    BY <1>3, <1>4, <1>5
  <2>2. m \in ToSet(t)
    BY <1>4, <2>1 DEF ToSet
  <2> QED BY <2>2 DEF t, s
<1>7. k < j
  BY <1>5, <1>6
<1>8. ASSUME NEW x \in ToSet(t) PROVE x.ts > m.ts
  <2>1. PICK i \in 1..k : x = t[i]
    BY <1>4 DEF ToSet
  <2>2. i < j /\ i \in DOMAIN s /\ j \in DOMAIN s /\ x = s[i]
    BY <1>2, <1>3, <1>4, <1>5, <1>7, <2>1
  <2> QED BY <1>1, <1>5, <2>2
<1> QED BY <1>2, <1>5, <1>7, <1>8 DEF t, s

(* Dividing what holds n + 1 of a size by it.                                *)
LEMMA Divided ==
  ASSUME NEW a \in Nat, NEW n \in Nat, NEW size \in Nat \ {0}, a >= n * size + size
  PROVE  a \div size \in Nat /\ n < a \div size
<1>1. PICK q \in Nat : q = a \div size
  OBVIOUS
<1>2. PICK r \in Nat : r = a % size /\ r < size
  OBVIOUS
<1>3. a = size * q + r
  BY <1>1, <1>2
<1>4. ASSUME q <= n PROVE FALSE
  <2>1. PICK p \in Nat : n = q + p
    <3>1. n - q \in Nat /\ n = q + (n - q)
      BY <1>4
    <3> QED BY <3>1
  <2>2. n * size = size * q + p * size /\ p * size \in Nat
    BY <2>1
  <2>3. n * size \in Nat /\ size * q \in Nat
    OBVIOUS
  <2> QED BY <1>2, <1>3, <2>2, <2>3
<1> QED BY <1>1, <1>4

(* A message that ranks at the page or below it is in the page, or there is  *)
(* another.                                                                  *)
LEMMA PageCovers ==
  ASSUME WorldInv, NEW S \in SUBSET there, NEW n \in Nat \ {0}, NEW size \in Nat \ {0},
         NEW m \in S, (n - 1) * size <= Rank(S, m.ts),
         m \notin ToSet(PageOf(NewestFirst(S), n, size))
  PROVE  /\ PageOf(NewestFirst(S), n, size) # << >>
         /\ n * size <= Rank(S, m.ts)
         /\ n < TotalPages(NewestFirst(S), size)
<1> DEFINE items == NewestFirst(S)
           k == n * size
           first == (n - 1) * size + 1
           last == IF n * size < Len(items) THEN n * size ELSE Len(items)
           page == SubSeq(items, first, last)
           rank == Rank(S, m.ts)
<1>1. /\ items \in Seq(Messages) /\ ToSet(items) = S
      /\ \A i \in DOMAIN items : Cardinality({x \in S : x.ts > items[i].ts}) = i - 1
  BY PageOfThere
<1>2. PageOf(items, n, size) = page
  BY DEF PageOf
<1>3. PICK p \in Nat : p = (n - 1) * size /\ first = p + 1 /\ k = p + size
  <2>1. (n - 1) * size \in Nat /\ n * size = (n - 1) * size + size
    <3>1. PICK l \in Nat : n = l + 1
      <4>1. n - 1 \in Nat /\ n = (n - 1) + 1
        OBVIOUS
      <4> QED BY <4>1
    <3>2. n * size = l * size + size /\ l * size \in Nat /\ n - 1 = l
      BY <3>1
    <3> QED BY <3>2
  <2> QED BY <2>1
<1>4. p <= rank
  BY <1>3
<1> HIDE DEF items
<1>5. Len(items) \in Nat /\ DOMAIN items = 1..Len(items)
  BY <1>1
<1>6. last = IF k < Len(items) THEN k ELSE Len(items)
  OBVIOUS
<1> HIDE DEF k, first, last
<1>17. first \in Nat \ {0} /\ k \in Nat
  BY <1>3
<1>7. last \in Int /\ last <= Len(items) /\ first \in Nat \ {0} /\ k \in Nat
  <2>1. CASE k < Len(items)
    BY <1>5, <1>6, <1>17, <2>1
  <2>2. CASE ~(k < Len(items))
    BY <1>5, <1>6, <1>17, <2>2
  <2> QED BY <2>1, <2>2
<1>8. PICK j \in 1..Len(items) : items[j] = m
  BY <1>1, <1>5 DEF ToSet
<1>9. rank = j - 1
  BY <1>1, <1>5, <1>8 DEF Rank
<1> HIDE DEF rank
<1>10. first <= j
  BY <1>3, <1>4, <1>8, <1>9
<1>11. /\ page \in Seq(Messages)
       /\ Len(page) = IF first <= last THEN last - first + 1 ELSE 0
       /\ \A i \in DOMAIN page : page[i] = items[first + i - 1]
  BY <1>1, <1>7, Stretch
<1> HIDE DEF page
<1>12. first <= last
  <2>1. first <= k
    BY <1>3
  <2>2. CASE k < Len(items)
    BY <1>6, <2>1, <2>2
  <2>3. CASE ~(k < Len(items))
    BY <1>5, <1>6, <1>7, <1>8, <1>10, <2>3
  <2> QED BY <2>2, <2>3
<1>13. page # << >>
  <2>1. Len(page) >= 1
    BY <1>7, <1>11, <1>12
  <2>2. Len(<< >>) = 0
    OBVIOUS
  <2> QED BY <2>1, <2>2
<1>14. k <= rank
  <2> SUFFICES ASSUME j - 1 < k PROVE FALSE
    BY <1>7, <1>9
  <2>1. j <= last
    <3>1. j \in Nat /\ j <= k
      BY <1>7, <1>8
    <3>2. CASE k < Len(items)
      BY <1>6, <3>1, <3>2
    <3>3. CASE ~(k < Len(items))
      BY <1>5, <1>6, <1>8, <3>3
    <3> QED BY <3>2, <3>3
  <2>2. j - first + 1 \in 1..Len(page)
    BY <1>7, <1>10, <1>11, <1>12, <2>1
  <2>3. j - first + 1 \in DOMAIN page /\ first + (j - first + 1) - 1 = j
    BY <1>7, <1>11, <2>2
  <2>4. page[j - first + 1] = m
    BY <1>8, <1>11, <2>3
  <2>5. m \in ToSet(page)
    BY <2>3, <2>4 DEF ToSet
  <2> QED BY <1>2, <2>5 DEF items
<1>15. n < TotalPages(items, size)
  <2>1. Len(items) + size - 1 \in Nat /\ Len(items) + size - 1 >= k + size
    BY <1>5, <1>7, <1>8, <1>9, <1>14
  <2>2. Len(items) + size - 1 >= n * size + size
    BY <2>1 DEF k
  <2> QED BY <2>1, <2>2, Divided DEF TotalPages
<1> QED BY <1>2, <1>13, <1>14, <1>15 DEF items, k, rank

(* What matched from the start and was not read, and what is looked up.      *)
Unread == {m \in Start : Matches(m) /\ m.ts \notin disturbed /\ m.ts \notin TSOf(ToSet(out))}
Sought == {m \in Start : m.ch = req.ch /\ m.ts = req.target /\ m.ts \notin disturbed}

(* What was not touched is as it was.                                        *)
Lasting == \A m \in Start : m.ts \notin disturbed => m \in there

(* A lookup went past no message it could name.                              *)
SoughtInv ==
  /\ pc = "findInThread" =>
       /\ req.hint # NoTS
       /\ \A m \in Sought : m.root \notin {NoTS, m.ts} /\ (m.root = req.hint => m.ts > cursor)
  /\ pc \in {"findRoot", "missing"} =>
       \A m \in Sought : m.root \notin {NoTS, m.ts} /\ m.root # req.hint

(* A walk went past no match: all that is left is ahead of the cursor, in    *)
(* this channel or in one that is left.                                      *)
Ahead(m) ==
  /\ m.ch \in ToSet(chan)
  /\ m.ch = chan[1] =>
       IF pc = "files" THEN (cursor - 1) * PageLimit <= Rank(FilesOf(chan[1]), m.ts)
                       ELSE cursor = NoTS \/ m.ts < cursor

AheadInv ==
  /\ pc \in {"list", "scan", "scanning", "files"} => Len(out) < Limit
  /\ pc \in {"scan", "scanning", "files"} => chan # << >>
  /\ pc = "list" => \A m \in Unread : Before(m, cursor, req.inclusive)
  /\ pc = "scan" => chan = req.channels
  /\ pc \in {"scanning", "files"} => \A m \in Unread : Ahead(m)
  /\ pc = "thread" => \A m \in Unread : m.ts > cursor
  /\ pc = "done" => \A m \in Unread : /\ req.kind # "thread" /\ Len(out) = Limit
                                      /\ req.kind = "list" => \A n \in ToSet(out) : n.ts > m.ts

StableInv == Lasting /\ SoughtInv /\ AheadInv

(* The start.                                                                *)
LEMMA InitStable == Init => StableInv
<1> SUFFICES ASSUME Init PROVE StableInv
  OBVIOUS
<1>1. IInv /\ ReadTypes /\ Limit \in Nat \ {0} /\ req \in Commands
  BY InitIInv, LimitIs DEF IInv
<1>2. /\ pc = IF req.kind = "thread" THEN "find" ELSE req.kind
      /\ chan = req.channels /\ out = << >> /\ there = Start /\ disturbed = {}
      /\ cursor = IF req.kind \in {"files", "search"} THEN 1 ELSE req.latest
      /\ req \in Requests
  BY DEF Init
<1>3. req.kind \in {"list", "scan", "files", "search", "find", "thread"}
      /\ req.channels \in Seq(STRING)
  BY <1>1 DEF Commands
<1>4. Lasting /\ SoughtInv
  BY <1>2, <1>3 DEF Lasting, SoughtInv
<1>5. Len(out) < Limit
  BY <1>1, <1>2
<1>6. pc \in {"scan", "files"} => chan # << >>
  BY <1>2, <1>3, CommandAssumption
<1>7. pc = "list" => \A m \in Unread : Before(m, cursor, req.inclusive)
  BY <1>2, <1>3 DEF Unread, Matches
<1>8. ASSUME pc = "files", NEW m \in Unread PROVE Ahead(m)
  <2>1. m.ch \in ToSet(chan)
    BY <1>2, <1>3, <1>8 DEF Unread, Matches
  <2>2. (cursor - 1) * PageLimit = 0
    <3>1. cursor = 1 /\ PageLimit \in Nat /\ cursor - 1 = 0
      BY <1>2, <1>3, <1>8, HistoryAssumption
    <3> QED BY <3>1
  <2>3. Rank(FilesOf(chan[1]), m.ts) \in Nat
    <3>1. WorldInv /\ FilesOf(chan[1]) \subseteq there
      BY <1>1 DEF IInv, FilesOf, TopLevel
    <3>2. IsFiniteSet(FilesOf(chan[1])) /\ Unique(FilesOf(chan[1]))
      BY <3>1, PageOfThere
    <3> QED BY <3>2, Fewer DEF Same
  <2> QED BY <1>8, <2>1, <2>2, <2>3 DEF Ahead
<1>9. AheadInv
  BY <1>2, <1>3, <1>5, <1>6, <1>7, <1>8 DEF AheadInv
<1> QED BY <1>4, <1>9 DEF StableInv

(* What happens to others leaves less to read.                               *)
LEMMA LeavesLess ==
  ASSUME disturbed \subseteq disturbed', UNCHANGED <<req, filterUser, root>>,
         \A m \in ToSet(out) : m.ts \in TSOf(ToSet(out'))
  PROVE  Unread' \subseteq Unread
<1> SUFFICES ASSUME NEW m \in Unread' PROVE m \in Unread
  OBVIOUS
<1>1. m \in Start /\ m.ts \notin disturbed /\ Matches(m)'
  BY DEF Unread
<1>2. Matches(m)
  BY <1>1 DEF Matches, Keep, PassesReactionNameFilters, After, Before
<1>3. m.ts \notin TSOf(ToSet(out))
  BY DEF Unread, TSOf
<1> QED BY <1>1, <1>2, <1>3 DEF Unread

(* What was not touched stays.                                               *)
LEMMA LastingNext ==
  ASSUME Lasting, WorldInv, [Next]_vars
  PROVE  Lasting' /\ disturbed \subseteq disturbed'
<1>1. CASE UNCHANGED worldVars
  BY <1>1 DEF worldVars, Lasting
<1>2. CASE Post
  BY <1>2 DEF Post, Lasting
<1>3. CASE Delete
  <2>1. PICK d \in there : there' = there \ {d} /\ disturbed' = disturbed \cup {d.ts}
    BY <1>3 DEF Delete, Change
  <2> QED BY <2>1 DEF Lasting
<1>4. CASE React
  <2>1. PICK d \in there : /\ there' = (there \ {d}) \cup {[d EXCEPT !.reacted = ~d.reacted]}
                           /\ disturbed' = disturbed \cup {d.ts}
    BY <1>4 DEF React, Change
  <2> QED BY <2>1 DEF Lasting
<1> QED BY <1>1, <1>2, <1>3, <1>4
        DEF Next, Reading, RequestFails, Over, FilesPage, SearchPage,
           FetchSearchMessage, ListPage, NewScanFilter, ScanPage, FindInHistory, FindInThread,
           FindRoot, ThreadPage, vars

(* Others change no place in a walk that matters.                            *)
LEMMA OthersStable ==
  ASSUME IInv, WorldInv', StableInv, Post \/ Delete \/ React
  PROVE  SoughtInv' /\ AheadInv'
<1>1. /\ UNCHANGED <<req, readVars>> /\ disturbed \subseteq disturbed' /\ WorldInv
      /\ UNCHANGED <<pc, chan, cursor, filterUser, root, out>>
  <2>1. UNCHANGED <<req, readVars>> /\ disturbed \subseteq disturbed'
    BY DEF Post, Delete, React, Change
  <2> QED BY <2>1 DEF IInv, readVars
<1>2. Unread' \subseteq Unread
  <2>1. \A m \in ToSet(out) : m.ts \in TSOf(ToSet(out'))
    BY <1>1 DEF TSOf
  <2> QED BY <1>1, <2>1, LeavesLess
<1>3. Sought' \subseteq Sought
  BY <1>1 DEF Sought
<1>4. SoughtInv'
  BY <1>1, <1>3 DEF StableInv, SoughtInv
<1>5. Limit' = Limit
  BY <1>1 DEF Limit
<1>6. ASSUME pc = "files", NEW m \in Unread' PROVE Ahead(m)'
  <2> DEFINE was == FilesOf(chan[1])
             is == FilesOf(chan[1])'
             low == (cursor - 1) * PageLimit
  <2>1. Ahead(m) /\ m.ch \in ToSet(chan)
    BY <1>2, <1>6 DEF StableInv, AheadInv, Ahead
  <2>2. m.ch # chan[1] => Ahead(m)'
    BY <1>1, <2>1 DEF Ahead
  <2>3. disturbed' = {}
    <3>1. req.kind = "files"
      BY <1>6 DEF IInv, PlaceFits
    <3>2. Matches(m)' /\ req' = req
      BY <1>1 DEF Unread
    <3> QED BY <3>1, <3>2 DEF Matches
  <2>4. there \subseteq there'
    BY <2>3 DEF Post, Delete, React, Change
  <2>5. was \subseteq is
    BY <1>1, <2>4 DEF FilesOf, TopLevel, After, Before
  <2>7. Rank(was, m.ts) \in Nat /\ Rank(is, m.ts) \in Nat /\ Rank(was, m.ts) <= Rank(is, m.ts)
    <3>1. is \subseteq there' /\ was \subseteq there
      BY DEF FilesOf, TopLevel
    <3>2. IsFiniteSet(is) /\ Unique(was)
      <4>1. IsFiniteSet(there') /\ Unique(there)
        BY <1>1 DEF WorldInv
      <4> QED BY <3>1, <4>1, FS_Subset DEF Unique
    <3>3. \A n \in was : \E l \in is : Same(n, l)
      BY <2>5 DEF Same
    <3> HIDE DEF was, is
    <3> QED BY <3>2, <3>3, Fewer
  <2>8. low \in Nat
    BY <1>6, HistoryAssumption, Pages DEF IInv, ReadTypes
  <2>9. m.ch = chan[1] => low <= Rank(was, m.ts)
    BY <1>6, <2>1 DEF Ahead
  <2> HIDE DEF was, is
  <2>10. m.ch = chan[1] => low <= Rank(is, m.ts)
    <3> HIDE DEF low
    <3> QED BY <2>7, <2>8, <2>9
  <2>11. chan' = chan /\ cursor' = cursor /\ pc' = pc
    BY <1>1
  <2>12. Rank(is, m.ts) = Rank(FilesOf(chan[1]), m.ts)'
    BY <2>11 DEF is, Rank
  <2> QED BY <1>6, <2>1, <2>10, <2>11, <2>12 DEF Ahead
<1>7. ASSUME pc = "scanning", NEW m \in Unread' PROVE Ahead(m)'
  <2>1. Ahead(m)
    BY <1>2, <1>7 DEF StableInv, AheadInv
  <2> QED BY <1>1, <1>7, <2>1 DEF Ahead
<1>8. pc \in {"scanning", "files"} => \A m \in Unread' : Ahead(m)'
  BY <1>6, <1>7
<1> HIDE DEF Unread
<1>9. AheadInv'
  BY <1>1, <1>2, <1>5, <1>8 DEF StableInv, AheadInv, Before
<1> QED BY <1>4, <1>9

(* Going on to a thread, nothing of it was read.                             *)
LEMMA FoundStable ==
  ASSUME IInv, NEW m, Found(m), pc \in {"find", "findInThread", "findRoot"},
         UNCHANGED <<worldVars, req, chan, filterUser, queue>>
  PROVE  SoughtInv' /\ AheadInv'
<1>1. req.kind \in {"find", "thread"} /\ req' = req
  BY DEF IInv, PlaceFits
<1>2. CASE req.kind = "find"
  <2>1. pc' = "done"
    BY <1>2 DEF Found
  <2>2. Unread' = {}
    BY <1>1, <1>2 DEF Unread, Matches
  <2> QED BY <2>1, <2>2 DEF SoughtInv, AheadInv
<1>3. CASE req.kind = "thread"
  <2>1. pc' = "thread" /\ cursor' = NoTS
    BY <1>3 DEF Found
  <2>2. \A l \in Start : l.ts \in Nat /\ l.ts # NoTS
    BY MessageAssumption DEF Messages
  <2>3. \A l \in Unread' : l.ts > cursor'
    BY <2>1, <2>2 DEF Unread, NoTS
  <2> QED BY <2>1, <2>3 DEF SoughtInv, AheadInv
<1> QED BY <1>1, <1>2, <1>3

(* A message outside a thread, or a root, is the newest up to itself.        *)
LEMMA HistoryStable ==
  ASSUME IInv, StableInv, FindInHistory
  PROVE  SoughtInv' /\ AheadInv'
<1> DEFINE S == {m \in TopLevel(req.ch) : /\ Before(m, req.target, TRUE)
                                          /\ After(m, NoTS, TRUE)}
           got == Newest(S, 5)
           hits == {m \in got : m.ts = req.target}
<1>1. /\ pc = "find" /\ WorldInv /\ Lasting
      /\ UNCHANGED <<worldVars, req, chan, filterUser, queue>>
  BY DEF FindInHistory, IInv, StableInv
<1>2. CASE hits # {}
  <2>1. PICK m : Found(m)
    BY <1>2 DEF FindInHistory, SlackHistory
  <2> QED BY <1>1, <2>1, FoundStable
<1>3. CASE hits = {}
  <2>1. pc' = (IF req.hint # NoTS THEN "findInThread" ELSE "findRoot") /\ cursor' = NoTS
    BY <1>3 DEF FindInHistory, SlackHistory
  <2>2. ASSUME NEW m \in Sought PROVE m.root \notin {NoTS, m.ts} /\ m.ts \in Nat \ {0}
    <3>1. m \in there /\ m.ts = req.target /\ m.ch = req.ch /\ m.ts \in Nat \ {0}
      BY <1>1, MessageAssumption DEF Sought, Lasting, Messages, NoTS
    <3>2. ASSUME m.root \in {NoTS, m.ts} PROVE FALSE
      <4>1. m \in S
        BY <3>1, <3>2 DEF TopLevel, Before, After
      <4>2. m \notin got
        BY <1>3, <3>1
      <4>3. \A x \in S : x \in Messages /\ x.ts <= m.ts /\ x.ts \in Nat
        BY <1>1, <3>1 DEF TopLevel, Before, WorldInv, Messages, NoTS
      <4>4. S \subseteq there /\ got \subseteq S
        BY DEF TopLevel, Newest
      <4> HIDE DEF S
      <4>5. Cardinality(got) >= 5 /\ \A x \in got : x.ts > m.ts
        BY <1>1, <4>1, <4>2, <4>4, NewestPage
      <4>6. got # {}
        <5>1. Cardinality({}) = 0
          BY FS_EmptySet
        <5> QED BY <4>5, <5>1
      <4> QED BY <3>1, <4>3, <4>4, <4>5, <4>6
    <3> QED BY <3>1, <3>2
  <2>3. Sought' = Sought /\ req' = req
    BY <1>1 DEF Sought, worldVars
  <2> HIDE DEF Sought
  <2>4. SoughtInv'
    BY <2>1, <2>2, <2>3 DEF SoughtInv, NoTS
  <2>5. AheadInv'
    BY <2>1 DEF AheadInv
  <2> QED BY <2>4, <2>5
<1> QED BY <1>2, <1>3

(* What is ahead in a thread is in its next page, or the page is not the     *)
(* last and it is ahead of that too.                                         *)
LEMMA ThreadAhead ==
  ASSUME WorldInv, NEW ch, NEW thread, NEW from,
         NEW m \in there, m.ch = ch, m.ts = thread \/ m.root = thread, m.ts > from,
         m \notin SlackReplies(ch, thread, from, PageLimit)
  PROVE  /\ ~LastPage(SlackReplies(ch, thread, from, PageLimit))
         /\ m.ts > LastTS(SlackReplies(ch, thread, from, PageLimit))
<1> DEFINE S == {x \in there : x.ch = ch /\ (x.ts = thread \/ x.root = thread) /\ x.ts > from}
           page == SlackReplies(ch, thread, from, PageLimit)
<1>1. page = {x \in S : Cardinality({y \in S : y.ts < x.ts}) < PageLimit}
  BY DEF SlackReplies
<1>2. m \in S \ page /\ S \subseteq there /\ page \subseteq there /\ PageLimit \in Nat
  BY <1>1, HistoryAssumption
<1> HIDE DEF S, page
<1>3. Cardinality(page) \in Nat /\ Cardinality(page) >= PageLimit /\ \A x \in page : x.ts < m.ts
  BY <1>1, <1>2, OldestPage
<1>4. ~LastPage(page)
  BY <1>2, <1>3 DEF LastPage
<1>5. \E x \in page : x.ts = LastTS(page)
  BY <1>2, <1>4, FullPage
<1>6. m.ts \in Nat /\ \A x \in page : x.ts \in Nat
  BY <1>2 DEF WorldInv, Messages
<1>7. m.ts > LastTS(page)
  BY <1>3, <1>5, <1>6
<1> QED BY <1>4, <1>7 DEF page

(* Going through the thread the permalink names.                             *)
LEMMA ThreadLookupStable ==
  ASSUME IInv, StableInv, FindInThread
  PROVE  SoughtInv' /\ AheadInv'
<1> DEFINE page == SlackReplies(req.ch, req.hint, cursor, PageLimit)
           hits == {m \in page : m.ts = req.target}
<1>1. /\ pc = "findInThread" /\ WorldInv /\ Lasting
      /\ UNCHANGED <<worldVars, req, chan, filterUser, queue>>
  BY DEF FindInThread, IInv, StableInv
<1>2. CASE hits # {}
  <2>1. PICK m : Found(m)
    BY <1>2 DEF FindInThread
  <2> QED BY <1>1, <2>1, FoundStable
<1>3. CASE hits = {}
  <2>1. \/ ~LastPage(page) /\ cursor' = LastTS(page) /\ pc' = pc
        \/ LastPage(page) /\ pc' = "findRoot"
    BY <1>3 DEF FindInThread
  <2>2. req.hint # NoTS /\ \A m \in Sought : m.root \notin {NoTS, m.ts}
                                              /\ (m.root = req.hint => m.ts > cursor)
    BY <1>1 DEF StableInv, SoughtInv
  <2>3. ASSUME NEW m \in Sought, m.root = req.hint
        PROVE  ~LastPage(page) /\ m.ts > LastTS(page)
    <3>1. m \in there /\ m.ch = req.ch /\ m.ts > cursor /\ m.ts = req.target
      BY <1>1, <2>2, <2>3 DEF Sought, Lasting
    <3>2. m \notin page
      BY <1>3, <3>1
    <3> QED BY <1>1, <2>3, <3>1, <3>2, ThreadAhead
  <2>4. Sought' = Sought /\ req' = req
    BY <1>1 DEF Sought, worldVars
  <2> HIDE DEF Sought, page
  <2>5. SoughtInv'
    BY <1>1, <2>1, <2>2, <2>3, <2>4 DEF SoughtInv
  <2>6. AheadInv'
    BY <1>1, <2>1 DEF AheadInv
  <2> QED BY <2>5, <2>6
<1> QED BY <1>2, <1>3

(* The last lookup.                                                          *)
LEMMA RootStable ==
  ASSUME IInv, StableInv, FindRoot
  PROVE  SoughtInv' /\ AheadInv'
<1>1. /\ pc = "findRoot" /\ SoughtInv
      /\ UNCHANGED <<worldVars, req, chan, filterUser, queue>>
  BY DEF FindRoot, IInv, StableInv
<1>2. (\E m : Found(m)) \/ NotFound
  BY DEF FindRoot
<1>3. CASE \E m : Found(m)
  BY <1>1, <1>3, FoundStable
<1>4. CASE NotFound
  <2>1. pc' = "missing" /\ req' = req /\ Sought' = Sought
    BY <1>1, <1>4 DEF NotFound, Sought, worldVars
  <2> HIDE DEF Sought
  <2> QED BY <1>1, <2>1 DEF SoughtInv, AheadInv
<1> QED BY <1>2, <1>3, <1>4

(* A page of a thread.                                                       *)
LEMMA ThreadStable ==
  ASSUME IInv, StableInv, ThreadPage
  PROVE  SoughtInv' /\ AheadInv'
<1> DEFINE page == SlackReplies(req.ch, root, cursor, PageLimit)
           fresh == Reverse(NewestFirst(page))
           all == out \o fresh
<1>1. /\ pc = "thread"
      /\ \/ LastPage(page) /\ pc' = "done" /\ out' = SortChronological(all)
         \/ ~LastPage(page) /\ out' = all /\ cursor' = LastTS(page) /\ pc' = pc
      /\ UNCHANGED <<worldVars, req, chan, filterUser, root, queue>>
  BY DEF ThreadPage, Return
<1>2. WorldInv /\ ReadTypes /\ OnceInv /\ Lasting /\ AheadInv /\ req.kind \in {"find", "thread"}
  BY <1>1 DEF IInv, PlaceFits, Steady, StableInv
<1>3. page \subseteq there /\ \A m \in page : m.ts > cursor
  BY <1>2, Answered
<1>4. fresh \in Seq(Messages) /\ Distinct(fresh) /\ ToSet(fresh) = page
  <2> HIDE DEF page
  <2>1. NewestFirst(page) \in Seq(Messages) /\ Distinct(NewestFirst(page))
        /\ ToSet(NewestFirst(page)) = page
    BY <1>2, <1>3, PageOfThere
  <2> QED BY <2>1, Reversed
<1> HIDE DEF fresh
<1>5. /\ all \in Seq(Messages) /\ ToSet(all) = ToSet(out) \cup page /\ Distinct(all)
  <2>1. out \in Seq(Messages) /\ Distinct(out)
    BY <1>2 DEF ReadTypes, OnceInv
  <2>2. \A m \in ToSet(out), n \in ToSet(fresh) : m.ts # n.ts
    <3>1. \A m \in page : m.ts \in Nat
      BY <1>2, <1>3 DEF WorldInv, Messages
    <3>2. \A m \in ToSet(out) : m.ts \in Nat /\ m.ts <= cursor
      BY <1>1, <1>2, ReadAreMessages DEF OnceInv
    <3>3. cursor \in Nat
      BY <1>2 DEF ReadTypes
    <3> HIDE DEF page
    <3> QED BY <1>3, <1>4, <3>1, <3>2, <3>3
  <2> HIDE DEF page
  <2> QED BY <1>4, <2>1, <2>2, Joined
<1> HIDE DEF all
<1>6. ToSet(out') = ToSet(out) \cup page
  <2>1. CASE out' = all
    BY <1>5, <2>1
  <2>2. CASE out' = SortChronological(all)
    <3>1. /\ \A i \in DOMAIN out' : \E j \in DOMAIN all : out'[i] = all[j]
          /\ \A j \in DOMAIN all : \E i \in DOMAIN out' : out'[i] = all[j]
      BY <1>5, <2>2, SortedIs
    <3>2. ToSet(out') = ToSet(all)
      BY <3>1 DEF ToSet
    <3> QED BY <1>5, <3>2
  <2> QED BY <1>1, <2>1, <2>2
<1>7. Unread' \subseteq Unread
  <2>1. disturbed' = disturbed /\ UNCHANGED <<req, filterUser, root>>
    BY <1>1 DEF worldVars
  <2>2. \A m \in ToSet(out) : m.ts \in TSOf(ToSet(out'))
    BY <1>6 DEF TSOf
  <2> QED BY <2>1, <2>2, LeavesLess
<1>8. ASSUME NEW m \in Unread', req.kind = "thread"
      PROVE  ~LastPage(page) /\ m.ts > LastTS(page)
  <2>1. m \in Unread
    BY <1>7
  <2>2. m \in there /\ m.ch = req.ch /\ (m.ts = root \/ m.root = root) /\ m.ts > cursor
    BY <1>1, <1>2, <1>8, <2>1 DEF Unread, Lasting, Matches, AheadInv
  <2>3. m \notin page
    BY <1>6 DEF Unread, TSOf
  <2> QED BY <1>2, <2>2, <2>3, ThreadAhead
<1>9. req.kind = "find" => Unread' = {}
  BY <1>1 DEF Unread, Matches
<1> HIDE DEF page, Unread
<1>10. SoughtInv'
  BY <1>1 DEF SoughtInv
<1>11. AheadInv'
  BY <1>1, <1>2, <1>8, <1>9 DEF AheadInv
<1> QED BY <1>10, <1>11

(* The filter is set before the first page.                                  *)
LEMMA FilterStable ==
  ASSUME IInv, StableInv, NewScanFilter
  PROVE  SoughtInv' /\ AheadInv'
<1>1. /\ pc = "scan" /\ pc' = "scanning" /\ cursor' = NoTS /\ chan = req.channels
      /\ chan # << >> /\ Len(out) < Limit /\ UNCHANGED <<req, chan, out>>
  BY DEF NewScanFilter, StableInv, AheadInv, worldVars
<1>2. req.kind = "scan"
  BY <1>1 DEF IInv, PlaceFits
<1>3. Limit' = Limit
  BY <1>1 DEF Limit
<1>4. \A m \in Unread' : Ahead(m)'
  BY <1>1, <1>2 DEF Unread, Matches, Ahead
<1> QED BY <1>1, <1>3, <1>4 DEF SoughtInv, AheadInv

(* The channels left, but for the first, are those of the tail.              *)
LEMMA OtherLeft ==
  ASSUME chan \in Seq(STRING), NEW c \in ToSet(chan), c # chan[1]
  PROVE  Len(chan) > 1 /\ c \in ToSet(Tail(chan))
<1>1. PICK i \in DOMAIN chan : c = chan[i]
  BY DEF ToSet
<1>2. i \in 1..Len(chan) /\ i # 1 /\ Len(chan) \in Nat
  BY <1>1
<1>3. Len(chan) > 1 /\ chan # << >>
  BY <1>2
<1>4. /\ Tail(chan) \in Seq(STRING) /\ Len(Tail(chan)) = Len(chan) - 1
      /\ \A j \in 1..Len(Tail(chan)) : Tail(chan)[j] = chan[j + 1]
  BY <1>3, ChannelsLeft
<1> DEFINE rest == Tail(chan)
<1>5. DOMAIN rest = 1..Len(rest)
  BY <1>4
<1>6. i - 1 \in 1..Len(rest) /\ (i - 1) + 1 = i
  BY <1>2, <1>4
<1>7. rest[i - 1] = c
  BY <1>1, <1>4, <1>6
<1> HIDE DEF rest
<1>8. c \in ToSet(rest)
  BY <1>5, <1>6, <1>7 DEF ToSet
<1> QED BY <1>3, <1>8 DEF rest

(* A page adds what there is room for; what it leaves out is older.          *)
Full(S) == Len(NewestFirst(S)) >= Limit - Len(out)
Fitting(S) ==
  SubSeq(NewestFirst(S), 1, IF Full(S) THEN Limit - Len(out) ELSE Len(NewestFirst(S)))

LEMMA Room ==
  ASSUME WorldInv, out \in Seq(Messages), Limit \in Nat, Len(out) < Limit,
         NEW S \in SUBSET there
  PROVE  /\ Fitting(S) \in Seq(Messages) /\ Distinct(Fitting(S)) /\ ToSet(Fitting(S)) \subseteq S
         /\ out \o Fitting(S) \in Seq(Messages)
         /\ ToSet(out \o Fitting(S)) = ToSet(out) \cup ToSet(Fitting(S))
         /\ Full(S) <=> Len(out \o Fitting(S)) >= Limit
         /\ Full(S) => Len(out \o Fitting(S)) = Limit
         /\ \A m \in S : m \notin ToSet(Fitting(S)) =>
              Full(S) /\ \A x \in ToSet(Fitting(S)) : x.ts > m.ts
<1> DEFINE fresh == Fitting(S)
           k == IF Full(S) THEN Limit - Len(out) ELSE Len(NewestFirst(S))
           s == NewestFirst(S)
           n == Len(s)
           more == Limit - Len(out)
<1>1. s \in Seq(Messages) /\ Distinct(s) /\ ToSet(s) = S
  BY PageOfThere
<1>2. n \in Nat /\ more \in Nat /\ more > 0 /\ Len(out) \in Nat
  <2> HIDE DEF s
  <2> QED BY <1>1
<1>3. /\ k = IF n >= more THEN more ELSE n
      /\ fresh = SubSeq(s, 1, k)
      /\ Full(S) <=> n >= more
  BY DEF Fitting, Full
<1> HIDE DEF k, fresh
<1>4. ASSUME NEW m \in S, m \notin ToSet(fresh), k \in Nat, k <= n
      PROVE  k < n /\ \A x \in ToSet(fresh) : x.ts > m.ts
  <2> HIDE DEF s
  <2> QED BY <1>3, <1>4, FirstOf DEF s
<1> HIDE DEF s
<1>5. k \in Nat /\ k <= n
  <2> HIDE DEF n, more
  <2>1. CASE n >= more
    BY <1>2, <1>3, <2>1
  <2>2. CASE ~(n >= more)
    BY <1>2, <1>3, <2>2
  <2> QED BY <2>1, <2>2
<1>6. fresh \in Seq(Messages) /\ Distinct(fresh) /\ ToSet(fresh) \subseteq S /\ Len(fresh) = k
  <2>1. /\ fresh \in Seq(Messages) /\ Len(fresh) = (IF 1 <= k THEN k - 1 + 1 ELSE 0)
        /\ ToSet(fresh) \subseteq ToSet(s) /\ (Distinct(s) => Distinct(fresh))
    <3>1. k \in Int /\ k <= Len(s) /\ 1 \in Nat \ {0} /\ s \in Seq(Messages)
      BY <1>1, <1>5
    <3>2. LET t == SubSeq(s, 1, k) IN
          /\ t \in Seq(Messages) /\ Len(t) = (IF 1 <= k THEN k - 1 + 1 ELSE 0)
          /\ ToSet(t) \subseteq ToSet(s) /\ (Distinct(s) => Distinct(t))
      BY <3>1, Stretch
    <3> QED BY <1>3, <3>2
  <2> QED BY <1>1, <1>5, <2>1
<1>7. out \o fresh \in Seq(Messages) /\ ToSet(out \o fresh) = ToSet(out) \cup ToSet(fresh)
      /\ Len(out \o fresh) = Len(out) + k
  <2>1. out \o fresh \in Seq(Messages) /\ ToSet(out \o fresh) = ToSet(out) \cup ToSet(fresh)
    BY <1>6, Joined
  <2>2. Len(out \o fresh) = Len(out) + Len(fresh)
    BY <1>6
  <2> QED BY <1>6, <2>1, <2>2
<1> DEFINE total == Len(out \o fresh)
<1>8. total = Len(out) + k
  BY <1>7
<1> HIDE DEF total, n, more
<1>9. (n >= more <=> total >= Limit) /\ (n >= more => total = Limit)
  <2>1. CASE n >= more
    <3>1. k = more /\ total = Len(out) + (Limit - Len(out))
      BY <1>3, <1>8, <2>1 DEF more
    <3>2. total = Limit
      BY <1>2, <3>1
    <3> QED BY <2>1, <3>2
  <2>2. CASE ~(n >= more)
    <3>1. k = n /\ n < more
      BY <1>2, <1>3, <2>2
    <3>2. total < Limit
      BY <1>2, <1>8, <3>1 DEF more
    <3>3. total \in Nat
      BY <1>2, <1>5, <1>8
    <3> QED BY <2>2, <3>2, <3>3
  <2> QED BY <2>1, <2>2
<1>10. ASSUME NEW m \in S, m \notin ToSet(fresh)
       PROVE  n >= more /\ \A x \in ToSet(fresh) : x.ts > m.ts
  <2>1. k < n /\ \A x \in ToSet(fresh) : x.ts > m.ts
    BY <1>4, <1>5, <1>10
  <2>2. n >= more
    BY <1>3, <1>5, <2>1
  <2> QED BY <2>1, <2>2
<1> QED BY <1>3, <1>6, <1>7, <1>9, <1>10 DEF fresh, total

(* A page of a scan.                                                         *)
LEMMA ScanStable ==
  ASSUME IInv, StableInv, ScanPage
  PROVE  SoughtInv' /\ AheadInv'
<1> DEFINE got == SlackHistory(Head(chan), cursor, NoTS, FALSE, PageLimit)
           page == NewestFirst(got)
           window == InWindow(got)
           kept == {m \in window : Keep(m)}
           full == Full(kept)
           fresh == Fitting(kept)
<1>1. /\ pc = "scanning" /\ out' = out \o fresh
      /\ \/ full /\ pc' = "done"
         \/ ~full /\ (got = {} \/ window # got) /\ NextChannel
         \/ ~full /\ got # {} /\ window = got /\ cursor' = Last(page).ts
            /\ UNCHANGED <<pc, chan>>
      /\ UNCHANGED <<worldVars, req, filterUser, root, queue>>
  <2>1. pc = "scanning" /\ UNCHANGED <<worldVars, req, filterUser, root, queue>>
        /\ out' = out \o fresh
    BY DEF ScanPage, Full, Fitting
  <2>2. IF full THEN pc' = "done" /\ UNCHANGED <<chan, cursor>>
        ELSE IF got = {} \/ window # got THEN NextChannel
        ELSE cursor' = NextLatest(page) /\ UNCHANGED <<pc, chan>>
    BY DEF ScanPage, Full
  <2> HIDE DEF full, got, window, page, fresh
  <2> QED BY <2>1, <2>2 DEF NextLatest
<1>2. /\ WorldInv /\ ReadTypes /\ Lasting /\ AheadInv /\ req.kind = "scan" /\ Limit \in Nat
      /\ Len(out) < Limit /\ chan # << >> /\ chan \in Seq(STRING) /\ Head(chan) = chan[1]
      /\ out \in Seq(Messages) /\ cursor \in Nat
  <2>1. ReadTypes /\ AheadInv
    BY DEF IInv, StableInv
  <2> QED BY <1>1, <2>1, LimitIs DEF IInv, PlaceFits, StableInv, AheadInv, ReadTypes
<1> DEFINE S == {m \in TopLevel(Head(chan)) : Before(m, cursor, FALSE) /\ After(m, NoTS, FALSE)}
<1>3. got = Newest(S, PageLimit) /\ S \subseteq there /\ got \subseteq S /\ kept \subseteq there
      /\ window \subseteq got
  BY DEF SlackHistory, Newest, TopLevel, InWindow
<1>4. kept = {m \in window : Keep(m)}
  OBVIOUS
<1>5. window = {m \in got : \A past \in got : PastOldest(past) => past.ts < m.ts}
  BY DEF InWindow
<1> HIDE DEF kept
<1>6. /\ out' \in Seq(Messages) /\ ToSet(out') = ToSet(out) \cup ToSet(fresh)
      /\ full <=> Len(out') >= Limit
      /\ full => Len(out') = Limit
      /\ \A m \in kept : m \notin ToSet(fresh) => full
  <2>1. /\ out \o fresh \in Seq(Messages) /\ ToSet(out \o fresh) = ToSet(out) \cup ToSet(fresh)
        /\ full <=> Len(out \o fresh) >= Limit
        /\ full => Len(out \o fresh) = Limit
        /\ \A m \in kept : m \notin ToSet(fresh) => full
    BY <1>2, <1>3, Room
  <2> QED BY <1>1, <2>1
<1> HIDE DEF fresh, full, S, got, window, page
<1>7. \A m \in there : m.ts \in Nat \ {0}
  BY <1>2 DEF WorldInv, Messages, NoTS
<1>8. Unread' \subseteq Unread
  <2>1. disturbed' = disturbed /\ UNCHANGED <<req, filterUser, root>>
    BY <1>1 DEF worldVars
  <2>2. \A m \in ToSet(out) : m.ts \in TSOf(ToSet(out'))
    BY <1>6 DEF TSOf
  <2> QED BY <2>1, <2>2, LeavesLess
<1>9. ASSUME NEW m \in Unread', ~full, m.ch = chan[1]
      PROVE  got # {} /\ window = got /\ m.ts < Last(page).ts
  <2>1. m \in Unread /\ Matches(m) /\ m.ts \notin TSOf(ToSet(out'))
    BY <1>8 DEF Unread
  <2>2. m \in there /\ (cursor = NoTS \/ m.ts < cursor)
    BY <1>1, <1>2, <1>9, <2>1 DEF Unread, Lasting, AheadInv, Ahead
  <2>3. /\ m.root \in {NoTS, m.ts} /\ Keep(m)
        /\ req.oldest = NoTS \/ m.ts >= req.oldest
    BY <1>2, <2>1 DEF Matches
  <2>4. m \in S
    BY <1>2, <1>9, <2>2, <2>3 DEF S, TopLevel, Before, After
  <2>5. \A past \in got : PastOldest(past) => past.ts < m.ts
    <3>1. req.oldest \in Nat
      BY <1>2, LimitIs DEF Commands
    <3> QED BY <1>3, <1>7, <2>2, <2>3, <3>1 DEF PastOldest, NoTS
  <2>6. m \notin got
    <3> SUFFICES ASSUME m \in got PROVE FALSE
      OBVIOUS
    <3>1. m \in window
      BY <1>5, <2>5
    <3>2. m \in kept /\ m \in ToSet(fresh)
      BY <1>4, <1>6, <1>9, <2>3, <3>1
    <3> QED BY <1>6, <2>1, <3>2 DEF TSOf
  <2>7. Cardinality(got) >= PageLimit /\ \A x \in got : x.ts > m.ts
    <3>1. m \in S \ Newest(S, PageLimit) /\ S \in SUBSET there /\ PageLimit \in Nat
      BY <1>3, <2>4, <2>6, HistoryAssumption
    <3>2. /\ Cardinality(Newest(S, PageLimit)) >= PageLimit
          /\ \A x \in Newest(S, PageLimit) : x.ts > m.ts
      BY <1>2, <3>1, NewestPage
    <3> QED BY <1>3, <3>2
  <2>8. got # {}
    <3>1. Cardinality({}) = 0 /\ PageLimit \in Nat /\ PageLimit >= 1
      BY FS_EmptySet, HistoryAssumption
    <3>2. Cardinality(got) # Cardinality({})
      BY <2>7, <3>1
    <3> QED BY <3>2
  <2>9. window = got
    <3>1. \A past \in got : ~PastOldest(past)
      BY <1>3, <1>7, <2>2, <2>5, <2>7
    <3> QED BY <1>5, <3>1
  <2>10. Last(page) \in got
    <3>1. got \in SUBSET there
      BY <1>3
    <3> QED BY <1>2, <2>8, <3>1, PageOfThere DEF page
  <2> QED BY <2>7, <2>8, <2>9, <2>10
<1>10. SoughtInv'
  <2>1. pc' \in {"done", "scanning"}
    BY <1>1 DEF NextChannel
  <2> QED BY <2>1 DEF SoughtInv
<1>11. Limit' = Limit /\ req' = req
  BY <1>1 DEF Limit
<1>12. ~full => Len(out') < Limit
  <2>1. Len(out') \in Nat
    BY <1>6
  <2> QED BY <1>2, <1>6, <2>1
<1>13. CASE full /\ pc' = "done"
  BY <1>2, <1>6, <1>10, <1>11, <1>13 DEF AheadInv
<1>14. CASE ~full /\ (got = {} \/ window # got) /\ NextChannel
  <2>1. \A m \in Unread' : m.ch # chan[1]
    BY <1>9, <1>14
  <2>2. \A m \in Unread' : m.ch \in ToSet(chan)
    BY <1>1, <1>2, <1>8 DEF AheadInv, Ahead
  <2>3. CASE Len(chan) <= 1 /\ pc' = "done"
    <3>1. Len(chan) \in Nat
      BY <1>2
    <3>2. \A m \in Unread' : Len(chan) > 1
      BY <1>2, <2>1, <2>2, OtherLeft
    <3>3. Unread' = {}
      BY <2>3, <3>1, <3>2
    <3> QED BY <1>10, <2>3, <3>3 DEF AheadInv
  <2>4. CASE Len(chan) > 1 /\ chan' = Tail(chan) /\ cursor' = NoTS /\ pc' = pc
    <3>1. \A m \in Unread' : Ahead(m)'
      <4>1. \A m \in Unread' : m.ch \in ToSet(Tail(chan))
        BY <1>2, <2>1, <2>2, OtherLeft
      <4> HIDE DEF Unread
      <4> QED BY <1>1, <2>4, <4>1 DEF Ahead
    <3>2. chan' # << >>
      <4>1. Len(Tail(chan)) = Len(chan) - 1
        BY <1>2, ChannelsLeft
      <4>2. Len(Tail(chan)) > 0
        BY <1>2, <2>4, <4>1
      <4>3. Len(<< >>) = 0
        OBVIOUS
      <4> QED BY <2>4, <4>2, <4>3
    <3> HIDE DEF Unread
    <3> QED BY <1>1, <1>10, <1>11, <1>12, <2>4, <3>1, <3>2 DEF AheadInv
  <2> QED BY <1>2, <1>14, <2>3, <2>4 DEF NextChannel
<1>15. CASE ~full /\ got # {} /\ window = got /\ cursor' = Last(page).ts /\ UNCHANGED <<pc, chan>>
  <2>1. \A m \in Unread' : Ahead(m)'
    <3>1. \A m \in Unread' : m.ch \in ToSet(chan) /\ (m.ch = chan[1] => m.ts < Last(page).ts)
      BY <1>1, <1>2, <1>8, <1>9, <1>15 DEF AheadInv, Ahead
    <3> HIDE DEF Unread
    <3> QED BY <1>1, <1>15, <3>1 DEF Ahead
  <2> HIDE DEF Unread
  <2> QED BY <1>1, <1>2, <1>10, <1>11, <1>12, <1>15, <2>1 DEF AheadInv
<1> QED BY <1>1, <1>10, <1>13, <1>14, <1>15

(* The next channel has all that is left of the others.                      *)
LEMMA NextAhead ==
  ASSUME chan \in Seq(STRING), Len(chan) > 1, chan' = Tail(chan),
         \A m \in Unread' : m.ch \in ToSet(chan) /\ m.ch # chan[1]
  PROVE  chan' # << >> /\ \A m \in Unread' : m.ch \in ToSet(chan')
<1>1. \A m \in Unread' : m.ch \in ToSet(Tail(chan))
  BY OtherLeft
<1>2. Len(Tail(chan)) = Len(chan) - 1
  BY ChannelsLeft
<1>3. Len(Tail(chan)) > 0 /\ Len(<< >>) = 0
  BY <1>2
<1>4. chan' # << >>
  <2>1. Len(chan') # Len(<< >>)
    BY <1>3
  <2> QED BY <2>1
<1>5. \A m \in Unread' : m.ch \in ToSet(chan')
  <2> HIDE DEF Unread
  <2> QED BY <1>1
<1> QED BY <1>4, <1>5

(* A numbered page.                                                          *)
LEMMA FilesStable ==
  ASSUME IInv, StableInv, FilesPage
  PROVE  SoughtInv' /\ AheadInv'
<1> DEFINE files == FilesOf(Head(chan))
           items == NewestFirst(files)
           page == PageOf(items, cursor, PageLimit)
           kept == {m \in ToSet(page) : m.text}
           full == Full(kept)
           fresh == Fitting(kept)
<1>1. /\ pc = "files" /\ out' = out \o fresh
      /\ \/ full /\ pc' = "done"
         \/ /\ ~full /\ (page = << >> \/ cursor >= TotalPages(items, PageLimit))
            /\ \/ Len(chan) <= 1 /\ pc' = "done"
               \/ ~(Len(chan) <= 1) /\ chan' = Tail(chan) /\ cursor' = 1 /\ pc' = pc
         \/ ~full /\ cursor' = cursor + 1 /\ UNCHANGED <<pc, chan>>
      /\ UNCHANGED <<worldVars, req, filterUser, root, queue>>
  <2>1. pc = "files" /\ UNCHANGED <<worldVars, req, filterUser, root, queue>>
        /\ out' = out \o fresh
    BY DEF FilesPage, Full, Fitting, FilesOf
  <2>2. PICK counted \in BOOLEAN :
          IF full THEN pc' = "done" /\ UNCHANGED <<chan, cursor>>
          ELSE IF page = << >> \/ (counted /\ cursor >= TotalPages(items, PageLimit))
               THEN IF Len(chan) <= 1 THEN pc' = "done" /\ UNCHANGED <<chan, cursor>>
                    ELSE chan' = Tail(chan) /\ cursor' = 1 /\ UNCHANGED pc
          ELSE cursor' = cursor + 1 /\ UNCHANGED <<pc, chan>>
    BY DEF FilesPage, Full, FilesOf
  <2> HIDE DEF full, items, page, fresh
  <2> QED BY <2>1, <2>2
<1>2. /\ WorldInv /\ ReadTypes /\ Lasting /\ AheadInv /\ req.kind = "files" /\ Limit \in Nat
      /\ Len(out) < Limit /\ chan # << >> /\ chan \in Seq(STRING) /\ Head(chan) = chan[1]
      /\ out \in Seq(Messages) /\ cursor \in Nat \ {0} /\ PageLimit \in Nat \ {0}
      /\ Len(chan) \in Nat
  <2>1. ReadTypes /\ AheadInv
    BY DEF IInv, StableInv
  <2>2. cursor \in Nat /\ cursor >= 1
    BY <1>1, <2>1 DEF ReadTypes
  <2> QED BY <1>1, <2>1, <2>2, LimitIs, HistoryAssumption
          DEF IInv, PlaceFits, StableInv, AheadInv, ReadTypes
<1>3. files \subseteq there
  BY DEF FilesOf, TopLevel
<1> HIDE DEF files
<1>4. ToSet(page) \subseteq files
  BY <1>2, <1>3, PageLists
<1>5. kept \subseteq there /\ \A m \in ToSet(page) : m.text => m \in kept
  BY <1>3, <1>4
<1> HIDE DEF kept
<1>6. /\ out' \in Seq(Messages) /\ ToSet(out') = ToSet(out) \cup ToSet(fresh)
      /\ full <=> Len(out') >= Limit
      /\ full => Len(out') = Limit
      /\ \A m \in kept : m \notin ToSet(fresh) => full
  <2>1. /\ out \o fresh \in Seq(Messages) /\ ToSet(out \o fresh) = ToSet(out) \cup ToSet(fresh)
        /\ full <=> Len(out \o fresh) >= Limit
        /\ full => Len(out \o fresh) = Limit
        /\ \A m \in kept : m \notin ToSet(fresh) => full
    BY <1>2, <1>5, Room
  <2> QED BY <1>1, <2>1
<1> HIDE DEF fresh, full
<1>7. Unread' \subseteq Unread
  <2>1. disturbed' = disturbed /\ UNCHANGED <<req, filterUser, root>>
    BY <1>1 DEF worldVars
  <2>2. \A m \in ToSet(out) : m.ts \in TSOf(ToSet(out'))
    BY <1>6 DEF TSOf
  <2> QED BY <2>1, <2>2, LeavesLess
<1>8. ASSUME NEW m \in Unread', ~full, m.ch = chan[1]
      PROVE  /\ page # << >> /\ cursor < TotalPages(items, PageLimit)
             /\ TotalPages(items, PageLimit) \in Int
             /\ cursor * PageLimit <= Rank(files, m.ts)
  <2>1. m \in Unread /\ Matches(m) /\ m.ts \notin TSOf(ToSet(out'))
    BY <1>7 DEF Unread
  <2>2. m \in there
    BY <1>2, <2>1 DEF Unread, Lasting
  <2>3. (cursor - 1) * PageLimit <= Rank(files, m.ts)
    BY <1>1, <1>2, <1>8, <2>1 DEF AheadInv, Ahead, files
  <2>4. /\ m.root \in {NoTS, m.ts} /\ m.text /\ req.user \in {NoUser, m.author}
        /\ After(m, req.oldest, TRUE) /\ Before(m, req.before, TRUE)
    BY <1>2, <2>1 DEF Matches
  <2>5. m \in files
    BY <1>2, <1>8, <2>2, <2>4 DEF files, FilesOf, TopLevel
  <2>6. m \notin ToSet(page)
    <3> SUFFICES ASSUME m \in ToSet(page) PROVE FALSE
      OBVIOUS
    <3>1. m \in ToSet(fresh)
      BY <1>5, <1>6, <1>8, <2>4
    <3> QED BY <1>6, <2>1, <3>1 DEF TSOf
  <2>7. /\ page # << >> /\ cursor < TotalPages(items, PageLimit)
        /\ cursor * PageLimit <= Rank(files, m.ts)
    BY <1>2, <1>3, <2>3, <2>5, <2>6, PageCovers
  <2>8. TotalPages(items, PageLimit) \in Int
    <3>1. Len(items) \in Nat
      BY <1>2, <1>3, PageOfThere
    <3> HIDE DEF items
    <3> QED BY <1>2, <3>1 DEF TotalPages
  <2> QED BY <2>7, <2>8
<1> HIDE DEF items, page
<1>9. SoughtInv'
  <2>1. pc' \in {"done", "files"}
    BY <1>1
  <2> QED BY <2>1 DEF SoughtInv
<1>10. Limit' = Limit /\ req' = req
  BY <1>1 DEF Limit
<1>11. ~full => Len(out') < Limit
  <2>1. Len(out') \in Nat
    BY <1>6
  <2> QED BY <1>2, <1>6, <2>1
<1>12. \A m \in Unread' : m.ch \in ToSet(chan)
  BY <1>1, <1>2, <1>7 DEF AheadInv, Ahead
<1>13. CASE full /\ pc' = "done"
  BY <1>2, <1>6, <1>9, <1>10, <1>13 DEF AheadInv
<1>14. CASE /\ ~full /\ (page = << >> \/ cursor >= TotalPages(items, PageLimit))
            /\ \/ Len(chan) <= 1 /\ pc' = "done"
               \/ ~(Len(chan) <= 1) /\ chan' = Tail(chan) /\ cursor' = 1 /\ pc' = pc
  <2>1. ASSUME NEW m \in Unread' PROVE m.ch # chan[1]
    BY <1>2, <1>8, <1>14
  <2>2. CASE Len(chan) <= 1 /\ pc' = "done"
    <3>1. \A m \in Unread' : Len(chan) > 1
      BY <1>2, <1>12, <2>1, OtherLeft
    <3>2. Unread' = {}
      BY <1>2, <2>2, <3>1
    <3> QED BY <1>9, <2>2, <3>2 DEF AheadInv
  <2>3. CASE Len(chan) > 1 /\ chan' = Tail(chan) /\ cursor' = 1 /\ pc' = pc
    <3>1. chan' # << >> /\ \A m \in Unread' : m.ch \in ToSet(chan')
      BY <1>2, <1>12, <2>1, <2>3, NextAhead
    <3>2. (cursor' - 1) * PageLimit = 0
      <4>1. cursor' - 1 = 0 /\ PageLimit \in Nat
        BY <1>2, <2>3
      <4> QED BY <4>1
    <3>3. ASSUME NEW ts PROVE Rank(FilesOf(chan[1]), ts)' \in Nat
      <4>1. WorldInv' /\ FilesOf(chan[1])' \subseteq there'
        BY <1>1, <1>2 DEF worldVars, WorldInv, Unique, Posted, FilesOf, TopLevel
      <4>2. IsFiniteSet(FilesOf(chan[1])') /\ Unique(FilesOf(chan[1])')
        BY <4>1, FS_Subset DEF WorldInv, Unique
      <4>3. Rank(FilesOf(chan[1])', ts) \in Nat
        BY <4>2, Fewer DEF Same
      <4> QED BY <4>3 DEF Rank
    <3>4. \A m \in Unread' : Ahead(m)'
      <4> HIDE DEF Unread
      <4> QED BY <1>1, <2>3, <3>1, <3>2, <3>3 DEF Ahead
    <3> HIDE DEF Unread
    <3> QED BY <1>1, <1>9, <1>10, <1>11, <1>14, <2>3, <3>1, <3>4 DEF AheadInv
  <2> QED BY <1>2, <1>14, <2>2, <2>3
<1>15. CASE ~full /\ cursor' = cursor + 1 /\ UNCHANGED <<pc, chan>>
  <2>1. FilesOf(chan[1])' = files
    <3>1. there' = there /\ req' = req /\ chan' = chan
      BY <1>1, <1>15 DEF worldVars
    <3> QED BY <1>2, <3>1 DEF files, FilesOf, TopLevel, After, Before
  <2>2. (cursor' - 1) * PageLimit = cursor * PageLimit
    BY <1>2, <1>15, Pages
  <2>3. ASSUME NEW m \in Unread', m.ch = chan[1]
        PROVE  (cursor' - 1) * PageLimit <= Rank(FilesOf(chan[1]), m.ts)'
    <3>1. cursor * PageLimit <= Rank(files, m.ts)
      BY <1>8, <1>15, <2>3
    <3>2. Rank(FilesOf(chan[1]), m.ts)' = Rank(files, m.ts)
      BY <2>1 DEF Rank
    <3> QED BY <2>2, <3>1, <3>2
  <2>4. \A m \in Unread' : Ahead(m)'
    <3> HIDE DEF Unread
    <3> QED BY <1>1, <1>12, <1>15, <2>3 DEF Ahead
  <2> HIDE DEF Unread
  <2> QED BY <1>1, <1>2, <1>9, <1>10, <1>11, <1>15, <2>4 DEF AheadInv
<1> QED BY <1>1, <1>13, <1>14, <1>15

(* A page of a list.                                                         *)
LEMMA ListStable ==
  ASSUME IInv, StableInv, ListPage
  PROVE  SoughtInv' /\ AheadInv'
<1> DEFINE S == {m \in TopLevel(req.ch) : /\ Before(m, cursor, req.inclusive)
                                          /\ After(m, req.oldest, req.inclusive)}
           got == SlackHistory(req.ch, cursor, req.oldest, req.inclusive, HistoryPageLimit)
           page == NewestFirst(got)
           kept == {m \in got : PassesReactionNameFilters(m)}
           passing == NewestFirst(kept)
           more == Limit - Len(out)
           fresh == Fitting(kept)
           taken == out \o fresh
           hasMore == \E m \in TopLevel(req.ch) : /\ After(m, req.oldest, req.inclusive)
                                                  /\ page # << >> => m.ts < Last(page).ts
           over == \/ page = << >> \/ Len(taken) >= Limit \/ ~HasReactionFilters \/ ~hasMore
                   \/ Last(page).ts = cursor
<1>1. /\ WorldInv /\ ReadTypes /\ Lasting /\ AheadInv /\ OnceInv /\ req.kind = "list"
      /\ Limit \in Nat \ {0} /\ req \in Commands
      /\ Len(out) < Limit /\ out \in Seq(Messages) /\ cursor \in Nat /\ Len(out) \in Nat
      /\ (req.inclusive => ~HasReactionFilters) /\ pc = "list"
  <2>1. pc = "list"
    BY DEF ListPage
  <2>2. ReadTypes /\ AheadInv /\ req.kind = "list" /\ OnceInv
    BY <2>1 DEF IInv, StableInv, PlaceFits, Steady
  <2> QED BY <2>1, <2>2, LimitIs, CommandAssumption
          DEF IInv, StableInv, AheadInv, ReadTypes, HasReactionFilters
<1>2. /\ HistoryPageLimit \in Nat /\ HistoryPageLimit >= 1
      /\ (~HasReactionFilters => HistoryPageLimit = Limit)
  BY <1>1, HistoryAssumption DEF HistoryPageLimit
<1>3. /\ got = Newest(S, HistoryPageLimit) /\ S \subseteq there /\ got \subseteq S
      /\ kept \subseteq there /\ kept \subseteq got
  BY DEF SlackHistory, Newest, TopLevel
<1>4. fresh = SubSeq(passing, 1, IF Len(passing) < more THEN Len(passing) ELSE more)
  <2>1. Len(passing) \in Nat /\ more \in Int
    <3>1. kept \in SUBSET there
      BY <1>3
    <3> HIDE DEF kept
    <3> QED BY <1>1, <3>1, PageOfThere
  <2> HIDE DEF passing, more
  <2>2. (IF Len(passing) >= more THEN more ELSE Len(passing))
          = IF Len(passing) < more THEN Len(passing) ELSE more
    BY <2>1
  <2>3. fresh = SubSeq(passing, 1, IF Len(passing) >= more THEN more ELSE Len(passing))
    BY DEF Fitting, Full, passing, more
  <2> QED BY <2>2, <2>3
<1>5. /\ \/ over /\ pc' = "done" /\ out' = SortChronological(taken)
         \/ ~over /\ out' = taken /\ cursor' = Last(page).ts /\ pc' = pc
      /\ UNCHANGED <<worldVars, req, chan, filterUser, root, queue>>
  <2>1. UNCHANGED <<worldVars, req, chan, filterUser, root, queue>>
    BY DEF ListPage
  <2> HIDE DEF fresh
  <2>2. IF over THEN Return(taken) /\ UNCHANGED cursor
        ELSE out' = taken /\ cursor' = NextLatest(page) /\ UNCHANGED pc
    BY <1>4 DEF ListPage, NextLatest
  <2> HIDE DEF over, page, taken
  <2> QED BY <2>1, <2>2 DEF Return, NextLatest
<1>6. \A m \in kept : PassesReactionNameFilters(m)
  OBVIOUS
<1>7. \A m \in got : PassesReactionNameFilters(m) => m \in kept
  OBVIOUS
<1>8. kept \in SUBSET there /\ got \in SUBSET there
  BY <1>3
<1>9. \A m \in S : m.ts \in Nat \ {0} /\ m \in there
                   /\ Before(m, cursor, req.inclusive) /\ m \in TopLevel(req.ch)
                   /\ After(m, req.oldest, req.inclusive)
  BY <1>1, <1>3 DEF WorldInv, Messages, NoTS
<1>10. \A m \in there : m \in S <=> m \in TopLevel(req.ch) /\ Before(m, cursor, req.inclusive)
                                   /\ After(m, req.oldest, req.inclusive)
  BY DEF TopLevel
<1> HIDE DEF S, got, kept
<1>11. /\ fresh \in Seq(Messages) /\ Distinct(fresh) /\ ToSet(fresh) \subseteq kept
       /\ taken \in Seq(Messages) /\ ToSet(taken) = ToSet(out) \cup ToSet(fresh)
       /\ Full(kept) <=> Len(taken) >= Limit
       /\ Full(kept) => Len(taken) = Limit
       /\ \A m \in kept : m \notin ToSet(fresh) =>
            Full(kept) /\ \A x \in ToSet(fresh) : x.ts > m.ts
  BY <1>1, <1>8, Room
<1>12. got # {} => page # << >> /\ Last(page) \in got /\ \A m \in got : Last(page).ts <= m.ts
  BY <1>1, <1>8, PageOfThere
<1>13. ~HasReactionFilters /\ Cardinality(got) >= Limit => out = << >> /\ Full(kept)
  <2> SUFFICES ASSUME ~HasReactionFilters, Cardinality(got) >= Limit
               PROVE  out = << >> /\ Full(kept)
    OBVIOUS
  <2>1. out = << >>
    BY <1>1 DEF OnceInv
  <2>2. kept = got
    BY <1>3, <1>7 DEF PassesReactionNameFilters, HasReactionFilters
  <2>3. Len(NewestFirst(kept)) = Cardinality(got) /\ Len(NewestFirst(kept)) \in Nat
    BY <1>1, <1>8, <2>2, PageOfThere
  <2>4. Len(out) = 0
    BY <2>1
  <2> QED BY <1>1, <2>1, <2>3, <2>4 DEF Full
<1> HIDE DEF page, fresh, taken, hasMore, over
<1>14. \A m \in ToSet(out), n \in S : m.ts > n.ts
  <2> SUFFICES ASSUME NEW m \in ToSet(out), NEW n \in S PROVE m.ts > n.ts
    OBVIOUS
  <2>1. HasReactionFilters /\ cursor # NoTS /\ m.ts >= cursor /\ m.ts \in Nat
    BY <1>1, NothingRead, ReadAreMessages DEF OnceInv
  <2>2. n.ts < cursor /\ n.ts \in Nat
    BY <1>1, <1>9, <2>1 DEF Before
  <2> QED BY <1>1, <2>1, <2>2
<1>15. Distinct(taken)
  <2>1. \A m \in ToSet(out), n \in ToSet(fresh) : m.ts # n.ts
    <3>1. \A n \in ToSet(fresh) : n \in S /\ n.ts \in Nat
      BY <1>3, <1>9, <1>11
    <3>2. \A m \in ToSet(out) : m.ts \in Nat
      BY <1>1, ReadAreMessages
    <3> QED BY <1>14, <3>1, <3>2
  <2>2. Distinct(out)
    BY <1>1 DEF OnceInv
  <2> QED BY <1>1, <1>11, <2>1, <2>2, Joined DEF taken
<1>16. ToSet(out') = ToSet(taken) /\ Len(out') = Len(taken)
  <2>1. CASE out' = taken
    BY <2>1
  <2>2. CASE out' = SortChronological(taken)
    <3>1. /\ Len(out') = Len(taken)
          /\ \A i \in DOMAIN out' : \E j \in DOMAIN taken : out'[i] = taken[j]
          /\ \A j \in DOMAIN taken : \E i \in DOMAIN out' : out'[i] = taken[j]
      BY <1>11, <1>15, <2>2, SortedIs
    <3>2. ToSet(out') = ToSet(taken)
      BY <3>1 DEF ToSet
    <3> QED BY <3>1, <3>2
  <2> QED BY <1>5, <2>1, <2>2
<1>17. Unread' \subseteq Unread
  <2>1. disturbed' = disturbed /\ UNCHANGED <<req, filterUser, root>>
    BY <1>5 DEF worldVars
  <2>2. \A m \in ToSet(out) : m.ts \in TSOf(ToSet(out'))
    BY <1>11, <1>16 DEF TSOf
  <2> QED BY <2>1, <2>2, LeavesLess
<1>18. ASSUME NEW m \in Unread'
       PROVE  /\ \A n \in ToSet(taken) : n.ts > m.ts
              /\ \/ Full(kept)
                 \/ ~over /\ Before(m, Last(page).ts, req.inclusive)
  <2>1. m \in Unread /\ Matches(m) /\ m.ts \notin TSOf(ToSet(taken))
    BY <1>16, <1>17 DEF Unread
  <2>2. m \in there /\ Before(m, cursor, req.inclusive)
    BY <1>1, <2>1 DEF Unread, Lasting, AheadInv
  <2>3. /\ m.root \in {NoTS, m.ts} /\ m.ch = req.ch /\ After(m, req.oldest, req.inclusive)
        /\ PassesReactionNameFilters(m)
    BY <1>1, <2>1 DEF Matches
  <2>4. m \in TopLevel(req.ch) /\ m \in S
    BY <1>10, <2>2, <2>3 DEF TopLevel
  <2>5. \A n \in ToSet(out) : n.ts > m.ts
    BY <1>14, <2>4
  <2>6. CASE m \in got
    <3>1. m \in kept /\ m \notin ToSet(fresh)
      BY <1>7, <1>11, <2>1, <2>3, <2>6 DEF TSOf
    <3>2. Full(kept) /\ \A x \in ToSet(fresh) : x.ts > m.ts
      BY <1>11, <3>1
    <3> QED BY <1>11, <2>5, <3>2
  <2>7. CASE m \notin got
    <3>1. Cardinality(got) >= HistoryPageLimit /\ \A x \in got : x.ts > m.ts
      <4>1. m \in S \ Newest(S, HistoryPageLimit) /\ S \in SUBSET there
        BY <1>3, <2>4, <2>7
      <4>2. /\ Cardinality(Newest(S, HistoryPageLimit)) >= HistoryPageLimit
            /\ \A x \in Newest(S, HistoryPageLimit) : x.ts > m.ts
        BY <1>1, <1>2, <4>1, NewestPage
      <4> QED BY <1>3, <4>2
    <3>2. got # {}
      <4>1. Cardinality({}) = 0
        BY FS_EmptySet
      <4>2. Cardinality(got) # Cardinality({})
        BY <1>2, <3>1, <4>1
      <4> QED BY <4>2
    <3>3. page # << >> /\ Last(page) \in got /\ Last(page).ts > m.ts
      BY <1>12, <3>1, <3>2
    <3>4. \A n \in ToSet(taken) : n.ts > m.ts
      BY <1>3, <1>11, <2>5, <3>1
    <3>5. CASE Full(kept)
      BY <3>4, <3>5
    <3>6. CASE ~Full(kept)
      <4>1. HasReactionFilters
        BY <1>2, <1>13, <3>1, <3>6
      <4>2. hasMore
        BY <2>3, <2>4, <3>3 DEF hasMore
      <4>3. Last(page).ts # cursor
        <5>1. Before(Last(page), cursor, FALSE) /\ Last(page).ts \in Nat \ {0}
          BY <1>1, <1>3, <1>9, <3>3, <4>1 DEF Before
        <5> QED BY <5>1 DEF Before, NoTS
      <4>4. ~over
        BY <1>11, <3>3, <3>6, <4>1, <4>2, <4>3 DEF over
      <4>5. Before(m, Last(page).ts, req.inclusive)
        <5>1. m.ts \in Nat /\ Last(page).ts \in Nat
          BY <1>3, <1>9, <2>4, <3>3
        <5> QED BY <3>3, <5>1 DEF Before
      <4> QED BY <3>4, <4>4, <4>5
    <3> QED BY <3>5, <3>6
  <2> QED BY <2>6, <2>7
<1>19. SoughtInv'
  <2>1. pc' \in {"done", "list"}
    BY <1>1, <1>5
  <2> QED BY <2>1 DEF SoughtInv
<1>20. Limit' = Limit /\ req' = req
  BY <1>5 DEF Limit
<1>21. CASE over /\ pc' = "done"
  <2>1. \A m \in Unread' : Len(out') = Limit /\ \A n \in ToSet(out') : n.ts > m.ts
    BY <1>11, <1>16, <1>18, <1>21
  <2> HIDE DEF Unread
  <2> QED BY <1>1, <1>19, <1>20, <1>21, <2>1 DEF AheadInv
<1>22. CASE ~over /\ out' = taken /\ cursor' = Last(page).ts /\ pc' = pc
  <2>1. ~(Len(taken) >= Limit)
    BY <1>22 DEF over
  <2>2. Len(out') < Limit
    BY <1>1, <1>11, <1>22, <2>1
  <2>3. \A m \in Unread' : Before(m, cursor', req.inclusive)
    BY <1>11, <1>18, <1>22, <2>1
  <2> HIDE DEF Unread
  <2> QED BY <1>1, <1>19, <1>20, <1>22, <2>2, <2>3 DEF AheadInv, Before
<1> QED BY <1>5, <1>21, <1>22

(* A search of matches promises nothing, a failed request even less.         *)
LEMMA RestStable ==
  ASSUME IInv, StableInv, SearchPage \/ FetchSearchMessage \/ RequestFails
  PROVE  SoughtInv' /\ AheadInv'
<1>1. CASE SearchPage \/ FetchSearchMessage
  <2>1. pc \in {"search", "hydrate"} /\ pc' \in {"search", "hydrate", "done"} /\ req' = req
    BY <1>1 DEF SearchPage, FetchSearchMessage
  <2>2. req.kind = "search"
    BY <2>1 DEF IInv, PlaceFits
  <2>3. Unread' = {}
    BY <2>1, <2>2 DEF Unread, Matches
  <2> QED BY <2>1, <2>3 DEF SoughtInv, AheadInv
<1>2. CASE RequestFails
  <2>1. pc' = "failed"
    BY <1>2 DEF RequestFails
  <2> QED BY <2>1 DEF SoughtInv, AheadInv
<1> QED BY <1>1, <1>2

(* Every step keeps it.                                                      *)
LEMMA NextStable == IInv /\ StableInv /\ [Next]_vars => StableInv'
<1> SUFFICES ASSUME IInv, StableInv, [Next]_vars PROVE StableInv'
  OBVIOUS
<1>1. Lasting' /\ WorldInv'
  BY LastingNext, WorldNext DEF IInv, StableInv
<1>2. CASE ListPage
  BY <1>1, <1>2, ListStable DEF StableInv
<1>3. CASE NewScanFilter
  BY <1>1, <1>3, FilterStable DEF StableInv
<1>4. CASE ScanPage
  BY <1>1, <1>4, ScanStable DEF StableInv
<1>5. CASE FilesPage
  BY <1>1, <1>5, FilesStable DEF StableInv
<1>6. CASE SearchPage \/ FetchSearchMessage \/ RequestFails
  BY <1>1, <1>6, RestStable DEF StableInv
<1>7. CASE FindInHistory
  BY <1>1, <1>7, HistoryStable DEF StableInv
<1>8. CASE FindInThread
  BY <1>1, <1>8, ThreadLookupStable DEF StableInv
<1>9. CASE FindRoot
  BY <1>1, <1>9, RootStable DEF StableInv
<1>10. CASE ThreadPage
  BY <1>1, <1>10, ThreadStable DEF StableInv
<1>11. CASE Post \/ Delete \/ React
  BY <1>1, <1>11, OthersStable DEF StableInv
<1>12. CASE UNCHANGED vars
  <2>1. UNCHANGED <<there, arrived, disturbed, req, pc, chan, cursor, filterUser, root, out>>
    BY <1>12 DEF vars, worldVars, readVars
  <2>2. Limit' = Limit /\ Sought' = Sought
    BY <2>1 DEF Limit, Sought
  <2>3. Unread' = Unread
    BY <2>1 DEF Unread, Matches, Keep, PassesReactionNameFilters, After, Before
  <2>4. ASSUME NEW m \in Unread, Ahead(m) PROVE Ahead(m)'
    BY <2>1, <2>4 DEF Ahead, Rank, FilesOf, TopLevel, After, Before
  <2>5. SoughtInv'
    BY <2>1, <2>2 DEF StableInv, SoughtInv
  <2>6. AheadInv'
    <3> HIDE DEF Unread
    <3> QED BY <2>1, <2>2, <2>3, <2>4 DEF StableInv, AheadInv, Before
  <2> QED BY <1>1, <2>5, <2>6 DEF StableInv
<1> QED BY <1>2, <1>3, <1>4, <1>5, <1>6, <1>7, <1>8, <1>9, <1>10, <1>11, <1>12
        DEF Next, Reading, Over

(* No command misses what was there the whole time.  A lookup finds a        *)
(* message outside a thread, a root, or a reply whose permalink names its    *)
(* thread; a walk prints every match, or stops at its limit, a list then     *)
(* with newer ones only (findRawMessage, FetchThread, FetchChannelHistory,   *)
(* searchMessagesInChannels; searchFilesInChannels while nothing is deleted  *)
(* or reacted to).                                                           *)
THEOREM NothingIsMissed == Spec => []NothingStableIsMissed
<1>1. IInv /\ StableInv => NothingStableIsMissed
  <2> SUFFICES ASSUME IInv, StableInv PROVE StableMessageFound /\ StableMatchesPrinted
    BY DEF NothingStableIsMissed
  <2>1. StableMessageFound
    BY DEF StableMessageFound, StableInv, SoughtInv, Sought
  <2>2. StableMatchesPrinted
    <3>1. \A i \in DOMAIN out : out[i] \in ToSet(out)
      BY DEF ToSet
    <3> QED BY <3>1 DEF StableMatchesPrinted, StableInv, AheadInv, Unread
  <2> QED BY <2>1, <2>2
<1> QED BY <1>1, InitIInv, NextIInv, InitStable, NextStable, PTL DEF Spec
================================================================================
