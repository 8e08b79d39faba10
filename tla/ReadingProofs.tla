----------------------------- MODULE ReadingProofs -----------------------------
(* Proofs about what is read while it changes: the listings of Paging, for    *)
(* any directories, sizes of a page and edits, and the files of Content, for  *)
(* any sizes, ranges and changes.                                             *)
EXTENDS Content, Paging, FiniteSetTheorems, TLAPS

-------------------------------------------------------------------------------
(* Listings that are edited *)

\* The entries before and behind an offset.
Passed(seq, n) == {seq[i] : i \in {k \in DOMAIN seq : k <= n}}
Ahead(seq, n) == {seq[i] : i \in {k \in DOMAIN seq : k > n}}

\* An entry is taken out and those behind it move up (RemoveAt).
LEMMA Removal ==
  ASSUME NEW seq \in Seq(Entries), NEW i \in DOMAIN seq
  PROVE  /\ RemoveAt(seq, i) \in Seq(Entries) /\ Len(RemoveAt(seq, i)) = Len(seq) - 1
         /\ \A k \in 1..(Len(seq) - 1) :
              RemoveAt(seq, i)[k] = IF k < i THEN seq[k] ELSE seq[k + 1]
<1> DEFINE head == SubSeq(seq, 1, i - 1)
           tail == SubSeq(seq, i + 1, Len(seq))
<1>1. i \in 1..Len(seq) /\ Len(seq) \in Nat /\ i \in Nat
  OBVIOUS
<1>2. head \in Seq(Entries) /\ Len(head) = i - 1 /\ \A k \in 1..(i - 1) : head[k] = seq[k]
  BY <1>1
<1>3. /\ tail \in Seq(Entries) /\ Len(tail) = Len(seq) - i
      /\ \A k \in 1..(Len(seq) - i) : tail[k] = seq[i + k]
  BY <1>1
<1>4. RemoveAt(seq, i) = head \o tail
  BY DEF RemoveAt
<1> HIDE DEF head, tail
<1> QED BY <1>1, <1>2, <1>3, <1>4

\* An entry is put in and those behind it move down (InsertAt).
Inserts(seq, i, e, new) ==
  /\ new \in Seq(Entries) /\ Len(new) = Len(seq) + 1
  /\ \A k \in 1..(Len(seq) + 1) :
       new[k] = IF k < i THEN seq[k] ELSE IF k = i THEN e ELSE seq[k - 1]

LEMMA Insertion ==
  ASSUME NEW seq \in Seq(Entries), NEW i \in 1..(Len(seq) + 1), NEW e \in Entries
  PROVE  Inserts(seq, i, e, InsertAt(seq, i, e))
<1> DEFINE head == SubSeq(seq, 1, i - 1)
           tail == SubSeq(seq, i, Len(seq))
           front == head \o <<e>>
<1>1. Len(seq) \in Nat /\ i \in Nat
  OBVIOUS
<1>2. head \in Seq(Entries) /\ Len(head) = i - 1 /\ \A k \in 1..(i - 1) : head[k] = seq[k]
  BY <1>1
<1>3. /\ tail \in Seq(Entries) /\ Len(tail) = Len(seq) - i + 1
      /\ \A k \in 1..(Len(seq) - i + 1) : tail[k] = seq[i + k - 1]
  BY <1>1
<1>4. InsertAt(seq, i, e) = front \o tail
  BY DEF InsertAt
<1> HIDE DEF head, tail
<1>5. /\ front \in Seq(Entries) /\ Len(front) = i
      /\ \A k \in 1..i : front[k] = IF k < i THEN seq[k] ELSE e
  BY <1>1, <1>2
<1> HIDE DEF front
<1>6. front \o tail \in Seq(Entries) /\ Len(front \o tail) = Len(seq) + 1
  <2>1. Len(front \o tail) = i + (Len(seq) - i + 1)
    <3>1. \A s, t \in Seq(Entries) : Len(s \o t) = Len(s) + Len(t)
      OBVIOUS
    <3> QED BY <1>3, <1>5, <3>1, Zenon
  <2> QED BY <1>1, <1>3, <1>5, <2>1
<1>7. ASSUME NEW k \in 1..(Len(seq) + 1)
      PROVE  (front \o tail)[k] = IF k < i THEN seq[k] ELSE IF k = i THEN e ELSE seq[k - 1]
  <2>1. CASE k <= i
    BY <1>1, <1>3, <1>5, <2>1
  <2>2. CASE k > i
    <3>1. k - i \in 1..(Len(seq) - i + 1) /\ i + (k - i) - 1 = k - 1
      BY <1>1, <2>2
    <3>2. (front \o tail)[k] = tail[k - i]
      BY <1>1, <1>3, <1>5, <2>2
    <3> QED BY <1>1, <1>3, <2>2, <3>1, <3>2
  <2>3. k <= i \/ k > i
    BY <1>1
  <2> QED BY <2>1, <2>2, <2>3, Zenon
<1> QED BY <1>4, <1>6, <1>7 DEF Inserts

\* No entry is listed twice, and at most one passes the offset in each direction.
ShiftsDown(seq, i, new, n) ==
  /\ IsInjective(seq) => IsInjective(new)
  /\ Range(seq) \ {seq[i]} \subseteq Range(new)
  /\ \E e : Passed(new, n) \subseteq Passed(seq, n) \cup {e}
  /\ Ahead(new, n) \subseteq Ahead(seq, n)

ShiftsUp(seq, e, new, n) ==
  /\ IsInjective(seq) /\ e \notin Range(seq) => IsInjective(new)
  /\ Range(seq) \subseteq Range(new)
  /\ Passed(new, n) \subseteq Passed(seq, n) \cup {e}
  /\ \E x : Ahead(new, n) \subseteq Ahead(seq, n) \cup {x}

LEMMA RemovalShifts ==
  ASSUME NEW seq \in Seq(Entries), NEW i \in DOMAIN seq, NEW n \in Nat
  PROVE  ShiftsDown(seq, i, RemoveAt(seq, i), n)
<1> DEFINE new == RemoveAt(seq, i)
<1>1. /\ new \in Seq(Entries) /\ Len(new) = Len(seq) - 1
      /\ \A k \in 1..(Len(seq) - 1) : new[k] = IF k < i THEN seq[k] ELSE seq[k + 1]
  BY Removal
<1>2. i \in 1..Len(seq) /\ Len(seq) \in Nat /\ DOMAIN seq = 1..Len(seq) /\ DOMAIN new = 1..(Len(seq) - 1)
  BY <1>1
<1> HIDE DEF new
<1>3. IsInjective(seq) => IsInjective(new)
  <2> SUFFICES ASSUME \A l, m \in DOMAIN seq : seq[l] = seq[m] => l = m,
                      NEW j \in DOMAIN new, NEW k \in DOMAIN new, new[j] = new[k], j < k
               PROVE  FALSE
    BY <1>2 DEF IsInjective
  <2>1. /\ j \in DOMAIN seq /\ j + 1 \in DOMAIN seq /\ k \in DOMAIN seq /\ k + 1 \in DOMAIN seq
        /\ j # k /\ j + 1 # k + 1 /\ j # k + 1
    BY <1>2
  <2>2. new[j] \in {seq[j], seq[j + 1]} /\ new[k] \in {seq[k], seq[k + 1]}
    BY <1>1, <1>2
  <2>3. CASE k < i
    BY <1>1, <1>2, <2>1, <2>3
  <2>4. CASE k >= i
    BY <1>1, <1>2, <2>1, <2>4
  <2> QED BY <1>2, <2>3, <2>4
<1>4. Range(seq) \ {seq[i]} \subseteq Range(new)
  <2> SUFFICES ASSUME NEW k \in 1..Len(seq), seq[k] # seq[i] PROVE seq[k] \in Range(new)
    BY <1>2 DEF Range
  <2>1. CASE k < i
    <3>1. k \in DOMAIN new /\ new[k] = seq[k]
      BY <1>1, <1>2, <2>1
    <3> QED BY <3>1 DEF Range
  <2>2. CASE k > i
    <3>1. k - 1 \in DOMAIN new /\ new[k - 1] = seq[k]
      BY <1>1, <1>2, <2>2
    <3> QED BY <3>1 DEF Range
  <2> QED BY <1>2, <2>1, <2>2
<1>5. Passed(new, n) \subseteq Passed(seq, n) \cup {seq[n + 1]}
  <2> SUFFICES ASSUME NEW k \in DOMAIN new, k <= n
               PROVE  \/ new[k] = seq[n + 1]
                      \/ \E m \in DOMAIN seq : m <= n /\ new[k] = seq[m]
    BY DEF Passed
  <2> QED BY <1>1, <1>2
<1>6. Ahead(new, n) \subseteq Ahead(seq, n)
  <2> SUFFICES ASSUME NEW k \in DOMAIN new, k > n
               PROVE  \E m \in DOMAIN seq : m > n /\ new[k] = seq[m]
    BY DEF Ahead
  <2>1. k + 1 \in DOMAIN seq /\ k \in DOMAIN seq /\ k + 1 > n
    BY <1>2
  <2> QED BY <1>1, <1>2, <2>1
<1>7. ShiftsDown(seq, i, new, n)
  BY <1>3, <1>4, <1>5, <1>6 DEF ShiftsDown
<1> QED BY <1>7 DEF new

LEMMA InsertionShifts ==
  ASSUME NEW seq \in Seq(Entries), NEW i \in 1..(Len(seq) + 1), NEW e \in Entries, NEW n \in Nat
  PROVE  ShiftsUp(seq, e, InsertAt(seq, i, e), n)
<1> DEFINE new == InsertAt(seq, i, e)
<1>1. /\ new \in Seq(Entries) /\ Len(new) = Len(seq) + 1
      /\ \A k \in 1..(Len(seq) + 1) :
           new[k] = IF k < i THEN seq[k] ELSE IF k = i THEN e ELSE seq[k - 1]
  <2>1. Inserts(seq, i, e, new)
    BY Insertion
  <2> HIDE DEF new
  <2> QED BY <2>1 DEF Inserts
<1>2. i \in Nat /\ Len(seq) \in Nat /\ DOMAIN seq = 1..Len(seq) /\ DOMAIN new = 1..(Len(seq) + 1)
  BY <1>1
<1> HIDE DEF new
<1>3. IsInjective(seq) /\ e \notin Range(seq) => IsInjective(new)
  <2> SUFFICES ASSUME IsInjective(seq), e \notin Range(seq),
                      NEW j \in DOMAIN new, NEW k \in DOMAIN new, j < k, new[j] = new[k]
               PROVE  FALSE
    BY <1>2 DEF IsInjective
  <2>1. \A m \in DOMAIN seq : seq[m] # e
    BY DEF Range
  <2>2. \A l, m \in DOMAIN seq : seq[l] = seq[m] => l = m
    BY DEF IsInjective
  <2>3. CASE k = i
    BY <1>1, <1>2, <2>1, <2>3
  <2>4. CASE j = i
    BY <1>1, <1>2, <2>1, <2>4
  <2>5. CASE k < i
    <3>1. j \in DOMAIN seq /\ k \in DOMAIN seq /\ j # k /\ new[j] = seq[j] /\ new[k] = seq[k]
      BY <1>1, <1>2, <2>5
    <3> QED BY <1>2, <2>2, <3>1
  <2>6. CASE j < i /\ k > i
    <3>1. /\ j \in DOMAIN seq /\ k - 1 \in DOMAIN seq /\ new[j] = seq[j] /\ new[k] = seq[k - 1]
          /\ j # k - 1
      BY <1>1, <1>2, <2>6
    <3> QED BY <2>2, <3>1
  <2>7. CASE j > i
    <3>1. /\ j - 1 \in DOMAIN seq /\ k - 1 \in DOMAIN seq /\ new[j] = seq[j - 1]
          /\ new[k] = seq[k - 1] /\ j - 1 # k - 1
      BY <1>1, <1>2, <2>7
    <3> QED BY <2>2, <3>1
  <2> QED BY <1>2, <2>3, <2>4, <2>5, <2>6, <2>7
<1>4. Range(seq) \subseteq Range(new)
  <2> SUFFICES ASSUME NEW k \in 1..Len(seq) PROVE seq[k] \in Range(new)
    BY <1>2 DEF Range
  <2>1. CASE k < i
    <3>1. k \in DOMAIN new /\ new[k] = seq[k]
      BY <1>1, <1>2, <2>1
    <3> QED BY <3>1 DEF Range
  <2>2. CASE k >= i
    <3>1. k + 1 \in DOMAIN new /\ new[k + 1] = seq[k]
      BY <1>1, <1>2, <2>2
    <3> QED BY <3>1 DEF Range
  <2> QED BY <1>2, <2>1, <2>2
<1>5. Passed(new, n) \subseteq Passed(seq, n) \cup {e}
  <2> SUFFICES ASSUME NEW k \in DOMAIN new, k <= n
               PROVE  new[k] = e \/ \E m \in DOMAIN seq : m <= n /\ new[k] = seq[m]
    BY DEF Passed
  <2>1. k < i => k \in DOMAIN seq
    BY <1>2
  <2>2. k > i => k - 1 \in DOMAIN seq /\ k - 1 <= n
    BY <1>2
  <2> QED BY <1>1, <1>2, <2>1, <2>2
<1>6. \E x : Ahead(new, n) \subseteq Ahead(seq, n) \cup {x}
  <2>1. CASE i <= n
    <3> SUFFICES ASSUME NEW k \in DOMAIN new, k > n
                 PROVE  new[k] = seq[n] \/ \E m \in DOMAIN seq : m > n /\ new[k] = seq[m]
      BY DEF Ahead
    <3>1. k - 1 \in DOMAIN seq /\ (k - 1 > n \/ k - 1 = n) /\ new[k] = seq[k - 1]
      BY <1>1, <1>2, <2>1
    <3> QED BY <3>1
  <2>2. CASE i > n
    <3> SUFFICES ASSUME NEW k \in DOMAIN new, k > n
                 PROVE  new[k] = e \/ \E m \in DOMAIN seq : m > n /\ new[k] = seq[m]
      BY DEF Ahead
    <3>1. k < i => k \in DOMAIN seq
      BY <1>2
    <3>2. k > i => k - 1 \in DOMAIN seq /\ k - 1 > n
      BY <1>2, <2>2
    <3> QED BY <1>1, <1>2, <3>1, <3>2
  <2>3. i <= n \/ i > n
    BY <1>2
  <2> QED BY <2>1, <2>2, <2>3, Zenon
<1>7. ShiftsUp(seq, e, new, n)
  BY <1>3, <1>4, <1>5, <1>6 DEF ShiftsUp
<1> QED BY <1>7 DEF new

\* An entry is put elsewhere.
Rearranges(seq, new, n) ==
  /\ new \in Seq(Entries) /\ Len(new) = Len(seq)
  /\ IsInjective(seq) => IsInjective(new)
  /\ Range(seq) \subseteq Range(new)
  /\ \E e : Passed(new, n) \subseteq Passed(seq, n) \cup {e}
  /\ \E e : Ahead(new, n) \subseteq Ahead(seq, n) \cup {e}

LEMMA MoveShifts ==
  ASSUME NEW seq \in Seq(Entries), NEW i \in DOMAIN seq, NEW j \in DOMAIN seq, NEW n \in Nat
  PROVE  Rearranges(seq, InsertAt(RemoveAt(seq, i), j, seq[i]), n)
<1> DEFINE less == RemoveAt(seq, i)
           new == InsertAt(less, j, seq[i])
<1>1. /\ i \in 1..Len(seq) /\ j \in 1..Len(seq) /\ Len(seq) \in Nat /\ DOMAIN seq = 1..Len(seq)
      /\ seq[i] \in Entries
  OBVIOUS
<1>2. /\ less \in Seq(Entries) /\ Len(less) = Len(seq) - 1
      /\ \A k \in 1..(Len(seq) - 1) : less[k] = IF k < i THEN seq[k] ELSE seq[k + 1]
  BY Removal
<1>3. /\ IsInjective(seq) => IsInjective(less)
      /\ Range(seq) \ {seq[i]} \subseteq Range(less)
  <2>1. ShiftsDown(seq, i, less, n)
    BY <1>1, RemovalShifts, Zenon
  <2> HIDE DEF less
  <2> QED BY <2>1 DEF ShiftsDown
<1> HIDE DEF less
<1>4. j \in 1..(Len(less) + 1) /\ Len(less) + 1 = Len(seq) /\ DOMAIN less = 1..(Len(seq) - 1)
  BY <1>1, <1>2
<1>5. /\ new \in Seq(Entries) /\ Len(new) = Len(less) + 1
      /\ \A k \in 1..(Len(less) + 1) :
           new[k] = IF k < j THEN less[k] ELSE IF k = j THEN seq[i] ELSE less[k - 1]
  <2>1. less \in Seq(Entries) /\ seq[i] \in Entries /\ j \in 1..(Len(less) + 1)
    BY <1>1, <1>2, <1>4
  <2>2. \A x \in Entries : Inserts(less, j, x, InsertAt(less, j, x))
    BY <2>1, Insertion
  <2>3. Inserts(less, j, seq[i], new)
    BY <2>1, <2>2, Zenon
  <2> HIDE DEF new
  <2> QED BY <2>3 DEF Inserts
<1>6. /\ IsInjective(less) /\ seq[i] \notin Range(less) => IsInjective(new)
      /\ Range(less) \subseteq Range(new)
  <2>1. ShiftsUp(less, seq[i], new, n)
    BY <1>1, <1>2, <1>4, InsertionShifts, Zenon
  <2> HIDE DEF new
  <2> QED BY <2>1 DEF ShiftsUp
<1> HIDE DEF new
<1>7. DOMAIN new = 1..Len(seq)
  <2>1. new \in Seq(Entries) /\ Len(new) = Len(seq)
    BY <1>4, <1>5
  <2> QED BY <2>1
<1>8. IsInjective(seq) => IsInjective(new)
  <2> SUFFICES ASSUME IsInjective(seq) PROVE seq[i] \notin Range(less)
    BY <1>3, <1>6
  <2> SUFFICES ASSUME NEW k \in 1..(Len(seq) - 1), less[k] = seq[i] PROVE FALSE
    BY <1>4 DEF Range
  <2>1. \E m \in DOMAIN seq : m # i /\ less[k] = seq[m]
    <3>1. CASE k < i
      BY <1>1, <1>2, <3>1
    <3>2. CASE k >= i
      BY <1>1, <1>2, <3>2
    <3> QED BY <1>1, <3>1, <3>2
  <2> QED BY <2>1 DEF IsInjective
<1>9. Range(seq) \subseteq Range(new)
  <2>1. new[j] = seq[i] /\ j \in DOMAIN new
    BY <1>1, <1>4, <1>5, <1>7
  <2> QED BY <1>3, <1>6, <2>1 DEF Range
<1>10. \A k \in 1..Len(seq) :
         \/ new[k] = seq[k] /\ (k < i \/ k > j) /\ (k < j \/ k > i)
         \/ k = j /\ new[k] = seq[i]
         \/ k < j /\ k >= i /\ k + 1 \in DOMAIN seq /\ new[k] = seq[k + 1]
         \/ k > j /\ k <= i /\ k - 1 \in DOMAIN seq /\ new[k] = seq[k - 1]
  <2> SUFFICES ASSUME NEW k \in 1..Len(seq)
               PROVE  \/ new[k] = seq[k] /\ (k < i \/ k > j) /\ (k < j \/ k > i)
                      \/ k = j /\ new[k] = seq[i]
                      \/ k < j /\ k >= i /\ k + 1 \in DOMAIN seq /\ new[k] = seq[k + 1]
                      \/ k > j /\ k <= i /\ k - 1 \in DOMAIN seq /\ new[k] = seq[k - 1]
    OBVIOUS
  <2>1. k < j => k \in 1..(Len(seq) - 1) /\ new[k] = less[k]
    BY <1>1, <1>4, <1>5
  <2>2. k > j => k - 1 \in 1..(Len(seq) - 1) /\ new[k] = less[k - 1] /\ (k - 1) + 1 = k
    BY <1>1, <1>4, <1>5
  <2>3. k = j => new[k] = seq[i]
    BY <1>1, <1>4, <1>5
  <2> QED BY <1>1, <1>2, <2>1, <2>2, <2>3
<1>11. \E e : Passed(new, n) \subseteq Passed(seq, n) \cup {e}
  <2> DEFINE e == IF i <= n THEN seq[n + 1] ELSE seq[i]
  <2> SUFFICES ASSUME NEW k \in 1..Len(seq), k <= n
               PROVE  new[k] = e \/ \E m \in DOMAIN seq : m <= n /\ new[k] = seq[m]
    BY <1>7 DEF Passed
  <2>1. CASE k = j /\ new[k] = seq[i]
    BY <1>1, <2>1
  <2>2. CASE k < j /\ k >= i /\ k + 1 \in DOMAIN seq /\ new[k] = seq[k + 1]
    BY <1>1, <2>2
  <2>3. CASE k > j /\ k <= i /\ k - 1 \in DOMAIN seq /\ new[k] = seq[k - 1]
    BY <1>1, <2>3
  <2> QED BY <1>1, <1>10, <2>1, <2>2, <2>3
<1>12. \E e : Ahead(new, n) \subseteq Ahead(seq, n) \cup {e}
  <2> DEFINE e == IF i <= n THEN seq[i] ELSE seq[n]
  <2> SUFFICES ASSUME NEW k \in 1..Len(seq), k > n
               PROVE  new[k] = e \/ \E m \in DOMAIN seq : m > n /\ new[k] = seq[m]
    BY <1>7 DEF Ahead
  <2>1. CASE k = j /\ new[k] = seq[i]
    BY <1>1, <2>1
  <2>2. CASE k < j /\ k >= i /\ k + 1 \in DOMAIN seq /\ new[k] = seq[k + 1]
    BY <1>1, <2>2
  <2>3. CASE k > j /\ k <= i /\ k - 1 \in DOMAIN seq /\ new[k] = seq[k - 1]
    BY <1>1, <2>3
  <2> QED BY <1>1, <1>10, <2>1, <2>2, <2>3
<1>13. Rearranges(seq, new, n)
  BY <1>4, <1>5, <1>8, <1>9, <1>11, <1>12 DEF Rearranges
<1> QED BY <1>13 DEF new, less

-------------------------------------------------------------------------------
(* Counting *)

LEMMA RangeFinite ==
  ASSUME NEW seq \in Seq(Entries) PROVE IsFiniteSet(Range(seq))
<1>1. IsFiniteSet(1..Len(seq))
  <2>1. 1 \in Int /\ Len(seq) \in Int
    OBVIOUS
  <2> QED BY <2>1, FS_Interval, Zenon
<1>2. seq \in Surjection(1..Len(seq), Range(seq))
  BY DEF Surjection, Range
<1> QED BY <1>1, <1>2, FS_Surjection

LEMMA CountOneMore ==
  ASSUME NEW B, IsFiniteSet(B), NEW A, NEW e, A \subseteq B \cup {e}
  PROVE  Cardinality(A) \in Nat /\ Cardinality(A) <= Cardinality(B) + 1
<1>1. IsFiniteSet(B \cup {e}) /\ Cardinality(B \cup {e}) <= Cardinality(B) + 1
  <2>1. Cardinality(B) \in Nat
    BY FS_CardinalityType
  <2>2. /\ IsFiniteSet(B \cup {e})
        /\ Cardinality(B \cup {e}) = IF e \in B THEN Cardinality(B) ELSE Cardinality(B) + 1
    BY FS_AddElement
  <2> QED BY <2>1, <2>2
<1>2. IsFiniteSet(A) /\ Cardinality(A) <= Cardinality(B \cup {e})
  BY <1>1, FS_Subset
<1> QED BY <1>1, <1>2, FS_CardinalityType

LEMMA CountFewer ==
  ASSUME NEW B, IsFiniteSet(B), NEW A, A \subseteq B
  PROVE  IsFiniteSet(A) /\ Cardinality(A) \in Nat /\ Cardinality(A) <= Cardinality(B)
  BY FS_Subset, FS_CardinalityType

LEMMA CountBoth ==
  ASSUME NEW C, IsFiniteSet(C), NEW A, NEW B, A \subseteq C, B \subseteq C, A \cap B = {}
  PROVE  /\ Cardinality(A) \in Nat /\ Cardinality(B) \in Nat
         /\ Cardinality(A) + Cardinality(B) <= Cardinality(C)
<1>1. IsFiniteSet(A) /\ IsFiniteSet(B) /\ A \cup B \subseteq C
  BY FS_Subset
<1>2. Cardinality(A \cup B) = Cardinality(A) + Cardinality(B) - Cardinality(A \cap B)
  BY <1>1, FS_Union
<1>3. Cardinality(A \cap B) = 0
  BY FS_EmptySet
<1>4. Cardinality(A \cup B) <= Cardinality(C)
  BY <1>1, FS_Subset
<1> QED BY <1>1, <1>2, <1>3, <1>4, FS_CardinalityType

-------------------------------------------------------------------------------
(* A turn of the walk *)

\* What is read at a time are entries of the directory before the walk.
LEMMA Reading ==
  ASSUME TypeOK, walk = "reads"
  PROVE  /\ dir \in Listed /\ Len(queue) \in Nat /\ Len(queue) >= 1 /\ dir = queue[1]
         /\ now \in Seq(Entries) /\ Limit \in Nat /\ Limit > 0
         /\ Until(Limit) \in Nat /\ Until(Limit) <= Len(now) /\ Until(Limit) <= offset + Limit
         /\ Page \subseteq Slice(Limit) /\ Slice(Limit) \subseteq Range(now)
         /\ Page \subseteq Entries /\ IsFiniteSet(Page)
         /\ Directories \subseteq Page \cap Dirs
<1>1. /\ dir \in Listed /\ Len(queue) \in Nat /\ Len(queue) >= 1 /\ dir = queue[1]
  BY DEF TypeOK, dir
<1>2. now \in Seq(Entries)
  BY <1>1 DEF TypeOK, now
<1>3. Limit \in Nat /\ Limit > 0 /\ offset \in Nat /\ Len(now) \in Nat /\ DOMAIN now = 1..Len(now)
  BY <1>2, PagingAssumption DEF TypeOK
<1>4. Until(Limit) \in Nat /\ Until(Limit) <= Len(now) /\ Until(Limit) <= offset + Limit
  BY <1>3 DEF Until
<1>5. Slice(Limit) \subseteq Range(now)
  <2> SUFFICES ASSUME NEW i \in offset + 1 .. Until(Limit) PROVE i \in DOMAIN now
    BY DEF Slice, Range
  <2> QED BY <1>3, <1>4
<1>6. Page \subseteq Slice(Limit) /\ Directories \subseteq Page \cap Dirs
  BY DEF Page, Directories
<1>7. Range(now) \subseteq Entries
  BY <1>2 DEF Range
<1>8. IsFiniteSet(Page)
  BY <1>2, <1>5, <1>6, RangeFinite, CountFewer
<1> QED BY <1>1, <1>2, <1>3, <1>4, <1>5, <1>6, <1>7, <1>8

\* Those who are queued come after those who wait, each directory of the page once.
LEMMA Queueing ==
  ASSUME TypeOK, walk = "reads", NEW waiting \in Seq(Listed), Queued(waiting)
  PROVE  /\ queue' \in Seq(Listed) /\ Len(queue') \in Nat /\ Len(waiting) \in Nat
         /\ Len(queue') >= Len(waiting)
         /\ \A i \in 1..Len(waiting) : queue'[i] = waiting[i]
         /\ \A i \in (Len(waiting) + 1)..Len(queue') : queue'[i] \in Directories
         /\ \A i, j \in (Len(waiting) + 1)..Len(queue') : queue'[i] = queue'[j] => i = j
         /\ Directories \subseteq Range(queue')
         /\ found' \in [Listed -> Nat]
<1>1. Directories \subseteq Listed /\ IsFiniteSet(Directories)
  BY Reading, CountFewer, PagingAssumption DEF Listed
<1> DEFINE n == Cardinality(Directories)
<1>2. n \in Nat
  BY <1>1, FS_CardinalityType
<1>3. PICK seq \in SetToSeqs(Directories) : queue' = waiting \o seq
  BY DEF Queued
<1>4. seq \in [1..n -> Directories] /\ \A i, j \in 1..n : seq[i] = seq[j] => i = j
  BY DEF SetToSeqs
<1>5. Directories \subseteq Range(seq)
  <2>1. seq \in Injection(1..n, Directories)
    BY <1>4 DEF Injection, IsInjective
  <2>2. IsFiniteSet(1..n) /\ Cardinality(1..n) = n
    <3>1. 1 \in Int /\ n \in Int
      BY <1>2
    <3>2. IsFiniteSet(1..n) /\ Cardinality(1..n) = IF 1 > n THEN 0 ELSE n - 1 + 1
      BY <3>1, FS_Interval, Zenon
    <3> HIDE DEF n
    <3> QED BY <1>2, <3>2
  <2>3. seq \in Surjection(1..n, Directories)
    BY <1>1, <2>1, <2>2, FS_Injection
  <2> QED BY <1>4, <2>3 DEF Surjection, Range
<1>6. seq \in Seq(Listed) /\ Len(seq) = n /\ DOMAIN seq = 1..n
  <2> HIDE DEF n
  <2> QED BY <1>1, <1>2, <1>4
<1>7. /\ queue' \in Seq(Listed) /\ Len(queue') = Len(waiting) + n /\ Len(waiting) \in Nat
      /\ DOMAIN queue' = 1..(Len(waiting) + n)
      /\ \A i \in 1..Len(waiting) : queue'[i] = waiting[i]
      /\ \A i \in 1..n : queue'[Len(waiting) + i] = seq[i]
  <2> HIDE DEF n
  <2>1. \A s, t \in Seq(Listed) :
          /\ s \o t \in Seq(Listed) /\ Len(s \o t) = Len(s) + Len(t)
          /\ \A i \in 1..Len(s) : (s \o t)[i] = s[i]
          /\ \A i \in 1..Len(t) : (s \o t)[Len(s) + i] = t[i]
    OBVIOUS
  <2>2. /\ queue' \in Seq(Listed) /\ Len(queue') = Len(waiting) + n
        /\ \A i \in 1..Len(waiting) : queue'[i] = waiting[i]
        /\ \A i \in 1..n : queue'[Len(waiting) + i] = seq[i]
    BY <1>3, <1>6, <2>1, Zenon
  <2> QED BY <2>2
<1>8. ASSUME NEW i \in (Len(waiting) + 1)..Len(queue')
      PROVE  i - Len(waiting) \in 1..n /\ queue'[i] = seq[i - Len(waiting)]
  <2> HIDE DEF n
  <2>1. i - Len(waiting) \in 1..n /\ Len(waiting) + (i - Len(waiting)) = i
    BY <1>2, <1>7
  <2> QED BY <1>7, <2>1
<1>9. \A i \in (Len(waiting) + 1)..Len(queue') : queue'[i] \in Directories
  BY <1>4, <1>8
<1>10. \A i, j \in (Len(waiting) + 1)..Len(queue') : queue'[i] = queue'[j] => i = j
  <2> SUFFICES ASSUME NEW i \in (Len(waiting) + 1)..Len(queue'),
                      NEW j \in (Len(waiting) + 1)..Len(queue'), queue'[i] = queue'[j]
               PROVE  i = j
    OBVIOUS
  <2>1. i - Len(waiting) = j - Len(waiting)
    BY <1>4, <1>8
  <2> QED BY <1>7, <2>1
<1>11. Directories \subseteq Range(queue')
  <2> SUFFICES ASSUME NEW i \in 1..n PROVE seq[i] \in Range(queue')
    BY <1>5, <1>6 DEF Range
  <2>1. Len(waiting) + i \in DOMAIN queue' /\ queue'[Len(waiting) + i] = seq[i]
    <3> HIDE DEF n
    <3> QED BY <1>2, <1>7
  <2> QED BY <2>1 DEF Range
<1>12. found' \in [Listed -> Nat]
  <2>1. \A d \in Listed : found[d] \in Nat
    BY DEF TypeOK
  <2> QED BY <2>1 DEF Queued
<1> HIDE DEF n
<1> QED BY <1>2, <1>7, <1>9, <1>10, <1>11, <1>12

-------------------------------------------------------------------------------
(* The steps, by what they do to the walk *)

\* No entry is listed twice, and what stays is listed.
ListingsInv ==
  \A d \in Listed : IsInjective(listing[d]) /\ stayed[d] \subseteq Range(listing[d])

Quiet == walk = "reads" /\ UNCHANGED <<style, listing, edits>>

Halts == Quiet /\ (Stops("failed") \/ (OutOfRange /\ Stops("panic")))
Finds == Quiet /\ Collect /\ walk' = "found" /\ UNCHANGED <<target, queue, offset, found>>
TurnsPage == Quiet /\ Collect /\ UNCHANGED target /\ NextPage
TurnsDirectory == Quiet /\ Collect /\ UNCHANGED target /\ NextDirectory

\* What an edit does to a directory: one entry at most passes the offset in each
\* direction, and when one does the edit is counted.
Edited(d) ==
  /\ walk = "reads" /\ UNCHANGED <<style, reader>>
  /\ listing' \in [Listed -> Seq(Entries)] /\ stayed' \in [Listed -> SUBSET Entries]
  /\ removed' \in [Listed -> Nat] /\ inserted' \in [Listed -> Nat]
  /\ \A f \in Listed \ {d} : /\ listing'[f] = listing[f] /\ stayed'[f] = stayed[f]
                             /\ removed'[f] = removed[f] /\ inserted'[f] = inserted[f]
  /\ IsInjective(listing'[d]) /\ stayed'[d] \subseteq Range(listing'[d])
  /\ stayed'[d] \subseteq stayed[d]
  /\ removed[d] <= removed'[d] /\ inserted[d] <= inserted'[d]
  /\ Len(listing[d]) + removed[d] <= Len(listing'[d]) + removed'[d]
  /\ \A n \in Nat : \E e :
       /\ Passed(listing'[d], n) \subseteq Passed(listing[d], n) \cup {e}
       /\ e \notin stayed'[d] \/ removed'[d] = removed[d] + 1
  /\ \A n \in Nat :
       \/ Ahead(listing'[d], n) \subseteq Ahead(listing[d], n)
       \/ /\ inserted'[d] = inserted[d] + 1
          /\ \E e : Ahead(listing'[d], n) \subseteq Ahead(listing[d], n) \cup {e}

LEMMA CountUp ==
  ASSUME NEW f \in [Listed -> Nat], NEW d \in Listed, NEW g, g = [f EXCEPT ![d] = @ + 1]
  PROVE  /\ g \in [Listed -> Nat] /\ f[d] \in Nat /\ g[d] = f[d] + 1
         /\ \A e \in Listed \ {d} : g[e] = f[e]
<1>1. f[d] \in Nat
  OBVIOUS
<1> QED BY <1>1

LEMMA DeleteEdits ==
  ASSUME TypeOK, ListingsInv, NEW d \in Listed, Delete(d) PROVE Edited(d)
<1>1. PICK i \in DOMAIN listing[d] :
        listing' = [listing EXCEPT ![d] = RemoveAt(@, i)] /\ Leaves(d, i)
  BY DEF Delete
<1> DEFINE old == listing[d]
           new == RemoveAt(old, i)
<1>2. old \in Seq(Entries) /\ i \in DOMAIN old /\ IsInjective(old) /\ stayed[d] \subseteq Range(old)
  BY <1>1 DEF TypeOK, ListingsInv
<1>3. /\ new \in Seq(Entries) /\ Len(new) = Len(old) - 1
  BY <1>2, Removal
<1>4. /\ IsInjective(new) /\ Range(old) \ {old[i]} \subseteq Range(new)
      /\ \A n \in Nat : /\ \E e : Passed(new, n) \subseteq Passed(old, n) \cup {e}
                        /\ Ahead(new, n) \subseteq Ahead(old, n)
  <2>1. ASSUME NEW n \in Nat PROVE ShiftsDown(old, i, new, n)
    <3> HIDE DEF old
    <3> QED BY <1>2, RemovalShifts, Zenon
  <2> HIDE DEF old, new
  <2> QED BY <1>2, <2>1 DEF ShiftsDown
<1>5. listing'[d] = new /\ \A f \in Listed \ {d} : listing'[f] = listing[f]
  BY <1>1 DEF TypeOK
<1>6. listing' \in [Listed -> Seq(Entries)]
  BY <1>1, <1>3 DEF TypeOK
<1>7. /\ removed' \in [Listed -> Nat] /\ removed'[d] = removed[d] + 1 /\ removed[d] \in Nat
      /\ \A f \in Listed \ {d} : removed'[f] = removed[f]
  <2>1. removed \in [Listed -> Nat] /\ removed' = [removed EXCEPT ![d] = @ + 1]
    BY <1>1 DEF Leaves, TypeOK
  <2> QED BY <2>1, CountUp
<1>8. /\ stayed' \in [Listed -> SUBSET Entries] /\ stayed'[d] = stayed[d] \ {old[i]}
      /\ \A f \in Listed \ {d} : stayed'[f] = stayed[f]
  BY <1>1 DEF Leaves, TypeOK
<1>9. /\ walk = "reads" /\ UNCHANGED <<style, reader, inserted>>
      /\ inserted \in [Listed -> Nat]
  BY DEF Delete, MayChange, TypeOK
<1>10. stayed'[d] \subseteq Range(new) /\ stayed'[d] \subseteq stayed[d]
  BY <1>2, <1>4, <1>8
<1>11. Len(old) \in Nat /\ inserted[d] <= inserted'[d] /\ removed[d] <= removed'[d]
  BY <1>2, <1>7, <1>9
<1> HIDE DEF old, new
<1>12. Len(old) + removed[d] <= Len(new) + removed'[d]
  BY <1>3, <1>7, <1>11
<1> QED
  BY <1>4, <1>5, <1>6, <1>7, <1>8, <1>9, <1>10, <1>11, <1>12 DEF Edited, old

LEMMA InsertEdits ==
  ASSUME TypeOK, ListingsInv, NEW d \in Listed, Insert(d) PROVE Edited(d)
<1> DEFINE old == listing[d]
<1>1. PICK e \in Entries \ ({d} \cup Everything), i \in 1..(Len(old) + 1) :
        listing' = [listing EXCEPT ![d] = InsertAt(@, i, e)]
  BY DEF Insert
<1> DEFINE new == InsertAt(old, i, e)
<1>2. /\ old \in Seq(Entries) /\ IsInjective(old) /\ stayed[d] \subseteq Range(old)
      /\ e \in Entries /\ e \notin Range(old)
  BY <1>1 DEF TypeOK, ListingsInv, Everything
<1>3. new \in Seq(Entries) /\ Len(new) = Len(old) + 1
  <2>1. i \in 1..(Len(old) + 1)
    BY <1>1
  <2>2. Inserts(old, i, e, new)
    <3> HIDE DEF old
    <3> QED BY <1>2, <2>1, Insertion, Zenon
  <2> QED BY <2>2 DEF Inserts
<1>4. /\ IsInjective(new) /\ Range(old) \subseteq Range(new)
      /\ \A n \in Nat : /\ Passed(new, n) \subseteq Passed(old, n) \cup {e}
                        /\ \E x : Ahead(new, n) \subseteq Ahead(old, n) \cup {x}
  <2>1. i \in 1..(Len(old) + 1)
    BY <1>1
  <2>2. ASSUME NEW n \in Nat PROVE ShiftsUp(old, e, new, n)
    <3> HIDE DEF old
    <3> QED BY <1>2, <2>1, InsertionShifts, Zenon
  <2> HIDE DEF old, new
  <2> QED BY <1>2, <2>2 DEF ShiftsUp
<1>5. listing'[d] = new /\ \A f \in Listed \ {d} : listing'[f] = listing[f]
  BY <1>1 DEF TypeOK
<1>6. listing' \in [Listed -> Seq(Entries)]
  BY <1>1, <1>3 DEF TypeOK
<1>7. /\ inserted' \in [Listed -> Nat] /\ inserted'[d] = inserted[d] + 1 /\ inserted[d] \in Nat
      /\ \A f \in Listed \ {d} : inserted'[f] = inserted[f]
  <2>1. inserted \in [Listed -> Nat] /\ inserted' = [inserted EXCEPT ![d] = @ + 1]
    BY DEF Insert, TypeOK
  <2> QED BY <2>1, CountUp
<1>8. /\ walk = "reads" /\ UNCHANGED <<style, reader, removed, stayed>>
      /\ removed \in [Listed -> Nat] /\ stayed \in [Listed -> SUBSET Entries]
  BY DEF Insert, MayChange, TypeOK
<1>9. stayed'[d] \subseteq Range(new) /\ e \notin stayed'[d]
  BY <1>2, <1>4, <1>8
<1>10. Len(old) \in Nat /\ inserted[d] <= inserted'[d] /\ removed[d] <= removed'[d]
  BY <1>2, <1>7, <1>8
<1> HIDE DEF old, new
<1>11. Len(old) + removed[d] <= Len(new) + removed'[d]
  BY <1>3, <1>8, <1>10
<1> QED
  BY <1>4, <1>5, <1>6, <1>7, <1>8, <1>9, <1>10, <1>11 DEF Edited, old

LEMMA MoveEdits ==
  ASSUME TypeOK, ListingsInv, Move PROVE Edited(Root)
<1> DEFINE old == listing[Root]
<1>1. PICK i \in DOMAIN old, j \in DOMAIN old :
        listing' = [listing EXCEPT ![Root] = InsertAt(RemoveAt(@, i), j, @[i])]
  BY DEF Move
<1> DEFINE new == InsertAt(RemoveAt(old, i), j, old[i])
<1>2. /\ Root \in Listed
      /\ old \in Seq(Entries) /\ IsInjective(old) /\ stayed[Root] \subseteq Range(old)
  BY <1>1 DEF TypeOK, ListingsInv, Listed
<1>3. /\ new \in Seq(Entries) /\ Len(new) = Len(old)
      /\ IsInjective(new) /\ Range(old) \subseteq Range(new)
      /\ \A n \in Nat : /\ \E x : Passed(new, n) \subseteq Passed(old, n) \cup {x}
                        /\ \E x : Ahead(new, n) \subseteq Ahead(old, n) \cup {x}
  <2>1. ASSUME NEW n \in Nat PROVE Rearranges(old, new, n)
    <3> HIDE DEF old
    <3> QED BY <1>2, MoveShifts, Zenon
  <2>2. Rearranges(old, new, 0)
    BY <2>1
  <2> HIDE DEF old, new
  <2> QED BY <1>2, <2>1, <2>2 DEF Rearranges
<1>4. listing'[Root] = new /\ \A f \in Listed \ {Root} : listing'[f] = listing[f]
  BY <1>1, <1>2 DEF TypeOK
<1>5. listing' \in [Listed -> Seq(Entries)]
  BY <1>1, <1>3 DEF TypeOK
<1>6. /\ inserted' \in [Listed -> Nat] /\ inserted'[Root] = inserted[Root] + 1
      /\ removed' \in [Listed -> Nat] /\ removed'[Root] = removed[Root] + 1
      /\ inserted[Root] \in Nat /\ removed[Root] \in Nat
      /\ \A f \in Listed \ {Root} : inserted'[f] = inserted[f] /\ removed'[f] = removed[f]
  <2>1. /\ inserted \in [Listed -> Nat] /\ inserted' = [inserted EXCEPT ![Root] = @ + 1]
        /\ removed \in [Listed -> Nat] /\ removed' = [removed EXCEPT ![Root] = @ + 1]
    BY DEF Move, TypeOK
  <2>2. /\ inserted' \in [Listed -> Nat] /\ inserted[Root] \in Nat
        /\ inserted'[Root] = inserted[Root] + 1
        /\ \A f \in Listed \ {Root} : inserted'[f] = inserted[f]
    BY <1>2, <2>1, CountUp
  <2>3. /\ removed' \in [Listed -> Nat] /\ removed[Root] \in Nat
        /\ removed'[Root] = removed[Root] + 1
        /\ \A f \in Listed \ {Root} : removed'[f] = removed[f]
    BY <1>2, <2>1, CountUp
  <2> QED BY <2>2, <2>3
<1>7. /\ walk = "reads" /\ UNCHANGED <<style, reader, stayed>>
      /\ stayed \in [Listed -> SUBSET Entries]
  BY DEF Move, MayChange, TypeOK
<1>8. stayed'[Root] \subseteq Range(new)
  BY <1>2, <1>3, <1>7
<1>9. Len(old) \in Nat
  BY <1>2
<1> HIDE DEF old, new
<1>10. Len(old) + removed[Root] <= Len(new) + removed'[Root]
  BY <1>3, <1>6, <1>9
<1>11. /\ removed[Root] <= removed'[Root] /\ inserted[Root] <= inserted'[Root]
  BY <1>6
<1>12. /\ \A n \in Nat : \E e :
            /\ Passed(new, n) \subseteq Passed(old, n) \cup {e}
            /\ e \notin stayed'[Root] \/ removed'[Root] = removed[Root] + 1
       /\ \A n \in Nat :
            \/ Ahead(new, n) \subseteq Ahead(old, n)
            \/ /\ inserted'[Root] = inserted[Root] + 1
               /\ \E e : Ahead(new, n) \subseteq Ahead(old, n) \cup {e}
  BY <1>3, <1>6
<1>13. new = listing'[Root] /\ old = listing[Root]
  BY <1>4 DEF old
<1> QED
  BY <1>2, <1>3, <1>4, <1>5, <1>6, <1>7, <1>8, <1>10, <1>11, <1>12, <1>13, Zenon DEF Edited

LEMMA Steps ==
  ASSUME TypeOK, ListingsInv, [PagingNext]_pagingVars
  PROVE  \/ Halts \/ Finds \/ TurnsPage \/ TurnsDirectory
         \/ \E d \in Listed : Edited(d)
         \/ UNCHANGED pagingVars
<1>1. CASE Read
  BY <1>1 DEF Read, Turn, Halts, Finds, TurnsPage, TurnsDirectory, Quiet
<1>2. CASE ReadFails
  BY <1>2 DEF ReadFails, Halts, Quiet
<1>3. ASSUME NEW d \in Listed, Delete(d) \/ Insert(d) PROVE Edited(d)
  BY <1>3, DeleteEdits, InsertEdits
<1>4. CASE Move
  BY <1>4, MoveEdits DEF Listed
<1> QED BY <1>1, <1>2, <1>3, <1>4 DEF PagingNext

-------------------------------------------------------------------------------
(* Types, and what a local directory needs to panic *)

WalkTypes == TypeOK /\ ListingsInv

LEMMA WalkTypesInit == PagingInit => WalkTypes
<1> SUFFICES ASSUME PagingInit PROVE WalkTypes
  OBVIOUS
<1>1. listing \in [Listed -> Seq(Entries)] /\ \A d \in Listed : IsInjective(listing[d])
  BY PagingAssumption DEF PagingInit, Listed
<1>2. Root \in Listed
  BY DEF Listed
<1>3. \A d \in Listed : Range(listing[d]) \subseteq Entries
  BY <1>1 DEF Range
<1>4. target \in Entries \cup {Root}
  BY <1>2, <1>3 DEF PagingInit
<1>5. queue \in Seq(Listed) /\ queue # <<>>
  BY <1>2 DEF PagingInit
<1>6. /\ result \in [Listed -> SUBSET Entries] /\ stayed \in [Listed -> SUBSET Entries]
      /\ found \in [Listed -> Nat] /\ again \in [Listed -> Nat]
      /\ removed \in [Listed -> Nat] /\ inserted \in [Listed -> Nat]
  BY <1>3 DEF PagingInit
<1>7. style \in Styles /\ offset \in Nat /\ walk = "reads"
  BY DEF PagingInit
<1>8. TypeOK
  BY <1>1, <1>4, <1>5, <1>6, <1>7 DEF TypeOK
<1>9. ListingsInv
  BY <1>1 DEF PagingInit, ListingsInv
<1> QED BY <1>8, <1>9 DEF WalkTypes

\* What a turn adds to the entries collected.
LEMMA Collecting ==
  ASSUME TypeOK, walk = "reads", Collect
  PROVE  /\ result' \in [Listed -> SUBSET Entries] /\ again' \in [Listed -> Nat]
         /\ result'[dir] = result[dir] \cup Page
         /\ again'[dir] = again[dir] + Cardinality(Page \cap result[dir])
         /\ Cardinality(Page \cap result[dir]) \in Nat
         /\ \A d \in Listed \ {dir} : result'[d] = result[d] /\ again'[d] = again[d]
<1>1. dir \in Listed /\ Page \subseteq Entries /\ IsFiniteSet(Page)
  BY Reading
<1>2. Cardinality(Page \cap result[dir]) \in Nat
  BY <1>1, CountFewer
<1>3. /\ result' \in [Listed -> SUBSET Entries] /\ result'[dir] = result[dir] \cup Page
      /\ \A d \in Listed \ {dir} : result'[d] = result[d]
  BY <1>1 DEF Collect, TypeOK
<1> DEFINE more == Cardinality(Page \cap result[dir])
<1>4. again' = [again EXCEPT ![dir] = @ + more] /\ again \in [Listed -> Nat]
  BY DEF Collect, TypeOK
<1> HIDE DEF more
<1>5. again[dir] \in Nat
  BY <1>1, <1>4
<1>6. more \in Nat
  BY <1>2 DEF more
<1>7. /\ again' \in [Listed -> Nat] /\ again'[dir] = again[dir] + more
      /\ \A d \in Listed \ {dir} : again'[d] = again[d]
  BY <1>1, <1>4, <1>5, <1>6
<1> QED BY <1>2, <1>3, <1>7 DEF more

LEMMA WalkTypesInductive == WalkTypes /\ [PagingNext]_pagingVars => WalkTypes'
<1> SUFFICES ASSUME WalkTypes, [PagingNext]_pagingVars PROVE WalkTypes'
  OBVIOUS
<1>1. TypeOK /\ ListingsInv
  BY DEF WalkTypes
<1> DEFINE Rest == /\ style \in Styles /\ listing \in [Listed -> Seq(Entries)]
                   /\ removed \in [Listed -> Nat] /\ inserted \in [Listed -> Nat]
                   /\ stayed \in [Listed -> SUBSET Entries]
<1>2. ASSUME Quiet PROVE Rest' /\ ListingsInv'
  BY <1>1, <1>2 DEF Quiet, TypeOK, ListingsInv, edits
<1>3. CASE Halts
  <2>1. /\ Quiet /\ UNCHANGED <<target, queue, offset, result, found, again>>
        /\ walk' \in {"failed", "panic"}
    BY <1>3 DEF Halts, Stops
  <2>2. TypeOK'
    BY <1>1, <1>2, <2>1 DEF TypeOK
  <2> QED BY <1>2, <2>1, <2>2 DEF WalkTypes
<1>4. CASE Finds
  <2>1. Quiet /\ Collect /\ walk' = "found" /\ UNCHANGED <<target, queue, offset, found>>
    BY <1>4 DEF Finds
  <2>2. result' \in [Listed -> SUBSET Entries] /\ again' \in [Listed -> Nat]
    BY <1>1, <2>1, Collecting DEF Quiet
  <2>3. TypeOK'
    BY <1>1, <1>2, <2>1, <2>2 DEF TypeOK
  <2> QED BY <1>2, <2>1, <2>3 DEF WalkTypes
<1>5. CASE TurnsPage
  <2>1. Quiet /\ Collect /\ UNCHANGED target /\ NextPage /\ walk = "reads"
    BY <1>5 DEF TurnsPage, Quiet
  <2>2. result' \in [Listed -> SUBSET Entries] /\ again' \in [Listed -> Nat]
    BY <1>1, <2>1, Collecting
  <2>3. /\ offset' = Cursor /\ Queued(queue) /\ walk' = walk
        /\ Until(Limit) \in Nat /\ Limit \in Nat /\ Len(queue) \in Nat /\ Len(queue) >= 1
        /\ queue \in Seq(Listed) /\ offset \in Nat
    BY <1>1, <2>1, Reading DEF NextPage, TypeOK
  <2>4. offset' \in Nat
    BY <2>3 DEF Cursor
  <2>5. queue' \in Seq(Listed) /\ Len(queue') >= Len(queue) /\ found' \in [Listed -> Nat]
    BY <1>1, <2>1, <2>3, Queueing
  <2>6. queue' # <<>>
    BY <2>3, <2>5
  <2>7. target' \in Entries \cup {Root} /\ walk' = "reads"
    BY <1>1, <2>1, <2>3 DEF TypeOK
  <2>8. Rest'
    BY <1>2, <2>1
  <2>9. TypeOK'
    BY <2>2, <2>4, <2>5, <2>6, <2>7, <2>8 DEF TypeOK
  <2> QED BY <1>2, <2>1, <2>9 DEF WalkTypes
<1>6. CASE TurnsDirectory
  <2>1. Quiet /\ Collect /\ UNCHANGED target /\ NextDirectory /\ walk = "reads"
    BY <1>6 DEF TurnsDirectory, Quiet
  <2>2. result' \in [Listed -> SUBSET Entries] /\ again' \in [Listed -> Nat]
    BY <1>1, <2>1, Collecting
  <2>3. /\ offset' = 0 /\ Queued(Tail(queue))
        /\ walk' = IF queue' = <<>> THEN "done" ELSE "reads"
    BY <2>1 DEF NextDirectory
  <2>4. Tail(queue) \in Seq(Listed)
    BY <1>1, <2>1, Reading DEF TypeOK
  <2>5. queue' \in Seq(Listed) /\ found' \in [Listed -> Nat]
    BY <1>1, <2>1, <2>3, <2>4, Queueing
  <2>6. target' \in Entries \cup {Root}
    BY <1>1, <2>1 DEF TypeOK
  <2>7. Rest'
    BY <1>2, <2>1
  <2>8. TypeOK'
    BY <2>2, <2>3, <2>5, <2>6, <2>7 DEF TypeOK
  <2> QED BY <1>2, <2>1, <2>8 DEF WalkTypes
<1>7. ASSUME NEW d \in Listed, Edited(d) PROVE WalkTypes'
  <2>1. TypeOK'
    BY <1>1, <1>7 DEF Edited, TypeOK, reader
  <2>2. ListingsInv'
    BY <1>1, <1>7 DEF Edited, ListingsInv
  <2> QED BY <2>1, <2>2 DEF WalkTypes
<1>8. CASE UNCHANGED pagingVars
  BY <1>1, <1>8 DEF pagingVars, reader, edits, WalkTypes, TypeOK, ListingsInv
<1> QED BY <1>1, <1>3, <1>4, <1>5, <1>6, <1>7, <1>8, Steps

\* The types of the listings and of the walk, and that a listing has no entry
\* twice (List of the drivers, ListMedia, walkProvider).
THEOREM PagingTypeCorrect == PagingSpec => []TypeOK
<1>1. WalkTypes => TypeOK
  BY DEF WalkTypes
<1> QED BY <1>1, WalkTypesInit, WalkTypesInductive, PTL DEF PagingSpec

\* An offset lies behind the end of a local directory only by as much as the
\* directory lost since the page before, which was not its last.
OffsetInv ==
  walk = "reads" /\ style = "local" /\ offset > 0 => Len(now) + removed[dir] > offset

LEMMA PanicInductive ==
  WalkTypes /\ OffsetInv /\ PanicsOnlyWhenShrunk /\ [PagingNext]_pagingVars
    => OffsetInv' /\ PanicsOnlyWhenShrunk'
<1> SUFFICES ASSUME WalkTypes, OffsetInv, PanicsOnlyWhenShrunk, [PagingNext]_pagingVars
             PROVE  OffsetInv' /\ PanicsOnlyWhenShrunk'
  OBVIOUS
<1>1. TypeOK /\ ListingsInv
  BY DEF WalkTypes
<1>2. CASE Halts
  <2>1. /\ Quiet /\ UNCHANGED queue /\ dir' = dir
        /\ walk' = "failed" \/ (walk' = "panic" /\ OutOfRange)
    BY <1>2 DEF Halts, Stops, dir
  <2>2. OffsetInv'
    BY <2>1 DEF OffsetInv
  <2>3. CASE OutOfRange
    <3>1. /\ style = "local" /\ offset > Until(Limit) /\ walk = "reads"
          /\ removed' = removed /\ style' = style
      BY <2>1, <2>3 DEF OutOfRange, Quiet, edits
    <3>2. dir \in Listed /\ now \in Seq(Entries) /\ Limit \in Nat /\ Limit > 0
      BY <1>1, <3>1, Reading
    <3>3. Len(now) \in Nat /\ offset \in Nat /\ removed[dir] \in Nat
      BY <1>1, <3>2 DEF TypeOK
    <3>4. Len(now) < offset
      BY <3>1, <3>2, <3>3 DEF Until
    <3>5. Len(now) + removed[dir] > offset
      BY <3>1, <3>3, <3>4 DEF OffsetInv
    <3>6. removed[dir] >= 2
      BY <3>3, <3>4, <3>5
    <3> QED BY <2>1, <2>2, <3>1, <3>6 DEF PanicsOnlyWhenShrunk
  <2> QED BY <2>1, <2>2, <2>3 DEF PanicsOnlyWhenShrunk
<1>3. CASE Finds
  BY <1>3 DEF Finds, OffsetInv, PanicsOnlyWhenShrunk
<1>4. CASE TurnsPage
  <2>1. /\ walk = "reads" /\ UNCHANGED <<style, listing, removed, walk>>
        /\ More /\ offset' = Cursor /\ Queued(queue)
    BY <1>4 DEF TurnsPage, NextPage, Quiet, edits
  <2>2. /\ Len(queue) \in Nat /\ Len(queue) >= 1 /\ dir = queue[1] /\ queue \in Seq(Listed)
        /\ now \in Seq(Entries) /\ Limit \in Nat /\ dir \in Listed
        /\ offset \in Nat
    BY <1>1, <2>1, Reading DEF TypeOK
  <2>3. queue' \in Seq(Listed) /\ Len(queue') >= Len(queue) /\ queue'[1] = queue[1]
    BY <1>1, <2>1, <2>2, Queueing
  <2>4. dir' = dir
    BY <2>2, <2>3 DEF dir
  <2>5. now' = now
    BY <2>1, <2>4 DEF now
  <2>6. style = "local" => offset' < Len(now)
    BY <2>1, <2>2 DEF Cursor, More, RowsLeft, Until
  <2>7. removed[dir] \in Nat /\ Len(now) \in Nat /\ offset' \in Nat
    <3>1. Until(Limit) \in Nat
      BY <1>1, <2>1, Reading
    <3>2. offset' \in Nat
      BY <2>1, <2>2, <3>1 DEF Cursor
    <3> QED BY <1>1, <2>2, <3>2 DEF TypeOK
  <2>8. style = "local" => Len(now) + removed[dir] > offset'
    BY <2>6, <2>7
  <2> QED BY <2>1, <2>4, <2>5, <2>8 DEF OffsetInv, PanicsOnlyWhenShrunk
<1>5. CASE TurnsDirectory
  <2>1. offset' = 0 /\ walk' # "panic"
    BY <1>5 DEF TurnsDirectory, NextDirectory
  <2> QED BY <2>1 DEF OffsetInv, PanicsOnlyWhenShrunk
<1>6. ASSUME NEW d \in Listed, Edited(d) PROVE OffsetInv' /\ PanicsOnlyWhenShrunk'
  <2>1. walk = "reads" /\ UNCHANGED <<style, queue, offset, walk>> /\ dir' = dir
    BY <1>6 DEF Edited, reader, dir
  <2>2. /\ dir \in Listed /\ offset \in Nat
        /\ listing[dir] \in Seq(Entries) /\ removed[dir] \in Nat
    BY <1>1, <2>1, Reading DEF TypeOK
  <2>3. listing'[dir] \in Seq(Entries) /\ removed'[dir] \in Nat
    BY <1>6, <2>2 DEF Edited
  <2>4. Len(listing[dir]) + removed[dir] <= Len(listing'[dir]) + removed'[dir]
    <3>1. CASE d = dir
      BY <1>6, <3>1 DEF Edited
    <3>2. CASE d # dir
      <4>1. listing'[dir] = listing[dir] /\ removed'[dir] = removed[dir]
        BY <1>6, <2>2, <3>2 DEF Edited
      <4>2. Len(listing[dir]) \in Nat
        BY <2>2
      <4> QED BY <2>2, <4>1, <4>2
    <3> QED BY <3>1, <3>2
  <2>5. Len(listing[dir]) \in Nat /\ Len(listing'[dir]) \in Nat
    BY <2>2, <2>3
  <2>6. style = "local" /\ offset > 0 => Len(listing'[dir]) + removed'[dir] > offset
    <3>1. style = "local" /\ offset > 0 => Len(listing[dir]) + removed[dir] > offset
      BY <2>1 DEF OffsetInv, now
    <3> QED BY <2>2, <2>3, <2>4, <2>5, <3>1
  <2> QED BY <2>1, <2>6 DEF OffsetInv, PanicsOnlyWhenShrunk, now
<1>7. CASE UNCHANGED pagingVars
  BY <1>7 DEF pagingVars, reader, edits, OffsetInv, PanicsOnlyWhenShrunk, now, dir
<1> QED BY <1>1, <1>2, <1>3, <1>4, <1>5, <1>6, <1>7, Steps

\* The slice of a local directory is out of range only when the directory lost
\* two entries while it was read (List of the local driver, catalog.go's walk).
THEOREM PanicNeedsLoss == PagingSpec => []PanicsOnlyWhenShrunk
<1>1. PagingInit => OffsetInv /\ PanicsOnlyWhenShrunk
  BY DEF PagingInit, OffsetInv, PanicsOnlyWhenShrunk
<1> QED BY <1>1, WalkTypesInit, WalkTypesInductive, PanicInductive, PTL DEF PagingSpec

-------------------------------------------------------------------------------
(* What a turn reads *)

LEMMA PassedIn ==
  ASSUME NEW seq \in Seq(Entries), NEW n \in Nat
  PROVE  /\ Passed(seq, n) \subseteq Range(seq) /\ Ahead(seq, n) \subseteq Range(seq)
         /\ Passed(seq, 0) = {}
<1>1. Passed(seq, n) \subseteq Range(seq) /\ Ahead(seq, n) \subseteq Range(seq)
  BY DEF Passed, Ahead, Range
<1>2. Passed(seq, 0) = {}
  BY DEF Passed
<1> QED BY <1>1, <1>2

\* The slice lies between the offset and the next one, and reaches the end of
\* the directory when there is no next one.
LEMMA SliceCovers ==
  ASSUME TypeOK, walk = "reads"
  PROVE  /\ Slice(Limit) \subseteq Ahead(now, offset)
         /\ More => /\ Cursor \in Nat
                    /\ Passed(now, Cursor) \subseteq Passed(now, offset) \cup Slice(Limit)
                    /\ Ahead(now, Cursor) \subseteq Ahead(now, offset)
                    /\ IsInjective(now) => Ahead(now, Cursor) \cap Slice(Limit) = {}
         /\ ~More => Range(now) \subseteq Passed(now, offset) \cup Slice(Limit)
<1>1. /\ now \in Seq(Entries) /\ Limit \in Nat /\ Limit > 0 /\ offset \in Nat
      /\ Until(Limit) \in Nat /\ Until(Limit) <= Len(now)
  BY Reading DEF TypeOK
<1>2. Len(now) \in Nat /\ DOMAIN now = 1..Len(now)
  BY <1>1
<1>3. Slice(Limit) \subseteq Ahead(now, offset)
  <2> SUFFICES ASSUME NEW i \in offset + 1 .. Until(Limit) PROVE i \in DOMAIN now /\ i > offset
    BY DEF Slice, Ahead
  <2> QED BY <1>1, <1>2
<1>4. ASSUME NEW i \in DOMAIN now
      PROVE  now[i] \in Passed(now, offset) \cup Slice(Limit) \/ i > Until(Limit)
  <2>1. CASE i <= offset
    BY <2>1 DEF Passed
  <2>2. CASE i > offset /\ i <= Until(Limit)
    <3>1. i \in offset + 1 .. Until(Limit)
      BY <1>1, <1>2, <2>2
    <3> QED BY <3>1 DEF Slice
  <2> QED BY <1>1, <1>2, <2>1, <2>2
<1>5. ASSUME More
      PROVE  /\ Cursor = Until(Limit) /\ Cursor \in Nat /\ Cursor >= offset
             /\ Passed(now, Cursor) \subseteq Passed(now, offset) \cup Slice(Limit)
             /\ Ahead(now, Cursor) \subseteq Ahead(now, offset)
             /\ IsInjective(now) => Ahead(now, Cursor) \cap Slice(Limit) = {}
  <2>1. Cursor = Until(Limit) /\ Cursor \in Nat /\ Cursor >= offset
    BY <1>1, <1>2, <1>5 DEF More, FullPage, RowsLeft, Until, Cursor
  <2>2. Passed(now, Cursor) \subseteq Passed(now, offset) \cup Slice(Limit)
    <3> SUFFICES ASSUME NEW i \in DOMAIN now, i <= Cursor
                 PROVE  now[i] \in Passed(now, offset) \cup Slice(Limit)
      BY DEF Passed
    <3> QED BY <1>2, <1>4, <2>1
  <2>3. Ahead(now, Cursor) \subseteq Ahead(now, offset)
    <3> SUFFICES ASSUME NEW i \in DOMAIN now, i > Cursor PROVE i > offset
      BY DEF Ahead
    <3> QED BY <1>1, <1>2, <2>1
  <2>4. ASSUME IsInjective(now) PROVE Ahead(now, Cursor) \cap Slice(Limit) = {}
    <3> SUFFICES ASSUME NEW i \in DOMAIN now, i > Cursor, NEW j \in offset + 1 .. Until(Limit),
                        now[i] = now[j]
                 PROVE  FALSE
      BY DEF Ahead, Slice
    <3>1. j \in DOMAIN now /\ j # i
      BY <1>1, <1>2, <2>1
    <3> QED BY <2>4, <3>1 DEF IsInjective
  <2> QED BY <2>1, <2>2, <2>3, <2>4
<1>6. ASSUME ~More PROVE Range(now) \subseteq Passed(now, offset) \cup Slice(Limit)
  <2>1. Until(Limit) = Len(now)
    BY <1>1, <1>2, <1>6 DEF More, FullPage, RowsLeft, Until
  <2> SUFFICES ASSUME NEW i \in DOMAIN now PROVE now[i] \in Passed(now, offset) \cup Slice(Limit)
    BY DEF Range
  <2> QED BY <1>2, <1>4, <2>1
<1> QED BY <1>3, <1>5, <1>6

-------------------------------------------------------------------------------
(* What a walk misses *)

Missed(d) == Shown(d) \ result[d]

\* Of what it has passed in the directory before it, and of the directories it
\* has left behind, the walk missed no more than was removed.
CoveredInv ==
  /\ walk \in {"reads", "done"} =>
       \A d \in Listed : Reached(d) => d \in Range(queue) \/ Cardinality(Missed(d)) <= removed[d]
  /\ walk = "reads" => Cardinality(Passed(now, offset) \cap Missed(dir)) <= removed[dir]

LEMMA MissedFinite ==
  ASSUME WalkTypes, NEW d \in Listed
  PROVE  Missed(d) \subseteq Range(listing[d]) /\ IsFiniteSet(Missed(d))
<1>1. listing[d] \in Seq(Entries) /\ Missed(d) \subseteq Range(listing[d])
  BY DEF WalkTypes, TypeOK, ListingsInv, Missed, Shown
<1> QED BY <1>1, RangeFinite, CountFewer

\* A directory that the walk comes to know of is queued with the page.
LEMMA NewlyReached ==
  ASSUME TypeOK, walk = "reads", Collect, UNCHANGED <<style, target>>,
         NEW d \in Listed, Reached(d)'
  PROVE  Reached(d) \/ d \in Directories
<1> SUFFICES ASSUME d # Root, target = Root, style # "index",
                    NEW f \in Listed, d \in result'[f], d \notin result[f]
             PROVE  d \in Directories
  BY DEF Reached
<1>1. f = dir /\ d \in Page
  BY Collecting
<1>2. d \in Dirs
  BY DEF Listed
<1> QED BY <1>1, <1>2 DEF Directories

LEMMA CoveredInit == PagingInit => CoveredInv
<1> SUFFICES ASSUME PagingInit PROVE CoveredInv
  OBVIOUS
<1>1. WalkTypes /\ walk = "reads" /\ offset = 0 /\ queue = <<Root>> /\ Root \in Listed
  BY WalkTypesInit DEF PagingInit, Listed
<1>2. dir \in Listed /\ now \in Seq(Entries)
  BY <1>1, Reading DEF WalkTypes
<1>3. Passed(now, offset) \cap Missed(dir) = {} /\ removed[dir] = 0
  BY <1>1, <1>2, PassedIn DEF PagingInit
<1>4. Cardinality(Passed(now, offset) \cap Missed(dir)) <= removed[dir]
  BY <1>3, FS_EmptySet
<1>5. \A d \in Listed : Reached(d) => d \in Range(queue)
  <2>1. \A d \in Listed : Reached(d) => d = Root
    BY DEF Reached, PagingInit
  <2>2. Root \in Range(queue)
    BY <1>1 DEF Range
  <2> QED BY <2>1, <2>2
<1> QED BY <1>4, <1>5 DEF CoveredInv

LEMMA CoveredTurn ==
  ASSUME WalkTypes, WalkTypes', CoveredInv, TurnsPage \/ TurnsDirectory
  PROVE  CoveredInv'
<1>1. /\ TypeOK /\ ListingsInv /\ Quiet /\ Collect /\ walk = "reads" /\ UNCHANGED target
      /\ UNCHANGED <<style, listing, removed, stayed>>
  BY DEF TurnsPage, TurnsDirectory, WalkTypes, Quiet, edits
<1>2. /\ dir \in Listed /\ Len(queue) \in Nat /\ Len(queue) >= 1 /\ dir = queue[1]
      /\ queue \in Seq(Listed) /\ now \in Seq(Entries) /\ offset \in Nat
      /\ Page \subseteq Slice(Limit)
  BY <1>1, Reading DEF TypeOK
<1> PICK c \in Listed : c = dir
  BY <1>2
<1>3. \A d \in Listed : Missed(d)' \subseteq Missed(d)
  BY <1>1, Collecting DEF Missed, Shown
<1>4. ASSUME NEW d \in Listed, Cardinality(Missed(d)) <= removed[d]
      PROVE  Cardinality(Missed(d)') <= removed'[d]
  <2>1. Cardinality(Missed(d)') <= Cardinality(Missed(d)) /\ Cardinality(Missed(d)') \in Nat
    BY <1>3, MissedFinite, CountFewer
  <2>2. Cardinality(Missed(d)) \in Nat /\ removed[d] \in Nat /\ removed'[d] = removed[d]
    BY <1>1, MissedFinite, FS_CardinalityType DEF TypeOK
  <2> QED BY <1>4, <2>1, <2>2
<1>5. Slice(Limit) \cap Missed(c)' = {}
  <2>1. Missed(c)' = Missed(c) \ Page
    BY <1>1, <1>2, Collecting DEF Missed, Shown
  <2>2. Slice(Limit) \cap Missed(c) \subseteq Page
    BY DEF Page, Missed, Shown
  <2> QED BY <2>1, <2>2
\* What is missed of the present directory after the turn was passed before it.
<1>6. ASSUME NEW S, S \subseteq Passed(now, offset) \cup Slice(Limit)
      PROVE  Cardinality(S \cap Missed(c)') <= removed'[c]
  <2> DEFINE B == Passed(now, offset) \cap Missed(c)
             A == S \cap Missed(c)'
  <2>1. A \subseteq B
    BY <1>2, <1>3, <1>5, <1>6
  <2>2. IsFiniteSet(B)
    BY <1>2, MissedFinite, CountFewer
  <2>3. Cardinality(B) <= removed[c]
    BY <1>1 DEF CoveredInv
  <2>4. Cardinality(A) \in Nat /\ Cardinality(A) <= Cardinality(B) /\ Cardinality(B) \in Nat
    BY <2>1, <2>2, CountFewer, FS_CardinalityType
  <2>5. removed[c] \in Nat /\ removed'[c] = removed[c]
    BY <1>1, <1>2 DEF TypeOK
  <2> HIDE DEF A, B
  <2>6. Cardinality(A) <= removed'[c]
    BY <2>3, <2>4, <2>5
  <2> QED BY <2>6 DEF A
<1>7. CASE TurnsPage
  <2>1. More /\ offset' = Cursor /\ Queued(queue) /\ walk' = walk
    BY <1>7 DEF TurnsPage, NextPage
  <2>2. /\ queue' \in Seq(Listed) /\ Len(queue') \in Nat /\ Len(queue') >= Len(queue)
        /\ \A i \in 1..Len(queue) : queue'[i] = queue[i]
        /\ Directories \subseteq Range(queue')
    BY <1>1, <1>2, <2>1, Queueing
  <2>3. dir' = dir /\ now' = now
    <3>1. queue'[1] = queue[1]
      BY <1>2, <2>2
    <3>2. dir' = dir
      BY <1>2, <2>2, <3>1 DEF dir
    <3> QED BY <1>1, <3>2 DEF now
  <2>4. Range(queue) \subseteq Range(queue')
    <3> SUFFICES ASSUME NEW i \in 1..Len(queue) PROVE queue[i] \in Range(queue')
      BY <1>2 DEF Range
    <3>1. i \in DOMAIN queue' /\ queue'[i] = queue[i]
      BY <1>2, <2>2
    <3> QED BY <3>1 DEF Range
  <2>5. \A d \in Listed : Reached(d)' =>
          d \in Range(queue') \/ Cardinality(Missed(d)') <= removed'[d]
    BY <1>1, <1>4, <2>2, <2>4, NewlyReached DEF CoveredInv
  <2>6. Passed(now, Cursor) \subseteq Passed(now, offset) \cup Slice(Limit)
    BY <1>1, <2>1, SliceCovers
  <2>7. Cardinality(Passed(now, Cursor) \cap Missed(c)') <= removed'[c]
    BY <1>6, <2>6
  <2>8. Passed(now, offset)' = Passed(now, Cursor) /\ Missed(dir)' = Missed(c)' /\ dir' = c
    BY <2>1, <2>3 DEF Missed, Shown, Passed
  <2>9. Cardinality(Passed(now, offset) \cap Missed(dir))' <= removed'[dir']
    BY <2>7, <2>8
  <2> QED BY <2>5, <2>9 DEF CoveredInv
<1>8. CASE TurnsDirectory
  <2>1. /\ ~More /\ offset' = 0 /\ Queued(Tail(queue))
        /\ walk' = IF queue' = <<>> THEN "done" ELSE "reads"
    BY <1>8 DEF TurnsDirectory, NextDirectory
  <2>2. /\ Tail(queue) \in Seq(Listed) /\ Len(Tail(queue)) = Len(queue) - 1
        /\ \A i \in 1..(Len(queue) - 1) : Tail(queue)[i] = queue[i + 1]
    BY <1>2
  <2>3. /\ queue' \in Seq(Listed) /\ Len(queue') \in Nat /\ Len(queue') >= Len(queue) - 1
        /\ \A i \in 1..(Len(queue) - 1) : queue'[i] = queue[i + 1]
        /\ Directories \subseteq Range(queue')
    BY <1>1, <2>1, <2>2, Queueing
  <2>4. \A d \in Range(queue) : d = dir \/ d \in Range(queue')
    <3> SUFFICES ASSUME NEW i \in 1..Len(queue), i # 1 PROVE queue[i] \in Range(queue')
      BY <1>2 DEF Range
    <3>1. i - 1 \in DOMAIN queue' /\ queue'[i - 1] = queue[i]
      BY <1>2, <2>3
    <3> QED BY <3>1 DEF Range
  <2>5. Cardinality(Missed(c)') <= removed'[c]
    <3>1. Range(now) \subseteq Passed(now, offset) \cup Slice(Limit)
      BY <1>1, <2>1, SliceCovers
    <3>2. Missed(c)' \subseteq Range(now)
      BY <1>3, MissedFinite DEF now
    <3>3. Range(now) \cap Missed(c)' = Missed(c)'
      BY <3>2
    <3>4. Cardinality(Range(now) \cap Missed(c)') <= removed'[c]
      BY <1>6, <3>1
    <3> QED BY <3>3, <3>4
  <2>6. \A d \in Listed : Reached(d)' =>
          d \in Range(queue') \/ Cardinality(Missed(d)') <= removed'[d]
    BY <1>1, <1>4, <2>3, <2>4, <2>5, NewlyReached DEF CoveredInv
  <2>7. ASSUME walk' = "reads"
        PROVE  Cardinality(Passed(now, offset) \cap Missed(dir))' <= removed'[dir']
    <3>1. dir' \in Listed /\ now' \in Seq(Entries) /\ removed'[dir'] \in Nat
      <4>1. queue' \in Seq(Listed) /\ queue' # <<>>
        BY <2>7 DEF WalkTypes, TypeOK
      <4>2. dir' \in Listed
        BY <4>1 DEF dir
      <4> QED BY <4>2 DEF WalkTypes, TypeOK, now
    <3>2. Passed(now', offset') = {}
      BY <2>1, <3>1, PassedIn
    <3>3. Passed(now, offset)' = {}
      BY <3>2 DEF Passed
    <3>4. (Passed(now, offset) \cap Missed(dir))' = {}
      BY <3>3
    <3>5. Cardinality(Passed(now, offset) \cap Missed(dir))' = 0
      BY <3>4, FS_EmptySet
    <3> QED BY <3>1, <3>5
  <2> QED BY <2>6, <2>7 DEF CoveredInv
<1> QED BY <1>7, <1>8

LEMMA CoveredEdit ==
  ASSUME WalkTypes, CoveredInv, NEW d \in Listed, Edited(d) PROVE CoveredInv'
<1>1. /\ walk = "reads" /\ UNCHANGED <<style, target, queue, offset, result, walk>>
      /\ TypeOK /\ \A f \in Listed : removed[f] \in Nat /\ removed'[f] \in Nat
  BY DEF Edited, reader, WalkTypes, TypeOK
<1>2. dir' = dir /\ dir \in Listed /\ now \in Seq(Entries) /\ offset \in Nat
  BY <1>1, Reading DEF dir, TypeOK
<1>3. \A f \in Listed : removed[f] <= removed'[f]
  BY <1>1 DEF Edited
<1>4. ASSUME NEW f \in Listed PROVE Missed(f)' \subseteq Missed(f)
  <2>1. stayed'[f] \subseteq stayed[f]
    BY DEF Edited
  <2> QED BY <1>1, <2>1 DEF Missed, Shown
<1>5. ASSUME NEW f \in Listed, Cardinality(Missed(f)) <= removed[f]
      PROVE  Cardinality(Missed(f)') <= removed'[f]
  <2>1. Cardinality(Missed(f)') <= Cardinality(Missed(f)) /\ Cardinality(Missed(f)') \in Nat
    BY <1>4, MissedFinite, CountFewer
  <2>2. Cardinality(Missed(f)) \in Nat
    BY MissedFinite, FS_CardinalityType
  <2> QED BY <1>1, <1>3, <1>5, <2>1, <2>2
<1>6. \A f \in Listed : Reached(f)' = Reached(f)
  BY <1>1 DEF Reached
<1>7. \A f \in Listed : Reached(f)' =>
        f \in Range(queue') \/ Cardinality(Missed(f)') <= removed'[f]
  BY <1>1, <1>5, <1>6 DEF CoveredInv
<1> PICK c \in Listed : c = dir
  BY <1>2
<1> DEFINE B == Passed(listing[c], offset) \cap Missed(c)
           A == Passed(listing'[c], offset) \cap Missed(c)'
<1>8. IsFiniteSet(B) /\ Cardinality(B) <= removed[c]
  BY <1>1, MissedFinite, CountFewer DEF CoveredInv, now
<1>9. Cardinality(B) \in Nat
  BY <1>8, FS_CardinalityType
<1>10. Cardinality(A) <= removed'[c]
  <2>1. CASE A \subseteq B
    <3>1. Cardinality(A) \in Nat /\ Cardinality(A) <= Cardinality(B)
      BY <1>8, <2>1, CountFewer
    <3> HIDE DEF A, B
    <3> QED BY <1>1, <1>3, <1>8, <1>9, <3>1
  <2>2. ASSUME NEW e, A \subseteq B \cup {e}, removed'[c] = removed[c] + 1
        PROVE  Cardinality(A) <= removed'[c]
    <3>1. Cardinality(A) \in Nat /\ Cardinality(A) <= Cardinality(B) + 1
      BY <1>8, <2>2, CountOneMore
    <3> HIDE DEF A, B
    <3> QED BY <1>1, <1>8, <1>9, <2>2, <3>1
  <2>3. CASE d # c
    <3>1. listing'[c] = listing[c]
      BY <2>3 DEF Edited
    <3> QED BY <1>4, <2>1, <3>1
  <2>4. CASE d = c
    <3>1. PICK e : /\ Passed(listing'[c], offset) \subseteq Passed(listing[c], offset) \cup {e}
                   /\ e \notin stayed'[c] \/ removed'[c] = removed[c] + 1
      BY <1>2, <2>4 DEF Edited
    <3>2. A \subseteq B \cup {e}
      BY <1>4, <3>1
    <3>3. e \notin stayed'[c] => A \subseteq B
      BY <1>4, <3>1 DEF Missed, Shown
    <3> QED BY <2>1, <2>2, <3>1, <3>2, <3>3
  <2> QED BY <2>3, <2>4
<1>11. A = (Passed(now, offset) \cap Missed(dir))' /\ dir' = c
  BY <1>1, <1>2 DEF now, Passed, Missed, Shown
<1> HIDE DEF A
<1> QED BY <1>7, <1>10, <1>11 DEF CoveredInv

LEMMA CoveredInductive ==
  ASSUME WalkTypes, WalkTypes', CoveredInv, [PagingNext]_pagingVars PROVE CoveredInv'
<1>1. CASE Halts \/ Finds
  BY <1>1 DEF Halts, Finds, Stops, CoveredInv
<1>2. CASE UNCHANGED pagingVars
  BY <1>2 DEF pagingVars, reader, edits, CoveredInv, now, dir, Missed, Shown, Reached, Passed
<1> QED BY <1>1, <1>2, CoveredTurn, CoveredEdit, Steps DEF WalkTypes

\* A walk that ends well has missed no more entries of a directory it came to
\* than were removed from it meanwhile (walkProvider, Stat of the Baidu driver).
THEOREM WalkCovers == PagingSpec => []MissesNoMoreThanRemoved
<1>1. WalkTypes /\ CoveredInv => MissesNoMoreThanRemoved
  <2> SUFFICES ASSUME WalkTypes, CoveredInv, walk = "done", NEW d \in Listed, Reached(d)
               PROVE  Cardinality(Shown(d) \ result[d]) <= removed[d]
    BY DEF MissesNoMoreThanRemoved
  <2>1. queue = <<>>
    BY DEF WalkTypes, TypeOK
  <2>2. d \notin Range(queue)
    BY <2>1 DEF Range
  <2> QED BY <2>2 DEF CoveredInv, Missed
<1> QED BY <1>1, WalkTypesInit, WalkTypesInductive, CoveredInit, CoveredInductive, PTL DEF PagingSpec

-------------------------------------------------------------------------------
(* What a walk collects again *)

\* A directory found once is read once; what lies ahead of the offset and was
\* collected already is on its way to be collected again.
OnceInv(d) ==
  /\ again[d] <= inserted[d]
  /\ found[d] = 0 => d \notin Range(queue) /\ result[d] = {}
  /\ \A i \in 2..Len(queue) : queue[i] = d =>
       /\ queue[1] # d /\ result[d] = {}
       /\ \A j \in 2..Len(queue) : queue[j] = d => j = i
  /\ walk = "reads" /\ dir = d =>
       again[d] + Cardinality(Ahead(listing[d], offset) \cap result[d]) <= inserted[d]

OnceAllInv == \A d \in Listed : found[d] <= 1 => OnceInv(d)

LEMMA OnceInit == PagingInit => OnceAllInv
<1> SUFFICES ASSUME PagingInit, NEW d \in Listed PROVE OnceInv(d)
  BY DEF OnceAllInv
<1>1. /\ again[d] = 0 /\ inserted[d] = 0 /\ result[d] = {} /\ queue = <<Root>>
      /\ (d = Root => found[d] = 1)
  BY DEF PagingInit
<1>2. d # Root => d \notin Range(queue)
  BY <1>1 DEF Range
<1>3. Cardinality(Ahead(listing[d], offset) \cap result[d]) = 0
  BY <1>1, FS_EmptySet
<1> QED BY <1>1, <1>2, <1>3 DEF OnceInv

\* What a turn collects again was ahead of the offset, and what is ahead of the
\* next offset was so before.
LEMMA TurnRepeats ==
  ASSUME WalkTypes, walk = "reads", Collect, NEW c \in Listed, c = dir,
         again[c] + Cardinality(Ahead(listing[c], offset) \cap result[c]) <= inserted[c]
  PROVE  /\ again'[c] <= inserted[c]
         /\ More => again'[c] + Cardinality(Ahead(listing[c], Cursor) \cap result'[c]) <= inserted[c]
<1> DEFINE C == Ahead(listing[c], offset) \cap result[c]
           A == Page \cap result[c]
           B == Ahead(listing[c], Cursor) \cap result'[c]
<1>1. /\ listing[c] \in Seq(Entries) /\ now = listing[c] /\ offset \in Nat /\ IsInjective(now)
      /\ again[c] \in Nat /\ inserted[c] \in Nat
  BY DEF now, WalkTypes, TypeOK, ListingsInv
<1>2. IsFiniteSet(C)
  BY <1>1, PassedIn, RangeFinite, CountFewer
<1>3. Page \subseteq Slice(Limit) /\ Slice(Limit) \subseteq Ahead(now, offset)
  BY Reading, SliceCovers DEF WalkTypes
<1>4. A \subseteq C
  BY <1>1, <1>3
<1>5. again'[c] = again[c] + Cardinality(A) /\ result'[c] = result[c] \cup Page
  BY Collecting DEF WalkTypes
<1>6. Cardinality(A) \in Nat /\ Cardinality(A) <= Cardinality(C) /\ Cardinality(C) \in Nat
  BY <1>2, <1>4, CountFewer, FS_CardinalityType
<1>7. again[c] + Cardinality(C) <= inserted[c]
  OBVIOUS
<1>8. again'[c] <= inserted[c]
  <2> HIDE DEF A, C
  <2> QED BY <1>1, <1>5, <1>6, <1>7
<1>9. ASSUME More PROVE again'[c] + Cardinality(B) <= inserted[c]
  <2>1. B \subseteq C /\ A \cap B = {}
    BY <1>1, <1>3, <1>5, <1>9, SliceCovers DEF WalkTypes
  <2>2. Cardinality(B) \in Nat /\ Cardinality(A) + Cardinality(B) <= Cardinality(C)
    BY <1>2, <1>4, <2>1, CountBoth
  <2> HIDE DEF A, B, C
  <2> QED BY <1>1, <1>5, <1>6, <1>7, <2>2
<1> QED BY <1>8, <1>9

LEMMA OnceFinds ==
  ASSUME WalkTypes, WalkTypes', OnceAllInv, Finds PROVE OnceAllInv'
<1> SUFFICES ASSUME NEW d \in Listed, found'[d] <= 1 PROVE OnceInv(d)'
  BY DEF OnceAllInv
<1>1. /\ walk = "reads" /\ Collect /\ walk' = "found" /\ UNCHANGED <<queue, found, inserted>>
      /\ TypeOK
  BY DEF Finds, Quiet, edits, WalkTypes
<1>2. OnceInv(d)
  BY <1>1 DEF OnceAllInv
<1>3. /\ dir \in Listed /\ dir = queue[1] /\ queue \in Seq(Listed)
      /\ Len(queue) \in Nat /\ Len(queue) >= 1
  BY <1>1, Reading DEF TypeOK
<1>4. CASE d = dir
  <2>1. again'[d] <= inserted[d]
    BY <1>1, <1>2, <1>4, TurnRepeats DEF OnceInv
  <2>2. d \in Range(queue)
    BY <1>3, <1>4 DEF Range
  <2> QED BY <1>1, <1>2, <1>3, <1>4, <2>1, <2>2 DEF OnceInv
<1>5. CASE d # dir
  <2>1. result'[d] = result[d] /\ again'[d] = again[d]
    BY <1>1, <1>5, Collecting
  <2> QED BY <1>1, <1>2, <2>1 DEF OnceInv
<1> QED BY <1>4, <1>5

LEMMA OncePage ==
  ASSUME WalkTypes, WalkTypes', OnceAllInv, TurnsPage PROVE OnceAllInv'
<1> SUFFICES ASSUME NEW d \in Listed, found'[d] <= 1 PROVE OnceInv(d)'
  BY DEF OnceAllInv
<1>1. /\ walk = "reads" /\ Collect /\ UNCHANGED <<listing, inserted, walk>>
      /\ More /\ offset' = Cursor /\ Queued(queue) /\ TypeOK
  BY DEF TurnsPage, NextPage, Quiet, edits, WalkTypes
<1>2. /\ dir \in Listed /\ dir = queue[1] /\ queue \in Seq(Listed)
      /\ Len(queue) \in Nat /\ Len(queue) >= 1
      /\ found[d] \in Nat /\ again[d] \in Nat
  BY <1>1, Reading DEF TypeOK
<1>3. /\ queue' \in Seq(Listed) /\ Len(queue') \in Nat /\ Len(queue') >= Len(queue)
      /\ \A i \in 1..Len(queue) : queue'[i] = queue[i]
      /\ \A i \in (Len(queue) + 1)..Len(queue') : queue'[i] \in Directories
      /\ \A i, j \in (Len(queue) + 1)..Len(queue') : queue'[i] = queue'[j] => i = j
  BY <1>1, <1>2, Queueing
<1>4. queue'[1] = queue[1] /\ dir' = dir
  BY <1>2, <1>3 DEF dir
<1>5. found'[d] = IF d \in Directories THEN found[d] + 1 ELSE found[d]
  BY <1>1 DEF Queued
<1>6. OnceInv(d)
  BY <1>2, <1>5 DEF OnceAllInv
<1>7. CASE d \in Directories
  <2>1. found[d] = 0 /\ found'[d] # 0
    BY <1>2, <1>5, <1>7
  <2>2. d \notin Range(queue) /\ result[d] = {} /\ again[d] <= inserted[d]
    BY <1>6, <2>1 DEF OnceInv
  <2>3. \A i \in 1..Len(queue) : queue[i] # d
    BY <1>2, <2>2 DEF Range
  <2>4. d # dir /\ queue'[1] # d
    BY <1>2, <1>4, <2>3
  <2>5. result'[d] = {} /\ again'[d] = again[d]
    BY <1>1, <2>2, <2>4, Collecting
  <2>6. \A i \in 2..Len(queue') : queue'[i] = d => i \in (Len(queue) + 1)..Len(queue')
    BY <1>2, <1>3, <2>3
  <2> QED BY <1>1, <1>3, <1>4, <2>1, <2>2, <2>4, <2>5, <2>6 DEF OnceInv
<1>8. CASE d \notin Directories
  <2>1. found'[d] = found[d]
    BY <1>5, <1>8
  <2>2. \A i \in 1..Len(queue') : queue'[i] = d => i \in 1..Len(queue) /\ queue[i] = d
    BY <1>2, <1>3, <1>8
  <2>3. d \in Range(queue') => d \in Range(queue)
    BY <1>3, <1>2, <2>2 DEF Range
  <2>4. \A i \in 2..Len(queue') : queue'[i] = d => i \in 2..Len(queue) /\ queue[i] = d
    BY <1>2, <1>3, <2>2
  <2>5. CASE d = dir
    <3>1. /\ again'[d] <= inserted[d]
          /\ again'[d] + Cardinality(Ahead(listing[d], Cursor) \cap result'[d]) <= inserted[d]
      BY <1>1, <1>6, <2>5, TurnRepeats DEF OnceInv
    <3>2. Ahead(listing[d], offset)' = Ahead(listing[d], Cursor)
      BY <1>1 DEF Ahead
    <3>3. d \in Range(queue)
      BY <1>2, <2>5 DEF Range
    <3>4. \A i \in 2..Len(queue') : queue'[i] # d
      BY <1>2, <1>6, <2>4, <2>5 DEF OnceInv
    <3> QED BY <1>1, <1>6, <2>1, <3>1, <3>2, <3>3, <3>4 DEF OnceInv
  <2>6. CASE d # dir
    <3>1. result'[d] = result[d] /\ again'[d] = again[d]
      BY <1>1, <2>6, Collecting
    <3> QED BY <1>1, <1>4, <1>6, <2>1, <2>3, <2>4, <2>6, <3>1 DEF OnceInv
  <2> QED BY <2>5, <2>6
<1> QED BY <1>7, <1>8

LEMMA OnceDirectory ==
  ASSUME WalkTypes, WalkTypes', OnceAllInv, TurnsDirectory PROVE OnceAllInv'
<1> SUFFICES ASSUME NEW d \in Listed, found'[d] <= 1 PROVE OnceInv(d)'
  BY DEF OnceAllInv
<1> DEFINE n == Len(queue) - 1
<1>1. /\ walk = "reads" /\ Collect /\ UNCHANGED <<listing, inserted>>
      /\ Queued(Tail(queue)) /\ TypeOK
      /\ walk' = "reads" => queue' # <<>>
  BY DEF TurnsDirectory, NextDirectory, Quiet, edits, WalkTypes
<1>2. /\ dir \in Listed /\ dir = queue[1] /\ queue \in Seq(Listed)
      /\ Len(queue) \in Nat /\ Len(queue) >= 1 /\ n \in Nat /\ Len(queue) = n + 1
      /\ found[d] \in Nat /\ again[d] \in Nat /\ inserted[d] \in Nat
  <2>1. dir \in Listed /\ dir = queue[1] /\ Len(queue) \in Nat /\ Len(queue) >= 1
    BY <1>1, Reading
  <2>2. /\ queue \in Seq(Listed)
        /\ found[d] \in Nat /\ again[d] \in Nat /\ inserted[d] \in Nat
    BY <1>1 DEF TypeOK
  <2> QED BY <2>1, <2>2
<1>3. /\ Tail(queue) \in Seq(Listed) /\ Len(Tail(queue)) = n
      /\ \A i \in 1..n : Tail(queue)[i] = queue[i + 1]
  BY <1>2
<1>4. /\ queue' \in Seq(Listed) /\ Len(queue') \in Nat /\ Len(queue') >= n
      /\ \A i \in 1..n : queue'[i] = queue[i + 1]
      /\ \A i \in (n + 1)..Len(queue') : queue'[i] \in Directories
      /\ \A i, j \in (n + 1)..Len(queue') : queue'[i] = queue'[j] => i = j
  BY <1>1, <1>3, Queueing
<1> HIDE DEF n
<1>5. found'[d] = IF d \in Directories THEN found[d] + 1 ELSE found[d]
  BY <1>1 DEF Queued
<1>6. OnceInv(d)
  BY <1>2, <1>5 DEF OnceAllInv
<1>7. walk' = "reads" /\ dir' = d => Len(queue') >= 1 /\ queue'[1] = d
  BY <1>1, <1>4 DEF dir
<1>8. again'[d] <= inserted[d] /\ result'[d] = {} =>
        again'[d] + Cardinality(Ahead(listing[d], offset) \cap result[d])' <= inserted'[d]
  <2> SUFFICES ASSUME again'[d] <= inserted[d], result'[d] = {}
               PROVE  again'[d] + Cardinality(Ahead(listing[d], offset) \cap result[d])' <= inserted'[d]
    OBVIOUS
  <2>1. (Ahead(listing[d], offset) \cap result[d])' = {}
    OBVIOUS
  <2>2. Cardinality(Ahead(listing[d], offset) \cap result[d])' = 0
    BY <2>1, FS_EmptySet
  <2>3. again'[d] \in Nat
    BY DEF WalkTypes, TypeOK
  <2> QED BY <1>1, <2>2, <2>3
<1>9. CASE d \in Directories
  <2>1. found[d] = 0 /\ found'[d] # 0
    BY <1>2, <1>5, <1>9
  <2>2. d \notin Range(queue) /\ result[d] = {} /\ again[d] <= inserted[d]
    BY <1>6, <2>1 DEF OnceInv
  <2>3. \A i \in 1..Len(queue) : queue[i] # d
    BY <1>2, <2>2 DEF Range
  <2>4. d # dir
    BY <1>2, <2>3
  <2>5. result'[d] = {} /\ again'[d] = again[d]
    BY <1>1, <2>2, <2>4, Collecting
  <2>6. \A i \in 1..Len(queue') : queue'[i] = d => i \in (n + 1)..Len(queue')
    <3> SUFFICES ASSUME NEW i \in 1..n PROVE queue'[i] # d
      BY <1>2, <1>4
    <3>1. i + 1 \in 1..Len(queue)
      BY <1>2
    <3> QED BY <1>4, <2>3, <3>1
  <2>7. \A i \in 2..Len(queue') : queue'[i] = d =>
          /\ queue'[1] # d /\ \A j \in 2..Len(queue') : queue'[j] = d => j = i
    <3> SUFFICES ASSUME NEW i \in 2..Len(queue'), queue'[i] = d,
                        NEW j \in 1..Len(queue'), queue'[j] = d
                 PROVE  j = i
      BY <1>4
    <3>1. i \in 1..Len(queue')
      BY <1>4
    <3> QED BY <1>4, <2>6, <3>1
  <2> QED BY <1>1, <1>8, <2>1, <2>2, <2>5, <2>7 DEF OnceInv
<1>10. CASE d \notin Directories
  <2>1. found'[d] = found[d]
    BY <1>5, <1>10
  <2>2. \A i \in 1..Len(queue') : queue'[i] = d => i + 1 \in 2..Len(queue) /\ queue[i + 1] = d
    <3> SUFFICES ASSUME NEW i \in 1..Len(queue'), queue'[i] = d
                 PROVE  i + 1 \in 2..Len(queue) /\ queue[i + 1] = d
      OBVIOUS
    <3>1. i \in 1..n
      BY <1>2, <1>4, <1>10
    <3> QED BY <1>2, <1>4, <3>1
  <2>3. d \in Range(queue') => d \in Range(queue)
    <3> SUFFICES ASSUME NEW i \in 1..Len(queue'), queue'[i] = d PROVE d \in Range(queue)
      BY <1>4 DEF Range
    <3>1. i + 1 \in DOMAIN queue /\ queue[i + 1] = d
      BY <1>2, <2>2
    <3> QED BY <3>1 DEF Range
  <2>4. CASE d = dir
    <3>1. again'[d] <= inserted[d]
      BY <1>1, <1>6, <2>4, TurnRepeats DEF OnceInv
    <3>2. \A i \in 1..Len(queue') : queue'[i] # d
      BY <1>2, <1>6, <2>2, <2>4 DEF OnceInv
    <3>3. d \in Range(queue)
      BY <1>2, <2>4 DEF Range
    <3>4. ~(walk' = "reads" /\ dir' = d)
      BY <1>4, <1>7, <3>2
    <3>5. \A i \in 2..Len(queue') : queue'[i] # d
      BY <1>4, <3>2
    <3> QED BY <1>1, <1>6, <2>1, <3>1, <3>3, <3>4, <3>5 DEF OnceInv
  <2>5. CASE d # dir
    <3>1. result'[d] = result[d] /\ again'[d] = again[d] /\ again[d] <= inserted[d]
      BY <1>1, <1>6, <2>5, Collecting DEF OnceInv
    <3>2. \A i \in 2..Len(queue) : queue[i] = d =>
            result[d] = {} /\ \A j \in 2..Len(queue) : queue[j] = d => j = i
      BY <1>6 DEF OnceInv
    <3>3. \A i \in 1..Len(queue') : queue'[i] = d =>
            result[d] = {} /\ \A j \in 1..Len(queue') : queue'[j] = d => j = i
      <4> SUFFICES ASSUME NEW i \in 1..Len(queue'), queue'[i] = d
                   PROVE  result[d] = {} /\ \A j \in 1..Len(queue') : queue'[j] = d => j = i
        OBVIOUS
      <4>1. i + 1 \in 2..Len(queue) /\ queue[i + 1] = d
        BY <2>2
      <4>2. ASSUME NEW j \in 1..Len(queue'), queue'[j] = d PROVE j = i
        <5>1. j + 1 \in 2..Len(queue) /\ queue[j + 1] = d
          BY <2>2, <4>2
        <5>2. j + 1 = i + 1
          BY <3>2, <4>1, <5>1
        <5> QED BY <1>4, <5>2
      <4> QED BY <3>2, <4>1, <4>2
    <3>4. \A i \in 2..Len(queue') : queue'[i] = d =>
            /\ queue'[1] # d /\ result[d] = {}
            /\ \A j \in 2..Len(queue') : queue'[j] = d => j = i
      <4> SUFFICES ASSUME NEW i \in 2..Len(queue'), queue'[i] = d
                   PROVE  /\ queue'[1] # d /\ result[d] = {}
                          /\ \A j \in 2..Len(queue') : queue'[j] = d => j = i
        OBVIOUS
      <4>1. i \in 1..Len(queue') /\ 1 \in 1..Len(queue') /\ i # 1
        BY <1>4
      <4>2. \A j \in 2..Len(queue') : j \in 1..Len(queue')
        BY <1>4
      <4> QED BY <3>3, <4>1, <4>2
    <3>5. walk' = "reads" /\ dir' = d => result[d] = {}
      <4> SUFFICES ASSUME walk' = "reads", dir' = d PROVE result[d] = {}
        OBVIOUS
      <4>1. 1 \in 1..Len(queue') /\ queue'[1] = d
        BY <1>4, <1>7
      <4> QED BY <3>3, <4>1
    <3> QED BY <1>1, <1>6, <1>8, <2>1, <2>3, <3>1, <3>4, <3>5 DEF OnceInv
  <2> QED BY <2>4, <2>5
<1> QED BY <1>9, <1>10

LEMMA OnceEdit ==
  ASSUME WalkTypes, OnceAllInv, NEW f \in Listed, Edited(f) PROVE OnceAllInv'
<1> SUFFICES ASSUME NEW d \in Listed, found'[d] <= 1 PROVE OnceInv(d)'
  BY DEF OnceAllInv
<1>1. /\ walk = "reads" /\ UNCHANGED <<queue, offset, result, walk, found, again>>
      /\ TypeOK /\ again[d] \in Nat /\ inserted[d] \in Nat /\ inserted'[d] \in Nat
      /\ offset \in Nat /\ listing[d] \in Seq(Entries)
  BY DEF Edited, reader, WalkTypes, TypeOK
<1>2. OnceInv(d) /\ dir' = dir
  BY <1>1 DEF OnceAllInv, dir
<1>3. inserted[d] <= inserted'[d]
  <2>1. d # f => inserted'[d] = inserted[d]
    BY DEF Edited
  <2>2. d = f => inserted[d] <= inserted'[d]
    BY DEF Edited
  <2> QED BY <1>1, <2>1, <2>2
<1>4. again'[d] <= inserted'[d]
  BY <1>1, <1>2, <1>3 DEF OnceInv
<1> DEFINE C == Ahead(listing[d], offset) \cap result[d]
           B == Ahead(listing'[d], offset) \cap result[d]
<1>5. ASSUME dir = d PROVE again'[d] + Cardinality(B) <= inserted'[d]
  <2>1. IsFiniteSet(C)
    BY <1>1, PassedIn, RangeFinite, CountFewer
  <2>2. again[d] + Cardinality(C) <= inserted[d] /\ Cardinality(C) \in Nat
    BY <1>1, <1>2, <1>5, <2>1, FS_CardinalityType DEF OnceInv
  <2>3. CASE B \subseteq C
    <3>1. Cardinality(B) \in Nat /\ Cardinality(B) <= Cardinality(C)
      BY <2>1, <2>3, CountFewer
    <3> HIDE DEF B, C
    <3> QED BY <1>1, <1>3, <2>2, <3>1
  <2>4. ASSUME NEW e, B \subseteq C \cup {e}, inserted'[d] = inserted[d] + 1
        PROVE  again'[d] + Cardinality(B) <= inserted'[d]
    <3>1. Cardinality(B) \in Nat /\ Cardinality(B) <= Cardinality(C) + 1
      BY <2>1, <2>4, CountOneMore
    <3> HIDE DEF B, C
    <3> QED BY <1>1, <2>2, <2>4, <3>1
  <2>5. CASE f # d
    <3>1. listing'[d] = listing[d]
      BY <2>5 DEF Edited
    <3> QED BY <2>3, <3>1
  <2>6. CASE f = d
    <3>1. \/ Ahead(listing'[d], offset) \subseteq Ahead(listing[d], offset)
          \/ /\ inserted'[d] = inserted[d] + 1
             /\ \E e : Ahead(listing'[d], offset) \subseteq Ahead(listing[d], offset) \cup {e}
      BY <1>1, <2>6 DEF Edited
    <3>2. CASE Ahead(listing'[d], offset) \subseteq Ahead(listing[d], offset)
      BY <2>3, <3>2
    <3>3. ASSUME inserted'[d] = inserted[d] + 1, NEW e,
                 Ahead(listing'[d], offset) \subseteq Ahead(listing[d], offset) \cup {e}
          PROVE  again'[d] + Cardinality(B) <= inserted'[d]
      <4>1. B \subseteq C \cup {e}
        BY <3>3
      <4> QED BY <2>4, <3>3, <4>1
    <3> QED BY <3>1, <3>2, <3>3
  <2> QED BY <2>5, <2>6
<1>6. (Ahead(listing[d], offset) \cap result[d])' = B
  BY <1>1 DEF Ahead
<1> HIDE DEF B
<1> QED BY <1>1, <1>2, <1>4, <1>5, <1>6 DEF OnceInv

LEMMA OnceInductive ==
  ASSUME WalkTypes, WalkTypes', OnceAllInv, [PagingNext]_pagingVars PROVE OnceAllInv'
<1>1. CASE Halts
  <2>1. walk' # "reads" /\ UNCHANGED <<queue, result, found, again, inserted>>
    BY <1>1 DEF Halts, Stops, Quiet, edits
  <2> QED BY <2>1 DEF OnceAllInv, OnceInv
<1>2. CASE UNCHANGED pagingVars
  <2>1. UNCHANGED <<listing, queue, offset, result, walk, found, again, inserted>> /\ dir' = dir
    BY <1>2 DEF pagingVars, reader, edits, dir
  <2>2. ASSUME NEW d \in Listed PROVE Ahead(listing[d], offset)' = Ahead(listing[d], offset)
    BY <2>1 DEF Ahead
  <2> QED BY <2>1, <2>2 DEF OnceAllInv, OnceInv
<1> QED BY <1>1, <1>2, OnceFinds, OncePage, OnceDirectory, OnceEdit, Steps DEF WalkTypes

\* A directory that is found once yields an entry again at most as often as
\* something was inserted into it (walkProvider, the selection of a download).
THEOREM WalkRepeats == PagingSpec => []TwiceNoMoreThanInserted
<1>1. OnceAllInv => TwiceNoMoreThanInserted
  BY DEF OnceAllInv, OnceInv, TwiceNoMoreThanInserted
<1> QED BY <1>1, WalkTypesInit, WalkTypesInductive, OnceInit, OnceInductive, PTL DEF PagingSpec

-------------------------------------------------------------------------------
(* Content: a request for a file or a range of it *)

Parsed == {"stats", "opens", "copies", "complete", "broken"}
Opened == {"copies", "complete", "broken"}

TypesInv ==
  /\ kind \in Kinds /\ file \in Versions \cup {Absent} /\ indexed \in Versions
  /\ route \in {"media", "object"} /\ asked \in Ranges \cup {Whole}
  /\ disturbed \in BOOLEAN
  /\ at \in {"asks", "ended"} \cup Parsed
  /\ at \in Parsed => known \in Versions
  /\ at \in {"opens"} \cup Opened => seen \in Versions
  /\ at \in Opened =>
       /\ body \in [of : Versions, from : Nat, upto : Nat]
       /\ answer \in [status : {200, 206}, first : Nat, length : Int, total : Nat]
  /\ at \notin Opened => answer.status # 206

\* What parseRange has made of the header: it begins where it was asked to and
\* ends there or at the size that the handler knew.
RangeInv ==
  at \in Parsed =>
    IF asked = Whole THEN range = Whole
    ELSE /\ range \in Nat \X Nat /\ range[1] = asked[1] /\ range[2] > 0
         /\ range[1] + range[2] = asked[2] + 1 \/ range[1] + range[2] = SizeOf[known]

\* While the file is not disturbed, Stat, Open and the headers speak of one file.
FileInv ==
  /\ at \in {"opens"} \cup Opened /\ ~disturbed => seen = file
  /\ at \in Opened /\ ~disturbed =>
       /\ body.of = file /\ body.from = answer.first /\ answer.length >= 0
       /\ body.upto = answer.first + answer.length /\ body.upto <= SizeOf[file]
       /\ answer.total = SizeOf[file]
       /\ answer.status = 200 => answer.length = SizeOf[file]
       /\ answer.status = 206 =>
            /\ asked # Whole /\ answer.first = range[1]
            /\ answer.length = range[2] \/ answer.first + answer.length = SizeOf[file]

ContentInv ==
  /\ TypesInv /\ RangeInv /\ FileInv /\ BrokenOnlyByChange /\ LocalRangeIsSane

\* The two ends of a header's range.
LEMMA RangeTyped ==
  ASSUME NEW r \in Ranges
  PROVE  r # Whole /\ r[1] \in Nat /\ (r[2] = -1 \/ r[2] \in Nat)
<1>1. r = <<r[1], r[2]>> /\ r[1] \in Ends /\ r[2] \in Ends \cup {-1}
  BY DEF Ranges
<1>2. r[1] \in Nat /\ (r[2] = -1 \/ r[2] \in Nat)
  BY <1>1, ContentAssumption
<1>3. <<r[1], r[2]>> \in Int \X Int
  BY <1>2
<1> QED BY <1>1, <1>2, <1>3, ContentAssumption

\* Cut keeps the start of a range and ends it within n bytes (parseRange).
LEMMA CutWithin ==
  ASSUME NEW r \in Ranges, NEW n \in Nat, ~Invalid(r, n)
  PROVE  LET c == Cut(r, n) IN
         /\ c \in Nat \X Nat /\ c # Whole /\ c[1] = r[1] /\ c[2] > 0
         /\ c[1] + c[2] = r[2] + 1 \/ c[1] + c[2] = n
<1> USE ContentAssumption
<1>1. r # Whole /\ r[1] \in Nat /\ (r[2] = -1 \/ r[2] \in Nat)
  BY RangeTyped
<1>2. r[1] < n /\ (r[2] = -1 \/ r[2] >= r[1])
  BY <1>1 DEF Invalid
<1> DEFINE end == IF r[2] = -1 \/ r[2] >= n THEN n - 1 ELSE r[2]
<1>3. Cut(r, n) = <<r[1], end - r[1] + 1>>
  BY <1>1 DEF Cut
<1>4. end \in Int /\ end >= r[1] /\ (end = r[2] \/ end = n - 1)
  BY <1>1, <1>2
<1> HIDE DEF end
<1>5. end - r[1] + 1 \in Nat /\ end - r[1] + 1 > 0
  BY <1>1, <1>4
<1>6. <<r[1], end - r[1] + 1>> \in Nat \X Nat
  BY <1>1, <1>5
<1>7. r[1] + (end - r[1] + 1) = end + 1
  BY <1>1, <1>4
<1> QED BY <1>1, <1>3, <1>4, <1>5, <1>6, <1>7

\* The length of a reader and of the headers never goes beyond what Stat saw,
\* if the range begins there.
LEMMA LengthWithin ==
  ASSUME ContentInv, at = "opens", range # Whole
  PROVE  /\ Length \in Int
         /\ range[1] < SizeOf[seen] =>
              /\ Length > 0 /\ range[1] + Length <= SizeOf[seen]
              /\ Length = range[2] \/ range[1] + Length = SizeOf[seen]
         /\ range[1] < SizeOf[seen] =>
              range[1] + Length = IF range[1] + range[2] > SizeOf[seen] THEN SizeOf[seen] ELSE range[1] + range[2]
<1>1. range \in Nat \X Nat /\ range[2] > 0
  BY DEF ContentInv, TypesInv, RangeInv, Parsed
<1>2. SizeOf[seen] \in Nat
  BY ContentAssumption DEF ContentInv, TypesInv
<1> QED BY <1>1, <1>2 DEF Length

\* A reader that is opened announces the file that Stat saw, which is the one
\* opened unless it was disturbed (the end of Open and the headers).
LEMMA OpensStep ==
  ASSUME ContentInv, at = "opens", file # Absent,
         NEW from \in Nat, NEW upto \in Nat, NEW applied \in BOOLEAN,
         Opens(from, upto, applied), UNCHANGED <<store, disturbed>>,
         ~applied => from = 0 /\ upto = SizeOf[file],
         applied => /\ range # Whole /\ from = range[1]
                    /\ seen = file => range[1] < SizeOf[seen] /\ upto = range[1] + Length,
         kind = "local" /\ applied => range[1] < SizeOf[seen]
  PROVE  ContentInv'
<1> USE ContentAssumption
<1>1. at \in Parsed /\ at \notin Opened /\ seen \in Versions /\ file \in Versions /\ disturbed \in BOOLEAN
  BY DEF ContentInv, TypesInv, Parsed, Opened
<1>2. SizeOf[seen] \in Nat /\ SizeOf[file] \in Nat
  BY <1>1
<1>3. at' = "copies" /\ body' = [of |-> file, from |-> from, upto |-> upto]
  BY DEF Opens
<1>4. UNCHANGED <<kind, file, indexed, changes, route, asked, known, range, seen, disturbed>>
  BY DEF Opens, store
<1>5. ~disturbed => seen = file
  BY DEF ContentInv, FileInv
<1>6. RangeInv' /\ BrokenOnlyByChange'
  BY <1>1, <1>3, <1>4 DEF ContentInv, RangeInv, BrokenOnlyByChange, Parsed
<1>7. CASE ~applied
  <2>1. answer' = [status |-> 200, first |-> 0, length |-> SizeOf[seen], total |-> SizeOf[seen]]
    BY <1>7 DEF Opens, Announce, Partial
  <2>2. TypesInv'
    BY <1>1, <1>2, <1>3, <1>4, <2>1 DEF ContentInv, TypesInv, Parsed, Opened
  <2>3. FileInv'
    BY <1>2, <1>3, <1>4, <1>5, <1>7, <2>1 DEF FileInv, Opened
  <2> QED BY <1>6, <2>1, <2>2, <2>3 DEF ContentInv, LocalRangeIsSane
<1>8. CASE applied
  <2>0. range \in Nat \X Nat /\ range[2] > 0 /\ asked # Whole
    BY <1>1, <1>8 DEF ContentInv, RangeInv
  <2>1. answer' = [status |-> 206, first |-> range[1], length |-> Length, total |-> SizeOf[seen]]
    BY <1>8 DEF Opens, Announce, Partial
  <2>2. TypesInv'
    BY <1>1, <1>2, <1>3, <1>4, <1>8, <2>0, <2>1, LengthWithin DEF ContentInv, TypesInv, Parsed, Opened
  <2>3. FileInv'
    <3> SUFFICES ASSUME ~disturbed PROVE FileInv'
      BY <1>4 DEF FileInv
    <3>1. seen = file
      BY <1>5
    <3>2. /\ Length > 0 /\ range[1] + Length <= SizeOf[file] /\ upto = range[1] + Length
          /\ Length = range[2] \/ range[1] + Length = SizeOf[file]
      BY <1>8, <3>1, LengthWithin
    <3>3. body'.of = file' /\ body'.from = range[1] /\ body'.upto = range[1] + Length
      BY <1>3, <1>4, <1>8, <3>2
    <3>4. /\ answer'.status = 206 /\ answer'.first = range[1] /\ answer'.length = Length
          /\ answer'.total = SizeOf[file']
      BY <1>4, <2>1, <3>1
    <3>5. Length \in Int /\ range[1] \in Nat
      BY <2>0, <1>8, LengthWithin
    <3> HIDE DEF Length
    <3> QED BY <1>3, <1>4, <2>0, <3>1, <3>2, <3>3, <3>4, <3>5 DEF FileInv, Opened
  <2>4. LocalRangeIsSane'
    BY <1>4, <1>8, <2>1, LengthWithin DEF LocalRangeIsSane
  <2> QED BY <1>6, <2>2, <2>3, <2>4 DEF ContentInv
<1> QED BY <1>7, <1>8

\* A request that fails has announced no range.
LEMMA FailsStep ==
  ASSUME ContentInv, NEW status \in {404, 416, 500}, Fails(status),
         UNCHANGED <<store, disturbed>>, UNCHANGED <<route, asked>>
  PROVE  ContentInv'
<1>1. at' = "ended" /\ answer'.status = status
  BY DEF Fails, NoAnswer
<1> QED BY <1>1 DEF ContentInv, TypesInv, RangeInv, FileInv, BrokenOnlyByChange, LocalRangeIsSane, Parsed, Opened, store

\* Every step of the handlers, of the drivers and of those who change the file.
LEMMA ContentInductive == ContentInv /\ [Next]_vars => ContentInv'
<1> SUFFICES ASSUME ContentInv, [Next]_vars PROVE ContentInv'
  OBVIOUS
<1> USE ContentAssumption
<1>1. CASE Ask
  <2>1. CASE Fails(404) \/ Fails(416)
    BY <1>1, <2>1, FailsStep DEF Ask, request
  <2>2. CASE /\ Known # Absent /\ ~Invalid(asked, SizeOf[Known])
             /\ known' = Known /\ range' = Cut(asked, SizeOf[Known])
             /\ at' = "stats" /\ UNCHANGED <<route, asked, seen, body, answer>>
    <3>1. Known \in Versions /\ SizeOf[Known] \in Nat /\ at \notin Opened /\ at # "opens"
      BY <1>1, <2>2 DEF Ask, Known, ContentInv, TypesInv, Opened
    <3>2. UNCHANGED <<kind, file, indexed, disturbed>>
      BY <1>1 DEF Ask, store
    <3>3. RangeInv'
      <4>1. CASE asked = Whole
        BY <2>2, <4>1 DEF RangeInv, Cut
      <4>2. CASE asked # Whole
        <5>1. asked \in Ranges
          BY <4>2 DEF ContentInv, TypesInv
        <5>2. asked[2] \in Int
          BY <5>1, RangeTyped
        <5> DEFINE n == SizeOf[Known]
        <5>3. /\ range' \in Nat \X Nat /\ range' # Whole /\ range'[1] = asked[1] /\ range'[2] > 0
              /\ range'[1] + range'[2] = asked[2] + 1 \/ range'[1] + range'[2] = SizeOf[Known]
          <6>1. ~Invalid(asked, n) /\ n \in Nat /\ range' = Cut(asked, n)
            BY <2>2, <3>1
          <6> HIDE DEF n
          <6> QED BY <5>1, <6>1, CutWithin DEF n
        <5> QED BY <2>2, <4>2, <5>3 DEF RangeInv
      <4> QED BY <4>1, <4>2
    <3> QED BY <2>2, <3>1, <3>2, <3>3
      DEF ContentInv, TypesInv, FileInv, BrokenOnlyByChange, LocalRangeIsSane, Parsed, Opened
  <2> QED BY <1>1, <2>1, <2>2 DEF Ask
<1>2. CASE Stat
  <2>1. CASE file = Absent
    BY <1>2, <2>1, FailsStep DEF Stat, request
  <2>2. CASE file # Absent
    BY <1>2, <2>2
    DEF Stat, store, ContentInv, TypesInv, RangeInv, FileInv, BrokenOnlyByChange, LocalRangeIsSane, Parsed, Opened
  <2> QED BY <2>1, <2>2
<1>3. CASE Open
  <2>0. at = "opens" /\ UNCHANGED <<store, disturbed>>
    BY <1>3 DEF Open
  <2>1. CASE Fails(404) \/ Fails(500)
    <3>1. UNCHANGED request \/ (UNCHANGED <<route, asked>>)
      BY <1>3 DEF Open, OpenLocal, OpenRemote, Opens
    <3>2. UNCHANGED <<route, asked>>
      BY <3>1 DEF request
    <3> QED BY <2>0, <2>1, <3>2, FailsStep
  <2>2. CASE file # Absent /\ ~Fails(404) /\ ~Fails(500)
    <3>1. file \in Versions /\ SizeOf[file] \in Nat /\ SizeOf[seen] \in Nat
      BY <2>0, <2>2 DEF ContentInv, TypesInv
    <3>2. range = Whole \/ (range \in Nat \X Nat /\ range[2] > 0)
      BY <2>0 DEF ContentInv, RangeInv, Parsed
    <3>3. CASE kind = "local"
      <4>1. OpenLocal /\ ~BehindTheEnd
        BY <1>3, <2>2, <3>3 DEF Open, OpenLocal
      <4>2. CASE range = Whole
        <5>1. Opens(0, SizeOf[file], FALSE)
          BY <4>1, <4>2 DEF OpenLocal
        <5> QED BY <2>0, <2>2, <3>1, <5>1, OpensStep
      <4>3. CASE range # Whole
        <5>1. Opens(range[1], range[1] + Length, TRUE)
          BY <4>1, <4>3 DEF OpenLocal
        <5>2. range[1] < SizeOf[seen] /\ range[1] \in Nat
          BY <3>1, <3>2, <4>1, <4>3 DEF BehindTheEnd
        <5>3. range[1] + Length \in Nat
          BY <2>0, <4>3, <5>2, LengthWithin
        <5> QED BY <2>0, <2>2, <4>3, <5>1, <5>2, <5>3, OpensStep
      <4> QED BY <4>2, <4>3
    <3>4. CASE kind # "local"
      <4>1. OpenRemote
        BY <1>3, <2>2, <3>4 DEF Open
      <4>2. CASE Opens(0, SizeOf[file], FALSE)
        BY <2>0, <2>2, <3>1, <4>2, OpensStep
      <4>3. CASE ~Opens(0, SizeOf[file], FALSE)
        <5> DEFINE end == IF range[1] + range[2] > SizeOf[file] THEN SizeOf[file] ELSE range[1] + range[2]
        <5>1. range # Whole /\ ~(range[1] >= SizeOf[file]) /\ Opens(range[1], end, TRUE)
          BY <2>2, <4>1, <4>3 DEF OpenRemote
        <5>2. range[1] \in Nat /\ end \in Nat /\ range[1] < SizeOf[file]
          BY <3>1, <3>2, <5>1
        <5>3. seen = file => range[1] < SizeOf[seen] /\ end = range[1] + Length
          BY <2>0, <5>1, <5>2, LengthWithin
        <5> HIDE DEF end
        <5> QED BY <2>0, <2>2, <3>4, <5>1, <5>2, <5>3, OpensStep
      <4> QED BY <4>2, <4>3
    <3> QED BY <3>3, <3>4
  <2> QED BY <1>3, <2>1, <2>2 DEF Open
<1>4. CASE Copy
  <2>1. at = "copies" /\ at' \in {"complete", "broken"} /\ UNCHANGED <<store, request, answer, disturbed>>
    BY <1>4 DEF Copy
  <2>2. ~disturbed => Available = answer.length
    <3> SUFFICES ASSUME ~disturbed PROVE Available = answer.length
      OBVIOUS
    <3>1. /\ body \in [of : Versions, from : Nat, upto : Nat] /\ answer.length \in Int
          /\ answer.length >= 0 /\ body.upto = body.from + answer.length /\ body.upto <= SizeOf[body.of]
      BY <2>1 DEF ContentInv, TypesInv, FileInv, Opened
    <3>2. SizeOf[body.of] \in Nat
      BY <3>1
    <3> QED BY <3>1, <3>2 DEF Available, Least
  <2>3. BrokenOnlyByChange'
    BY <1>4, <2>1, <2>2 DEF Copy, BrokenOnlyByChange
  <2> QED BY <2>1, <2>3
    DEF ContentInv, TypesInv, RangeInv, FileInv, LocalRangeIsSane, store, request, Parsed, Opened
<1>5. CASE Replace \/ Rewrite
  <2>1. /\ UNCHANGED <<kind, indexed, route, asked, known, range, seen, at, answer>>
        /\ file' \in Versions \cup {Absent} /\ disturbed' \in BOOLEAN
        /\ at # "asks" => disturbed'
    BY <1>5, Zenon DEF Replace, Rewrite, request
  <2>2. at \in Opened => body' \in [of : Versions, from : Nat, upto : Nat]
    <3>1. CASE Replace
      BY <3>1 DEF Replace, request, ContentInv, TypesInv
    <3>2. CASE Rewrite
      <4>1. PICK v \in Versions :
              body' = IF kind = "local" /\ body.of = file
                      THEN [body EXCEPT !.of = v, !.upto = IF range = Whole THEN SizeOf[v] ELSE @]
                      ELSE body
        BY <3>2 DEF Rewrite
      <4>2. SizeOf[v] \in Nat
        OBVIOUS
      <4>3. at \in Opened => body \in [of : Versions, from : Nat, upto : Nat]
        BY DEF ContentInv, TypesInv
      <4> QED BY <4>1, <4>2, <4>3
    <3> QED BY <1>5, <3>1, <3>2
  <2>3. at # "broken"
    BY <1>5 DEF Replace, Rewrite, Busy
  <2> QED BY <2>1, <2>2, <2>3
    DEF ContentInv, TypesInv, RangeInv, FileInv, BrokenOnlyByChange, LocalRangeIsSane, Parsed, Opened
<1>6. CASE Scan
  BY <1>6
  DEF Scan, request, ContentInv, TypesInv, RangeInv, FileInv, BrokenOnlyByChange, LocalRangeIsSane, Parsed, Opened
<1>7. CASE UNCHANGED vars
  BY <1>7
  DEF vars, store, request, ContentInv, TypesInv, RangeInv, FileInv, BrokenOnlyByChange, LocalRangeIsSane, Parsed, Opened
<1> QED BY <1>1, <1>2, <1>3, <1>4, <1>5, <1>6, <1>7 DEF Next

\* The invariant holds before anything is read.
LEMMA ContentInitially == Init => ContentInv
<1> SUFFICES ASSUME Init PROVE ContentInv
  OBVIOUS
<1>1. disturbed \in BOOLEAN
  BY Zenon DEF Init
<1> QED BY <1>1
  DEF Init, NoAnswer, ContentInv, TypesInv, RangeInv, FileInv, BrokenOnlyByChange, LocalRangeIsSane, Parsed, Opened

\* A request that nothing disturbs is answered with what it asked for
\* (handleMediaContent, handleStorageObjectContent, Open).
THEOREM Undisturbed == Spec => []UndisturbedIsRight
<1>1. ContentInv => UndisturbedIsRight
  <2> SUFFICES ASSUME ContentInv, at = "complete", ~disturbed PROVE UndisturbedIsRight
    BY DEF UndisturbedIsRight
  <2>1. /\ body \in [of : Versions, from : Nat, upto : Nat]
        /\ answer \in [status : {200, 206}, first : Nat, length : Int, total : Nat]
    BY DEF ContentInv, TypesInv, Opened
  <2>2. CASE answer.status = 206
    <3>1. /\ asked \in Ranges /\ range[1] = asked[1] /\ range \in Nat \X Nat
          /\ range[1] + range[2] = asked[2] + 1 \/ range[1] + range[2] = SizeOf[known]
      BY <2>2 DEF ContentInv, TypesInv, RangeInv, FileInv, Parsed, Opened
    <3>2. asked[2] \in Int
      BY <3>1, RangeTyped
    <3> QED BY <2>1, <2>2, <3>1, <3>2 DEF ContentInv, FileInv, Opened, UndisturbedIsRight
  <2>3. CASE answer.status # 206
    BY <2>1, <2>3 DEF ContentInv, FileInv, Opened, UndisturbedIsRight
  <2> QED BY <2>2, <2>3
<1> QED BY <1>1, ContentInitially, ContentInductive, PTL DEF Spec

\* Without a change every answer is complete (Open and io.CopyBuffer).
THEOREM BrokenByChange == Spec => []BrokenOnlyByChange
<1>1. ContentInv => BrokenOnlyByChange
  BY DEF ContentInv
<1> QED BY <1>1, ContentInitially, ContentInductive, PTL DEF Spec

\* The range announced for a local file is sane at every interleaving of its
\* reads with changes (local.Provider.Open).
THEOREM LocalRange == Spec => []LocalRangeIsSane
<1>1. ContentInv => LocalRangeIsSane
  BY DEF ContentInv
<1> QED BY <1>1, ContentInitially, ContentInductive, PTL DEF Spec
===============================================================================
