---------------------------- MODULE PagingProofs ----------------------------
(***************************************************************************)
(* Proofs about PagingProperties, for lists and pages of any size.         *)
(*                                                                         *)
(* The argument: a page is a stretch of the list that begins right behind  *)
(* its cursor or ends right before it, and the cursor was shown before.    *)
(***************************************************************************)
EXTENDS PagingProperties, FiniteSetTheorems, TLAPS

-----------------------------------------------------------------------------
(* TheList is the list of the present items in order. *)

Sorted(list, S) ==
  /\ list \in Seq(S)
  /\ \A m, n \in 1..Len(list) : m < n => list[m] < list[n]
  /\ \A i \in S : \E n \in 1..Len(list) : list[n] = i

(* An item is known by the number of those before it. *)
Rank(S, i) == Cardinality({j \in S : j < i})

LEMMA RankGrows ==
  ASSUME NEW S \in SUBSET Nat, IsFiniteSet(S), NEW i \in S, NEW k \in S
  PROVE  /\ Rank(S, i) \in 0..Cardinality(S) - 1
         /\ i < k => Rank(S, i) < Rank(S, k)
<1> DEFINE Before(x) == {j \in S : j < x}
<1>1. \A x \in S : /\ Before(x) \in SUBSET S /\ IsFiniteSet(Before(x))
                   /\ Cardinality(Before(x)) \in Nat /\ Cardinality(S) \in Nat
  BY FS_Subset, FS_CardinalityType
<1>2. Cardinality(Before(i)) < Cardinality(S)
  <2>1. Before(i) # S
    OBVIOUS
  <2> QED  BY <1>1, <2>1, FS_Subset
<1>3. ASSUME i < k
      PROVE  Cardinality(Before(i)) < Cardinality(Before(k))
  <2>1. Before(i) \subseteq Before(k) /\ Before(i) # Before(k)
    <3>1. i \in Before(k) /\ i \notin Before(i)
      BY <1>3
    <3>2. \A j \in S : j < i => j < k
      BY <1>3
    <3> QED  BY <3>1, <3>2
  <2>2. Cardinality(Before(i)) <= Cardinality(Before(k))
    BY <1>1, <2>1, FS_Subset
  <2>3. Cardinality(Before(i)) # Cardinality(Before(k))
    BY <1>1, <2>1, FS_Subset
  <2> QED  BY <1>1, <2>2, <2>3
<1> HIDE DEF Before
<1> QED  BY <1>1, <1>2, <1>3 DEF Rank, Before

LEMMA RankReached ==
  ASSUME NEW S \in SUBSET Nat, IsFiniteSet(S), NEW n \in 1..Cardinality(S)
  PROVE  \E i \in S : Rank(S, i) = n - 1
<1> DEFINE c == Cardinality(S)
           R == [i \in S |-> Rank(S, i)]
<1>1. c \in Nat
  BY FS_CardinalityType
<1>2. R \in [S -> 0..c - 1]
  BY RankGrows
<1>3. \A i, k \in S : R[i] = R[k] => i = k
  <2> SUFFICES ASSUME NEW i \in S, NEW k \in S, i < k
               PROVE  R[i] # R[k]
    OBVIOUS
  <2>1. Rank(S, i) < Rank(S, k) /\ Rank(S, i) \in Int /\ Rank(S, k) \in Int
    BY <1>1, RankGrows
  <2> QED  BY <2>1
<1>4. IsFiniteSet(0..c - 1) /\ Cardinality(0..c - 1) = c
  <2>1. 0 \in Int /\ c - 1 \in Int /\ (0 > c - 1 => c = 0) /\ (c - 1) - 0 + 1 = c
    BY <1>1
  <2> HIDE DEF c
  <2> QED  BY <2>1, FS_Interval
<1>5. R \in Injection(S, 0..c - 1)
  BY <1>2, <1>3 DEF Injection, IsInjective
<1>6. R \in Surjection(S, 0..c - 1)
  BY <1>4, <1>5, FS_Injection
<1>7. n - 1 \in 0..c - 1
  BY <1>1
<1>8. \E i \in S : R[i] = n - 1
  BY <1>6, <1>7 DEF Surjection
<1> QED  BY <1>8

LEMMA ListSorted ==
  ASSUME present \subseteq Items
  PROVE  Sorted(TheList, present)
<1>1. present \in SUBSET Nat /\ IsFiniteSet(present)
  BY PagingAssumption, FS_Subset
<1>2. Cardinality(present) \in Nat
  BY <1>1, FS_CardinalityType
<1>3. \A n \in 1..Cardinality(present) :
        TheList[n] \in present /\ Rank(present, TheList[n]) = n - 1
  BY <1>1, RankReached DEF TheList, Rank
<1>4. TheList \in Seq(present) /\ Len(TheList) = Cardinality(present)
  <2>1. TheList \in [1..Cardinality(present) -> present]
    BY <1>3 DEF TheList
  <2> QED  BY <1>2, <2>1
<1>5. ASSUME NEW m \in 1..Len(TheList), NEW n \in 1..Len(TheList), m < n
      PROVE  TheList[m] < TheList[n]
  <2>1. /\ TheList[m] \in present /\ Rank(present, TheList[m]) = m - 1
        /\ TheList[n] \in present /\ Rank(present, TheList[n]) = n - 1
    BY <1>3, <1>4
  <2>2. TheList[n] < TheList[m] => n - 1 < m - 1
    BY <1>1, <2>1, RankGrows
  <2>3. TheList[n] # TheList[m]
    BY <1>5, <2>1
  <2>4. TheList[n] \in Nat /\ TheList[m] \in Nat
    BY <1>1, <2>1
  <2> QED  BY <1>5, <2>2, <2>3, <2>4
<1>6. ASSUME NEW i \in present
      PROVE  \E n \in 1..Len(TheList) : TheList[n] = i
  <2>1. Rank(present, i) \in 0..Cardinality(present) - 1
    BY <1>1, RankGrows
  <2>2. PICK n \in 1..Cardinality(present) : n - 1 = Rank(present, i)
    <3>1. Rank(present, i) + 1 \in 1..Cardinality(present)
      BY <1>2, <2>1
    <3> QED  BY <2>1, <3>1
  <2>3. PICK x \in present : x = TheList[n] /\ Rank(present, x) = Rank(present, i)
    BY <1>3, <2>2
  <2>4. Rank(present, i) \in Int /\ x \in Nat /\ i \in Nat
    BY <1>1, <1>2, <2>1
  <2>5. /\ x < i => Rank(present, x) < Rank(present, i)
        /\ i < x => Rank(present, i) < Rank(present, x)
    BY <1>1, RankGrows
  <2>6. x = i
    BY <2>3, <2>4, <2>5
  <2> QED  BY <1>4, <2>2, <2>3, <2>6
<1> QED  BY <1>4, <1>5, <1>6 DEF Sorted

-----------------------------------------------------------------------------
(* A page is a stretch of the list. *)

LEMMA MinMax ==
  ASSUME NEW a \in Int, NEW b \in Int
  PROVE  /\ Min({a, b}) = IF a <= b THEN a ELSE b
         /\ Max({a, b}) = IF a <= b THEN b ELSE a
<1>1. Min({a, b}) \in {a, b} /\ Min({a, b}) <= a /\ Min({a, b}) <= b
  <2>1. \E x \in {a, b} : \A y \in {a, b} : x <= y
    OBVIOUS
  <2>2. /\ Min({a, b}) \in {a, b}
        /\ \A y \in {a, b} : Min({a, b}) <= y
    BY <2>1 DEF Min
  <2> QED  BY <2>2
<1>2. Max({a, b}) \in {a, b} /\ Max({a, b}) >= a /\ Max({a, b}) >= b
  <2>1. \E x \in {a, b} : \A y \in {a, b} : x >= y
    OBVIOUS
  <2>2. /\ Max({a, b}) \in {a, b}
        /\ \A y \in {a, b} : Max({a, b}) >= y
    BY <2>1 DEF Max
  <2> QED  BY <2>2
<1> QED  BY <1>1, <1>2

(* The position of an item is found, and that of nothing else. *)
LEMMA PositionFound ==
  ASSUME NEW S \in SUBSET Items, NEW list, Sorted(list, S), NEW cursor \in Cursors
  PROVE  /\ cursor \notin S => positionOf(list, cursor) = Null
         /\ cursor \in S => \E n \in 1..Len(list) : /\ list[n] = cursor
                                                    /\ positionOf(list, cursor) = n - 1
<1>1. cursor \notin S => positionOf(list, cursor) = Null
  BY DEF Sorted, positionOf, Contains
<1>2. ASSUME cursor \in S
      PROVE  \E n \in 1..Len(list) : /\ list[n] = cursor
                                     /\ positionOf(list, cursor) = n - 1
  <2>1. PICK n \in 1..Len(list) : list[n] = cursor
    BY <1>2 DEF Sorted
  <2>2. ASSUME NEW m \in 1..Len(list), list[m] = cursor
        PROVE  m = n
    <3>1. cursor \in Nat /\ Len(list) \in Nat
      BY <1>2, PagingAssumption DEF Sorted
    <3>2. /\ m < n => list[m] < list[n]
          /\ n < m => list[n] < list[m]
      BY DEF Sorted
    <3> QED  BY <2>1, <2>2, <3>1, <3>2
  <2>3. {i \in 1..Len(list) : list[i] = cursor} = {n}
    BY <2>1, <2>2
  <2>4. SelectInSeq(list, LAMBDA i : i = cursor) = Min({n, n})
    BY <2>3 DEF SelectInSeq
  <2>5. n \in Int
    BY DEF Sorted
  <2>6. Min({n, n}) = n
    BY <2>5, MinMax
  <2> QED  BY <2>1, <2>4, <2>6 DEF positionOf, Contains
<1> QED  BY <1>1, <1>2

(* Where a page may lie: at the front, behind a cursor or before one. *)
Stretch(r, S, list, begin, end) ==
  /\ begin \in Nat /\ end \in Nat /\ begin <= end /\ end <= Len(list)
  /\ SizeOf(r) \in 1..MAX_PAGE_SIZE /\ end - begin <= SizeOf(r)
  /\ \/ /\ r.after = Null /\ r.before = Null /\ begin = 0
        /\ end = Len(list) \/ end - begin = SizeOf(r)
     \/ /\ r.after \in S /\ r.before = Null /\ begin > 0 /\ list[begin] = r.after
        /\ end = Len(list) \/ end - begin = SizeOf(r)
     \/ /\ r.before \in S /\ r.after = Null /\ end < Len(list) /\ list[end + 1] = r.before
        /\ begin = 0 \/ end - begin = SizeOf(r)

LEMMA PageIsStretch ==
  ASSUME NEW S \in SUBSET Items, NEW list, Sorted(list, S), NEW r \in Request
  PROVE  \/ paginate(r, list) = Error
         \/ \E begin, end : /\ Stretch(r, S, list, begin, end)
                            /\ paginate(r, list) = PageOf(list, begin, end)
<1> DEFINE size == SizeOf(r)
           cursor == IF r.after # Null THEN r.after ELSE r.before
           position == positionOf(list, cursor)
           begin == AfterCursor(position)
<1>1. /\ cursor \in Cursors /\ r.after \in Cursors /\ r.before \in Cursors
      /\ Len(list) \in Nat
  BY DEF Request, Sorted
<1>2. CASE \/ ~ValidSize(size)
           \/ r.after # Null /\ r.before # Null
           \/ cursor # Null /\ position = Null
  BY <1>2 DEF paginate
<1>3. CASE /\ ValidSize(size)
           /\ r.after = Null \/ r.before = Null
           /\ cursor = Null \/ position # Null
  <2>1. size \in 1..MAX_PAGE_SIZE /\ size \in Nat
    BY <1>3, PagingAssumption DEF ValidSize
  <2>2. CASE cursor = Null
    <3> DEFINE e == Min({size, Len(list)})
    <3>1. paginate(r, list) = PageOf(list, 0, e) /\ r.after = Null /\ r.before = Null
      BY <1>3, <2>2 DEF paginate
    <3>2. e = IF size <= Len(list) THEN size ELSE Len(list)
      BY <1>1, <2>1, MinMax
    <3> HIDE DEF e
    <3>3. Stretch(r, S, list, 0, e)
      BY <1>1, <2>1, <3>1, <3>2 DEF Stretch
    <3> QED  BY <3>1, <3>3
  <2>3. ASSUME cursor # Null
        PROVE  \E n \in 1..Len(list) : /\ cursor \in S /\ list[n] = cursor
                                       /\ position = n - 1
    <3>1. position # Null
      BY <1>3, <2>3
    <3> HIDE DEF cursor
    <3> QED  BY <1>1, <3>1, PositionFound
  <2>4. CASE r.after # Null
    <3>1. PICK n \in 1..Len(list) : /\ r.after \in S /\ list[n] = r.after
                                    /\ position = n - 1
      BY <2>3, <2>4
    <3> DEFINE e == Min({n + size, Len(list)})
    <3>2. begin = n
      BY <1>1, <3>1 DEF AfterCursor
    <3>3. paginate(r, list) = PageOf(list, begin, Min({begin + size, Len(list)}))
      BY <1>3, <2>4 DEF paginate
    <3>4. paginate(r, list) = PageOf(list, n, e)
      BY <3>2, <3>3
    <3>5. e = IF n + size <= Len(list) THEN n + size ELSE Len(list)
      BY <1>1, <2>1, MinMax
    <3> HIDE DEF e
    <3>6. Stretch(r, S, list, n, e)
      BY <1>1, <1>3, <2>1, <2>4, <3>1, <3>5 DEF Stretch
    <3> QED  BY <3>4, <3>6
  <2>5. CASE r.after = Null /\ r.before # Null
    <3>1. PICK n \in 1..Len(list) : /\ r.before \in S /\ list[n] = r.before
                                    /\ position = n - 1
      BY <2>3, <2>5
    <3> DEFINE b == Max({(n - 1) - size, 0})
    <3>2. paginate(r, list) = PageOf(list, Max({position - size, 0}), position)
      BY <1>3, <2>5 DEF paginate
    <3>3. paginate(r, list) = PageOf(list, b, n - 1)
      BY <3>1, <3>2
    <3>4. b = IF (n - 1) - size <= 0 THEN 0 ELSE (n - 1) - size
      <4>1. (n - 1) - size \in Int /\ 0 \in Int
        BY <1>1, <2>1
      <4> HIDE DEF size
      <4> QED  BY <4>1, MinMax
    <3> HIDE DEF b
    <3>5. Stretch(r, S, list, b, n - 1)
      BY <1>1, <2>1, <2>5, <3>1, <3>4 DEF Stretch
    <3> QED  BY <3>3, <3>5
  <2> QED  BY <2>2, <2>4, <2>5
<1> QED  BY <1>2, <1>3

Shown(list, begin, end) == {list[n] : n \in begin + 1..end}

Shows(p, S, list, begin, end) ==
  /\ p.code = 200 /\ p.items \in Seq(S) /\ Len(p.items) = end - begin
  /\ Range(p.items) = Shown(list, begin, end)
  /\ p.next = IF end < Len(list) /\ begin < end THEN list[end] ELSE Null
  /\ p.prev = IF begin > 0 /\ begin < Len(list) THEN list[begin + 1] ELSE Null

LEMMA StretchShown ==
  ASSUME NEW S \in SUBSET Items, NEW list, Sorted(list, S), NEW r,
         NEW begin, NEW end, Stretch(r, S, list, begin, end),
         NEW p, p = PageOf(list, begin, end)
  PROVE  Shows(p, S, list, begin, end)
<1>1. /\ list \in Seq(S) /\ Len(list) \in Nat /\ begin \in Nat /\ end \in Nat
      /\ begin <= end /\ end <= Len(list)
  BY DEF Stretch, Sorted
<1>2. p.items = SubSeq(list, begin + 1, end)
  BY DEF PageOf
<1>3. /\ p.items \in Seq(S) /\ Len(p.items) = end - begin
      /\ \A k \in 1..end - begin : p.items[k] = list[begin + k]
  BY <1>1, <1>2
<1>4. Range(p.items) = Shown(list, begin, end)
  <2>1. \A k \in 1..end - begin : begin + k \in begin + 1..end
    BY <1>1
  <2>2. \A n \in begin + 1..end : n - begin \in 1..end - begin /\ begin + (n - begin) = n
    BY <1>1
  <2>3. DOMAIN p.items = 1..end - begin
    BY <1>1, <1>3
  <2> QED  BY <1>3, <2>1, <2>2, <2>3 DEF Range, Shown
<1> QED  BY <1>3, <1>4 DEF PageOf, Shows

LEMMA InOrder ==
  ASSUME NEW S \in SUBSET Items, NEW list, Sorted(list, S)
  PROVE  /\ Len(list) \in Nat
         /\ \A n \in 1..Len(list) : list[n] \in S /\ list[n] \in Nat
         /\ \A m, n \in 1..Len(list) : /\ m <= n => list[m] <= list[n]
                                       /\ list[m] <= list[n] => m <= n
<1>1. Len(list) \in Nat /\ \A n \in 1..Len(list) : list[n] \in S /\ list[n] \in Nat
  <2>1. list \in Seq(S) /\ \A i \in S : i \in Nat
    BY PagingAssumption DEF Sorted
  <2>2. Len(list) \in Nat /\ \A n \in 1..Len(list) : list[n] \in S
    BY <2>1
  <2> QED  BY <2>1, <2>2
<1>2. \A m, n \in 1..Len(list) : m < n => list[m] < list[n]
  BY DEF Sorted
<1> QED  BY <1>1, <1>2

-----------------------------------------------------------------------------
(* Between two items of Q, Q has all of T. *)
Between(Q, T) == \A i \in T : (\E a, b \in Q : a <= i /\ i <= b) => i \in Q

(* Q has all of T up to where page p of request r says there is no more. *)
Complete(p, r, Q, T) ==
  /\ Between(Q, T)
  /\ p.next = Null /\ (p.items # <<>> \/ r.before = Null) =>
       \A i \in T : \E s \in Q : i <= s
  /\ p.prev = Null /\ (p.items # <<>> \/ r.before # Null) =>
       \A i \in T : \E s \in Q : s <= i

(* What a page adds to items shown before, its cursor among them. *)
LEMMA PageShown ==
  ASSUME NEW S \in SUBSET Items, NEW T \in SUBSET S, NEW Q \in SUBSET Items,
         NEW list, Sorted(list, S), NEW r \in Request,
         NEW begin, NEW end, Stretch(r, S, list, begin, end),
         CursorsOf(r) \subseteq Q, r.after = Null /\ r.before = Null => Q = {},
         Between(Q, T), NEW p, p = PageOf(list, begin, end)
  PROVE  Complete(p, r, Q \cup Range(p.items), T)
<1> DEFINE Here == Shown(list, begin, end)
<1>1. /\ begin \in Nat /\ end \in Nat /\ begin <= end /\ end <= Len(list)
      /\ SizeOf(r) \in Nat /\ SizeOf(r) >= 1 /\ Len(list) \in Nat
  BY InOrder, PagingAssumption DEF Stretch
<1>2. /\ Range(p.items) = Here /\ (p.items = <<>> <=> begin = end)
      /\ p.next = IF end < Len(list) /\ begin < end THEN list[end] ELSE Null
      /\ p.prev = IF begin > 0 /\ begin < Len(list) THEN list[begin + 1] ELSE Null
  <2>1. /\ p.items \in Seq(S) /\ Len(p.items) = end - begin
        /\ Range(p.items) = Here
        /\ p.next = IF end < Len(list) /\ begin < end THEN list[end] ELSE Null
        /\ p.prev = IF begin > 0 /\ begin < Len(list) THEN list[begin + 1] ELSE Null
    <3>1. Shows(p, S, list, begin, end)
      BY StretchShown
    <3> QED  BY <3>1 DEF Shows
  <2>2. p.items = <<>> <=> Len(p.items) = 0
    BY <2>1
  <2>3. end - begin = 0 <=> begin = end
    BY <1>1
  <2> QED  BY <2>1, <2>2, <2>3
<1>3. /\ \A n \in 1..Len(list) : list[n] \in Nat /\ list[n] # Null
      /\ S \subseteq Nat /\ Null \notin S
  <2>1. Null \notin Nat /\ S \subseteq Nat
    BY PagingAssumption
  <2> QED  BY <2>1, InOrder
<1>4. \A m, n \in 1..Len(list) : /\ m <= n => list[m] <= list[n]
                                 /\ list[m] <= list[n] => m <= n
  BY InOrder
<1>4a. \A i : i \in Here <=> \E n \in begin + 1..end : i = list[n]
  BY DEF Shown
<1> HIDE DEF Here
<1>5. Q \subseteq Nat /\ \A i \in T : \E n \in 1..Len(list) : i = list[n]
  BY PagingAssumption DEF Sorted
<1>6. CASE r.after = Null /\ r.before = Null
  <2>1. Q = {} /\ begin = 0 /\ (end = Len(list) \/ end - begin = SizeOf(r))
    BY <1>3, <1>6 DEF Stretch
  <2>2. Between(Here, T)
    <3> SUFFICES ASSUME NEW n \in 1..Len(list), NEW m \in begin + 1..end, list[n] <= list[m]
                 PROVE  list[n] \in Here
      BY <1>4a, <1>5 DEF Between
    <3>1. n <= m
      BY <1>1, <1>4
    <3> QED  BY <1>1, <1>4a, <2>1, <3>1
  <2>3. ASSUME p.next = Null, NEW i \in T
        PROVE  \E s \in Here : i <= s
    <3>1. PICK n \in 1..Len(list) : i = list[n]
      BY <1>5
    <3>2. end = Len(list)
      BY <1>1, <1>2, <1>3, <2>1, <2>3, <3>1
    <3>3. i <= list[end] /\ end \in begin + 1..end
      BY <1>1, <1>4, <2>1, <3>1, <3>2
    <3> QED  BY <1>4a, <3>3
  <2>4. ASSUME p.items # <<>>, NEW i \in T
        PROVE  \E s \in Here : s <= i
    <3>1. PICK n \in 1..Len(list) : i = list[n]
      BY <1>5
    <3>2. list[1] <= i /\ 1 \in begin + 1..end
      BY <1>1, <1>2, <1>4, <2>1, <2>4, <3>1
    <3> QED  BY <1>4a, <3>2
  <2> QED  BY <1>2, <1>6, <2>1, <2>2, <2>3, <2>4 DEF Complete
<1>7. ASSUME NEW c \in Q,
             \A n \in 1..Len(list) : (n <= begin => list[n] <= c) /\ (n > end => c <= list[n])
      PROVE  Between(Q \cup Here, T)
  <2> SUFFICES ASSUME NEW i \in T, NEW a \in Q \cup Here, NEW b \in Q \cup Here,
                      a <= i, i <= b, i \notin Here
               PROVE  i \in Q
    BY DEF Between
  <2>0. PICK n \in 1..Len(list) : i = list[n]
    BY <1>5
  <2>9. n <= begin \/ n > end
    BY <1>1, <1>4a, <2>0
  <2>1. CASE n <= begin
    <3>1. a \notin Here
      BY <1>1, <1>4, <1>4a, <2>0, <2>1
    <3>2. a \in Q /\ i <= c
      BY <1>7, <2>0, <2>1, <3>1
    <3> QED  BY <3>2 DEF Between
  <2>2. CASE n > end
    <3>1. b \notin Here
      BY <1>1, <1>4, <1>4a, <2>0, <2>2
    <3>2. b \in Q /\ c <= i
      BY <1>7, <2>0, <2>2, <3>1
    <3> QED  BY <3>2 DEF Between
  <2> QED  BY <2>1, <2>2, <2>9
<1>8. CASE r.after \in S /\ r.before = Null
  <2>1. /\ begin > 0 /\ list[begin] = r.after /\ r.after \in Q
        /\ end = Len(list) \/ end - begin = SizeOf(r)
    <3>1. r.after # Null /\ r.after \in CursorsOf(r)
      BY <1>3, <1>8 DEF CursorsOf
    <3>2. r.before \notin S
      BY <1>3, <1>8
    <3> QED  BY <3>1, <3>2 DEF Stretch
  <2>2. Between(Q \cup Here, T)
    <3>1. \A n \in 1..Len(list) : /\ n <= begin => list[n] <= r.after
                                  /\ n > end => r.after <= list[n]
      BY <1>1, <1>4, <2>1
    <3> QED  BY <1>7, <2>1, <3>1
  <2>3. ASSUME p.next = Null, NEW i \in T
        PROVE  \E s \in Q \cup Here : i <= s
    <3>1. PICK n \in 1..Len(list) : i = list[n]
      BY <1>5
    <3>2. end = Len(list)
      BY <1>1, <1>2, <1>3, <2>1, <2>3
    <3>3. CASE begin < end
      <4>1. i <= list[end] /\ end \in begin + 1..end
        BY <1>1, <1>4, <3>1, <3>2, <3>3
      <4> QED  BY <1>4a, <4>1
    <3>4. CASE begin = end
      <4>1. i <= r.after
        BY <1>1, <1>4, <2>1, <3>1, <3>2, <3>4
      <4> QED  BY <2>1, <4>1
    <3> QED  BY <1>1, <3>3, <3>4
  <2>4. p.items # <<>> => p.prev # Null
    BY <1>1, <1>2, <1>3, <2>1
  <2> QED  BY <1>2, <1>8, <2>2, <2>3, <2>4 DEF Complete
<1>9. CASE r.before \in S /\ r.after = Null
  <2>1. /\ end < Len(list) /\ list[end + 1] = r.before /\ r.before \in Q
        /\ begin = 0 \/ end - begin = SizeOf(r)
        /\ r.before # Null
    <3>1. r.before # Null /\ r.before \in CursorsOf(r)
      BY <1>3, <1>9 DEF CursorsOf
    <3>2. r.after \notin S
      BY <1>3, <1>9
    <3> QED  BY <3>1, <3>2 DEF Stretch
  <2>2. end + 1 \in 1..Len(list)
    BY <1>1, <2>1
  <2>3. Between(Q \cup Here, T)
    <3>1. \A n \in 1..Len(list) : /\ n <= begin => list[n] <= r.before
                                  /\ n > end => r.before <= list[n]
      BY <1>1, <1>4, <2>1, <2>2
    <3> QED  BY <1>7, <2>1, <3>1
  <2>4. p.items # <<>> => p.next # Null
    BY <1>1, <1>2, <1>3, <2>1
  <2>5. ASSUME p.prev = Null, NEW i \in T
        PROVE  \E s \in Q \cup Here : s <= i
    <3>1. PICK n \in 1..Len(list) : i = list[n]
      BY <1>5
    <3>2. begin = 0
      BY <1>1, <1>2, <1>3, <2>1, <2>5
    <3>3. CASE begin < end
      <4>1. list[1] <= i /\ 1 \in begin + 1..end
        BY <1>1, <1>4, <3>1, <3>2, <3>3
      <4> QED  BY <1>4a, <4>1
    <3>4. CASE begin = end
      <4>1. r.before <= i
        BY <1>1, <1>4, <2>1, <2>2, <3>1, <3>2, <3>4
      <4> QED  BY <2>1, <4>1
    <3> QED  BY <1>1, <3>3, <3>4
  <2> QED  BY <1>2, <1>9, <2>1, <2>3, <2>4, <2>5 DEF Complete
<1> QED  BY <1>6, <1>8, <1>9 DEF Stretch

(* The links of a page lead on from its ends, and the page lies behind or  *)
(* before the cursor that was asked for.                                   *)
LinksOK(p) ==
  /\ p.next # Null => p.next \in Range(p.items) /\ \A i \in Range(p.items) : i <= p.next
  /\ p.prev # Null => p.prev \in Range(p.items) /\ \A i \in Range(p.items) : p.prev <= i

Beyond(p, r) ==
  /\ r.after # Null => /\ \A i \in Range(p.items) : r.after < i
                       /\ Len(p.items) < SizeOf(r) => p.next = Null
  /\ r.before # Null => /\ \A i \in Range(p.items) : i < r.before
                        /\ Len(p.items) < SizeOf(r) => p.prev = Null

Answer(p, r) ==
  /\ p.code = 200 /\ p.items \in Seq(Items) /\ {p.next, p.prev} \subseteq Items \cup {Null}
  /\ Len(p.items) <= Min({SizeOf(r), MAX_PAGE_SIZE})
  /\ LinksOK(p) /\ Beyond(p, r)

LEMMA PageAnswers ==
  ASSUME NEW S \in SUBSET Items, NEW list, Sorted(list, S), NEW r \in Request,
         NEW begin, NEW end, Stretch(r, S, list, begin, end),
         NEW p, p = PageOf(list, begin, end)
  PROVE  Answer(p, r)
<1> DEFINE Here == Shown(list, begin, end)
<1>1. /\ begin \in Nat /\ end \in Nat /\ begin <= end /\ end <= Len(list)
      /\ SizeOf(r) \in Nat /\ SizeOf(r) >= 1 /\ Len(list) \in Nat
      /\ MAX_PAGE_SIZE \in Nat /\ SizeOf(r) <= MAX_PAGE_SIZE /\ end - begin <= SizeOf(r)
  BY InOrder, PagingAssumption DEF Stretch
<1>2. Shows(p, S, list, begin, end)
  BY StretchShown
<1>3. /\ \A n \in 1..Len(list) : list[n] \in S /\ list[n] \in Nat /\ list[n] # Null
      /\ S \subseteq Nat /\ Null \notin S
  <2>1. Null \notin Nat /\ S \subseteq Nat
    BY PagingAssumption
  <2> QED  BY <2>1, InOrder
<1>4. \A m, n \in 1..Len(list) : /\ m <= n => list[m] <= list[n]
                                 /\ list[m] <= list[n] => m <= n
  BY InOrder
<1>5. \A i : i \in Here <=> \E n \in begin + 1..end : i = list[n]
  BY DEF Shown
<1>6. Range(p.items) = Here
  BY <1>2 DEF Shows
<1> HIDE DEF Here
<1>7. LinksOK(p)
  <2>1. ASSUME p.next # Null
        PROVE  p.next \in Here /\ \A i \in Here : i <= p.next
    <3>1. end < Len(list) /\ begin < end /\ p.next = list[end]
      BY <1>2, <2>1 DEF Shows
    <3> QED  BY <1>1, <1>4, <1>5, <3>1
  <2>2. ASSUME p.prev # Null
        PROVE  p.prev \in Here /\ \A i \in Here : p.prev <= i
    <3>1. begin > 0 /\ begin < Len(list) /\ p.prev = list[begin + 1]
      BY <1>2, <2>2 DEF Shows
    <3>2. begin < end
      BY <1>1, <3>1 DEF Stretch
    <3> QED  BY <1>1, <1>4, <1>5, <3>1, <3>2
  <2> QED  BY <1>6, <2>1, <2>2 DEF LinksOK
<1>8. Beyond(p, r)
  <2>1. ASSUME r.after # Null
        PROVE  /\ \A i \in Here : r.after < i
               /\ end - begin < SizeOf(r) => p.next = Null
    <3>1. /\ begin > 0 /\ list[begin] = r.after
          /\ end = Len(list) \/ end - begin = SizeOf(r)
      BY <1>3, <2>1 DEF Stretch
    <3>2. \A i \in Here : r.after < i
      BY <1>1, <1>3, <1>4, <1>5, <3>1
    <3>3. end = Len(list) => p.next = Null
      BY <1>1, <1>2 DEF Shows
    <3> QED  BY <1>1, <3>1, <3>2, <3>3
  <2>2. ASSUME r.before # Null
        PROVE  /\ \A i \in Here : i < r.before
               /\ end - begin < SizeOf(r) => p.prev = Null
    <3>1. /\ end < Len(list) /\ list[end + 1] = r.before
          /\ begin = 0 \/ end - begin = SizeOf(r)
      BY <1>3, <2>2 DEF Stretch
    <3>2. \A i \in Here : i < r.before
      BY <1>1, <1>3, <1>4, <1>5, <3>1
    <3>3. begin = 0 => p.prev = Null
      BY <1>1, <1>2 DEF Shows
    <3> QED  BY <1>1, <3>1, <3>2, <3>3
  <2>3. Len(p.items) = end - begin
    BY <1>2 DEF Shows
  <2> QED  BY <1>6, <2>1, <2>2, <2>3 DEF Beyond
<1>9. p.code = 200 /\ p.items \in Seq(Items) /\ {p.next, p.prev} \subseteq Items \cup {Null}
  <2>1. p.code = 200 /\ p.items \in Seq(S)
    BY <1>2 DEF Shows
  <2>2. p.next \in S \cup {Null} /\ p.prev \in S \cup {Null}
    BY <1>1, <1>2, <1>3 DEF Shows
  <2> QED  BY <2>1, <2>2
<1>10. Len(p.items) <= Min({SizeOf(r), MAX_PAGE_SIZE})
  <2>1. Len(p.items) = end - begin
    BY <1>2 DEF Shows
  <2>2. Min({SizeOf(r), MAX_PAGE_SIZE}) = SizeOf(r)
    BY <1>1, MinMax
  <2> QED  BY <1>1, <2>1, <2>2
<1> QED  BY <1>7, <1>8, <1>9, <1>10 DEF Answer

(* What a client gets. *)
LEMMA Answered ==
  ASSUME present \subseteq Items, NEW r \in Request, NEW p, p = paginate(r, TheList),
         p # Error
  PROVE  /\ Answer(p, r)
         /\ \A Q \in SUBSET Items, T \in SUBSET present :
              /\ CursorsOf(r) \subseteq Q
              /\ r.after = Null /\ r.before = Null => Q = {}
              /\ Between(Q, T)
              => Complete(p, r, Q \cup Range(p.items), T)
<1>1. present \in SUBSET Items /\ Sorted(TheList, present)
  BY ListSorted
<1> DEFINE list == TheList
<1> HIDE DEF list
<1>2. PICK begin, end : Stretch(r, present, list, begin, end) /\ p = PageOf(list, begin, end)
  BY <1>1, PageIsStretch DEF list
<1>3. Sorted(list, present)
  BY <1>1 DEF list
<1> QED  BY <1>1, <1>2, <1>3, PageAnswers, PageShown
-----------------------------------------------------------------------------
(* The walk.  The invariant adds where the links of the page lead and what *)
(* is true before the first request.                                       *)
PagingInv ==
  /\ TypeOK /\ NoneSkipped
  /\ LinksOK(page) /\ Range(page.items) \subseteq seen
  /\ request = Null => page = Error /\ seen = {} /\ stable = {}

LEMMA NoneSkippedIs ==
  NoneSkipped <=> /\ Between(seen, stable)
                  /\ page.code = 200 => Complete(page, request, seen, stable)
BY DEF NoneSkipped, Between, Complete

LEMMA ErrorShown == Range(Error.items) = {} /\ LinksOK(Error) /\ Error.code = 400
<1>1. Error.items = <<>> /\ Error.next = Null /\ Error.prev = Null /\ Error.code = 400
  BY DEF Error
<1>2. Range(<<>>) = {}
  BY DEF Range
<1> QED  BY <1>1, <1>2 DEF LinksOK

LEMMA LimitIsNat ==
  ASSUME NEW r \in Request
  PROVE  SizeOf(r) \in Int /\ MAX_PAGE_SIZE \in Int
BY PagingAssumption DEF Request, Sizes, SizeOf

(* A step of a walk, its first or another. *)
LEMMA StepKeeps ==
  ASSUME present \subseteq Items, present' = present,
         NEW r \in Request, Ask(r), stable' \subseteq present,
         NEW Q \in SUBSET Items, CursorsOf(r) \subseteq Q,
         r.after = Null /\ r.before = Null => Q = {}, Between(Q, stable'),
         seen' = Q \cup Range(page'.items)
  PROVE  PagingInv'
<1>1. request' = r /\ page' = paginate(r, TheList) /\ r # Null
  BY PagingAssumption DEF Ask
<1>2. CASE page' = Error
  <2>1. seen' = Q
    BY <1>2, ErrorShown
  <2>2. TypeOK'
    BY <1>1, <1>2, <2>1 DEF TypeOK, Error
  <2>3. NoneSkipped'
    <3>1. Between(Q, stable')
      OBVIOUS
    <3>2. page'.code # 200
      BY <1>2, ErrorShown
    <3> QED  BY <2>1, <3>1, <3>2 DEF NoneSkipped, Between
  <2> QED  BY <1>1, <1>2, <2>2, <2>3, ErrorShown DEF PagingInv
<1>3. CASE page' # Error
  <2>1. Answer(page', r) /\ Complete(page', r, Q \cup Range(page'.items), stable')
    BY <1>1, <1>3, Answered
  <2>2. Range(page'.items) \subseteq Items
    BY <2>1 DEF Answer, Range
  <2>3. TypeOK'
    BY <1>1, <2>1, <2>2 DEF TypeOK, Answer
  <2>4. NoneSkipped'
    BY <1>1, <2>1 DEF NoneSkipped, Complete, Between
  <2>5. LinksOK(page)'
    BY <2>1 DEF Answer, LinksOK
  <2> QED  BY <1>1, <2>3, <2>4, <2>5 DEF PagingInv
<1> QED  BY <1>2, <1>3

LEMMA OpenKeeps ==
  ASSUME PagingInv, NEW r \in Request, Open(r)
  PROVE  PagingInv'
<1>1. /\ present \subseteq Items /\ present' = present /\ Ask(r)
      /\ page' = paginate(r, TheList) /\ seen = {} /\ stable = {}
  BY DEF PagingInv, TypeOK, Open, Ask
<1>2. CASE page'.code = 200
  <2>1. seen' = CursorsOf(r) \cup Range(page'.items) /\ stable' = present
    BY <1>2 DEF Open
  <2>2. page' # Error
    BY <1>2, ErrorShown
  <2>3. ~(r.after # Null /\ r.before # Null)
    BY <1>1, <2>2 DEF paginate
  <2>4. CursorsOf(r) \in SUBSET Items /\ Null \notin Items /\ Items \subseteq Nat
    <3>1. Null \notin Nat /\ Items \subseteq Nat
      BY PagingAssumption
    <3> QED  BY <3>1 DEF CursorsOf
  <2>5. \A a, b \in CursorsOf(r) : a = b
    BY <2>3, <2>4 DEF CursorsOf
  <2>6. r.after = Null /\ r.before = Null => CursorsOf(r) = {}
    BY <2>4 DEF CursorsOf
  <2>7. Between(CursorsOf(r), stable')
    <3> SUFFICES ASSUME NEW i \in present, NEW a \in CursorsOf(r), a <= i, i <= a
                 PROVE  i \in CursorsOf(r)
      BY <2>1, <2>5 DEF Between
    <3>1. i \in Nat /\ a \in Nat
      BY <1>1, <2>4
    <3> QED  BY <3>1
  <2> QED  BY <1>1, <2>1, <2>4, <2>6, <2>7, StepKeeps
<1>3. CASE page'.code # 200
  <2>1. seen' = {} /\ stable' = {}
    BY <1>1, <1>3 DEF Open
  <2>2. page' = Error
    <3>1. page' # Error => Answer(page', r)
      BY <1>1, Answered
    <3> QED  BY <1>3, <3>1 DEF Answer
  <2>3. TypeOK'
    BY <1>1, <2>1, <2>2 DEF TypeOK, Error, Ask
  <2>4. NoneSkipped'
    BY <1>3, <2>1 DEF NoneSkipped
  <2> QED  BY <2>1, <2>2, <2>3, <2>4, ErrorShown DEF PagingInv
<1> QED  BY <1>2, <1>3

(* The request of a link. *)
LEMMA LinkAsks ==
  ASSUME PagingInv
  PROVE  /\ page.next # Null =>
              LET r == pageUrl(request, page.next, Null)
              IN  /\ r \in Request /\ r.after = page.next /\ r.before = Null
                  /\ r.after \in seen /\ SizeOf(r) = SizeOf(request)
         /\ page.prev # Null =>
              LET r == pageUrl(request, Null, page.prev)
              IN  /\ r \in Request /\ r.before = page.prev /\ r.after = Null
                  /\ r.before \in seen /\ SizeOf(r) = SizeOf(request)
<1>1. ASSUME page.next # Null \/ page.prev # Null
      PROVE  request \in Request
  BY <1>1 DEF PagingInv, TypeOK, Error
<1>2. page.next \in Items \cup {Null} /\ page.prev \in Items \cup {Null}
  BY DEF PagingInv, TypeOK
<1>3. /\ page.next # Null => page.next \in seen
      /\ page.prev # Null => page.prev \in seen
  BY DEF PagingInv, LinksOK
<1>4. \A a, b \in Items \cup {Null} : request \in Request =>
        /\ pageUrl(request, a, b) \in Request
        /\ pageUrl(request, a, b).after = a /\ pageUrl(request, a, b).before = b
        /\ SizeOf(pageUrl(request, a, b)) = SizeOf(request)
  BY DEF pageUrl, Request, Cursors, SizeOf
<1> QED  BY <1>1, <1>2, <1>3, <1>4

LEMMA FollowKeeps ==
  ASSUME PagingInv, FollowNext \/ FollowPrev
  PROVE  PagingInv'
<1>1. PICK r \in Request : /\ Follow(r) /\ {r.after, r.before} \subseteq seen \cup {Null}
                           /\ ~(r.after = Null /\ r.before = Null)
  <2>1. CASE FollowNext
    BY <2>1, LinkAsks DEF FollowNext
  <2>2. CASE FollowPrev
    BY <2>2, LinkAsks DEF FollowPrev
  <2> QED  BY <2>1, <2>2
<1>2. /\ present \subseteq Items /\ present' = present /\ seen \in SUBSET Items
      /\ stable' = stable /\ stable \subseteq present /\ Between(seen, stable)
  BY <1>1, NoneSkippedIs DEF PagingInv, TypeOK, Follow
<1>3. CursorsOf(r) \subseteq seen
  <2>1. Null \notin Nat /\ Items \subseteq Nat
    BY PagingAssumption
  <2> QED  BY <1>1, <2>1 DEF CursorsOf
<1>4. Ask(r) /\ seen' = seen \cup Range(page'.items)
  BY <1>1 DEF Follow
<1> QED  BY <1>1, <1>2, <1>3, <1>4, StepKeeps

LEMMA OthersKeep ==
  ASSUME PagingInv, NEW i \in Items, Appear(i) \/ Disappear(i)
  PROVE  PagingInv'
<1>1. /\ UNCHANGED <<request, page, seen>> /\ present' \subseteq Items
      /\ stable' \subseteq stable /\ stable' \subseteq present'
  BY DEF PagingInv, TypeOK, Appear, Disappear
<1>2. TypeOK'
  BY <1>1 DEF PagingInv, TypeOK
<1>3. NoneSkipped'
  BY <1>1 DEF PagingInv, NoneSkipped
<1>4. LinksOK(page)' /\ Range(page.items)' \subseteq seen'
  BY <1>1 DEF PagingInv, LinksOK
<1> QED  BY <1>1, <1>2, <1>3, <1>4 DEF PagingInv

LEMMA InitPaging ==
  ASSUME Init
  PROVE  PagingInv
<1>1. TypeOK
  BY DEF Init, TypeOK, Error
<1>2. NoneSkipped
  BY DEF Init, NoneSkipped
<1> QED  BY <1>1, <1>2, ErrorShown DEF Init, PagingInv

LEMMA NextPaging ==
  ASSUME PagingInv, [Next]_vars
  PROVE  PagingInv'
<1>1. CASE UNCHANGED vars
  BY <1>1 DEF vars, PagingInv, TypeOK, NoneSkipped, LinksOK
<1>2. CASE Next
  BY <1>2, OpenKeeps, FollowKeeps, OthersKeep DEF Next
<1> QED  BY <1>1, <1>2

LEMMA PagingInvariant == Spec => []PagingInv
BY InitPaging, NextPaging, PTL DEF Spec

(* The type invariant of Paging: a page is never longer than was asked for *)
(* and never longer than allowed.                                          *)
THEOREM PagingTypeCorrect == Spec => []TypeOK
BY PagingInvariant, PTL DEF PagingInv

(* However the list changes between two requests, a client that follows    *)
(* the links of paginate is shown every item that was there all the time.  *)
THEOREM NothingSkipped == Spec => []NoneSkipped
BY PagingInvariant, PTL DEF PagingInv

(* A next link leads to items behind those of its page, a prev link to     *)
(* items before them, and a page with more to come is full.                *)
LEMMA LinkedBeyond ==
  ASSUME PagingInv, NEW old \in Range(page.items), NEW new \in Range(page'.items)
  PROVE  /\ FollowNext => old < new /\ (Len(page'.items) < SizeOf(request) => page'.next = Null)
         /\ FollowPrev => new < old /\ (Len(page'.items) < SizeOf(request) => page'.prev = Null)
<1>1. present \subseteq Items /\ old \in Nat
  <2>1. old \in seen /\ seen \subseteq Items /\ present \subseteq Items
    BY DEF PagingInv, TypeOK
  <2> QED  BY <2>1, PagingAssumption
<1>2. page' # Error
  BY ErrorShown
<1>3. ASSUME NEW r \in Request, Follow(r)
      PROVE  /\ r.after # Null => /\ r.after < new
                                  /\ Len(page'.items) < SizeOf(r) => page'.next = Null
             /\ r.before # Null => /\ new < r.before
                                   /\ Len(page'.items) < SizeOf(r) => page'.prev = Null
             /\ new \in Nat
  <2>1. page' = paginate(r, TheList)
    BY <1>3 DEF Follow, Ask
  <2>2. Answer(page', r)
    BY <1>1, <1>2, <2>1, Answered
  <2>3. new \in Items
    BY <2>2 DEF Answer, Range
  <2> QED  BY <2>2, <2>3, PagingAssumption DEF Answer, Beyond
<1>4. ASSUME FollowNext
      PROVE  old < new /\ (Len(page'.items) < SizeOf(request) => page'.next = Null)
  <2>1. PICK r \in Request : /\ Follow(r) /\ r.after = page.next
                             /\ page.next # Null /\ SizeOf(r) = SizeOf(request)
    BY <1>4, LinkAsks DEF FollowNext
  <2>2. old <= page.next /\ page.next \in Nat
    BY <2>1, PagingAssumption DEF PagingInv, LinksOK, TypeOK
  <2> QED  BY <1>1, <1>3, <2>1, <2>2
<1>5. ASSUME FollowPrev
      PROVE  new < old /\ (Len(page'.items) < SizeOf(request) => page'.prev = Null)
  <2>1. PICK r \in Request : /\ Follow(r) /\ r.before = page.prev
                             /\ page.prev # Null /\ SizeOf(r) = SizeOf(request)
    BY <1>5, LinkAsks DEF FollowPrev
  <2>2. page.prev <= old /\ page.prev \in Nat
    BY <2>1, PagingAssumption DEF PagingInv, LinksOK, TypeOK
  <2> QED  BY <1>1, <1>3, <2>1, <2>2
<1> QED  BY <1>4, <1>5

THEOREM WalkInOrder == Spec => PagesInOrder
<1>1. PagingInv /\ [Next]_vars =>
        [\A old \in Range(page.items), new \in Range(page'.items) :
           /\ FollowNext => old < new /\ (Len(page'.items) < SizeOf(request) => page'.next = Null)
           /\ FollowPrev => new < old /\ (Len(page'.items) < SizeOf(request) => page'.prev = Null)
        ]_vars
  BY LinkedBeyond
<1> QED  BY <1>1, PagingInvariant, PTL DEF Spec, PagesInOrder
=============================================================================
