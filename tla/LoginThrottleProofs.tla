------------------------- MODULE LoginThrottleProofs -------------------------
(***************************************************************************)
(* Proofs about LoginThrottleProperties, for any number of threads,        *)
(* addresses, names, limits and windows.                                   *)
(*                                                                         *)
(* The argument: what happened lately is the end of a window, entry by     *)
(* entry, each written with a time that is Delay too old at most.  An      *)
(* operation drops entries from the front, and stops before those.         *)
(***************************************************************************)
EXTENDS LoginThrottleProperties, FiniteSetTheorems, SequenceTheorems, WellFoundedInduction, TLAPS

-----------------------------------------------------------------------------
(* The end of a sequence from its first entry in I.                        *)

(* Of positions in a sequence, one is the first.  (The subsets 1..i of a   *)
(* finite set are well-founded.)                                           *)
LEMMA FirstPosition ==
  ASSUME NEW n \in Nat, NEW I \in SUBSET (1..n), I # {}
  PROVE  Min(I) \in I /\ \A j \in I : Min(I) <= j
<1> DEFINE R == StrictSubsetOrdering(1..n)
           T == {1..i : i \in I}
<1>1. IsWellFoundedOn(R, FiniteSubsetsOf(1..n))
  BY FS_StrictSubsetOrderingWellFounded
<1>2. \A i \in I : (1..i) \in FiniteSubsetsOf(1..n)
  BY FS_Interval DEF FiniteSubsetsOf
<1>3. T \subseteq FiniteSubsetsOf(1..n) /\ T # {}
  BY <1>2
<1>4. \E x \in T : \A y \in T : ~(<<y, x>> \in R)
  <2> HIDE DEF T, R
  <2> QED  BY <1>1, <1>3, WFMin
<1>5. PICK i \in I : \A j \in I : ~(<<1..j, 1..i>> \in R)
  BY <1>4
<1>6. ASSUME NEW j \in I, j < i
      PROVE  FALSE
  <2>1. 1..j \subseteq 1..i /\ 1..j # 1..i
    <3>1. i \in 1..i /\ i \notin 1..j
      BY <1>6
    <3> QED  BY <1>6, <3>1
  <2>2. 1..j \in SUBSET (1..n) /\ 1..i \in SUBSET (1..n)
    OBVIOUS
  <2> QED  BY <2>1, <2>2, <1>5 DEF StrictSubsetOrdering
<1>7. \A j \in I : i <= j
  BY <1>6
<1> QED  BY <1>5, <1>7 DEF Min

Rest(w, k) == SubSeq(w, k + 1, Len(w))

LEMMA RestOf ==
  ASSUME NEW S, NEW w \in Seq(S), NEW k \in 0..Len(w)
  PROVE  /\ Rest(w, k) \in Seq(S)
         /\ Len(Rest(w, k)) = Len(w) - k
         /\ \A i \in 1..Len(w) - k : Rest(w, k)[i] = w[k + i]
  BY DEF Rest

(* What is left of w when its first position in I becomes the first.       *)
From(w, I) == IF I = {} THEN <<>> ELSE SubSeq(w, Min(I), Len(w))

LEMMA FromFirst ==
  ASSUME NEW S, NEW w \in Seq(S), NEW I \in SUBSET (1..Len(w))
  PROVE  \E k \in 0..Len(w) : /\ From(w, I) = Rest(w, k)
                              /\ \A i \in 1..k : i \notin I
                              /\ k < Len(w) => k + 1 \in I
<1>0. Len(w) \in Nat
  OBVIOUS
<1>1. CASE I = {}
  <2>1. From(w, I) = <<>> /\ Rest(w, Len(w)) = <<>>
    BY <1>1 DEF Rest, From
  <2> QED
    BY <1>0, <1>1, <2>1
<1>2. CASE I # {}
  <2>0. PICK first : first = Min(I)
    OBVIOUS
  <2>1. first \in I /\ \A x \in I : first <= x
    BY <1>0, <1>2, <2>0, FirstPosition
  <2>2. /\ first \in 1..Len(w)
        /\ first - 1 \in 0..Len(w) /\ (first - 1) + 1 = first
    BY <1>0, <2>1
  <2>3. From(w, I) = SubSeq(w, first, Len(w))
    BY <1>2, <2>0 DEF From
  <2>4. From(w, I) = Rest(w, first - 1)
    BY <2>2, <2>3 DEF Rest
  <2>5. \A i \in 1..(first - 1) : i \notin I
    BY <2>1, <2>2
  <2> QED
    BY <2>1, <2>2, <2>4, <2>5
<1> QED
  BY <1>1, <1>2

LEMMA Selected ==
  ASSUME NEW w, NEW I \in SUBSET (1..Len(w)), Len(w) \in Nat,
         NEW first, first = IF I # {} THEN Min(I) ELSE 0
  PROVE  (IF first = 0 THEN <<>> ELSE SubSeq(w, first, Len(w))) = From(w, I)
<1>1. I # {} => Min(I) \in I
  BY FirstPosition
<1>2. I # {} => first # 0
  BY <1>1
<1> QED  BY <1>2, Zenon DEF From

(* dropExpired drops expired entries from the front only.                  *)
LEMMA Dropped ==
  ASSUME NEW w \in Seq(Int), NEW now \in Int, NEW length \in Int
  PROVE  \E k \in 0..Len(w) :
           /\ dropExpired(w, now, length) = Rest(w, k)
           /\ \A i \in 1..k : now - w[i] >= length
           /\ k < Len(w) => now - w[k + 1] < length
<1> DEFINE I == {i \in 1..Len(w) : now - w[i] < length}
           first == IF I # {} THEN Min(I) ELSE 0
<1>1. dropExpired(w, now, length) = IF first = 0 THEN <<>> ELSE SubSeq(w, first, Len(w))
  BY DEF dropExpired, SelectInSeq
<1>2. /\ I \in SUBSET (1..Len(w)) /\ Len(w) \in Nat
      /\ first = IF I # {} THEN Min(I) ELSE 0
  OBVIOUS
<1> HIDE DEF I, first
<1>3. dropExpired(w, now, length) = From(w, I)
  BY <1>1, <1>2, Selected
<1>4. PICK k \in 0..Len(w) : /\ From(w, I) = Rest(w, k)
                             /\ \A i \in 1..k : i \notin I
                             /\ k < Len(w) => k + 1 \in I
  BY <1>2, FromFirst
<1>5. \A i \in 1..k : now - w[i] >= length
  <2> TAKE i \in 1..k
  <2>1. i \in 1..Len(w) /\ w[i] \in Int
    BY <1>2
  <2> QED  BY <1>4, <2>1 DEF I
<1>6. k < Len(w) => now - w[k + 1] < length
  BY <1>4 DEF I
<1> QED
  BY <1>3, <1>4, <1>5, <1>6

-----------------------------------------------------------------------------
(* The entries of a window w that tell of what happened at the times a, in *)
(* order and all within length - Delay of time: the last ones of w.        *)
Recorded(w, a, length, time) ==
  /\ Len(a) <= Len(w)
  /\ \A k \in 1..Len(a) : /\ a[k] - Delay <= w[Len(w) - Len(a) + k]
                          /\ time - a[k] < length - Delay /\ a[k] <= time
  /\ \A j, k \in 1..Len(a) : j < k => a[j] <= a[k]

(* An operation that comes with a time from the past, or with the present  *)
(* one, does not drop them.                                                *)
LEMMA DropKeeps ==
  ASSUME NEW w \in Seq(Times), NEW a \in Seq(Times), NEW time \in Times,
         NEW now \in Times, now <= time, NEW length \in Nat,
         Recorded(w, a, length, time)
  PROVE  LET d == dropExpired(w, now, length)
         IN  /\ d \in Seq(Times) /\ Len(d) <= Len(w)
             /\ Recorded(d, a, length, time)
             /\ d # <<>> => now - d[1] < length
             /\ Len(d) = Len(w) => d = w
<1> DEFINE d == dropExpired(w, now, length)
<1>0. Times \subseteq Int /\ Delay \in Nat /\ w \in Seq(Int) /\ a \in Seq(Int)
      /\ now \in Int /\ length \in Int
  BY LimitsAssumption, SeqMonotonic DEF Times
<1>1. PICK k \in 0..Len(w) :
        /\ d = Rest(w, k)
        /\ \A i \in 1..k : now - w[i] >= length
        /\ k < Len(w) => now - w[k + 1] < length
  BY <1>0, Dropped
<1>2. /\ d \in Seq(Times) /\ Len(d) = Len(w) - k
      /\ \A i \in 1..Len(w) - k : d[i] = w[k + i]
  BY <1>1, RestOf
<1>3. Len(w) \in Nat /\ Len(a) \in Nat /\ Len(d) \in Nat
  BY <1>2
<1>4. \A i \in 1..Len(w) : w[i] \in Int
  BY <1>0
<1>5. \A i \in 1..Len(a) : a[i] \in Int
  BY <1>0
<1> HIDE DEF d
<1>6. Len(a) <= Len(d)
  <2>1. CASE Len(a) = 0
    BY <2>1, <1>3
  <2>2. CASE Len(a) > 0
    <3> DEFINE i == Len(w) - Len(a) + 1
    <3>1. i \in 1..Len(w)
      BY <1>3, <2>2 DEF Recorded
    <3>2. a[1] - Delay <= w[i] /\ time - a[1] < length - Delay
      BY <1>3, <2>2 DEF Recorded
    <3>3. now - w[i] < length
      <4> HIDE DEF i
      <4>1. w[i] \in Int /\ a[1] \in Int /\ now \in Int /\ time \in Int
        BY <1>0, <1>3, <1>4, <1>5, <2>2, <3>1
      <4> QED  BY <1>0, <3>2, <4>1
    <3>4. ~(i <= k)
      BY <1>0, <1>1, <1>3, <1>4, <3>1, <3>3
    <3> QED  BY <1>2, <1>3, <3>1, <3>4
  <2> QED  BY <1>3, <2>1, <2>2
<1>7. \A x \in 1..Len(a) : d[Len(d) - Len(a) + x] = w[Len(w) - Len(a) + x]
  <2> TAKE x \in 1..Len(a)
  <2>1. Len(d) - Len(a) + x \in 1..Len(w) - k
    BY <1>2, <1>3, <1>6
  <2>2. k + (Len(d) - Len(a) + x) = Len(w) - Len(a) + x
    BY <1>2, <1>3
  <2> QED  BY <1>2, <2>1, <2>2
<1>8. Recorded(d, a, length, time)
  BY <1>6, <1>7 DEF Recorded
<1>9. d # <<>> => now - d[1] < length
  <2> SUFFICES ASSUME d # <<>> PROVE now - d[1] < length
    OBVIOUS
  <2>1. Len(d) > 0
    BY <1>2, <1>3, EmptySeq
  <2>2. d[1] = w[k + 1] /\ k < Len(w)
    BY <1>2, <1>3, <2>1
  <2> QED  BY <1>1, <2>2
<1>10. Len(d) = Len(w) => d = w
  <2> SUFFICES ASSUME Len(d) = Len(w) PROVE d = w
    OBVIOUS
  <2>1. k = 0
    BY <1>2, <1>3
  <2>2. \A i \in 1..Len(w) : d[i] = w[i]
    BY <1>2, <1>3, <2>1
  <2> QED  BY <1>2, <2>2, SeqEqual
<1> QED
  BY <1>2, <1>3, <1>8, <1>9, <1>10 DEF d

(* What happens now is recorded with a time that is not too old.           *)
LEMMA AppendKeeps ==
  ASSUME NEW w \in Seq(Times), NEW a \in Seq(Times), NEW time \in Times,
         NEW now \in Times, time - now <= Delay, NEW length \in Nat, Delay < length,
         Recorded(w, a, length, time)
  PROVE  Recorded(Append(w, now), Append(a, time), length, time)
<1> DEFINE v == Append(w, now)
           b == Append(a, time)
<1>0. Times \subseteq Int /\ Delay \in Nat /\ a \in Seq(Int)
  BY LimitsAssumption, SeqMonotonic DEF Times
<1>1. /\ Len(w) \in Nat /\ Len(v) = Len(w) + 1
      /\ \A i \in 1..Len(w) : v[i] = w[i]
      /\ v[Len(w) + 1] = now
  BY AppendProperties
<1>2. /\ Len(a) \in Nat /\ Len(b) = Len(a) + 1
      /\ \A i \in 1..Len(a) : b[i] = a[i] /\ a[i] \in Int
      /\ b[Len(a) + 1] = time
  BY <1>0, AppendProperties
<1> HIDE DEF v, b
<1>3. ASSUME NEW k \in 1..Len(b)
      PROVE  /\ b[k] - Delay <= v[Len(v) - Len(b) + k]
             /\ time - b[k] < length - Delay /\ b[k] <= time
  <2>1. CASE k = Len(b)
    <3>1. b[k] = time /\ Len(v) - Len(b) + k = Len(w) + 1
      BY <1>1, <1>2, <2>1
    <3> QED  BY <1>0, <1>1, <3>1
  <2>2. CASE k # Len(b)
    <3>1. k \in 1..Len(a) /\ Len(v) - Len(b) + k = Len(w) - Len(a) + k
      BY <1>1, <1>2, <2>2
    <3>2. Len(w) - Len(a) + k \in 1..Len(w)
      BY <1>1, <1>2, <3>1 DEF Recorded
    <3> QED  BY <1>1, <1>2, <3>1, <3>2 DEF Recorded
  <2> QED  BY <2>1, <2>2
<1>4. ASSUME NEW j \in 1..Len(b), NEW k \in 1..Len(b), j < k
      PROVE  b[j] <= b[k]
  <2>1. j \in 1..Len(a)
    BY <1>2, <1>4
  <2>2. CASE k = Len(b)
    BY <1>2, <2>1, <2>2 DEF Recorded
  <2>3. CASE k # Len(b)
    <3>1. k \in 1..Len(a)
      BY <1>2, <2>3
    <3> QED  BY <1>2, <1>4, <2>1, <3>1 DEF Recorded
  <2> QED  BY <2>2, <2>3
<1>5. Len(b) <= Len(v)
  BY <1>1, <1>2 DEF Recorded
<1>6. Recorded(v, b, length, time)
  BY <1>3, <1>4, <1>5 DEF Recorded
<1> QED
  BY <1>6 DEF v, b

(* With the clock, the record forgets what is no longer recent: the first  *)
(* that stays is recent, and those behind it are younger.                  *)
LEMMA LatelyKeeps ==
  ASSUME NEW w \in Seq(Times), NEW a \in Seq(Times), clock \in Times,
         NEW length \in Nat, Recorded(w, a, length, clock),
         NEW time, time = clock + 1
  PROVE  /\ Lately(a, length) \in Seq(Times)
         /\ Len(Lately(a, length)) <= Len(a)
         /\ Recorded(w, Lately(a, length), length, time)
<1> DEFINE b == Lately(a, length)
           I == {i \in 1..Len(a) : clock + 1 - a[i] < length - Delay}
           first == IF I # {} THEN Min(I) ELSE 0
<1>0. /\ Times \subseteq Int /\ Delay \in Nat /\ a \in Seq(Int)
      /\ clock \in Int /\ time \in Int
  BY LimitsAssumption, SeqMonotonic DEF Times
<1>1. b = IF first = 0 THEN <<>> ELSE SubSeq(a, first, Len(a))
  BY DEF Lately, SelectInSeq
<1>2. PICK k \in 0..Len(a) :
        /\ b = Rest(a, k)
        /\ k < Len(a) => time - a[k + 1] < length - Delay
  <2>1. /\ I \in SUBSET (1..Len(a)) /\ Len(a) \in Nat
        /\ first = IF I # {} THEN Min(I) ELSE 0
    OBVIOUS
  <2> HIDE DEF I, first
  <2>2. b = From(a, I)
    BY <1>1, <2>1, Selected
  <2>3. PICK k \in 0..Len(a) : From(a, I) = Rest(a, k) /\ (k < Len(a) => k + 1 \in I)
    BY <2>1, FromFirst
  <2>4. k < Len(a) => clock + 1 - a[k + 1] < length - Delay
    BY <2>3 DEF I
  <2>5. k < Len(a) => time - a[k + 1] < length - Delay
    <3> SUFFICES ASSUME k < Len(a) PROVE time - a[k + 1] < length - Delay
      OBVIOUS
    <3>1. k + 1 \in 1..Len(a) /\ a[k + 1] \in Int
      BY <1>0
    <3> QED  BY <1>0, <2>4, <3>1
  <2> QED  BY <2>2, <2>3, <2>5, Zenon
<1>3. /\ b \in Seq(Times) /\ Len(b) = Len(a) - k
      /\ \A i \in 1..Len(a) - k : b[i] = a[k + i]
  BY <1>2, RestOf
<1> HIDE DEF b, I, first
<1>4. /\ Len(w) \in Nat /\ Len(a) \in Nat /\ Len(b) \in Nat /\ Len(a) <= Len(w)
      /\ \A i \in 1..Len(a) : a[i] \in Int
  BY <1>0, <1>3 DEF Recorded
<1>5. ASSUME NEW x \in 1..Len(b)
      PROVE  /\ b[x] - Delay <= w[Len(w) - Len(b) + x]
             /\ time - b[x] < length - Delay /\ b[x] <= time
  <2>1. /\ k + x \in 1..Len(a) /\ b[x] = a[k + x]
        /\ Len(w) - Len(a) + (k + x) = Len(w) - Len(b) + x
    BY <1>3, <1>4
  <2>2. k < Len(a) /\ k + 1 \in 1..Len(a)
    BY <1>3, <1>4
  <2>3. a[k + 1] <= a[k + x]
    <3>1. CASE x = 1
      BY <1>4, <2>2, <3>1
    <3>2. CASE x # 1
      BY <2>1, <2>2, <3>2 DEF Recorded
    <3> QED  BY <3>1, <3>2
  <2>4. a[k + x] \in Int /\ a[k + 1] \in Int /\ clock \in Int
    BY <1>0, <1>4, <2>1, <2>2
  <2>5. /\ a[k + x] - Delay <= w[Len(w) - Len(a) + (k + x)]
        /\ a[k + x] <= clock
    BY <2>1 DEF Recorded
  <2>6. time - a[k + x] < length - Delay
    BY <1>0, <1>2, <2>2, <2>3, <2>4
  <2>7. b[x] - Delay <= w[Len(w) - Len(b) + x]
    BY <2>1, <2>5
  <2>8. b[x] <= time /\ time - b[x] < length - Delay
    BY <2>1, <2>4, <2>5, <2>6
  <2> QED  BY <2>7, <2>8
<1>6. ASSUME NEW i \in 1..Len(b), NEW j \in 1..Len(b), i < j
      PROVE  b[i] <= b[j]
  <2>1. /\ k + i \in 1..Len(a) /\ b[i] = a[k + i] /\ k + i < k + j
        /\ k + j \in 1..Len(a) /\ b[j] = a[k + j]
    BY <1>3, <1>4, <1>6
  <2> QED  BY <2>1 DEF Recorded
<1>7. Len(b) <= Len(w) /\ Len(b) <= Len(a)
  BY <1>3, <1>4
<1>8. Recorded(w, b, length, time)
  BY <1>5, <1>6, <1>7 DEF Recorded
<1> QED  BY <1>3, <1>7, <1>8 DEF b

-----------------------------------------------------------------------------
(* The two maps, seen as windows. *)

(* A purge drops the expired entries of each window: one that is removed   *)
(* has none left.                                                          *)
LEMMA PurgeWindow ==
  ASSUME NEW map, NEW now, NEW length
  PROVE  /\ DOMAIN purgeMap(map, now, length) \subseteq DOMAIN map
         /\ \A x : \/ Window(purgeMap(map, now, length), x) =
                        dropExpired(Window(map, x), now, length)
                   \/ /\ x \notin DOMAIN map
                      /\ Window(purgeMap(map, now, length), x) = Window(map, x)
  BY DEF purgeMap, Window

(* A table stays within its limit: a new key needs room.                   *)
SmallTable(map) == IsFiniteSet(DOMAIN map) /\ Cardinality(DOMAIN map) <= MaxTrackedKeys

LEMMA PutSmall ==
  ASSUME NEW map, NEW k, NEW w, SmallTable(map), Tracked(map, k)
  PROVE  SmallTable(Put(map, k, w))
<1>1. DOMAIN Put(map, k, w) = DOMAIN map \cup {k}
  BY DEF Put
<1>2. CASE k \in DOMAIN map
  <2>1. DOMAIN map \cup {k} = DOMAIN map
    BY <1>2
  <2> QED  BY <1>1, <2>1 DEF SmallTable
<1>3. CASE k \notin DOMAIN map
  <2>1. Cardinality(DOMAIN map) \in Nat
    BY FS_CardinalityType DEF SmallTable
  <2>2. /\ IsFiniteSet(DOMAIN map \cup {k})
        /\ Cardinality(DOMAIN map \cup {k}) = Cardinality(DOMAIN map) + 1
    BY <1>3, FS_AddElement DEF SmallTable
  <2> QED  BY <1>1, <1>3, <2>1, <2>2, LimitsAssumption DEF SmallTable, Tracked
<1> QED  BY <1>2, <1>3

LEMMA PurgeSmall ==
  ASSUME NEW map, NEW now, NEW length, SmallTable(map)
  PROVE  SmallTable(purgeMap(map, now, length))
<1> DEFINE p == purgeMap(map, now, length)
<1>1. DOMAIN p \subseteq DOMAIN map
  BY PurgeWindow
<1>2. IsFiniteSet(DOMAIN p) /\ Cardinality(DOMAIN p) <= Cardinality(DOMAIN map)
  BY <1>1, FS_Subset DEF SmallTable
<1>3. Cardinality(DOMAIN p) \in Nat /\ Cardinality(DOMAIN map) \in Nat
  BY <1>2, FS_CardinalityType DEF SmallTable
<1> QED  BY <1>2, <1>3, LimitsAssumption DEF SmallTable

-----------------------------------------------------------------------------
(* What the threads do, and since when. *)
Attempt ==
  [at : {"idle"}] \cup [at : {"check"}, now : Times, ip : Ips, name : Usernames]
    \cup [at : {"hash"}, name : Usernames] \cup [at : {"record"}, now : Times, name : Usernames]
Fresh(now) == now <= clock /\ clock - now <= Delay

WorkOK ==
  /\ clock \in Times
  /\ login \in [Threads -> Attempt]
  /\ \A t \in Threads : login[t].at \in {"check", "record"} => Fresh(login[t].now)
  /\ purgeTime \in Times \cup {-1}
  /\ purgeTime # -1 => Fresh(purgeTime)

(* The tables, and what they record. *)
TableOK(map, keys, record, length, time) ==
  /\ DOMAIN map \subseteq keys /\ SmallTable(map)
  /\ record \in [keys -> Seq(Times)]
  /\ \A k \in keys : Window(map, k) \in Seq(Times)
  /\ \A k \in keys : Recorded(Window(map, k), record[k], length, time)

TablesOK ==
  /\ TableOK(requestsByIp, Ips, admitted, IpWindow, clock)
  /\ TableOK(failuresByUser, Usernames, failed, FailureWindow, clock)

(* No address has more than its requests in the table, and one that was    *)
(* refused has either fewer by now, or its oldest expires as promised.     *)
PromisesOK ==
  /\ promised \in [Ips -> Nat \cup {-1}]
  /\ \A i \in Ips :
       LET w == Window(requestsByIp, i)
       IN  /\ Len(w) <= MaxRequestsPerIp
           /\ promised[i] # -1 =>
                Len(w) < MaxRequestsPerIp \/ w[1] + IpWindow <= promised[i]

(* The attempts on a name that passed the check and have not failed yet    *)
(* count like failures.                                                    *)
Pending(n) == {t \in Threads : login[t].at \in {"hash", "record"} /\ login[t].name = n}
FailuresOK ==
  \A n \in Usernames :
    Len(failed[n]) + Cardinality(Pending(n)) <= MaxFailuresPerUser + Cardinality(Threads) - 1

ThrottleInv == WorkOK /\ TablesOK /\ PromisesOK /\ FailuresOK

-----------------------------------------------------------------------------
(* What the operations do to a table. *)

LEMMA TableDrops ==
  ASSUME NEW map, NEW keys, NEW record, NEW length \in Nat, NEW time \in Times,
         TableOK(map, keys, record, length, time),
         NEW k \in keys, Tracked(map, k), NEW now \in Times, now <= time,
         NEW d, d = dropExpired(Window(map, k), now, length)
  PROVE  /\ TableOK(Put(map, k, d), keys, record, length, time)
         /\ d \in Seq(Times) /\ Len(d) <= Len(Window(map, k))
         /\ Recorded(d, record[k], length, time)
         /\ d # <<>> => now - d[1] < length
         /\ Len(d) = Len(Window(map, k)) => d = Window(map, k)
<1>1. /\ d \in Seq(Times) /\ Len(d) <= Len(Window(map, k))
      /\ Recorded(d, record[k], length, time)
      /\ d # <<>> => now - d[1] < length
      /\ Len(d) = Len(Window(map, k)) => d = Window(map, k)
  <2>1. Window(map, k) \in Seq(Times) /\ record[k] \in Seq(Times)
        /\ Recorded(Window(map, k), record[k], length, time)
    BY DEF TableOK
  <2> QED  BY <2>1, DropKeeps
<1>2. SmallTable(Put(map, k, d))
  BY PutSmall DEF TableOK
<1> DEFINE p == Put(map, k, d)
<1>3. DOMAIN p = DOMAIN map \cup {k} /\ \A x : Window(p, x) = IF x = k THEN d ELSE Window(map, x)
  BY DEF Put, Window
<1> HIDE DEF p
<1>4. TableOK(p, keys, record, length, time)
  BY <1>1, <1>2, <1>3 DEF TableOK, p
<1> QED  BY <1>1, <1>4 DEF p

LEMMA TableAppends ==
  ASSUME NEW map, NEW keys, NEW record, NEW length \in Nat, NEW time \in Times,
         TableOK(map, keys, record, length, time), Delay < length,
         NEW k \in keys, Tracked(map, k),
         NEW now \in Times, now <= time, time - now <= Delay,
         NEW d, d = dropExpired(Window(map, k), now, length)
  PROVE  TableOK(Put(map, k, Append(d, now)), keys,
                 [record EXCEPT ![k] = Append(@, time)], length, time)
<1> DEFINE a == Append(record[k], time)
           v == Append(d, now)
           r == [record EXCEPT ![k] = a]
<1>1. d \in Seq(Times) /\ Recorded(d, record[k], length, time)
  BY TableDrops
<1>2. record \in [keys -> Seq(Times)] /\ record[k] \in Seq(Times)
  BY DEF TableOK
<1>3. a \in Seq(Times) /\ v \in Seq(Times) /\ Recorded(v, a, length, time)
  BY <1>1, <1>2, AppendKeeps
<1>4. SmallTable(Put(map, k, v))
  BY PutSmall DEF TableOK
<1> HIDE DEF a, v
<1>5. r \in [keys -> Seq(Times)] /\ \A x \in keys : r[x] = IF x = k THEN a ELSE record[x]
  BY <1>2, <1>3
<1> DEFINE p == Put(map, k, v)
<1>6. DOMAIN p = DOMAIN map \cup {k} /\ \A x : Window(p, x) = IF x = k THEN v ELSE Window(map, x)
  BY DEF Put, Window
<1> HIDE DEF r, p
<1>7. TableOK(p, keys, r, length, time)
  <2>1. \A x \in keys : Window(p, x) \in Seq(Times) /\ Recorded(Window(p, x), r[x], length, time)
    BY <1>3, <1>5, <1>6 DEF TableOK
  <2>2. DOMAIN p \subseteq keys /\ SmallTable(p)
    BY <1>4, <1>6 DEF TableOK, p
  <2> QED  BY <1>5, <2>1, <2>2 DEF TableOK
<1> QED  BY <1>7 DEF a, v, r, p

(* What a purge leaves of one window of a table.                           *)
LEMMA WindowPurged ==
  ASSUME NEW map, NEW keys, NEW record, NEW length \in Nat, NEW time \in Times,
         TableOK(map, keys, record, length, time), NEW now \in Times, now <= time,
         NEW k \in keys
  PROVE  /\ Window(purgeMap(map, now, length), k) \in Seq(Times)
         /\ Len(Window(purgeMap(map, now, length), k)) <= Len(Window(map, k))
         /\ Recorded(Window(purgeMap(map, now, length), k), record[k], length, time)
         /\ Len(Window(purgeMap(map, now, length), k)) = Len(Window(map, k)) =>
              Window(purgeMap(map, now, length), k) = Window(map, k)
<1> DEFINE p == purgeMap(map, now, length)
<1>1. Window(map, k) \in Seq(Times) /\ record[k] \in Seq(Times)
      /\ Recorded(Window(map, k), record[k], length, time)
  BY DEF TableOK
<1>2. CASE Window(p, k) = dropExpired(Window(map, k), now, length)
  BY <1>1, <1>2, DropKeeps
<1>3. CASE Window(p, k) = Window(map, k)
  BY <1>1, <1>3
<1> QED  BY <1>2, <1>3, PurgeWindow

LEMMA TablePurged ==
  ASSUME NEW map, NEW keys, NEW record, NEW length \in Nat, NEW time \in Times,
         TableOK(map, keys, record, length, time), NEW now \in Times, now <= time
  PROVE  TableOK(purgeMap(map, now, length), keys, record, length, time)
<1> DEFINE p == purgeMap(map, now, length)
<1>1. ASSUME NEW k \in keys
      PROVE  /\ Window(p, k) \in Seq(Times) /\ Recorded(Window(p, k), record[k], length, time)
  BY WindowPurged
<1>2. SmallTable(p)
  BY PurgeSmall DEF TableOK
<1>3. DOMAIN p \subseteq DOMAIN map
  BY PurgeWindow
<1>4. TableOK(p, keys, record, length, time)
  BY <1>1, <1>2, <1>3 DEF TableOK
<1> QED  BY <1>4

LEMMA TableTicks ==
  ASSUME NEW map, NEW keys, NEW record, NEW length \in Nat, clock \in Times,
         TableOK(map, keys, record, length, clock), NEW time, time = clock + 1,
         NEW r, r = [k \in keys |-> Lately(record[k], length)]
  PROVE  /\ TableOK(map, keys, r, length, time)
         /\ \A k \in keys : Len(r[k]) <= Len(record[k])
<1>1. ASSUME NEW k \in keys
      PROVE  /\ r[k] \in Seq(Times) /\ Len(r[k]) <= Len(record[k])
             /\ Recorded(Window(map, k), r[k], length, time)
  <2>1. Window(map, k) \in Seq(Times) /\ record[k] \in Seq(Times)
        /\ Recorded(Window(map, k), record[k], length, clock)
    BY DEF TableOK
  <2>2. r[k] = Lately(record[k], length)
    OBVIOUS
  <2> QED  BY <2>1, <2>2, LatelyKeeps
<1>2. r \in [keys -> Seq(Times)]
  BY <1>1
<1> QED  BY <1>1, <1>2 DEF TableOK

-----------------------------------------------------------------------------
(* What the steps do to the threads. *)

LEMMA Numbers ==
  /\ IpWindow \in Nat /\ FailureWindow \in Nat /\ Delay \in Nat
  /\ Delay < IpWindow /\ Delay < FailureWindow
  /\ MaxRequestsPerIp \in Nat /\ MaxRequestsPerIp >= 1
  /\ MaxFailuresPerUser \in Nat /\ MaxFailuresPerUser >= 1
  /\ Times \subseteq Nat /\ IsFiniteSet(Threads) /\ Cardinality(Threads) \in Nat
  BY LimitsAssumption, FS_CardinalityType DEF Times

LEMMA PendingFinite ==
  ASSUME NEW n
  PROVE  /\ IsFiniteSet(Pending(n)) /\ Cardinality(Pending(n)) \in Nat
         /\ IsFiniteSet(Pending(n)') /\ Cardinality(Pending(n)') \in Nat
         /\ Cardinality(Pending(n)') <= Cardinality(Threads)
<1>1. Pending(n) \in SUBSET Threads /\ Pending(n)' \in SUBSET Threads
  BY DEF Pending
<1> QED  BY <1>1, Numbers, FS_Subset, FS_CardinalityType

LEMMA Idles == Idle \in Attempt /\ Idle.at = "idle"
  BY DEF Idle, Attempt

LEMMA FreshNow == clock \in Times => Fresh(clock)
  BY Numbers DEF Fresh

(* The fields of an attempt, by where it is. *)
LEMMA AttemptFields ==
  ASSUME WorkOK, NEW t \in Threads
  PROVE  /\ login[t].at = "check" =>
              /\ login[t].now \in Times /\ Fresh(login[t].now)
              /\ login[t].ip \in Ips /\ login[t].name \in Usernames
         /\ login[t].at = "hash" => login[t].name \in Usernames
         /\ login[t].at = "record" =>
              /\ login[t].now \in Times /\ Fresh(login[t].now) /\ login[t].name \in Usernames
  BY DEF WorkOK, Attempt

(* One thread goes on, the clock and the purge do not. *)
LEMMA WorkGoesOn ==
  ASSUME WorkOK, NEW t \in Threads, NEW l \in Attempt,
         login' = [login EXCEPT ![t] = l], UNCHANGED <<clock, purgeTime>>,
         l.at \in {"check", "record"} => Fresh(l.now)
  PROVE  WorkOK'
  BY DEF WorkOK, Fresh

(* A thread that is not in between the check and the failure, or was there *)
(* before with the same name, adds nothing to what is pending.             *)
LEMMA PendingStays ==
  ASSUME NEW t \in Threads, WorkOK, NEW l, login' = [login EXCEPT ![t] = l],
         NEW n, \/ l.at \notin {"hash", "record"}
                \/ l.name # n
                \/ t \in Pending(n)
  PROVE  Cardinality(Pending(n)') <= Cardinality(Pending(n))
<1>1. Pending(n)' \subseteq Pending(n)
  BY DEF Pending, WorkOK
<1> QED  BY <1>1, PendingFinite, FS_Subset

LEMMA SameFailures ==
  ASSUME FailuresOK, TablesOK, NEW n \in Usernames,
         Len(failed[n])' <= Len(failed[n]), Len(failed[n])' \in Nat,
         Cardinality(Pending(n)') <= Cardinality(Pending(n))
  PROVE  Len(failed[n])' + Cardinality(Pending(n)') <=
           MaxFailuresPerUser + Cardinality(Threads) - 1
<1>1. Len(failed[n]) \in Nat
  BY DEF TablesOK, TableOK
<1> QED  BY <1>1, Numbers, PendingFinite DEF FailuresOK

-----------------------------------------------------------------------------
(* The steps, one by one. *)

(* Steps that change no table: no promise and no record changes. *)
LEMMA TablesStay ==
  ASSUME ThrottleInv, UNCHANGED <<clock, throttleVars, historyVars>>, WorkOK',
         \A n \in Usernames : Cardinality(Pending(n)') <= Cardinality(Pending(n))
  PROVE  ThrottleInv'
<1>1. TablesOK'
  BY DEF ThrottleInv, TablesOK, TableOK, SmallTable, Window, throttleVars, historyVars
<1>2. PromisesOK'
  BY DEF ThrottleInv, PromisesOK, Window, throttleVars, historyVars
<1>3. FailuresOK'
  <2>1. \A n \in Usernames : failed[n]' = failed[n] /\ Len(failed[n]) \in Nat
    BY DEF ThrottleInv, TablesOK, TableOK, historyVars
  <2>2. ASSUME NEW n \in Usernames
        PROVE  Len(failed[n])' + Cardinality(Pending(n)') <=
                 MaxFailuresPerUser + Cardinality(Threads) - 1
    <3>1. Len(failed[n])' = Len(failed[n]) /\ Len(failed[n]) \in Nat
      BY <2>1
    <3> QED  BY <3>1, SameFailures DEF ThrottleInv
  <2> QED  BY <2>2 DEF FailuresOK
<1> QED  BY <1>1, <1>2, <1>3 DEF ThrottleInv

LEMMA StartLoginKeeps ==
  ASSUME ThrottleInv, NEW t \in Threads, NEW ip \in Ips, NEW name \in Usernames,
         StartLogin(t, ip, name)
  PROVE  ThrottleInv'
<1> DEFINE l == [at |-> "check", now |-> clock, ip |-> ip, name |-> name]
<1>1. clock \in Times /\ WorkOK
  BY DEF ThrottleInv, WorkOK
<1>2. l \in Attempt /\ l.at = "check" /\ l.now = clock
  BY <1>1 DEF Attempt
<1>3. login' = [login EXCEPT ![t] = l] /\ UNCHANGED <<clock, purgeTime, throttleVars, historyVars>>
  BY DEF StartLogin
<1> HIDE DEF l
<1>4. WorkOK'
  BY <1>1, <1>2, <1>3, FreshNow, WorkGoesOn
<1>5. \A n \in Usernames : Cardinality(Pending(n)') <= Cardinality(Pending(n))
  BY <1>1, <1>2, <1>3, PendingStays
<1> QED  BY <1>3, <1>4, <1>5, TablesStay

LEMMA FinishHashKeeps ==
  ASSUME ThrottleInv, NEW t \in Threads, FinishHash(t)
  PROVE  ThrottleInv'
<1>1. /\ clock \in Times /\ WorkOK /\ login[t].at = "hash" /\ login[t].name \in Usernames
      /\ UNCHANGED <<clock, purgeTime, throttleVars, historyVars>>
  BY AttemptFields DEF ThrottleInv, WorkOK, FinishHash
<1>2. PICK l \in Attempt :
        /\ login' = [login EXCEPT ![t] = l]
        /\ \/ l.at = "idle"
           \/ l.at = "record" /\ l.now = clock /\ l.name = login[t].name
  <2> DEFINE r == [at |-> "record", now |-> clock, name |-> login[t].name]
  <2>1. r \in Attempt /\ r.at = "record" /\ r.now = clock /\ r.name = login[t].name
    BY <1>1 DEF Attempt
  <2>2. login' = [login EXCEPT ![t] = Idle] \/ login' = [login EXCEPT ![t] = r]
    BY DEF FinishHash
  <2> HIDE DEF r
  <2> QED  BY <2>1, <2>2, Idles
<1>3. WorkOK'
  BY <1>1, <1>2, FreshNow, WorkGoesOn
<1>4. ASSUME NEW n \in Usernames
      PROVE  Cardinality(Pending(n)') <= Cardinality(Pending(n))
  <2>1. login[t].name = n => t \in Pending(n)
    BY <1>1 DEF Pending
  <2> QED  BY <1>1, <1>2, <2>1, PendingStays
<1> QED  BY <1>1, <1>3, <1>4, TablesStay

LEMMA StartPurgeKeeps ==
  ASSUME ThrottleInv, StartPurge
  PROVE  ThrottleInv'
<1>1. /\ clock \in Times /\ UNCHANGED <<clock, login, throttleVars, historyVars>>
      /\ purgeTime' = clock
  BY DEF ThrottleInv, WorkOK, StartPurge
<1>2. WorkOK'
  BY <1>1, Numbers DEF ThrottleInv, WorkOK, Fresh
<1>3. \A n \in Usernames : Cardinality(Pending(n)') <= Cardinality(Pending(n))
  <2>1. \A n \in Usernames : Pending(n)' = Pending(n)
    BY <1>1 DEF Pending
  <2> QED  BY <2>1, PendingFinite
<1> QED  BY <1>1, <1>2, <1>3, TablesStay

(* A refusal promises what the oldest entry of the full window allows. *)
LEMMA RefuseAddressKeeps ==
  ASSUME ThrottleInv, NEW t \in Threads, RefuseAddress(t)
  PROVE  ThrottleInv'
<1> DEFINE now == login[t].now
           ip == login[t].ip
           d == LiveRequests(ip, now)
<1>1. /\ WorkOK /\ clock \in Times /\ now \in Times /\ now <= clock /\ ip \in Ips
  BY AttemptFields DEF ThrottleInv, WorkOK, RefuseAddress, Fresh
<1>2. /\ Tracked(requestsByIp, ip) /\ Len(d) >= MaxRequestsPerIp
      /\ requestsByIp' = Put(requestsByIp, ip, d)
      /\ promised' = [promised EXCEPT ![ip] = clock + retryAfter(d, now, IpWindow)]
      /\ login' = [login EXCEPT ![t] = Idle]
      /\ UNCHANGED <<clock, failuresByUser, purgeTime, admitted, failed>>
  BY DEF RefuseAddress, RefusedByIp
<1>3. d = dropExpired(Window(requestsByIp, ip), now, IpWindow)
  BY DEF LiveRequests
<1> HIDE DEF d, now, ip
<1>4. WorkOK'
  BY <1>1, <1>2, Idles, WorkGoesOn
<1>5. /\ TableOK(requestsByIp', Ips, admitted, IpWindow, clock)
      /\ d \in Seq(Times) /\ Len(d) <= Len(Window(requestsByIp, ip))
  BY <1>1, <1>2, <1>3, TableDrops, Numbers DEF ThrottleInv, TablesOK
<1>6. TablesOK'
  BY <1>2, <1>5
  DEF ThrottleInv, TablesOK, TableOK, SmallTable, Window
<1>7. PromisesOK'
  <2>1. \A x : Window(requestsByIp', x) = IF x = ip THEN d ELSE Window(requestsByIp, x)
    BY <1>2 DEF Put, Window
  <2>2. Len(d) \in Nat /\ Len(d) >= 1 /\ d[1] \in Nat /\ Head(d) = d[1]
    <3>1. Len(d) \in Nat /\ Len(d) >= 1
      BY <1>2, <1>5, Numbers
    <3>2. d[1] \in Times /\ Head(d) = d[1]
      BY <1>5, <3>1
    <3> QED  BY <3>1, <3>2, Numbers
  <2> DEFINE p == clock + retryAfter(d, now, IpWindow)
  <2>3. p \in Nat /\ d[1] + IpWindow <= p
    <3>1. clock \in Nat /\ now \in Nat /\ now <= clock
      BY <1>1, Numbers
    <3>2. /\ retryAfter(d, now, IpWindow) \in Nat
          /\ retryAfter(d, now, IpWindow) >= d[1] + IpWindow - now
      BY <2>2, <3>1, Numbers DEF retryAfter
    <3> QED  BY <2>2, <3>1, <3>2, Numbers
  <2>4. promised' = [promised EXCEPT ![ip] = p]
    BY <1>2
  <2> HIDE DEF p
  <2>5. promised' \in [Ips -> Nat \cup {-1}]
    BY <2>3, <2>4 DEF ThrottleInv, PromisesOK
  <2>6. ASSUME NEW i \in Ips
        PROVE  LET w == Window(requestsByIp', i)
               IN  /\ Len(w) <= MaxRequestsPerIp
                   /\ promised'[i] # -1 =>
                        Len(w) < MaxRequestsPerIp \/ w[1] + IpWindow <= promised'[i]
    <3>1. CASE i = ip
      <4>1. Len(Window(requestsByIp, ip)) <= MaxRequestsPerIp
        BY <3>1 DEF ThrottleInv, PromisesOK
      <4>2. Len(Window(requestsByIp, ip)) \in Nat
        BY <1>1 DEF ThrottleInv, TablesOK, TableOK
      <4>3. promised'[i] = p
        BY <2>4, <3>1 DEF ThrottleInv, PromisesOK
      <4> QED  BY <1>5, <2>1, <2>2, <2>3, <3>1, <4>1, <4>2, <4>3, Numbers
    <3>2. CASE i # ip
      BY <2>1, <2>4, <3>2 DEF ThrottleInv, PromisesOK
    <3> QED  BY <3>1, <3>2
  <2> QED  BY <2>5, <2>6 DEF PromisesOK, Window
<1>8. FailuresOK'
  <2>1. ASSUME NEW n \in Usernames
        PROVE  Len(failed[n])' + Cardinality(Pending(n)') <=
                 MaxFailuresPerUser + Cardinality(Threads) - 1
    <3>1. Len(failed[n])' = Len(failed[n]) /\ Len(failed[n]) \in Nat
      BY <1>2 DEF ThrottleInv, TablesOK, TableOK
    <3>2. Cardinality(Pending(n)') <= Cardinality(Pending(n))
      BY <1>1, <1>2, Idles, PendingStays
    <3> QED  BY <3>1, <3>2, SameFailures DEF ThrottleInv
  <2> QED  BY <2>1 DEF FailuresOK
<1> QED  BY <1>4, <1>6, <1>7, <1>8 DEF ThrottleInv

(* A request that is counted leaves the table of addresses as it was, or   *)
(* adds one entry where fewer than the limit are.                          *)
LEMMA CountAddress ==
  ASSUME ThrottleInv, NEW t \in Threads, CountAttempt(t)
  PROVE  /\ TableOK(requestsByIp', Ips, admitted', IpWindow, clock)
         /\ PromisesOK'
<1> DEFINE now == login[t].now
           ip == login[t].ip
           d == LiveRequests(ip, now)
<1>1. /\ clock \in Times /\ now \in Times /\ now <= clock /\ clock - now <= Delay /\ ip \in Ips
  BY AttemptFields DEF ThrottleInv, WorkOK, CountAttempt, Fresh
<1>2. /\ login[t].at = "check" /\ ~RefusedByIp(ip, now)
      /\ IF Tracked(requestsByIp, ip)
         THEN /\ requestsByIp' = Put(requestsByIp, ip, Append(d, now))
              /\ admitted' = [admitted EXCEPT ![ip] = Append(@, clock)]
              /\ promised' = [promised EXCEPT ![ip] = -1]
         ELSE UNCHANGED <<requestsByIp, admitted, promised>>
  BY DEF CountAttempt
<1>3. d = dropExpired(Window(requestsByIp, ip), now, IpWindow)
  BY DEF LiveRequests
<1>4. Tracked(requestsByIp, ip) => ~(Len(d) >= MaxRequestsPerIp)
  BY <1>2 DEF RefusedByIp
<1>5. TableOK(requestsByIp, Ips, admitted, IpWindow, clock) /\ PromisesOK
  BY DEF ThrottleInv, TablesOK
<1> HIDE DEF d, now, ip
<1>6. CASE ~Tracked(requestsByIp, ip)
  BY <1>2, <1>5, <1>6 DEF PromisesOK, Window
<1>7. CASE Tracked(requestsByIp, ip)
  <2>1. /\ requestsByIp' = Put(requestsByIp, ip, Append(d, now))
        /\ admitted' = [admitted EXCEPT ![ip] = Append(@, clock)]
        /\ promised' = [promised EXCEPT ![ip] = -1]
    BY <1>2, <1>7
  <2>2. d \in Seq(Times)
    BY <1>1, <1>3, <1>5, <1>7, TableDrops, Numbers
  <2>3. TableOK(requestsByIp', Ips, admitted', IpWindow, clock)
    BY <1>1, <1>3, <1>5, <1>7, <2>1, TableAppends, Numbers
  <2> DEFINE v == Append(d, now)
  <2>4. Len(v) <= MaxRequestsPerIp
    BY <1>1, <1>4, <1>7, <2>2, Numbers
  <2>5. \A x : Window(requestsByIp', x) = IF x = ip THEN v ELSE Window(requestsByIp, x)
    BY <2>1 DEF Put, Window
  <2> HIDE DEF v
  <2>6. PromisesOK'
    <3>1. promised' \in [Ips -> Nat \cup {-1}]
      BY <1>5, <2>1 DEF PromisesOK
    <3>2. ASSUME NEW i \in Ips
          PROVE  LET w == Window(requestsByIp', i)
                 IN  /\ Len(w) <= MaxRequestsPerIp
                     /\ promised'[i] # -1 =>
                          Len(w) < MaxRequestsPerIp \/ w[1] + IpWindow <= promised'[i]
      BY <1>5, <2>1, <2>4, <2>5 DEF PromisesOK
    <3> QED  BY <3>1, <3>2 DEF PromisesOK, Window
  <2> QED  BY <2>3, <2>6
<1> QED  BY <1>6, <1>7

(* The name decides: a login goes on while the failures are below the      *)
(* limit.                                                                  *)
LEMMA CountName ==
  ASSUME ThrottleInv, NEW t \in Threads, CountAttempt(t)
  PROVE  /\ TableOK(failuresByUser', Usernames, failed', FailureWindow, clock)
         /\ FailuresOK'
<1> DEFINE now == login[t].now
           name == login[t].name
           d == LiveFailures(name, now)
           l == IF RefusedByName(name, now) THEN Idle ELSE [at |-> "hash", name |-> name]
<1>1. /\ WorkOK /\ clock \in Times /\ now \in Times /\ now <= clock /\ name \in Usernames
  BY AttemptFields DEF ThrottleInv, WorkOK, CountAttempt, Fresh
<1>2. /\ failuresByUser' = IF name \in DOMAIN failuresByUser
                           THEN Put(failuresByUser, name, d) ELSE failuresByUser
      /\ login' = [login EXCEPT ![t] = l] /\ failed' = failed
  BY DEF CountAttempt
<1>3. d = dropExpired(Window(failuresByUser, name), now, FailureWindow)
  BY DEF LiveFailures
<1>4. l.at = "hash" => ~RefusedByName(name, now)
  BY Idles
<1>5. l.at # "hash" => l.at = "idle"
  BY Idles
<1>6. l.at = "hash" => l.name = name
  BY Idles
<1>7. TableOK(failuresByUser, Usernames, failed, FailureWindow, clock) /\ FailuresOK
  BY DEF ThrottleInv, TablesOK
<1>8. RefusedByName(name, now) <=> name \in DOMAIN failuresByUser /\ Len(d) >= MaxFailuresPerUser
  BY DEF RefusedByName
<1> HIDE DEF d, l, now, name
<1>9. /\ TableOK(failuresByUser', Usernames, failed, FailureWindow, clock)
      /\ l.at = "hash" => Len(failed[name]) <= MaxFailuresPerUser - 1
  <2>1. CASE name \in DOMAIN failuresByUser
    <3>1. Tracked(failuresByUser, name)
      BY <2>1 DEF Tracked
    <3>2. /\ TableOK(Put(failuresByUser, name, d), Usernames, failed, FailureWindow, clock)
          /\ d \in Seq(Times) /\ Recorded(d, failed[name], FailureWindow, clock)
      BY <1>1, <1>3, <1>7, <3>1, TableDrops, Numbers
    <3>3. Len(failed[name]) \in Nat /\ Len(d) \in Nat /\ Len(failed[name]) <= Len(d)
      BY <1>1, <1>7, <3>2 DEF TableOK, Recorded
    <3>4. l.at = "hash" => Len(failed[name]) <= MaxFailuresPerUser - 1
      BY <1>4, <1>8, <2>1, <3>3, Numbers
    <3> QED  BY <1>2, <2>1, <3>2, <3>4
  <2>2. CASE name \notin DOMAIN failuresByUser
    <3>1. Window(failuresByUser, name) = <<>>
      BY <2>2 DEF Window
    <3>2. Len(failed[name]) \in Nat /\ Len(failed[name]) <= 0
      BY <1>1, <1>7, <3>1 DEF TableOK, Recorded
    <3> QED  BY <1>2, <1>7, <2>2, <3>2, Numbers
  <2> QED  BY <2>1, <2>2
<1>10. FailuresOK'
  <2>1. ASSUME NEW n \in Usernames
        PROVE  Len(failed[n])' + Cardinality(Pending(n)') <=
                 MaxFailuresPerUser + Cardinality(Threads) - 1
    <3>1. Len(failed[n])' = Len(failed[n]) /\ Len(failed[n]) \in Nat
      BY <1>2, <1>7 DEF TableOK
    <3>2. CASE l.at = "hash" /\ n = name
      BY <1>9, <3>1, <3>2, PendingFinite, Numbers
    <3>3. CASE ~(l.at = "hash" /\ n = name)
      <4>1. l.at \notin {"hash", "record"} \/ l.name # n
        BY <1>5, <1>6, <3>3
      <4>2. Cardinality(Pending(n)') <= Cardinality(Pending(n))
        BY <1>1, <1>2, <4>1, PendingStays
      <4> QED  BY <3>1, <4>2, SameFailures DEF ThrottleInv
    <3> QED  BY <3>2, <3>3
  <2> QED  BY <2>1 DEF FailuresOK
<1> QED  BY <1>2, <1>9, <1>10

LEMMA CountAttemptKeeps ==
  ASSUME ThrottleInv, NEW t \in Threads, CountAttempt(t)
  PROVE  ThrottleInv'
<1> DEFINE name == login[t].name
           l == IF RefusedByName(name, login[t].now) THEN Idle
                ELSE [at |-> "hash", name |-> name]
<1>1. WorkOK /\ name \in Usernames
  BY AttemptFields DEF ThrottleInv, CountAttempt
<1>2. l \in Attempt /\ l.at \notin {"check", "record"}
  BY <1>1, Idles DEF Attempt
<1>3. login' = [login EXCEPT ![t] = l] /\ UNCHANGED <<clock, purgeTime>>
  BY DEF CountAttempt
<1> HIDE DEF l, name
<1>4. WorkOK'
  BY <1>1, <1>2, <1>3, WorkGoesOn
<1>5. TablesOK'
  BY <1>3, CountAddress, CountName DEF TablesOK, TableOK
<1> QED  BY <1>4, <1>5, CountAddress, CountName DEF ThrottleInv

(* A failure is recorded where it was pending. *)
LEMMA RecordFailureKeeps ==
  ASSUME ThrottleInv, NEW t \in Threads, recordFailure(t)
  PROVE  ThrottleInv'
<1> DEFINE now == login[t].now
           name == login[t].name
           d == LiveFailures(name, now)
<1>1. /\ WorkOK /\ clock \in Times /\ now \in Times /\ now <= clock /\ clock - now <= Delay
      /\ name \in Usernames /\ t \in Pending(name)
  BY AttemptFields DEF ThrottleInv, WorkOK, recordFailure, Fresh, Pending
<1>2. /\ IF Tracked(failuresByUser, name)
         THEN /\ failuresByUser' = Put(failuresByUser, name, Append(d, now))
              /\ failed' = [failed EXCEPT ![name] = Append(@, clock)]
         ELSE UNCHANGED <<failuresByUser, failed>>
      /\ login' = [login EXCEPT ![t] = Idle]
      /\ UNCHANGED <<clock, requestsByIp, purgeTime, admitted, promised>>
  BY DEF recordFailure
<1>3. d = dropExpired(Window(failuresByUser, name), now, FailureWindow)
  BY DEF LiveFailures
<1>4. TableOK(failuresByUser, Usernames, failed, FailureWindow, clock) /\ FailuresOK
  BY DEF ThrottleInv, TablesOK
<1> HIDE DEF d, now, name
<1>5. WorkOK'
  BY <1>1, <1>2, Idles, WorkGoesOn
<1>6. PromisesOK'
  BY <1>2 DEF ThrottleInv, PromisesOK, Window
<1>7. TableOK(failuresByUser', Usernames, failed', FailureWindow, clock)
  <2>1. CASE Tracked(failuresByUser, name)
    BY <1>1, <1>2, <1>3, <1>4, <2>1, TableAppends, Numbers
  <2>2. CASE ~Tracked(failuresByUser, name)
    BY <1>2, <1>4, <2>2
  <2> QED  BY <2>1, <2>2
<1>8. TablesOK'
  BY <1>2, <1>7 DEF ThrottleInv, TablesOK, TableOK, SmallTable, Window
<1>9. FailuresOK'
  <2>1. ASSUME NEW n \in Usernames
        PROVE  Len(failed[n])' + Cardinality(Pending(n)') <=
                 MaxFailuresPerUser + Cardinality(Threads) - 1
    <3>1. failed \in [Usernames -> Seq(Times)] /\ failed[n] \in Seq(Times)
      BY <1>4 DEF TableOK
    <3>2. CASE n = name
      <4>1. Len(failed[n])' \in Nat /\ Len(failed[n])' <= Len(failed[n]) + 1
        <5>1. failed[n]' = failed[n] \/ failed[n]' = Append(failed[n], clock)
          BY <1>2, <3>1, <3>2
        <5>2. Len(Append(failed[n], clock)) = Len(failed[n]) + 1
          BY <1>1, <3>1
        <5> QED  BY <3>1, <5>1, <5>2
      <4>2. Pending(n)' \subseteq Pending(n) \ {t}
        BY <1>1, <1>2, Idles DEF Pending, WorkOK
      <4>3. /\ IsFiniteSet(Pending(n) \ {t})
            /\ Cardinality(Pending(n) \ {t}) = Cardinality(Pending(n)) - 1
        BY <1>1, <3>2, PendingFinite, FS_RemoveElement
      <4>4. Cardinality(Pending(n)') <= Cardinality(Pending(n)) - 1
        BY <4>2, <4>3, FS_Subset
      <4>5. Len(failed[n]) + Cardinality(Pending(n)) <=
              MaxFailuresPerUser + Cardinality(Threads) - 1
        BY <1>4 DEF FailuresOK
      <4> QED  BY <3>1, <4>1, <4>4, <4>5, PendingFinite, Numbers
    <3>3. CASE n # name
      <4>1. failed[n]' = failed[n]
        BY <1>2, <3>1, <3>3
      <4>2. Cardinality(Pending(n)') <= Cardinality(Pending(n))
        BY <1>1, <1>2, Idles, PendingStays
      <4> QED  BY <3>1, <4>1, <4>2, SameFailures DEF ThrottleInv
    <3> QED  BY <3>2, <3>3
  <2> QED  BY <2>1 DEF FailuresOK
<1> QED  BY <1>5, <1>6, <1>8, <1>9 DEF ThrottleInv

(* A purge drops expired entries only; a full window it does not touch has *)
(* the oldest entry it had.                                                *)
LEMMA PurgeExpiredKeeps ==
  ASSUME ThrottleInv, purgeExpired
  PROVE  ThrottleInv'
<1>1. /\ WorkOK /\ clock \in Times /\ purgeTime \in Times /\ purgeTime <= clock
      /\ failuresByUser' = purgeMap(failuresByUser, purgeTime, FailureWindow)
      /\ requestsByIp' = purgeMap(requestsByIp, purgeTime, IpWindow)
      /\ purgeTime' = -1
      /\ UNCHANGED <<clock, login, admitted, failed, promised>>
  BY DEF purgeExpired, ThrottleInv, WorkOK, Fresh, historyVars
<1>2. WorkOK'
  BY <1>1 DEF WorkOK, Fresh
<1>3. /\ TableOK(failuresByUser', Usernames, failed, FailureWindow, clock)
      /\ TableOK(requestsByIp', Ips, admitted, IpWindow, clock)
  BY <1>1, TablePurged, Numbers DEF ThrottleInv, TablesOK
<1>4. TablesOK'
  BY <1>1, <1>3 DEF TablesOK, TableOK
<1>5. PromisesOK'
  <2>1. promised \in [Ips -> Nat \cup {-1}]
    BY DEF ThrottleInv, PromisesOK
  <2>2. ASSUME NEW i \in Ips
        PROVE  LET w == Window(requestsByIp', i)
               IN  /\ Len(w) <= MaxRequestsPerIp
                   /\ promised[i] # -1 =>
                        Len(w) < MaxRequestsPerIp \/ w[1] + IpWindow <= promised[i]
    <3> DEFINE w == Window(requestsByIp, i)
               v == Window(requestsByIp', i)
    <3>1. /\ v \in Seq(Times) /\ Len(v) <= Len(w)
          /\ Len(v) = Len(w) => v = w
      <4>1. TableOK(requestsByIp, Ips, admitted, IpWindow, clock)
        BY DEF ThrottleInv, TablesOK
      <4>2. IpWindow \in Nat
        BY Numbers
      <4>3. /\ Window(purgeMap(requestsByIp, purgeTime, IpWindow), i) \in Seq(Times)
            /\ Len(Window(purgeMap(requestsByIp, purgeTime, IpWindow), i)) <= Len(w)
            /\ Len(Window(purgeMap(requestsByIp, purgeTime, IpWindow), i)) = Len(w) =>
                 Window(purgeMap(requestsByIp, purgeTime, IpWindow), i) = w
        BY <1>1, <4>1, <4>2, WindowPurged
      <4>4. v = Window(purgeMap(requestsByIp, purgeTime, IpWindow), i)
        BY <1>1
      <4> HIDE DEF w, v
      <4> QED  BY <4>3, <4>4
    <3>2. /\ Len(w) <= MaxRequestsPerIp
          /\ promised[i] # -1 =>
               Len(w) < MaxRequestsPerIp \/ w[1] + IpWindow <= promised[i]
      BY DEF ThrottleInv, PromisesOK
    <3>3. w \in Seq(Times)
      BY DEF ThrottleInv, TablesOK, TableOK
    <3> HIDE DEF w, v
    <3>4. Len(w) \in Nat /\ Len(v) \in Nat
      BY <3>1, <3>3
    <3>5. /\ Len(v) <= MaxRequestsPerIp
          /\ promised[i] # -1 =>
               Len(v) < MaxRequestsPerIp \/ v[1] + IpWindow <= promised[i]
      BY <3>1, <3>2, <3>4, Numbers
    <3> QED  BY <3>5 DEF v
  <2> QED  BY <1>1, <2>1, <2>2 DEF PromisesOK, Window
<1>6. FailuresOK'
  BY <1>1 DEF ThrottleInv, FailuresOK, Pending
<1> QED  BY <1>2, <1>4, <1>5, <1>6 DEF ThrottleInv

LEMMA TickKeeps ==
  ASSUME ThrottleInv, Tick
  PROVE  ThrottleInv'
<1>1. /\ WorkOK /\ clock \in Times /\ clock < MaxTime /\ clock' = clock + 1
      /\ UNCHANGED <<throttleVars, login, purgeTime, promised>>
      /\ admitted' = [i \in Ips |-> Lately(admitted[i], IpWindow)]
      /\ failed' = [n \in Usernames |-> Lately(failed[n], FailureWindow)]
  BY DEF Tick, ThrottleInv, WorkOK
<1>2. WorkOK'
  <2>1. clock' \in Times
    BY <1>1, LimitsAssumption DEF Times
  <2>3. ASSUME NEW t \in Threads, login[t].at \in {"check", "record"}
        PROVE  Fresh(login[t].now)'
    <3>1. login[t].now \in Times /\ Fresh(login[t].now) /\ clock - login[t].now < Delay
      BY <1>1, <2>3, AttemptFields DEF Tick
    <3>2. login[t].now \in Nat /\ clock \in Nat
      BY <1>1, <3>1, Numbers
    <3> QED  BY <1>1, <3>1, <3>2, Numbers DEF Fresh
  <2>4. purgeTime # -1 => Fresh(purgeTime)'
    BY <1>1, Numbers DEF Tick, WorkOK, Fresh
  <2> QED  BY <1>1, <2>1, <2>3, <2>4 DEF WorkOK
<1>3. /\ TableOK(requestsByIp, Ips, admitted', IpWindow, clock')
      /\ TableOK(failuresByUser, Usernames, failed', FailureWindow, clock')
      /\ \A n \in Usernames : Len(failed'[n]) <= Len(failed[n])
  BY <1>1, TableTicks, Numbers DEF ThrottleInv, TablesOK
<1>4. TablesOK'
  BY <1>1, <1>3 DEF TablesOK, TableOK, SmallTable, Window, throttleVars
<1>5. PromisesOK'
  BY <1>1 DEF ThrottleInv, PromisesOK, Window, throttleVars
<1>6. FailuresOK'
  <2>1. ASSUME NEW n \in Usernames
        PROVE  Len(failed[n])' + Cardinality(Pending(n)') <=
                 MaxFailuresPerUser + Cardinality(Threads) - 1
    <3>1. Len(failed[n])' \in Nat /\ Len(failed[n])' <= Len(failed[n])
      BY <1>3 DEF TableOK
    <3>2. Pending(n)' = Pending(n)
      BY <1>1 DEF Pending
    <3>3. Cardinality(Pending(n)') <= Cardinality(Pending(n))
      BY <3>2, PendingFinite
    <3> QED  BY <3>1, <3>3, SameFailures DEF ThrottleInv
  <2> QED  BY <2>1 DEF FailuresOK
<1> QED  BY <1>2, <1>4, <1>5, <1>6 DEF ThrottleInv

-----------------------------------------------------------------------------
LEMMA ThrottleInit == Init => ThrottleInv
<1> SUFFICES ASSUME Init PROVE ThrottleInv
  OBVIOUS
<1>1. WorkOK
  BY Idles, Numbers, LimitsAssumption DEF Init, WorkOK, Times
<1>2. /\ DOMAIN requestsByIp = {} /\ DOMAIN failuresByUser = {}
      /\ \A x : Window(requestsByIp, x) = <<>> /\ Window(failuresByUser, x) = <<>>
  BY DEF Init, Window
<1>3. SmallTable(requestsByIp) /\ SmallTable(failuresByUser)
  BY <1>2, FS_EmptySet, LimitsAssumption DEF SmallTable
<1>4. \A length, time : Recorded(<<>>, <<>>, length, time)
  BY DEF Recorded
<1>5. /\ admitted = [i \in Ips |-> <<>>] /\ failed = [n \in Usernames |-> <<>>]
      /\ promised = [i \in Ips |-> -1] /\ <<>> \in Seq(Times)
  BY DEF Init
<1>6. TablesOK
  BY <1>2, <1>3, <1>4, <1>5 DEF TablesOK, TableOK
<1>7. PromisesOK
  BY <1>2, <1>5, Numbers DEF PromisesOK
<1>8. FailuresOK
  <2>1. \A n : Pending(n) = {}
    BY DEF Init, Pending, Idle
  <2>2. \A n : Cardinality(Pending(n)) = 0
    BY <2>1, FS_EmptySet
  <2>3. \A n \in Usernames : Len(failed[n]) = 0
    BY <1>5
  <2> QED  BY <2>2, <2>3, Numbers DEF FailuresOK
<1> QED  BY <1>1, <1>6, <1>7, <1>8 DEF ThrottleInv

LEMMA ThrottleStep == ThrottleInv /\ [Next]_vars => ThrottleInv'
<1> SUFFICES ASSUME ThrottleInv, [Next]_vars PROVE ThrottleInv'
  OBVIOUS
<1>1. CASE UNCHANGED vars
  <2>1. WorkOK'
    BY <1>1 DEF vars, ThrottleInv, WorkOK, Fresh
  <2>2. \A n \in Usernames : Pending(n)' = Pending(n)
    BY <1>1 DEF vars, Pending
  <2> QED  BY <1>1, <2>1, <2>2, PendingFinite, TablesStay DEF vars
<1>2. CASE Next
  BY <1>2, StartLoginKeeps, RefuseAddressKeeps, CountAttemptKeeps, FinishHashKeeps,
     RecordFailureKeeps, StartPurgeKeeps, PurgeExpiredKeeps, TickKeeps DEF Next
<1> QED  BY <1>1, <1>2

LEMMA ThrottleInvariant == Spec => []ThrottleInv
  BY ThrottleInit, ThrottleStep, PTL DEF Spec

(* TypeOK: the tables never have more keys than MAX_TRACKED_KEYS, however  *)
(* many addresses and names come and whenever the timer purges them.       *)
THEOREM ThrottleTypeCorrect == Spec => []TypeOK
<1>1. ThrottleInv => TypeOK
  <2> SUFFICES ASSUME ThrottleInv PROVE TypeOK
    OBVIOUS
  <2>1. ASSUME NEW i \in DOMAIN requestsByIp PROVE requestsByIp[i] \in Seq(Times)
    BY DEF ThrottleInv, TablesOK, TableOK, Window
  <2>2. ASSUME NEW n \in DOMAIN failuresByUser PROVE failuresByUser[n] \in Seq(Times)
    BY DEF ThrottleInv, TablesOK, TableOK, Window
  <2>3. \A t \in Threads : login[t].at \in {"idle", "check", "hash", "record"}
    BY DEF ThrottleInv, WorkOK, Attempt
  <2> QED
    BY <2>1, <2>2, <2>3 DEF TypeOK, ThrottleInv, WorkOK, TablesOK, TableOK, SmallTable
<1> QED  BY <1>1, ThrottleInvariant, PTL

(* IpLimit: in no stretch of time a window less the delay of the lock long *)
(* are more requests of a tracked address admitted than its limit.         *)
THEOREM AddressesLimited == Spec => []IpLimit
<1>1. ThrottleInv => IpLimit
  <2> SUFFICES ASSUME ThrottleInv, NEW i \in Ips
               PROVE  Len(admitted[i]) <= MaxRequestsPerIp
    BY DEF IpLimit
  <2>1. /\ Len(admitted[i]) <= Len(Window(requestsByIp, i))
        /\ Len(Window(requestsByIp, i)) \in Nat /\ Len(admitted[i]) \in Nat
    BY DEF ThrottleInv, TablesOK, TableOK, Recorded
  <2>2. Len(Window(requestsByIp, i)) <= MaxRequestsPerIp
    BY DEF ThrottleInv, PromisesOK
  <2> QED  BY <2>1, <2>2, Numbers
<1> QED  BY <1>1, ThrottleInvariant, PTL

(* FailureLimit: in a window less the delay of the lock, the failed logins *)
(* of a name exceed the limit by at most the other threads, whose attempts *)
(* were checked at the same time.                                          *)
THEOREM FailuresLimited == Spec => []FailureLimit
<1>1. ThrottleInv => FailureLimit
  <2> SUFFICES ASSUME ThrottleInv, NEW n \in Usernames
               PROVE  Len(failed[n]) <= MaxFailuresPerUser + Cardinality(Threads) - 1
    BY DEF FailureLimit
  <2>1. Len(failed[n]) \in Nat
    BY DEF ThrottleInv, TablesOK, TableOK
  <2>2. Len(failed[n]) + Cardinality(Pending(n)) <=
          MaxFailuresPerUser + Cardinality(Threads) - 1
    BY DEF ThrottleInv, FailuresOK
  <2> QED  BY <2>1, <2>2, PendingFinite, Numbers
<1> QED  BY <1>1, ThrottleInvariant, PTL

(* RetryAfterSuffices: a client that waits as long as it was told is not   *)
(* refused by the limit of its address, unless a request came between.     *)
THEOREM WaitingSuffices == Spec => []RetryAfterSuffices
<1>1. ThrottleInv => RetryAfterSuffices
  <2> SUFFICES ASSUME ThrottleInv, NEW t \in Threads, login[t].at = "check",
                      promised[login[t].ip] # -1, login[t].now >= promised[login[t].ip],
                      RefusedByIp(login[t].ip, login[t].now)
               PROVE  FALSE
    BY DEF RetryAfterSuffices
  <2> DEFINE ip == login[t].ip
             now == login[t].now
             w == Window(requestsByIp, ip)
             d == LiveRequests(ip, now)
  <2>1. ip \in Ips /\ now \in Times /\ now <= clock /\ clock \in Times
    BY AttemptFields DEF ThrottleInv, WorkOK, Fresh
  <2>2. Tracked(requestsByIp, ip) /\ Len(d) >= MaxRequestsPerIp
    BY DEF RefusedByIp
  <2>3. promised[ip] # -1 /\ now >= promised[ip]
    OBVIOUS
  <2>4. d = dropExpired(w, now, IpWindow)
    BY DEF LiveRequests
  <2>5. /\ Len(w) <= MaxRequestsPerIp
        /\ Len(w) < MaxRequestsPerIp \/ w[1] + IpWindow <= promised[ip]
    BY <2>1, <2>3 DEF ThrottleInv, PromisesOK
  <2> HIDE DEF d, now, ip
  <2>6. /\ d \in Seq(Times) /\ Len(d) <= Len(w)
        /\ d # <<>> => now - d[1] < IpWindow
        /\ Len(d) = Len(w) => d = w
    <3>1. TableOK(requestsByIp, Ips, admitted, IpWindow, clock) /\ IpWindow \in Nat
      BY Numbers DEF ThrottleInv, TablesOK
    <3>2. /\ w \in Seq(Times) /\ admitted[ip] \in Seq(Times)
          /\ Recorded(w, admitted[ip], IpWindow, clock)
      BY <2>1, <3>1 DEF TableOK
    <3> HIDE DEF w
    <3> QED  BY <2>1, <2>4, <3>1, <3>2, DropKeeps
  <2>7. w \in Seq(Times) /\ promised[ip] \in Nat \cup {-1}
    BY <2>1 DEF ThrottleInv, TablesOK, TableOK, PromisesOK
  <2> HIDE DEF w
  <2>8. Len(d) \in Nat /\ Len(w) \in Nat /\ Len(d) >= 1 /\ Len(d) = Len(w)
        /\ ~(Len(w) < MaxRequestsPerIp)
    BY <2>2, <2>5, <2>6, <2>7, Numbers
  <2>9. d = w /\ d # <<>> /\ w[1] \in Times
    BY <2>6, <2>7, <2>8
  <2>10. now - w[1] < IpWindow /\ w[1] + IpWindow <= promised[ip] /\ promised[ip] <= now
    BY <2>3, <2>5, <2>6, <2>8, <2>9
  <2>11. w[1] \in Nat /\ now \in Nat /\ promised[ip] \in Nat /\ IpWindow \in Nat
    BY <2>1, <2>3, <2>7, <2>9, Numbers
  <2> QED
    BY <2>10, <2>11
<1> QED  BY <1>1, ThrottleInvariant, PTL
=============================================================================
