-------------------------- MODULE LoopbackCallsProofs --------------------------
(***************************************************************************)
(* Theorems about the calls of the loopback's store: StoreConsistent holds *)
(* of every run, with streams and without, and StreamsConsistent of every  *)
(* run with streams, for every number of slots, handles and sends and      *)
(* every size of the windows.                                              *)
(*                                                                         *)
(* The proof goes from small to large.  Lemmas about numbers, the queue,   *)
(* the slots of the table and streams come first.  Then each operation on  *)
(* a cell is shown to leave a good cell: Kept by the operations that       *)
(* answer nothing, Answered by those that do.  The invariant IInv says     *)
(* that every cell is good (CellsOK), that sends and claims are numbered   *)
(* apart (Numbered), that a claim on record names the one call that        *)
(* carries its id (ClaimsOK), and that the queue lists the calls that wait *)
(* once each in send order (QueueOK).  Each step keeps it.                 *)
(*                                                                         *)
(* The second half adds SInv: what the streams of a call are to the state  *)
(* of its slot (SoundCall), who gives the slot back (HeldFor), that a call *)
(* that waits was not touched by a provider (SoundIn), and that whoever    *)
(* sleeps has its waker stored (Sleeping).  Again each operation on a cell *)
(* comes first: Minded says that it loses no waker and leaves the call     *)
(* sound, Steered that one side's operation on a stream does.              *)
(***************************************************************************)
EXTENDS LoopbackStreams, FiniteSetTheorems, SequenceTheorems, WellFoundedInduction, TLAPS

-----------------------------------------------------------------------------
\* A set of numbers has a least one.
LEMMA LeastNumber ==
    ASSUME NEW S \in SUBSET Nat, S # {}
    PROVE  \E n \in S : \A m \in S : n <= m
<1> DEFINE R == OpToRel(<, Nat)
<1>1. IsWellFoundedOn(R, Nat)
  BY NatLessThanWellFounded
<1>2. PICK x \in S : \A y \in S : ~(<<y, x>> \in R)
  <2> HIDE DEF R
  <2> QED BY <1>1, WFMin, Zenon
<1>3. \A y \in S : ~(y < x)
  BY <1>2 DEF OpToRel
<1> QED BY <1>3

\* Min is a member of the set, and no other is less.
LEMMA MinIsLeast ==
    ASSUME NEW S \in SUBSET Nat, S # {}
    PROVE  Min(S) \in S /\ \A m \in S : Min(S) <= m
  BY LeastNumber DEF Min

(***************************************************************************)
(* The queue.                                                              *)
(***************************************************************************)
\* q lists the members of S once each, in the order of their keys.
Lists(q, S, key) ==
    /\ q \in Seq(S)
    /\ \A c \in S : key[c] \in Nat
    /\ \A c \in S : \E p \in DOMAIN q : q[p] = c
    /\ \A p, r \in DOMAIN q : p < r => key[q[p]] < key[q[r]]

\* What is left of the first n elements of q without those of gone.
Left(f, q, gone, n) ==
    f = [m \in 0 .. n |->
           IF m = 0 THEN <<>>
           ELSE IF q[m] \in gone THEN f[m - 1] ELSE Append(f[m - 1], q[m])]

\* What Without goes through exists.
LEMMA LeftExists ==
    ASSUME NEW q, NEW gone, NEW n \in Nat
    PROVE  \E f : Left(f, q, gone, n)
<1> DEFINE Bad == {m \in Nat : ~\E f : Left(f, q, gone, m)}
<1> SUFFICES ASSUME Bad # {} PROVE FALSE
  OBVIOUS
<1>1. PICK m \in Bad : \A k \in Bad : m <= k
  BY LeastNumber
<1>2. CASE m = 0
  <2> DEFINE f == [i \in 0 .. 0 |-> <<>>]
  <2>1. f = [i \in 0 .. 0 |->
               IF i = 0 THEN <<>> ELSE IF q[i] \in gone THEN f[i - 1] ELSE Append(f[i - 1], q[i])]
    OBVIOUS
  <2> HIDE DEF f
  <2>2. Left(f, q, gone, 0)
    BY <2>1 DEF Left
  <2> QED BY <1>1, <1>2, <2>2
<1>3. CASE m # 0
  <2>1. m \in Nat /\ m - 1 \in Nat /\ ~(m <= m - 1)
    BY <1>3
  <2>2. PICK g : Left(g, q, gone, m - 1)
    BY <1>1, <2>1
  <2> DEFINE f == [i \in 0 .. m |->
                     IF i = 0 THEN <<>>
                     ELSE IF q[i] \in gone THEN g[i - 1] ELSE Append(g[i - 1], q[i])]
  <2>3. \A i \in 0 .. (m - 1) : f[i] = g[i]
    <3> HIDE DEF f
    <3>2. \A i \in 0 .. m :
             f[i] = IF i = 0 THEN <<>>
                    ELSE IF q[i] \in gone THEN g[i - 1] ELSE Append(g[i - 1], q[i])
      BY DEF f
    <3>3. \A i \in 0 .. (m - 1) : i \in 0 .. m
      BY <2>1
    <3> QED BY <2>2, <3>2, <3>3 DEF Left
  <2>4. ASSUME NEW i \in 0 .. m
        PROVE  f[i] = IF i = 0 THEN <<>>
                      ELSE IF q[i] \in gone THEN f[i - 1] ELSE Append(f[i - 1], q[i])
    <3>1. i # 0 => i - 1 \in 0 .. (m - 1)
      BY <2>1
    <3> QED BY <2>3, <3>1
  <2>5. Left(f, q, gone, m)
    <3>1. f = [i \in 0 .. m |-> f[i]]
      OBVIOUS
    <3> HIDE DEF f
    <3> QED BY <2>4, <3>1 DEF Left
  <2> QED BY <1>1, <2>5
<1> QED BY <1>2, <1>3

\* A listing with an element of the greatest key appended.
LEMMA ListsAppended ==
    ASSUME NEW q, NEW S, NEW key, Lists(q, S, key), NEW c, c \notin S,
           key[c] \in Nat, \A d \in S : key[d] < key[c]
    PROVE  Lists(Append(q, c), S \cup {c}, key)
<1> DEFINE w == Append(q, c)
           T == S \cup {c}
<1>1. q \in Seq(S) /\ DOMAIN q = 1 .. Len(q) /\ Len(q) \in Nat
  BY LenProperties DEF Lists
<1>2. w \in Seq(T) /\ DOMAIN w = 1 .. (Len(q) + 1)
  <2>1. q \in Seq(T) /\ c \in T
    BY <1>1
  <2> HIDE DEF T
  <2> QED BY <1>1, <2>1
<1>3. \A p \in DOMAIN q : w[p] = q[p] /\ q[p] \in S /\ p \in DOMAIN w
  BY <1>1, <1>2
<1>4. w[Len(q) + 1] = c /\ Len(q) + 1 \in DOMAIN w
  BY <1>1, <1>2
<1> HIDE DEF w
<1>6. ASSUME NEW p \in DOMAIN w, NEW r \in DOMAIN w, p < r
      PROVE  key[w[p]] < key[w[r]]
  <2>1. p \in DOMAIN q
    BY <1>1, <1>2, <1>6
  <2>2. CASE r \in DOMAIN q
    BY <1>3, <1>6, <2>1, <2>2 DEF Lists
  <2>3. CASE r \notin DOMAIN q
    <3> QED BY <1>3, <1>4, <2>1, <1>1, <1>2, <2>3
  <2> QED BY <2>2, <2>3
<1>7. \A d \in T : key[d] \in Nat
  BY DEF Lists
<1> QED BY <1>2, <1>3, <1>4, <1>6, <1>7 DEF Lists, w

\* Without removes the members of gone from a listing, and nothing else.
LEMMA ListsWithout ==
    ASSUME NEW q, NEW S, NEW key, NEW gone, Lists(q, S, key)
    PROVE  Lists(Without(q, gone), S \ gone, key)
<1> DEFINE n == Len(q)
           Taken(m) == {q[p] : p \in 1 .. m} \ gone
<1>1. q \in Seq(S) /\ DOMAIN q = 1 .. n /\ n \in Nat /\ \A p \in 1 .. n : q[p] \in S
  BY LenProperties, ElementOfSeq DEF Lists
<1> HIDE DEF n
<1>2. PICK f : Left(f, q, gone, n) /\ Without(q, gone) = f[n]
  <2>2. Without(q, gone) = (CHOOSE f : Left(f, q, gone, n))[n]
    BY DEF Without, Left, n
  <2> QED BY <1>1, LeftExists, <2>2
<1>3. \A m \in 0 .. n : f[m] = IF m = 0 THEN <<>>
                               ELSE IF q[m] \in gone THEN f[m - 1] ELSE Append(f[m - 1], q[m])
  BY <1>2 DEF Left
<1> DEFINE Bad == {m \in 0 .. n : ~Lists(f[m], Taken(m), key)}
<1>4. Bad = {}
  <2> SUFFICES ASSUME Bad # {} PROVE FALSE
    OBVIOUS
  <2>1. PICK m \in Bad : \A k \in Bad : m <= k
    <3>1. Bad \in SUBSET Nat
      BY <1>1
    <3> HIDE DEF Bad
    <3> QED BY <3>1, LeastNumber
  <2>2. m \in 0 .. n /\ m \in Nat /\ ~Lists(f[m], Taken(m), key)
    BY <1>1, <2>1
  <2>3. m # 0
    <3> SUFFICES ASSUME m = 0 PROVE FALSE
      OBVIOUS
    <3>1. f[m] = <<>> /\ Taken(m) = {}
      BY <1>3, <2>2
    <3>2. Lists(<<>>, {}, key)
      BY DEF Lists
    <3> QED BY <2>2, <3>1, <3>2
  <2>4. m - 1 \in 0 .. n /\ ~(m <= m - 1) /\ m \in 1 .. n
    BY <1>1, <2>2, <2>3
  <2>5. Lists(f[m - 1], Taken(m - 1), key)
    BY <2>1, <2>4
  <2>6. {q[p] : p \in 1 .. m} = {q[p] : p \in 1 .. (m - 1)} \cup {q[m]}
    BY <2>2, <2>3
  <2>7. CASE q[m] \in gone
    <3> QED BY <2>2, <2>5, <1>3, <2>3, <2>6, <2>7
  <2>8. CASE q[m] \notin gone
    <3>1. Taken(m) = Taken(m - 1) \cup {q[m]} /\ f[m] = Append(f[m - 1], q[m])
      BY <1>3, <2>2, <2>3, <2>6, <2>8
    <3>2. ASSUME NEW d \in Taken(m - 1) PROVE key[d] < key[q[m]] /\ d # q[m]
      <4>1. PICK p \in 1 .. (m - 1) : d = q[p]
        OBVIOUS
      <4>2. p \in DOMAIN q /\ m \in DOMAIN q /\ p < m
        BY <1>1, <2>4, <4>1
      <4>3. key[q[p]] < key[q[m]] /\ key[q[m]] \in Nat
        BY <1>1, <4>2 DEF Lists
      <4> QED BY <4>1, <4>3
    <3> HIDE DEF Taken
    <3>5. key[q[m]] \in Nat
      BY <1>1, <2>4 DEF Lists
    <3>4. Lists(Append(f[m - 1], q[m]), Taken(m - 1) \cup {q[m]}, key)
      BY <2>5, <3>2, <3>5, ListsAppended
    <3> QED BY <2>2, <3>1, <3>4
  <2> QED BY <2>7, <2>8
<1>5. Taken(n) = S \ gone
  <2> QED BY <1>1 DEF Lists
<1>6. n \in 0 .. n
  BY <1>1
<1> QED BY <1>2, <1>4, <1>5, <1>6

\* What InsertAt does.
LEMMA InsertedAt ==
    ASSUME NEW X, NEW q \in Seq(X), NEW m \in 0 .. Len(q), NEW c \in X
    PROVE  /\ InsertAt(q, m + 1, c) \in Seq(X)
           /\ DOMAIN InsertAt(q, m + 1, c) = 1 .. (Len(q) + 1)
           /\ \A p \in 1 .. (Len(q) + 1) :
                 InsertAt(q, m + 1, c)[p] =
                    IF p <= m THEN q[p] ELSE IF p = m + 1 THEN c ELSE q[p - 1]
<1> DEFINE n == Len(q)
           a == SubSeq(q, 1, m)
           b == SubSeq(q, m + 1, n)
           u == a \o <<c>>
           w == InsertAt(q, m + 1, c)
<1>1. n \in Nat /\ DOMAIN q = 1 .. n /\ m \in Nat /\ m <= n /\ \A p \in 1 .. n : q[p] \in X
  BY LenProperties, ElementOfSeq
<1>2. w = u \o b
  <2>1. (m + 1) - 1 = m
    BY <1>1
  <2> QED BY <2>1 DEF InsertAt
<1>3. a \in Seq(X) /\ Len(a) = m /\ \A p \in 1 .. m : a[p] = q[p]
  <2> HIDE DEF n
  <2>2. /\ a \in Seq(X) /\ Len(a) = IF 1 <= m THEN m - 1 + 1 ELSE 0
        /\ \A p \in 1 .. (m - 1 + 1) : a[p] = q[1 + p - 1]
    BY <1>1, SubSeqProperties
  <2>4. (IF 1 <= m THEN m - 1 + 1 ELSE 0) = m /\ m - 1 + 1 = m
    BY <1>1
  <2> HIDE DEF a
  <2> QED BY <2>2, <1>1, <2>4
<1>4. b \in Seq(X) /\ Len(b) = n - m /\ \A p \in 1 .. (n - m) : b[p] = q[m + p]
  <2> HIDE DEF n
  <2>2. /\ b \in Seq(X) /\ Len(b) = IF m + 1 <= n THEN n - (m + 1) + 1 ELSE 0
        /\ \A p \in 1 .. (n - (m + 1) + 1) : b[p] = q[(m + 1) + p - 1]
    BY <1>1, SubSeqProperties
  <2>4. (IF m + 1 <= n THEN n - (m + 1) + 1 ELSE 0) = n - m /\ n - (m + 1) + 1 = n - m
    BY <1>1
  <2> HIDE DEF b
  <2>6. ASSUME NEW p \in 1 .. (n - m) PROVE b[p] = q[m + p]
    <3>2. b[p] = q[(m + 1) + p - 1]
      BY <2>2, <2>4
    <3> QED BY <1>1, <3>2
  <2> QED BY <2>2, <2>4, <2>6
<1> HIDE DEF a, b
<1>5. u \in Seq(X) /\ Len(u) = m + 1 /\ \A p \in 1 .. (m + 1) : u[p] = IF p <= m THEN a[p] ELSE c
  <2> DEFINE o == <<c>>
  <2> HIDE DEF o
  <2>2. o \in Seq(X) /\ Len(o) = 1 /\ o[1] = c
    BY DEF o
  <2> DEFINE v == a \o o
  <2>3. /\ v \in Seq(X) /\ Len(v) = Len(a) + Len(o)
        /\ \A p \in 1 .. Len(a) + Len(o) :
              v[p] = IF p <= Len(a) THEN a[p] ELSE o[p - Len(a)]
    BY <1>3, <2>2, ConcatProperties, Zenon
  <2> HIDE DEF v
  <2>5. ASSUME NEW p \in 1 .. (m + 1) PROVE v[p] = IF p <= m THEN a[p] ELSE c
    <3>2. ~(p <= m) => p - m = 1
      BY <1>1
    <3> QED BY <2>2, <1>1, <1>3, <2>3, <3>2
  <2> QED BY <1>3, <2>2, <2>3, <2>5 DEF o, v
<1> HIDE DEF u, n
<1>6. /\ u \o b \in Seq(X) /\ Len(u \o b) = n + 1
      /\ \A p \in 1 .. (n + 1) : (u \o b)[p] = IF p <= m + 1 THEN u[p] ELSE b[p - (m + 1)]
  <2> DEFINE v == u \o b
  <2>1. /\ v \in Seq(X) /\ Len(v) = Len(u) + Len(b)
        /\ \A p \in 1 .. Len(u) + Len(b) :
              v[p] = IF p <= Len(u) THEN u[p] ELSE b[p - Len(u)]
    BY <1>4, <1>5, ConcatProperties, Zenon
  <2> HIDE DEF v
  <2>2. Len(u) + Len(b) = n + 1 /\ Len(u) = m + 1
    BY <1>1, <1>4, <1>5
  <2>4. \A p \in 1 .. (n + 1) : v[p] = IF p <= m + 1 THEN u[p] ELSE b[p - (m + 1)]
    BY <2>1, <2>2
  <2> QED BY <2>1, <2>2, <2>4 DEF v
<1>7. ASSUME NEW p \in 1 .. (n + 1)
      PROVE  w[p] = IF p <= m THEN q[p] ELSE IF p = m + 1 THEN c ELSE q[p - 1]
  <2>1. w[p] = IF p <= m + 1 THEN u[p] ELSE b[p - (m + 1)]
    BY <1>2, <1>6
  <2> HIDE DEF w
  <2>2. CASE p <= m
    BY <1>1, <1>3, <1>5, <2>1, <2>2
  <2>3. CASE p = m + 1
    BY <1>1, <1>5, <2>1, <2>3
  <2>4. CASE p > m + 1
    <3>1. p - (m + 1) \in 1 .. (n - m) /\ m + (p - (m + 1)) = p - 1
      BY <1>1, <2>4
    <3> QED BY <1>1, <1>4, <2>1, <2>4, <3>1
  <2> QED BY <1>1, <2>2, <2>3, <2>4
<1> QED BY <1>7, <1>2, <1>6, LenProperties DEF n

\* An element is inserted after those of lower keys.
LEMMA ListsInserted ==
    ASSUME NEW q, NEW S, NEW key, Lists(q, S, key), NEW c, c \notin S,
           key[c] \in Nat, \A d \in S : key[d] # key[c]
    PROVE  Lists(InsertAt(q, Cardinality({p \in DOMAIN q : key[q[p]] < key[c]}) + 1, c),
                 S \cup {c}, key)
<1> DEFINE n == Len(q)
           B == {p \in DOMAIN q : key[q[p]] < key[c]}
           m == Cardinality(B)
           T == S \cup {c}
           w == InsertAt(q, m + 1, c)
<1>1. q \in Seq(S) /\ DOMAIN q = 1 .. n /\ n \in Nat /\ \A p \in 1 .. n : q[p] \in S
  BY LenProperties, ElementOfSeq DEF Lists
<1>2. \A p \in 1 .. n : key[q[p]] \in Nat /\ key[q[p]] # key[c]
  BY <1>1 DEF Lists
<1>o. \A p, r \in 1 .. n : p < r => key[q[p]] < key[q[r]]
  BY <1>1 DEF Lists
<1>3. m \in 0 .. n /\ B = 1 .. m
  <2> DEFINE A == {r \in 0 .. n : \A p \in 1 .. n : p > r => p \notin B}
  <2>1. n \in A /\ A \in SUBSET Nat
    BY <1>1
  <2> HIDE DEF A
  <2>2. Min(A) \in A /\ \A r \in A : Min(A) <= r
    BY <2>1, MinIsLeast
  <2> DEFINE k == Min(A)
  <2>3. k \in 0 .. n /\ \A p \in 1 .. n : p > k => p \notin B
    BY <2>2 DEF A
  <2> HIDE DEF B
  <2>4. k # 0 => k \in B
    <3> SUFFICES ASSUME k # 0, k \notin B PROVE FALSE
      OBVIOUS
    <3>1. \A p \in 1 .. n : p > k - 1 => p \notin B
      BY <1>1, <2>3
    <3>2. k - 1 \in A /\ ~(k <= k - 1)
      BY <2>3, <3>1, <1>1 DEF A
    <3> HIDE DEF k
    <3> QED BY <3>2, <2>2 DEF k
  <2> HIDE DEF k
  <2>5. B = 1 .. k
    <3>1. B \subseteq 1 .. k
      <4> QED BY <1>1, <2>3 DEF B
    <3>2. ASSUME NEW p \in 1 .. k PROVE p \in B
      <4>1. k \in B /\ p \in 1 .. n /\ k \in 1 .. n
        BY <2>3, <2>4, <1>1, <3>2
      <4>3. p = k \/ key[q[p]] < key[q[k]]
        BY <1>o, <4>1
      <4>4. key[q[p]] < key[c]
        BY <1>2, <4>1, <4>3 DEF B
      <4> QED BY <1>1, <4>1, <4>4 DEF B
    <3> QED BY <3>1, <3>2
  <2>6. Cardinality(1 .. k) = k
    BY <2>3, FS_Interval
  <2> QED BY <1>1, <2>3, <2>5, <2>6
<1>4. \A p \in 1 .. n : IF p <= m THEN key[q[p]] < key[c] ELSE key[c] < key[q[p]]
  <2>1. \A p \in 1 .. n : (p \in B) <=> key[q[p]] < key[c]
    BY <1>1
  <2> HIDE DEF B, m
  <2> QED BY <1>1, <1>2, <1>3, <2>1
<1> HIDE DEF B, m
<1>7. /\ w \in Seq(T) /\ DOMAIN w = 1 .. (n + 1)
      /\ \A p \in 1 .. (n + 1) :
            w[p] = IF p <= m THEN q[p] ELSE IF p = m + 1 THEN c ELSE q[p - 1]
  <2>1. q \in Seq(T) /\ c \in T /\ m \in 0 .. Len(q)
    BY <1>1, <1>3
  <2> HIDE DEF T
  <2> QED BY <2>1, InsertedAt
<1> HIDE DEF w
<1>8. \A d \in T : \E p \in DOMAIN w : w[p] = d
  <2>1. w[m + 1] = c /\ m + 1 \in DOMAIN w
    BY <1>1, <1>3, <1>7
  <2>2. ASSUME NEW d \in S PROVE \E p \in DOMAIN w : w[p] = d
    <3>1. PICK p \in 1 .. n : q[p] = d
      BY <1>1 DEF Lists
    <3>2. CASE p <= m
      <4> QED BY <1>7, <1>1, <3>1, <3>2
    <3>3. CASE ~(p <= m)
      <4>1. p + 1 \in 1 .. (n + 1) /\ ~(p + 1 <= m) /\ p + 1 # m + 1 /\ (p + 1) - 1 = p
        BY <1>1, <1>3, <3>1, <3>3
      <4> QED BY <1>7, <4>1, <3>1
    <3> QED BY <3>2, <3>3
  <2> QED BY <2>1, <2>2
<1>9. ASSUME NEW p \in 1 .. (n + 1), NEW r \in 1 .. (n + 1), p < r
      PROVE  key[w[p]] < key[w[r]]
  <2>1. w[p] = (IF p <= m THEN q[p] ELSE IF p = m + 1 THEN c ELSE q[p - 1])
    BY <1>7
  <2>2. w[r] = (IF r <= m THEN q[r] ELSE IF r = m + 1 THEN c ELSE q[r - 1])
    BY <1>7
  <2>3. m \in Nat /\ n \in Nat /\ m <= n
    BY <1>1, <1>3
  <2>4. CASE r <= m
    BY <1>o, <2>1, <2>2, <2>3, <2>4, <1>9
  <2>5. CASE r = m + 1
    <3> QED BY <1>4, <2>1, <2>2, <2>3, <2>5, <1>9
  <2>6. CASE r > m + 1
    <3>1. r - 1 \in 1 .. n /\ ~(r - 1 <= m) /\ w[r] = q[r - 1]
      BY <2>2, <2>3, <2>6
    <3>2. CASE p <= m
      <4> QED BY <1>o, <3>1, <2>1, <2>3, <2>6, <3>2
    <3>3. CASE p = m + 1
      BY <1>4, <2>1, <2>3, <3>1, <3>3
    <3>4. CASE p > m + 1
      <4> QED BY <1>o, <3>1, <2>1, <2>3, <3>4, <1>9
    <3> QED BY <2>3, <3>2, <3>3, <3>4
  <2> QED BY <2>3, <2>4, <2>5, <2>6
<1> HIDE DEF n
<1>11. Lists(w, T, key)
  BY <1>7, <1>8, <1>9 DEF Lists
<1> QED BY <1>11 DEF w, m, B, T

\* A listing is one by any keys that agree on what is listed.
LEMMA ListsSame ==
    ASSUME NEW q, NEW S, NEW key, NEW key2, Lists(q, S, key), \A c \in S : key2[c] = key[c]
    PROVE  Lists(q, S, key2)
<1> QED BY ElementOfSeq, LenProperties DEF Lists

\* What a slot and the entry of its call are to each other.
CellOK(e, k, i) ==
    /\ e \in Entry
    /\ IF e.state = "Free" THEN k = NoCall
       ELSE /\ k \in CallEntry
            /\ SlotOf(k.correlation) = i /\ Held(e, k.correlation)
            /\ k.pendingForget => k.forgotten
            /\ (e.state = "Forgotten") <=> (k.forgotten /\ ~k.pendingForget)
            /\ k.settledBy # None => e.state = "Settled"

(***************************************************************************)
(* Slots.                                                                  *)
(***************************************************************************)
\* A correlation keeps its generation and its slot apart.
LEMMA CorrelationHalves ==
    ASSUME NEW g \in Nat, NEW i \in 0 .. SlotSpan - 1
    PROVE  SlotOf(Correlation(g, i)) = i /\ GenerationOf(Correlation(g, i)) = g
<1> DEFINE x == g * SlotSpan + i
           d == x \div SlotSpan
           m == x % SlotSpan
<1>1. SlotSpan \in Nat \ {0} /\ x \in Nat
  BY SpanAssumption
<1>2. d \in Int /\ m \in 0 .. SlotSpan - 1 /\ x = d * SlotSpan + m
  BY <1>1
<1>3. (d - g) * SlotSpan = i - m
  BY <1>1, <1>2
<1>4. i - m < SlotSpan /\ i - m > -SlotSpan
  BY <1>1, <1>2
<1>6. ~(d < g)
  BY <1>1, <1>2, <1>3, <1>4
<1>7. d = g /\ m = i
  BY <1>1, <1>2, <1>3, <1>4, <1>6
<1> QED
  BY <1>7 DEF SlotOf, GenerationOf, Correlation

\* A reclaimed slot is free, whoever's stream wakers it still has.
LEMMA ReclaimedFree ==
    ASSUME NEW e \in Entry
    PROVE  Reclaimed(e) \in Entry /\ Reclaimed(e).state = "Free"
<1>1. (e.generation + 1) % GenSpan \in 0 .. GenSpan - 1
  BY SpanAssumption DEF Entry
<1> QED BY <1>1 DEF Reclaimed, Entry, States

\* Taking the stream wakers of a slot changes nothing else of it.
LEMMA StreamsTaken ==
    ASSUME NEW e \in Entry
    PROVE  /\ TakeStreamsEntry(e) \in Entry
           /\ TakeStreamsEntry(e).state = e.state
           /\ TakeStreamsEntry(e).generation = e.generation
  BY DEF TakeStreamsEntry, Entry, NoStreams

\* A settlement is recorded once, and frees the slot of a forgotten call.
LEMMA EntrySettled ==
    ASSUME NEW e \in Entry, NEW c, NEW o \in Outcomes, Held(e, c)
    PROVE  /\ SettleEntry(e, c, o) \in Entry
           /\ e.state = "InFlight" =>
                 /\ SettleAnswer(e, c) = "Recorded"
                 /\ SettleEntry(e, c, o).state = "Settled"
                 /\ SettleEntry(e, c, o).generation = e.generation
           /\ e.state = "Forgotten" =>
                 SettleAnswer(e, c) = "Reclaimed" /\ SettleEntry(e, c, o).state = "Free"
<1>1. CASE e.state = "InFlight"
  BY <1>1 DEF SettleEntry, SettleAnswer, Entry, States
<1>2. CASE e.state = "Forgotten"
  <2>1. SettleAnswer(e, c) = "Reclaimed"
    BY <1>2 DEF SettleAnswer
  <2> QED BY <1>2, <2>1, ReclaimedFree DEF SettleEntry
<1>3. CASE e.state \notin {"InFlight", "Forgotten"}
  <2>2. SettleEntry(e, c, o) = e
    BY <1>3 DEF SettleEntry, SettleAnswer
  <2> QED BY <1>3, <2>2
<1> QED BY <1>1, <1>2, <1>3

\* A forget marks a call in flight, and frees the slot of a settled one.
LEMMA EntryForgotten ==
    ASSUME NEW e \in Entry, NEW c, Held(e, c)
    PROVE  /\ ForgetEntry(e, c) \in Entry
           /\ e.state = "InFlight" =>
                 /\ ForgetAnswer(e, c) = "Marked"
                 /\ ForgetEntry(e, c).state = "Forgotten"
                 /\ ForgetEntry(e, c).generation = e.generation
           /\ e.state = "Settled" =>
                 ForgetAnswer(e, c) = "Reclaimed" /\ ForgetEntry(e, c).state = "Free"
           /\ e.state = "Forgotten" => ForgetAnswer(e, c) = "Unknown"
<1>1. CASE e.state = "InFlight"
  BY <1>1 DEF ForgetEntry, ForgetAnswer, Entry, States
<1>2. CASE e.state = "Settled"
  <2>1. ForgetAnswer(e, c) = "Reclaimed"
    BY <1>2 DEF ForgetAnswer
  <2> QED BY <1>2, <2>1, ReclaimedFree DEF ForgetEntry
<1>3. CASE e.state \notin {"InFlight", "Settled"}
  <2>1. ForgetAnswer(e, c) = "Unknown"
    BY <1>3 DEF ForgetAnswer
  <2> QED BY <1>3, <2>1 DEF ForgetEntry
<1> QED BY <1>1, <1>2, <1>3

\* Storing or taking one waker changes nothing else of a slot.
LEMMA WakerStored ==
    ASSUME NEW e \in Entry, NEW c, NEW task \in Tasks \cup {NoWaker}
    PROVE  LET f == WakeOnEntry(e, c, task)
           IN  f \in Entry /\ f.state = e.state /\ f.generation = e.generation
  BY DEF WakeOnEntry, Entry

\* A stream's waker stored in a slot, and taken again.
LEMMA StreamWakerStored ==
    ASSUME NEW e \in Entry, NEW c, NEW task \in Tasks \cup {NoWaker}, NEW s \in StreamNos
    PROVE  LET f == WakeOnStreamEntry(e, c, s, task)
           IN  f \in Entry /\ f.state = e.state /\ f.generation = e.generation
  BY DEF WakeOnStreamEntry, Entry

\* Taking one stream's waker changes nothing else of a slot either.
LEMMA StreamWakerTaken ==
    ASSUME NEW e \in Entry, NEW c, NEW s \in StreamNos
    PROVE  LET f == TakeStreamEntry(e, c, s)
           IN  f \in Entry /\ f.state = e.state /\ f.generation = e.generation
  BY DEF TakeStreamEntry, Entry

(***************************************************************************)
(* Streams.                                                                *)
(***************************************************************************)
\* What the operations make of a stream is a stream.
LEMMA StreamsTyped ==
    /\ UnnamedStream \in StreamType
    /\ \A st \in StreamType : ReleaseStream(st) \in StreamType
    /\ \A k \in CallEntry, s \in StreamNos : Stream(k, s) \in StreamType
<1>1. UnnamedStream \in StreamType
  BY DEF UnnamedStream, StreamType
<1>2. ASSUME NEW st \in StreamType PROVE ReleaseStream(st) \in StreamType
  <2> DEFINE S == Seq({"empty", "bytes"})
  <2>1. <<>> \in S
    OBVIOUS
  <2> HIDE DEF S
  <2> QED BY <2>1 DEF ReleaseStream, StreamType, Finished, S
<1>3. ASSUME NEW k \in CallEntry, NEW s \in StreamNos PROVE Stream(k, s) \in StreamType
  <2> DEFINE fresh == [UnnamedStream EXCEPT !.named = TRUE,
                                            !.stopped = IF k.forgotten THEN "Caller" ELSE "No"]
  <2>1. fresh \in StreamType
    BY <1>1 DEF UnnamedStream, StreamType
  <2>2. k.streams[s] \in StreamType /\ k.streams[s].named \in BOOLEAN
        /\ k.parametersReleased \in BOOLEAN
    BY DEF CallEntry, StreamType
  <2>3. Stream(k, s) \in {k.streams[s], ReleaseStream(fresh), fresh}
    BY <2>2 DEF Stream
  <2> HIDE DEF fresh
  <2> QED BY <1>2, <2>1, <2>2, <2>3
<1> QED BY <1>1, <1>2, <1>3

\* A call with other streams is a call.
LEMMA OtherStreams ==
    ASSUME NEW k \in CallEntry, NEW f \in [StreamNos -> StreamType]
    PROVE  /\ [k EXCEPT !.streams = f] \in CallEntry
           /\ [k EXCEPT !.parametersReleased = TRUE, !.streams = f] \in CallEntry
  BY DEF CallEntry

(***************************************************************************)
(* Cells.                                                                  *)
(***************************************************************************)
\* x is a record with the fields of a cell.
IsCell(x) ==
    x \in [e : {x.e}, k : {x.k}, wake : {x.wake}, freed : {x.freed}, panic : {x.panic}]
Good(x, i) == IsCell(x) /\ CellOK(x.e, x.k, i) /\ x.panic = FALSE

\* What no operation on a call changes while it lives.
SameCall(k, l) ==
    /\ l.correlation = k.correlation /\ l.sent = k.sent /\ l.claim = k.claim
    /\ l.member = k.member /\ l.caller = k.caller

\* Only the streams of the call changed, and what is remembered of them.
StreamsMoved(k, l) ==
    /\ l \in CallEntry
    /\ SameCall(k, l)
    /\ l.forgotten = k.forgotten /\ l.pendingForget = k.pendingForget
    /\ l.settledBy = k.settledBy /\ l.kind = k.kind
CellMoved(x, y) == IsCell(y) /\ y.e = x.e /\ y.panic = x.panic /\ StreamsMoved(x.k, y.k)

\* An operation that answers nothing: it frees a settled call only, and says so.
Kept(x, y, i) ==
    /\ Good(y, i)
    /\ IF y.k = NoCall THEN x.e.state = "Settled" /\ y.freed
       ELSE SameCall(x.k, y.k) /\ ((y.e.state = "Settled") <=> (x.e.state = "Settled"))

\* An operation that leaves the call answered, or gone.
Answered(x, y, i) ==
    /\ Good(y, i)
    /\ IF y.k = NoCall THEN y.freed ELSE SameCall(x.k, y.k) /\ y.e.state = "Settled"

\* What a good cell with a call is.
Occupied(x, i) ==
    /\ IsCell(x) /\ x.panic = FALSE
    /\ x.e \in Entry /\ x.k \in CallEntry
    /\ SlotOf(x.k.correlation) = i /\ Held(x.e, x.k.correlation)
    /\ x.k.settledBy # None => x.e.state = "Settled"

\* A good cell with a call is occupied, and says whether it was forgotten.
LEMMA GoodOccupied ==
    ASSUME NEW x, NEW i, Good(x, i), x.k # NoCall
    PROVE  /\ Occupied(x, i) /\ x.e.state \in {"InFlight", "Forgotten", "Settled"}
           /\ x.k.pendingForget => x.k.forgotten
           /\ (x.e.state = "Forgotten") <=> (x.k.forgotten /\ ~x.k.pendingForget)
<1>1. x.e.state # "Free" /\ x.e \in Entry
  BY DEF Good, CellOK
<1> QED BY <1>1 DEF Good, CellOK, Occupied, States, Entry

\* An occupied cell whose marks agree is good.
LEMMA OccupiedGood ==
    ASSUME NEW x, NEW i, Occupied(x, i),
           x.k.pendingForget => x.k.forgotten,
           (x.e.state = "Forgotten") <=> (x.k.forgotten /\ ~x.k.pendingForget)
    PROVE  Good(x, i) /\ x.k # NoCall
  BY NoneAssumption DEF Good, CellOK, Occupied, Held

\* So is one whose slot is free and whose entry is gone.
LEMMA FreedGood ==
    ASSUME NEW x, NEW i, IsCell(x), x.panic = FALSE, x.e \in Entry, x.e.state = "Free",
           x.k = NoCall
    PROVE  Good(x, i)
  BY DEF Good, CellOK

\* What TakeStreams leaves in the fields of a cell.
LEMMA TakeStreamsFields ==
    ASSUME NEW x, IsCell(x)
    PROVE  LET y == TakeStreams(x)
           IN  IsCell(y) /\ y.e = TakeStreamsEntry(x.e) /\ y.k = x.k /\ y.panic = x.panic
  BY DEF TakeStreams, IsCell

\* What Reclaim leaves in them.
LEMMA ReclaimFields ==
    ASSUME NEW x, IsCell(x)
    PROVE  LET y == Reclaim(x)
           IN  /\ IsCell(y) /\ y.e = TakeStreamsEntry(x.e) /\ y.panic = x.panic
               /\ y.k = NoCall /\ y.freed
<1> DEFINE y == TakeStreams(x)
<1>1. IsCell(y) /\ y.e = TakeStreamsEntry(x.e) /\ y.k = x.k /\ y.panic = x.panic
  BY TakeStreamsFields
<1> HIDE DEF y
<1>2. Reclaim(x) = [y EXCEPT
        !.k = NoCall, !.freed = TRUE,
        !.wake = @ \cup ClaimStreamWaiters(x.k, {s \in StreamNos : x.k.streams[s].named})]
  BY DEF Reclaim, y
<1> QED BY <1>1, <1>2 DEF IsCell

\* A reclaim of a freed slot leaves a good cell with no call.
LEMMA ReclaimGood ==
    ASSUME NEW x, NEW i, IsCell(x), x.panic = FALSE, x.e \in Entry, x.e.state = "Free"
    PROVE  Good(Reclaim(x), i) /\ Reclaim(x).k = NoCall /\ Reclaim(x).freed
<1> QED BY StreamsTaken, ReclaimFields, FreedGood

\* Taking the stream wakers keeps a good cell good.
LEMMA TakeStreamsMoved ==
    ASSUME NEW x, NEW i, Good(x, i), x.k # NoCall
    PROVE  LET y == TakeStreams(x)
           IN  Good(y, i) /\ y.k = x.k /\ y.e.state = x.e.state
<1> DEFINE y == TakeStreams(x)
<1>1. IsCell(y) /\ y.e = TakeStreamsEntry(x.e) /\ y.k = x.k /\ y.panic = x.panic
  BY TakeStreamsFields DEF Good
<1> HIDE DEF y
<1>3. y.e \in Entry /\ y.e.state = x.e.state /\ y.e.generation = x.e.generation
  BY <1>1, StreamsTaken DEF Good, CellOK
<1> QED BY <1>1, <1>3 DEF y, Good, CellOK, Held

\* The streams of a good cell may be moved.
LEMMA MovedGood ==
    ASSUME NEW x, NEW y, NEW i, Good(x, i), x.k # NoCall, CellMoved(x, y)
    PROVE  /\ Good(y, i) /\ y.k # NoCall /\ y.e.state = x.e.state
           /\ Kept(x, y, i)
<1>1. Good(y, i)
  BY NoneAssumption DEF Good, CellOK, CellMoved, StreamsMoved, SameCall
<1> QED BY <1>1, NoneAssumption DEF CellMoved, StreamsMoved, Kept

\* Streams may be moved twice.
LEMMA MovedTwice ==
    ASSUME NEW x, NEW y, NEW z, CellMoved(x, y), CellMoved(y, z)
    PROVE  CellMoved(x, z)
  BY DEF CellMoved, StreamsMoved, SameCall

\* Other streams for a call.
LEMMA StreamsReplaced ==
    ASSUME NEW k \in CallEntry, NEW f \in [StreamNos -> StreamType]
    PROVE  /\ StreamsMoved(k, [k EXCEPT !.streams = f])
           /\ StreamsMoved(k, [k EXCEPT !.parametersReleased = TRUE, !.streams = f])
  BY DEF StreamsMoved, SameCall, CallEntry

(***************************************************************************)
(* A forget in the table.                                                  *)
(***************************************************************************)
\* A forget told to the table keeps the cell.
LEMMA ForgetInTableGood ==
    ASSUME NEW x, NEW i, Occupied(x, i), x.k.pendingForget = FALSE,
           x.e.state = "Forgotten" => x.k.forgotten
    PROVE  Kept(x, ForgetInTable(x), i)
<1> DEFINE c == x.k.correlation
           y == [x EXCEPT !.e = ForgetEntry(@, c)]
<1>1. x.e \in Entry /\ Held(x.e, c) /\ IsCell(x) /\ x.panic = FALSE
  BY DEF Occupied
<1>2. IsCell(y) /\ y.e = ForgetEntry(x.e, c) /\ y.k = x.k /\ y.panic = FALSE
  BY <1>1 DEF IsCell
<1>4. ForgetInTable(x) =
         CASE ForgetAnswer(x.e, c) = "Reclaimed" -> Reclaim(y)
           [] ForgetAnswer(x.e, c) = "Marked" ->
                 [TakeStreams(y) EXCEPT !.wake = @ \cup OutcomeWaiter(x.e, c),
                                        !.k.forgotten = TRUE]
           [] OTHER -> x
  BY DEF ForgetInTable
<1> HIDE DEF y
<1>5. CASE x.e.state = "Settled"
  <2>1. ForgetAnswer(x.e, c) = "Reclaimed" /\ y.e.state = "Free" /\ y.e \in Entry
    BY <1>1, <1>2, <1>5, EntryForgotten
  <2>3. Good(Reclaim(y), i) /\ Reclaim(y).k = NoCall /\ Reclaim(y).freed
    BY <1>2, <2>1, ReclaimGood
  <2> QED BY <1>5, <1>4, <2>1, <2>3 DEF Kept
<1>6. CASE x.e.state = "InFlight"
  <2>1. /\ ForgetAnswer(x.e, c) = "Marked" /\ y.e.state = "Forgotten" /\ y.e \in Entry
        /\ y.e.generation = x.e.generation
    BY <1>1, <1>2, <1>6, EntryForgotten
  <2> DEFINE u == TakeStreams(y)
             w == [u EXCEPT !.wake = @ \cup OutcomeWaiter(x.e, c), !.k.forgotten = TRUE]
  <2>2. ForgetInTable(x) = w
    BY <1>4, <2>1
  <2>3. IsCell(u) /\ u.e = TakeStreamsEntry(y.e) /\ u.k = x.k /\ u.panic = FALSE
    BY <1>2, TakeStreamsFields
  <2>4. u.e \in Entry /\ u.e.state = "Forgotten" /\ u.e.generation = x.e.generation
    BY <2>1, <2>3, StreamsTaken
  <2> HIDE DEF u
  <2>5. IsCell(w) /\ w.e = u.e /\ w.k = [x.k EXCEPT !.forgotten = TRUE] /\ w.panic = FALSE
    BY <2>3 DEF IsCell
  <2> HIDE DEF w
  <2>6. /\ w.k \in CallEntry /\ SameCall(x.k, w.k) /\ w.k.forgotten = TRUE
        /\ w.k.pendingForget = FALSE /\ w.k.settledBy = x.k.settledBy
    BY <2>5 DEF Occupied, CallEntry, SameCall
  <2>7. Occupied(w, i)
    BY <1>6, <2>4, <2>5, <2>6 DEF Occupied, Held, SameCall
  <2>8. Good(w, i) /\ w.k # NoCall
    BY <2>4, <2>5, <2>6, <2>7, OccupiedGood
  <2> QED BY <1>6, <2>2, <2>4, <2>5, <2>6, <2>8 DEF Kept
<1>7. CASE x.e.state = "Forgotten"
  <2>2. ForgetInTable(x) = x
    BY <1>4, <1>1, <1>7, EntryForgotten
  <2> QED BY <2>2, <1>7, OccupiedGood DEF Kept, SameCall
<1> QED BY <1>1, <1>5, <1>6, <1>7 DEF Held, Entry, States

\* A withdrawal of a call in flight frees its slot.
LEMMA WithdrawGood ==
    ASSUME NEW x, NEW i, Occupied(x, i), x.e.state \in {"InFlight", "Forgotten"}
    PROVE  Good(Withdraw(x), i) /\ Withdraw(x).k = NoCall /\ Withdraw(x).freed
<1> DEFINE c == x.k.correlation
           y == [x EXCEPT !.e = SettleEntry(@, c, "Undelivered")]
           z == [y EXCEPT !.e = ForgetEntry(@, c), !.wake = @ \cup OutcomeWaiter(x.e, c)]
<1>1. x.e \in Entry /\ Held(x.e, c) /\ IsCell(x) /\ x.panic = FALSE
  BY DEF Occupied
<1>2. IsCell(y) /\ y.e = SettleEntry(x.e, c, "Undelivered") /\ y.k = x.k /\ y.panic = FALSE
  BY <1>1 DEF IsCell
<1>3. "Undelivered" \in Outcomes
  BY LoopbackAssumption
<1>4. Withdraw(x) =
         CASE SettleAnswer(x.e, c) = "Recorded" /\ ForgetAnswer(y.e, c) = "Reclaimed" -> Reclaim(z)
           [] SettleAnswer(x.e, c) = "Reclaimed" -> Reclaim(y)
           [] OTHER -> Panic(x)
  BY DEF Withdraw
<1>5. IsCell(z) /\ z.e = ForgetEntry(y.e, c) /\ z.panic = FALSE
  BY <1>2 DEF IsCell
<1> HIDE DEF y, z
<1>6. CASE x.e.state = "InFlight"
  <2>1. /\ SettleAnswer(x.e, c) = "Recorded" /\ y.e \in Entry /\ y.e.state = "Settled"
        /\ y.e.generation = x.e.generation
    BY <1>1, <1>2, <1>3, <1>6, EntrySettled
  <2>3. ForgetAnswer(y.e, c) = "Reclaimed" /\ z.e.state = "Free" /\ z.e \in Entry
    BY <1>5, <2>1, <1>1, EntryForgotten DEF Held
  <2> QED BY <1>5, <2>3, <1>4, <2>1, ReclaimGood
<1>7. CASE x.e.state = "Forgotten"
  <2>1. SettleAnswer(x.e, c) = "Reclaimed" /\ y.e \in Entry /\ y.e.state = "Free"
    BY <1>1, <1>2, <1>3, <1>7, EntrySettled
  <2> QED BY <1>2, <2>1, <1>4, ReclaimGood
<1> QED BY <1>6, <1>7

(***************************************************************************)
(* Operations on the streams of a cell.                                    *)
(***************************************************************************)
\* Interrupting the streams moves only streams.
LEMMA InterruptStreamsMoved ==
    ASSUME NEW x, NEW i, Occupied(x, i)
    PROVE  CellMoved(x, InterruptStreams(x))
<1>1. IsCell(x) /\ x.k \in CallEntry /\ x.k.streams \in [StreamNos -> StreamType]
  BY DEF Occupied, CallEntry
<1>2. CASE x.k.forgotten
  <2> QED BY <1>1, <1>2 DEF CellMoved, StreamsMoved, SameCall, InterruptStreams
<1>3. CASE ~x.k.forgotten
  <2> DEFINE g(s) == LET st == x.k.streams[s]
                     IN  IF ~st.named THEN st
                         ELSE [st EXCEPT !.waker = NoWaker,
                                         !.stopped = IF Finished(st) THEN @ ELSE "Caller"]
             f == [s \in StreamNos |-> g(s)]
  <2>1. ASSUME NEW s \in StreamNos PROVE g(s) \in StreamType
    BY <1>1 DEF StreamType, Finished
  <2>2. f \in [StreamNos -> StreamType]
    BY <2>1
  <2>3. InterruptStreams(x) =
           [x EXCEPT !.k.streams = f, !.wake = @ \cup ClaimStreamWaiters(x.k, StreamNos)]
    BY <1>3 DEF InterruptStreams
  <2> HIDE DEF f, g
  <2> DEFINE y == [x EXCEPT !.k.streams = f, !.wake = @ \cup ClaimStreamWaiters(x.k, StreamNos)]
  <2>4. IsCell(y) /\ y.e = x.e /\ y.panic = x.panic /\ y.k = [x.k EXCEPT !.streams = f]
    BY <1>1 DEF IsCell
  <2>5. StreamsMoved(x.k, [x.k EXCEPT !.streams = f])
    BY <1>1, <2>2, StreamsReplaced
  <2> QED BY <2>3, <2>4, <2>5 DEF CellMoved
<1> QED BY <1>2, <1>3

\* Releasing the parameters moves only streams.
LEMMA ReleaseParametersMoved ==
    ASSUME NEW x, IsCell(x), x.k \in CallEntry
    PROVE  CellMoved(x, ReleaseParameters(x))
<1> DEFINE params == {s \in StreamNos \ {ReplyStream} : x.k.streams[s].named}
           g(s) == IF s \in params THEN [ReleaseStream(x.k.streams[s]) EXCEPT !.waker = NoWaker]
                   ELSE x.k.streams[s]
           f == [s \in StreamNos |-> g(s)]
           y == [x EXCEPT !.k.parametersReleased = TRUE, !.k.streams = f,
                          !.wake = @ \cup ClaimStreamWaiters(x.k, params)]
<1>1. ASSUME NEW s \in StreamNos PROVE g(s) \in StreamType
  <2>1. x.k.streams[s] \in StreamType
    BY DEF CallEntry
  <2> DEFINE r == ReleaseStream(x.k.streams[s])
  <2>2. r \in StreamType
    BY <2>1, StreamsTyped
  <2> HIDE DEF r
  <2>3. [r EXCEPT !.waker = NoWaker] \in StreamType
    BY <2>2 DEF StreamType
  <2> QED BY <2>1, <2>3 DEF r
<1>2. f \in [StreamNos -> StreamType]
  BY <1>1
<1>3. ReleaseParameters(x) = y
  BY DEF ReleaseParameters
<1> HIDE DEF f, g, params
<1>4. /\ IsCell(y) /\ y.e = x.e /\ y.panic = x.panic
      /\ y.k = [x.k EXCEPT !.parametersReleased = TRUE, !.streams = f]
  BY DEF IsCell
<1>5. StreamsMoved(x.k, [x.k EXCEPT !.parametersReleased = TRUE, !.streams = f])
  BY <1>2, StreamsReplaced
<1> QED BY <1>3, <1>4, <1>5 DEF CellMoved

\* So does taking the wakers of a claim's streams.
LEMMA TakeClaimStreamsMoved ==
    ASSUME NEW x, IsCell(x), x.k \in CallEntry
    PROVE  CellMoved(x, TakeClaimStreams(x))
<1> DEFINE f == [s \in StreamNos |-> [x.k.streams[s] EXCEPT !.waker = NoWaker]]
           y == [x EXCEPT !.k.streams = f, !.wake = @ \cup ClaimStreamWaiters(x.k, StreamNos)]
<1>1. ASSUME NEW s \in StreamNos PROVE [x.k.streams[s] EXCEPT !.waker = NoWaker] \in StreamType
  BY SMTT(30) DEF CallEntry, StreamType
<1>2. f \in [StreamNos -> StreamType]
  BY <1>1
<1>3. TakeClaimStreams(x) = y
  BY DEF TakeClaimStreams
<1> HIDE DEF f
<1>4. IsCell(y) /\ y.e = x.e /\ y.panic = x.panic /\ y.k = [x.k EXCEPT !.streams = f]
  BY DEF IsCell
<1>5. StreamsMoved(x.k, [x.k EXCEPT !.streams = f])
  BY <1>2, StreamsReplaced
<1> QED BY <1>3, <1>4, <1>5 DEF CellMoved

\* So does leaving one stream another one.
LEMMA WithStreamMoved ==
    ASSUME NEW x, IsCell(x), x.k \in CallEntry, NEW s \in StreamNos, NEW st \in StreamType
    PROVE  CellMoved(x, WithStream(x, s, st))
<1> DEFINE f == [x.k.streams EXCEPT ![s] = st]
           y == [x EXCEPT !.k.streams = f]
<1>1. f \in [StreamNos -> StreamType]
  BY DEF CallEntry
<1>2. WithStream(x, s, st) = y
  BY DEF WithStream
<1> HIDE DEF f
<1>4. IsCell(y) /\ y.e = x.e /\ y.panic = x.panic /\ y.k = [x.k EXCEPT !.streams = f]
  BY DEF IsCell
<1>5. StreamsMoved(x.k, [x.k EXCEPT !.streams = f])
  BY <1>1, StreamsReplaced
<1> QED BY <1>2, <1>4, <1>5 DEF CellMoved

\* So does remembering that the provider used them.
LEMMA UsedMoved ==
    ASSUME NEW x, IsCell(x), x.k \in CallEntry, NEW side
    PROVE  CellMoved(x, Used(x, side))
<1>2. CellMoved(x, x)
  BY DEF CellMoved, StreamsMoved, SameCall
<1> DEFINE y == [x EXCEPT !.k.providerUsedStreams = TRUE]
<1>3. IsCell(y) /\ y.e = x.e /\ y.panic = x.panic /\ y.k = [x.k EXCEPT !.providerUsedStreams = TRUE]
  BY DEF IsCell
<1>4. StreamsMoved(x.k, [x.k EXCEPT !.providerUsedStreams = TRUE])
  BY DEF StreamsMoved, SameCall, CallEntry
<1> QED BY <1>2, <1>3, <1>4 DEF CellMoved, Used

\* The reply stream a settlement ends or stops.
LEMMA FinishReplyMoved ==
    ASSUME NEW k \in CallEntry, NEW outcome
    PROVE  StreamsMoved(k, FinishReply(k, outcome))
<1> DEFINE st == Stream(k, ReplyStream)
           t == CASE Finished(st) -> st
                  [] ~Finished(st) /\ outcome = "Ok" -> [st EXCEPT !.ended = TRUE]
                  [] OTHER -> [st EXCEPT !.stopped = "Provider"]
           f == [k.streams EXCEPT ![ReplyStream] = t]
<1>1. ReplyStream \in StreamNos
  BY LoopbackAssumption DEF ReplyStream
<1>2. st \in StreamType
  BY <1>1, StreamsTyped
<1>3. FinishReply(k, outcome) = [k EXCEPT !.streams = f]
  BY DEF FinishReply
<1> HIDE DEF st
<1>4. t \in StreamType
  <2>2. t \in {st, [st EXCEPT !.ended = TRUE], [st EXCEPT !.stopped = "Provider"]}
    OBVIOUS
  <2> QED BY <1>2, <2>2 DEF StreamType
<1> HIDE DEF t
<1>5. f \in [StreamNos -> StreamType]
  BY <1>1, <1>4 DEF CallEntry
<1> HIDE DEF f
<1> QED BY <1>3, <1>5, StreamsReplaced

(***************************************************************************)
(* Operations on a call.                                                   *)
(***************************************************************************)
\* The entry of a call whose forget is no longer deferred.
LEMMA UnmarkedEntry ==
    ASSUME NEW k \in CallEntry, NEW l, l = [k EXCEPT !.pendingForget = FALSE]
    PROVE  /\ l \in CallEntry /\ SameCall(k, l) /\ l.pendingForget = FALSE
           /\ l.forgotten = k.forgotten /\ l.settledBy = k.settledBy
           /\ l.streams = k.streams /\ l.caller = k.caller
           /\ l.parametersReleased = k.parametersReleased
           /\ l.providerUsedStreams = k.providerUsedStreams
<1>2. l.pendingForget = FALSE
  BY DEF CallEntry
<1>3. /\ l.forgotten = k.forgotten /\ l.settledBy = k.settledBy
      /\ l.streams = k.streams /\ l.caller = k.caller
      /\ l.parametersReleased = k.parametersReleased
      /\ l.providerUsedStreams = k.providerUsedStreams
  BY DEF CallEntry
<1>4. SameCall(k, l)
  BY DEF CallEntry, SameCall
<1> QED BY <1>2, <1>3, <1>4 DEF CallEntry

\* A deferred forget told to the table.
LEMMA DeferredForgetGood ==
    ASSUME NEW x, NEW i, Good(x, i), x.k # NoCall, x.k.pendingForget
    PROVE  Kept(x, ForgetInTable([x EXCEPT !.k.pendingForget = FALSE]), i)
<1> DEFINE y == [x EXCEPT !.k.pendingForget = FALSE]
<1>1. Occupied(x, i) /\ x.k.forgotten
  BY GoodOccupied
<1>2. IsCell(y) /\ y.e = x.e /\ y.panic = FALSE /\ y.k = [x.k EXCEPT !.pendingForget = FALSE]
  BY <1>1 DEF Occupied, IsCell
<1> HIDE DEF y
<1>3. /\ y.k \in CallEntry /\ SameCall(x.k, y.k) /\ y.k.pendingForget = FALSE
      /\ y.k.forgotten = x.k.forgotten /\ y.k.settledBy = x.k.settledBy
  BY <1>1, <1>2, UnmarkedEntry DEF Occupied
<1>5. Kept(y, ForgetInTable(y), i)
  BY <1>1, <1>3, <1>2, ForgetInTableGood DEF Occupied, SameCall
<1> QED BY <1>2, <1>3, <1>5 DEF y, Kept, SameCall

\* A cell left alone is kept.
LEMMA KeptSelf ==
    ASSUME NEW x, NEW i, Good(x, i), x.k # NoCall
    PROVE  Kept(x, x, i)
  BY DEF Kept, SameCall

\* A cell is kept after its streams were moved.
LEMMA KeptAfterMove ==
    ASSUME NEW x, NEW y, NEW z, NEW i, CellMoved(x, y), Kept(y, z, i)
    PROVE  Kept(x, z, i)
  BY DEF CellMoved, StreamsMoved, Kept, SameCall

\* Finishing a deferred forget keeps the cell.
LEMMA ReleaseIfDrainedGood ==
    ASSUME NEW x, NEW i, Good(x, i), x.k # NoCall
    PROVE  Kept(x, ReleaseIfDrained(x), i)
<1>1. CASE x.k.pendingForget /\ ~Undrained(x.k)
  <2> QED BY <1>1, DeferredForgetGood DEF ReleaseIfDrained
<1>2. CASE ~(x.k.pendingForget /\ ~Undrained(x.k))
  <2> QED BY <1>2, KeptSelf DEF ReleaseIfDrained
<1> QED BY <1>1, <1>2

\* So does deferring one.
LEMMA DeferForgetGood ==
    ASSUME NEW x, NEW i, Good(x, i), x.k # NoCall, ~x.k.forgotten
    PROVE  Kept(x, DeferForget(x), i)
<1> DEFINE c == x.k.correlation
           u == TakeStreams(x)
           y == [u EXCEPT !.k.forgotten = TRUE, !.k.pendingForget = TRUE,
                          !.e = WakeOnEntry(@, c, Noop),
                          !.wake = @ \cup OutcomeWaiter(x.e, c)]
<1>1. Good(u, i) /\ u.k = x.k /\ u.e.state = x.e.state
  BY TakeStreamsMoved
<1>2. Occupied(u, i) /\ u.e.state # "Forgotten" /\ u.e \in Entry
  BY <1>1, GoodOccupied DEF Occupied
<1>3. DeferForget(x) = y
  BY DEF DeferForget
<1> HIDE DEF u
<1> DEFINE f == WakeOnEntry(u.e, c, Noop)
<1>4. f \in Entry /\ f.state = u.e.state /\ f.generation = u.e.generation
  <2> QED BY <1>2, LoopbackAssumption, WakerStored
<1> HIDE DEF f
<1>5. /\ IsCell(y) /\ y.e = f /\ y.panic = FALSE
      /\ y.k = [u.k EXCEPT !.forgotten = TRUE, !.pendingForget = TRUE]
  BY <1>2 DEF Occupied, IsCell, f
<1> HIDE DEF y
<1>6. /\ y.k \in CallEntry /\ SameCall(u.k, y.k) /\ y.k.forgotten /\ y.k.pendingForget
      /\ y.k.settledBy = u.k.settledBy
  BY <1>2, <1>5 DEF Occupied, CallEntry, SameCall
<1>7. Occupied(y, i)
  BY <1>2, <1>4, <1>5, <1>6 DEF Occupied, Held, SameCall
<1>8. Good(y, i) /\ y.k # NoCall
  BY <1>2, <1>4, <1>5, <1>6, <1>7, OccupiedGood
<1> QED BY <1>1, <1>3, <1>4, <1>5, <1>6, <1>8 DEF Kept, SameCall

\* What a forget leaves of the call it names.
LEMMA ForgetCellGood ==
    ASSUME NEW x, NEW i, Good(x, i), x.k # NoCall,
           Waiting(x.k) => x.e.state # "Settled"
    PROVE  IF Withdrawable(x.k) THEN /\ Good(ForgetCell(x), i) /\ ForgetCell(x).k = NoCall
                                        /\ ForgetCell(x).freed
           ELSE Kept(x, ForgetCell(x), i)
<1> DEFINE y == InterruptStreams(x)
<1>1. Occupied(x, i) /\ x.e.state \in {"InFlight", "Forgotten", "Settled"}
  BY GoodOccupied
<1>2. CellMoved(x, y)
  BY <1>1, InterruptStreamsMoved
<1>3. ForgetCell(x) =
         CASE x.k.pendingForget -> x
           [] Withdrawable(x.k) -> Withdraw(y)
           [] ~x.k.pendingForget /\ ~Withdrawable(x.k) /\ Defers(y.k) -> DeferForget(y)
           [] OTHER -> ForgetInTable(y)
  BY DEF ForgetCell
<1> HIDE DEF y
<1>4. Good(y, i) /\ y.k # NoCall /\ y.e.state = x.e.state
  BY <1>2, MovedGood
<1>5. Occupied(y, i) /\ (y.e.state = "Forgotten" => y.k.forgotten)
  BY <1>4, GoodOccupied
<1>6. CASE x.k.pendingForget
  <2> QED BY <1>3, <1>6, KeptSelf DEF Withdrawable
<1>7. CASE Withdrawable(x.k)
  <2> QED BY <1>1, <1>4, <1>5, <1>7, <1>3, WithdrawGood DEF Withdrawable
<1>8. CASE ~x.k.pendingForget /\ ~Withdrawable(x.k) /\ Defers(y.k)
  <2>1. ForgetCell(x) = DeferForget(y) /\ ~y.k.forgotten
    BY <1>3, <1>8 DEF Defers
  <2> QED BY <1>2, <1>8, <2>1, <1>4, DeferForgetGood, KeptAfterMove
<1>9. CASE ~x.k.pendingForget /\ ~Withdrawable(x.k) /\ ~Defers(y.k)
  <2>3. Kept(y, ForgetInTable(y), i)
    BY <1>5, <1>1, <1>2, <1>9, ForgetInTableGood DEF CellMoved, StreamsMoved, Occupied, CallEntry
  <2> QED BY <1>2, <1>9, <1>3, <2>3, KeptAfterMove
<1> QED BY <1>6, <1>7, <1>8, <1>9

\* What a settlement leaves of the call its claim names.
LEMMA SettleCellGood ==
    ASSUME NEW x, NEW i, Good(x, i), x.k # NoCall, x.e.state \in {"InFlight", "Forgotten"},
           NEW h \in Handlers, NEW outcome \in Outcomes
    PROVE  Answered(x, SettleCell(x, h, outcome), i)
<1> DEFINE c == x.k.correlation
           settled == [x EXCEPT !.e = SettleEntry(@, c, outcome), !.k.settledBy = h,
                                !.wake = @ \cup OutcomeWaiter(x.e, c)]
           done == IF x.k.kind = "Query" \/ outcome # "Ok" THEN ReleaseParameters(settled)
                   ELSE settled
           replied == [done EXCEPT !.k = FinishReply(@, outcome)]
           gone == [x EXCEPT !.e = SettleEntry(@, c, outcome)]
<1>1. Occupied(x, i) /\ x.e \in Entry /\ x.k \in CallEntry /\ Held(x.e, c) /\ IsCell(x)
  BY GoodOccupied DEF Occupied
<1>2. SettleCell(x, h, outcome) =
         CASE SettleAnswer(x.e, c) = "Recorded" -> ReleaseIfDrained(TakeStreams(replied))
           [] SettleAnswer(x.e, c) = "Reclaimed" -> Reclaim(gone)
           [] OTHER -> Panic(x)
  BY DEF SettleCell
<1>3. /\ IsCell(settled) /\ settled.e = SettleEntry(x.e, c, outcome) /\ settled.panic = x.panic
      /\ settled.k = [x.k EXCEPT !.settledBy = h]
  BY <1>1 DEF IsCell
<1>4. IsCell(gone) /\ gone.e = SettleEntry(x.e, c, outcome) /\ gone.panic = x.panic
  BY <1>1 DEF IsCell
<1> HIDE DEF settled, gone
<1>5. CASE x.e.state = "Forgotten"
  <2>1. SettleAnswer(x.e, c) = "Reclaimed" /\ gone.e \in Entry /\ gone.e.state = "Free"
    BY <1>1, <1>4, <1>5, EntrySettled
  <2>3. Good(Reclaim(gone), i) /\ Reclaim(gone).k = NoCall /\ Reclaim(gone).freed
    BY <1>1, <1>4, <2>1, ReclaimGood DEF Occupied
  <2> QED BY <1>2, <2>1, <2>3 DEF Answered
<1>6. CASE x.e.state = "InFlight"
  <2>1. /\ SettleAnswer(x.e, c) = "Recorded" /\ settled.e \in Entry
        /\ settled.e.state = "Settled" /\ settled.e.generation = x.e.generation
    BY <1>1, <1>3, <1>6, EntrySettled
  <2>2. /\ settled.k \in CallEntry /\ SameCall(x.k, settled.k)
        /\ settled.k.forgotten = x.k.forgotten /\ settled.k.pendingForget = x.k.pendingForget
    BY <1>1, <1>3 DEF CallEntry, SameCall
  <2>3. Occupied(settled, i)
    BY <1>1, <1>3, <2>1, <2>2 DEF Occupied, Held, SameCall
  <2>4. Good(settled, i) /\ settled.k # NoCall
    BY <1>6, <2>1, <2>2, <2>3, GoodOccupied, OccupiedGood
  <2>5. CellMoved(settled, done)
    <3>2. CellMoved(settled, settled)
      BY <1>3, <2>2 DEF CellMoved, StreamsMoved, SameCall
    <3> QED BY <1>3, <2>2, ReleaseParametersMoved, <3>2
  <2> HIDE DEF done
  <2>6. CellMoved(done, replied)
    <3>1. IsCell(done) /\ done.k \in CallEntry
      BY <2>5 DEF CellMoved, StreamsMoved
    <3>3. /\ IsCell(replied) /\ replied.e = done.e /\ replied.panic = done.panic
          /\ replied.k = FinishReply(done.k, outcome)
      BY <3>1 DEF IsCell
    <3> QED BY <3>1, FinishReplyMoved, <3>3 DEF CellMoved
  <2> HIDE DEF replied
  <2>7. CellMoved(settled, replied)
    BY <2>5, <2>6, MovedTwice
  <2>8. Good(replied, i) /\ replied.k # NoCall /\ replied.e.state = "Settled"
    BY <2>1, <2>4, <2>7, MovedGood
  <2> DEFINE w == TakeStreams(replied)
  <2>9. Good(w, i) /\ w.k = replied.k /\ w.e.state = "Settled"
    BY <2>8, TakeStreamsMoved
  <2> HIDE DEF w
  <2>11. SettleCell(x, h, outcome) = ReleaseIfDrained(w)
    BY <1>2, <2>1 DEF w
  <2>12. SameCall(x.k, w.k)
    BY <2>2, <2>7, <2>9 DEF CellMoved, StreamsMoved, SameCall
  <2> QED BY <2>9, <2>8, ReleaseIfDrainedGood, <2>11, <2>12 DEF Kept, Answered, SameCall
<1> QED BY <1>5, <1>6

\* What a dropped handler leaves of a claim whose streams it moved.
LEMMA InterruptClaimGood ==
    ASSUME NEW x, NEW i, Good(x, i), x.k # NoCall, x.e.state \in {"InFlight", "Forgotten"}
    PROVE  Answered(x, InterruptClaim(x), i)
<1> DEFINE c == x.k.correlation
           y == ReleaseParameters(x)
           r == FinishReply(y.k, "Interrupted")
           l == [r EXCEPT !.streams[ReplyStream].waker = NoWaker]
           z == [y EXCEPT !.k = [FinishReply(@, "Interrupted") EXCEPT
                                  !.streams[ReplyStream].waker = NoWaker],
                          !.wake = @ \cup ClaimStreamWaiters(y.k, {ReplyStream}),
                          !.e = SettleEntry(@, c, "Interrupted")]
<1>1. Occupied(x, i) /\ x.e \in Entry /\ x.k \in CallEntry /\ Held(x.e, c) /\ IsCell(x)
  BY GoodOccupied DEF Occupied
<1>2. InterruptClaim(x) =
         CASE SettleAnswer(x.e, c) = "Recorded" ->
                 [TakeStreams(z) EXCEPT !.wake = @ \cup OutcomeWaiter(x.e, c)]
           [] SettleAnswer(x.e, c) = "Reclaimed" -> Reclaim(z)
           [] OTHER -> Panic(x)
  BY DEF InterruptClaim
<1>3. CellMoved(x, y)
  BY <1>1, ReleaseParametersMoved
<1> HIDE DEF y
<1>4. IsCell(y) /\ y.e = x.e /\ y.panic = x.panic /\ y.k \in CallEntry
  BY <1>3 DEF CellMoved, StreamsMoved
<1>5. IsCell(z) /\ z.e = SettleEntry(y.e, c, "Interrupted") /\ z.panic = y.panic /\ z.k = l
  BY <1>4 DEF IsCell
<1>6. StreamsMoved(y.k, r)
  BY <1>4, FinishReplyMoved
<1> HIDE DEF r, z
<1>7. StreamsMoved(r, l)
  <2> DEFINE st == [r.streams[ReplyStream] EXCEPT !.waker = NoWaker]
             f == [r.streams EXCEPT ![ReplyStream] = st]
  <2>1. r \in CallEntry /\ ReplyStream \in StreamNos
    BY <1>6, LoopbackAssumption DEF StreamsMoved, ReplyStream
  <2>2. r.streams \in [StreamNos -> StreamType] /\ r.streams[ReplyStream] \in StreamType
    BY <2>1 DEF CallEntry
  <2>3. st \in StreamType
    BY <2>2 DEF StreamType
  <2> HIDE DEF st
  <2>4. f \in [StreamNos -> StreamType]
    BY <2>2, <2>3
  <2>5. l = [r EXCEPT !.streams = f]
    BY DEF st
  <2> HIDE DEF f, l
  <2> QED BY <2>1, <2>4, <2>5, StreamsReplaced
<1> HIDE DEF l
<1>8. StreamsMoved(x.k, z.k)
  BY <1>3, <1>5, <1>6, <1>7 DEF CellMoved, StreamsMoved, SameCall
<1>9. "Interrupted" \in Outcomes
  BY LoopbackAssumption
<1>10. CASE x.e.state = "Forgotten"
  <2>1. SettleAnswer(x.e, c) = "Reclaimed" /\ z.e \in Entry /\ z.e.state = "Free"
    BY <1>1, <1>4, <1>5, <1>9, <1>10, EntrySettled
  <2>3. Good(Reclaim(z), i) /\ Reclaim(z).k = NoCall /\ Reclaim(z).freed
    BY <1>1, <1>4, <1>5, <2>1, ReclaimGood DEF Occupied
  <2> QED BY <1>2, <2>1, <2>3 DEF Answered
<1>11. CASE x.e.state = "InFlight"
  <2>1. /\ SettleAnswer(x.e, c) = "Recorded" /\ z.e \in Entry /\ z.e.state = "Settled"
        /\ z.e.generation = x.e.generation
    BY <1>1, <1>4, <1>5, <1>9, <1>11, EntrySettled
  <2>2. Occupied(z, i)
    BY <1>1, <1>4, <1>5, <1>8, <2>1 DEF Occupied, Held, StreamsMoved, SameCall
  <2>3. Good(z, i) /\ z.k # NoCall
    BY <1>8, <1>11, <2>1, <2>2, GoodOccupied, OccupiedGood DEF StreamsMoved
  <2> DEFINE u == TakeStreams(z)
             w == [u EXCEPT !.wake = @ \cup OutcomeWaiter(x.e, c)]
  <2>4. Good(u, i) /\ u.k = z.k /\ u.e.state = "Settled"
    BY <2>1, <2>3, TakeStreamsMoved
  <2>5. InterruptClaim(x) = w
    BY <1>2, <2>1
  <2> HIDE DEF u
  <2>6. IsCell(w) /\ w.e = u.e /\ w.k = u.k /\ w.panic = u.panic
    BY <2>4 DEF Good, IsCell
  <2> HIDE DEF w
  <2>7. Good(w, i) /\ w.e.state = "Settled"
    BY <2>4, <2>6 DEF Good
  <2>8. w.k # NoCall /\ SameCall(x.k, w.k)
    BY <1>8, <2>3, <2>4, <2>6 DEF StreamsMoved
  <2> QED BY <2>5, <2>7, <2>8 DEF Answered
<1> QED BY <1>10, <1>11

\* What a dropped handler leaves of a call it settled.
LEMMA DropSettledGood ==
    ASSUME NEW x, NEW i, Good(x, i), x.k # NoCall, x.e.state = "Settled"
    PROVE  Answered(x, DropSettled(x), i)
<1> DEFINE v == [x EXCEPT !.k.settledBy = None]
           p == ReleaseParameters(v)
           t == TakeStreams(p)
           y == TakeClaimStreams(t)
<1>1. Occupied(x, i) /\ x.k \in CallEntry /\ IsCell(x)
  BY GoodOccupied DEF Occupied
<1>2. IsCell(v) /\ v.e = x.e /\ v.panic = x.panic /\ v.k = [x.k EXCEPT !.settledBy = None]
  BY <1>1 DEF IsCell
<1>3. DropSettled(x) =
         IF x.k.pendingForget THEN ForgetInTable([y EXCEPT !.k.pendingForget = FALSE]) ELSE y
  BY DEF DropSettled
<1> HIDE DEF v
<1>4. /\ v.k \in CallEntry /\ SameCall(x.k, v.k) /\ v.k.settledBy = None
      /\ v.k.forgotten = x.k.forgotten /\ v.k.pendingForget = x.k.pendingForget
  BY <1>1, <1>2 DEF CallEntry, SameCall, None
<1>5. Occupied(v, i)
  BY <1>1, <1>2, <1>4 DEF Occupied, SameCall
<1>6. Good(v, i) /\ v.k # NoCall
  BY <1>2, <1>4, <1>5, GoodOccupied, OccupiedGood
<1>7. CellMoved(v, p)
  BY <1>2, <1>4, ReleaseParametersMoved
<1> HIDE DEF p
<1>8. Good(p, i) /\ p.k # NoCall /\ p.e.state = "Settled" /\ p.k \in CallEntry
  BY <1>2, <1>6, <1>7, MovedGood DEF CellMoved, StreamsMoved
<1>9. Good(t, i) /\ t.k = p.k /\ t.e.state = "Settled"
  BY <1>8, TakeStreamsMoved
<1> HIDE DEF t
<1>10. CellMoved(t, y)
  BY <1>8, <1>9, TakeClaimStreamsMoved DEF Good
<1> HIDE DEF y
<1>11. Good(y, i) /\ y.k # NoCall /\ y.e.state = "Settled"
  BY <1>8, <1>9, <1>10, MovedGood
<1>12. SameCall(x.k, y.k) /\ y.k.pendingForget = x.k.pendingForget
  BY <1>4, <1>7, <1>9, <1>10 DEF CellMoved, StreamsMoved, SameCall
<1>13. CASE x.k.pendingForget
  <2> DEFINE w == ForgetInTable([y EXCEPT !.k.pendingForget = FALSE])
  <2>1. Kept(y, w, i)
    BY <1>11, <1>12, <1>13, DeferredForgetGood
  <2>2. DropSettled(x) = w
    BY <1>3, <1>13
  <2> HIDE DEF w
  <2> QED BY <1>11, <1>12, <2>1, <2>2 DEF Kept, Answered, SameCall
<1>14. CASE ~x.k.pendingForget
  <2> QED BY <1>11, <1>12, <1>3, <1>14 DEF Answered
<1> QED BY <1>13, <1>14

\* What a dropped handler leaves of a claim it held.
LEMMA DropHeldGood ==
    ASSUME NEW x, NEW i, Good(x, i), x.k # NoCall, x.e.state \in {"InFlight", "Forgotten"},
           NEW h
    PROVE  /\ x.k.forgotten =>
                 Good(DropHeld(x, h), i) /\ DropHeld(x, h).k = NoCall /\ DropHeld(x, h).freed
           /\ ~x.k.forgotten /\ Owner(x.k).taken /\ x.k.providerUsedStreams =>
                 Answered(x, DropHeld(x, h), i)
           /\ ~x.k.forgotten /\ ~(Owner(x.k).taken /\ x.k.providerUsedStreams) =>
                 Kept(x, DropHeld(x, h), i) /\ DropHeld(x, h).k # NoCall
<1> DEFINE y == TakeClaimStreams(x)
<1>1. CellMoved(x, y)
  BY GoodOccupied, TakeClaimStreamsMoved DEF Occupied
<1>2. DropHeld(x, h) =
         CASE x.k.forgotten -> Withdraw(y)
           [] ~x.k.forgotten /\ Owner(x.k).taken /\ x.k.providerUsedStreams -> InterruptClaim(y)
           [] OTHER -> y
  BY DEF DropHeld
<1> HIDE DEF y
<1>3. Good(y, i) /\ y.k # NoCall /\ y.e.state = x.e.state /\ Kept(x, y, i)
  BY <1>1, MovedGood
<1>4. CASE x.k.forgotten
  <2>2. Occupied(y, i)
    BY <1>3, GoodOccupied
  <2> QED BY <1>3, <1>4, <1>2, <2>2, WithdrawGood
<1>5. CASE ~x.k.forgotten /\ Owner(x.k).taken /\ x.k.providerUsedStreams
  <2>2. Answered(y, InterruptClaim(y), i)
    BY <1>3, InterruptClaimGood
  <2> QED BY <1>1, <1>5, <1>2, <2>2 DEF Answered, CellMoved, StreamsMoved, SameCall
<1>6. CASE ~x.k.forgotten /\ ~(Owner(x.k).taken /\ x.k.providerUsedStreams)
  <2> QED BY <1>3, <1>6, <1>2
<1> QED BY <1>4, <1>5, <1>6

(***************************************************************************)
(* The operations on one stream.                                           *)
(***************************************************************************)
\* A kept call may be worked on further.
LEMMA KeptTwice ==
    ASSUME NEW x, NEW y, NEW z, NEW i, Kept(x, y, i), y.k # NoCall, Kept(y, z, i)
    PROVE  Kept(x, z, i)
  BY DEF Kept, SameCall

\* A stream left another one keeps the cell, whoever moved it.
LEMMA WithStreamGood ==
    ASSUME NEW x, NEW i, Good(x, i), x.k # NoCall, NEW s \in StreamNos, NEW st \in StreamType,
           NEW side
    PROVE  /\ Kept(x, WithStream(x, s, st), i) /\ WithStream(x, s, st).k # NoCall
           /\ LET y == Used(WithStream(x, s, st), side)
              IN  Kept(x, y, i) /\ y.k # NoCall
<1> DEFINE u == WithStream(x, s, st)
           y == Used(u, side)
<1>2. CellMoved(x, u)
  BY GoodOccupied, WithStreamMoved DEF Occupied
<1> HIDE DEF u
<1>4. CellMoved(x, y)
  BY <1>2, UsedMoved, MovedTwice DEF CellMoved, StreamsMoved
<1> HIDE DEF y
<1> QED BY <1>2, <1>4, MovedGood DEF u, y

\* Taking the waker of one side of a stream keeps the cell.
LEMMA WakeSideGood ==
    ASSUME NEW x, NEW i, Good(x, i), x.k # NoCall, NEW s \in StreamNos, NEW side
    PROVE  Kept(x, WakeSide(x, s, side), i) /\ WakeSide(x, s, side).k # NoCall
<1>1. IsCell(x) /\ x.k \in CallEntry /\ x.e \in Entry
  BY GoodOccupied DEF Occupied
<1>2. CASE side = "Caller"
  <2> DEFINE f == TakeStreamEntry(x.e, x.k.correlation, s)
             y == [x EXCEPT !.e = TakeStreamEntry(@, x.k.correlation, s),
                            !.wake = @ \cup {<<"Stream", x.k.correlation, s, x.e.streams[s]>>}]
  <2>1. WakeSide(x, s, side) = y
    BY <1>2 DEF WakeSide
  <2>2. f \in Entry /\ f.state = x.e.state /\ f.generation = x.e.generation
    BY <1>1, StreamWakerTaken
  <2>3. IsCell(y) /\ y.e = f /\ y.k = x.k /\ y.panic = x.panic
    BY <1>1 DEF IsCell
  <2> HIDE DEF y, f
  <2>4. Good(y, i) /\ y.k # NoCall
    BY <2>2, <2>3 DEF Good, CellOK, Held
  <2> QED BY <2>1, <2>2, <2>3, <2>4 DEF Kept, SameCall
<1>3. CASE side # "Caller"
  <2> DEFINE st == [x.k.streams[s] EXCEPT !.waker = NoWaker]
             f == [x.k.streams EXCEPT ![s] = st]
             y == [x EXCEPT !.k.streams[s].waker = NoWaker,
                            !.wake = @ \cup ClaimStreamWaiters(x.k, {s})]
  <2>1. WakeSide(x, s, side) = y
    BY <1>3 DEF WakeSide
  <2>2. x.k.streams \in [StreamNos -> StreamType] /\ x.k.streams[s] \in StreamType
    BY <1>1 DEF CallEntry
  <2>3. st \in StreamType
    BY <2>2 DEF StreamType
  <2>4. IsCell(y) /\ y.e = x.e /\ y.panic = x.panic /\ y.k = [x.k EXCEPT !.streams = f]
    BY <1>1 DEF IsCell
  <2> HIDE DEF st
  <2>5. f \in [StreamNos -> StreamType]
    BY <2>2, <2>3
  <2> HIDE DEF f, y
  <2>6. CellMoved(x, y)
    BY <1>1, <2>4, <2>5, StreamsReplaced DEF CellMoved
  <2> QED BY <2>1, <2>6, MovedGood
<1> QED BY <1>2, <1>3

\* A move of a stream that wakes the other side.
LEMMA MovedAndWoken ==
    ASSUME NEW x, NEW i, Good(x, i), x.k # NoCall, NEW s \in StreamNos, NEW st \in StreamType,
           NEW side, NEW other
    PROVE  LET y == WakeSide(Used(WithStream(x, s, st), side), s, other)
           IN  Kept(x, y, i) /\ y.k # NoCall
<1> DEFINE u == Used(WithStream(x, s, st), side)
           y == WakeSide(u, s, other)
<1>1. Kept(x, u, i) /\ u.k # NoCall
  BY WithStreamGood
<1> HIDE DEF u
<1> QED BY <1>1, WakeSideGood, KeptTwice DEF u, Kept

\* A pull keeps the cell.
LEMMA PullCellGood ==
    ASSUME NEW x, NEW i, Good(x, i), x.k # NoCall, NEW s \in StreamNos, NEW side
    PROVE  Kept(x, PullCell(x, side, s), i)
<1> DEFINE st == Stream(x.k, s)
           t == [st EXCEPT !.chunks = Tail(@)]
           d == [st EXCEPT !.drained = TRUE]
           pulled == WakeSide(Used(WithStream(x, s, t), side), s, Other(side))
           ended == Used(WithStream(x, s, d), side)
<1>1. st \in StreamType
  BY GoodOccupied, StreamsTyped DEF Occupied
<1>2. PullCell(x, side, s) =
         CASE st.chunks # <<>> -> pulled
           [] st.chunks = <<>> /\ Finished(st) /\ side = "Provider" -> ReleaseIfDrained(ended)
           [] OTHER -> WithStream(x, s, st)
  BY DEF PullCell
<1> HIDE DEF st
<1>3. CASE st.chunks # <<>>
  <2>1. t \in StreamType
    BY <1>1, <1>3 DEF StreamType
  <2> HIDE DEF t
  <2>2. Kept(x, pulled, i)
    BY <2>1, MovedAndWoken
  <2> QED BY <2>2, <1>2, <1>3
<1>4. CASE st.chunks = <<>> /\ Finished(st) /\ side = "Provider"
  <2>1. d \in StreamType
    BY <1>1 DEF StreamType
  <2> HIDE DEF d
  <2>2. Kept(x, ended, i) /\ ended.k # NoCall
    BY <2>1, WithStreamGood
  <2> HIDE DEF ended
  <2>4. Kept(ended, ReleaseIfDrained(ended), i)
    BY <2>2, ReleaseIfDrainedGood DEF Kept
  <2> QED BY <2>2, <1>2, <1>4, <2>4, KeptTwice
<1>5. CASE ~(st.chunks # <<>>) /\ ~(st.chunks = <<>> /\ Finished(st) /\ side = "Provider")
  <2> QED BY <1>1, <1>2, <1>5, WithStreamGood
<1> QED BY <1>3, <1>4, <1>5

\* A push keeps the cell.
LEMMA PushCellGood ==
    ASSUME NEW x, NEW i, Good(x, i), x.k # NoCall, NEW s \in StreamNos, NEW side,
           NEW chunk \in {"bytes", "empty"}
    PROVE  Kept(x, PushCell(x, side, s, chunk), i)
<1> DEFINE st == Stream(x.k, s)
           t == [st EXCEPT !.chunks = Append(@, chunk)]
           pushed == WakeSide(Used(WithStream(x, s, t), side), s, Other(side))
<1>1. st \in StreamType
  BY GoodOccupied, StreamsTyped DEF Occupied
<1>2. PushCell(x, side, s, chunk) \in {x, WithStream(x, s, st), pushed}
  BY DEF PushCell
<1> HIDE DEF st
<1>3. t \in StreamType
  BY <1>1 DEF StreamType
<1> HIDE DEF t
<1>4. Kept(x, x, i)
  BY KeptSelf
<1>5. Kept(x, WithStream(x, s, st), i)
  BY <1>1, WithStreamGood
<1>6. Kept(x, pushed, i)
  BY <1>3, MovedAndWoken
<1> HIDE DEF pushed
<1> QED BY <1>2, <1>4, <1>5, <1>6

\* The end of a stream keeps the cell.
LEMMA EndCellGood ==
    ASSUME NEW x, NEW i, Good(x, i), x.k # NoCall, NEW s \in StreamNos, NEW side
    PROVE  Kept(x, EndCell(x, side, s), i)
<1> DEFINE st == Stream(x.k, s)
           t == [st EXCEPT !.ended = TRUE]
           u == WithStream(x, s, t)
           ended == WakeSide(u, s, Other(side))
<1>1. st \in StreamType
  BY GoodOccupied, StreamsTyped DEF Occupied
<1>2. EndCell(x, side, s) \in {x, WithStream(x, s, st), ended}
  BY DEF EndCell
<1> HIDE DEF st
<1>3. t \in StreamType
  BY <1>1 DEF StreamType
<1> HIDE DEF t
<1>4. Kept(x, x, i)
  BY KeptSelf
<1>5. Kept(x, WithStream(x, s, st), i)
  BY <1>1, WithStreamGood
<1>6. Kept(x, u, i) /\ u.k # NoCall
  BY <1>3, WithStreamGood
<1> HIDE DEF u
<1>8. Kept(x, ended, i)
  BY <1>6, WakeSideGood, KeptTwice DEF Kept
<1> HIDE DEF ended
<1> QED BY <1>2, <1>4, <1>5, <1>8

\* The abort of a stream keeps the cell.
LEMMA AbortCellGood ==
    ASSUME NEW x, NEW i, Good(x, i), x.k # NoCall, NEW s \in StreamNos, NEW side \in Sides
    PROVE  Kept(x, AbortCell(x, side, s), i)
<1> DEFINE st == Stream(x.k, s)
           receiver == Producer(s) # side
           dropped == IF receiver THEN <<>> ELSE st.chunks
           provider == side = "Provider"
           refused == [st EXCEPT !.chunks = dropped, !.drained = @ \/ (receiver /\ provider)]
           stopped == [st EXCEPT !.chunks = dropped, !.drained = @ \/ provider, !.stopped = side]
           a == Used(WithStream(x, s, refused), side)
           b == WakeSide(Used(WithStream(x, s, stopped), side), s, Other(side))
<1>1. st \in StreamType
  BY GoodOccupied, StreamsTyped DEF Occupied
<1>2. AbortCell(x, side, s) \in {a, ReleaseIfDrained(a), b, ReleaseIfDrained(b)}
  BY DEF AbortCell
<1> HIDE DEF st
<1>3. dropped \in Seq({"empty", "bytes"})
  BY <1>1 DEF StreamType
<1> HIDE DEF dropped, receiver, provider
<1>4. refused \in StreamType
  BY <1>1, <1>3 DEF StreamType
<1>5. stopped \in StreamType
  BY <1>1, <1>3 DEF StreamType, Sides
<1> HIDE DEF refused, stopped
<1>6. Kept(x, a, i) /\ a.k # NoCall
  BY <1>4, WithStreamGood
<1>7. Kept(x, b, i) /\ b.k # NoCall
  BY <1>5, MovedAndWoken
<1> HIDE DEF a, b
<1>9. Kept(x, ReleaseIfDrained(a), i) /\ Kept(x, ReleaseIfDrained(b), i)
  BY <1>6, <1>7, ReleaseIfDrainedGood, KeptTwice DEF Kept
<1> QED BY <1>2, <1>6, <1>7, <1>9

\* The claim a call carries, if its claim is on record in cl.
OwnerIn(cl, k) == IF k.claim = None THEN NoOwner ELSE cl[k.claim]

\* The call k in the slot e waits: no answer yet, and no handler has taken it.
WaitsIn(cl, e, k) ==
    /\ k # NoCall /\ e.state # "Settled"
    /\ ~(OwnerIn(cl, k) # NoOwner /\ OwnerIn(cl, k).taken)
WaitingSet(cl, sl, ca) ==
    {c \in Correlations : /\ SlotOf(c) \in Slots
                          /\ WaitsIn(cl, sl[SlotOf(c)], ca[SlotOf(c)])
                          /\ ca[SlotOf(c)].correlation = c}
SentOf(ca) == [c \in Correlations |-> ca[SlotOf(c)].sent]

CellsOK == \A i \in Slots : CellOK(slots[i], calls[i], i)

Live == {i \in Slots : calls[i] # NoCall}
Unclaimed == {i \in Live : calls[i].claim = None}
Numbered ==
    /\ \A i \in Live : calls[i].sent < nextSent /\ calls[i].claim < nextClaim
    /\ \A i, j \in Live : i # j => calls[i].sent # calls[j].sent
    /\ \A i, j \in Live : i # j /\ calls[i].claim # None => calls[i].claim # calls[j].claim
    /\ nextClaim + Cardinality(Unclaimed) <= nextSent + 1

ClaimsOK ==
    \A id \in ClaimIds :
        claims[id] # NoOwner =>
            LET i == SlotOf(claims[id].call)
            IN  /\ Known(claims[id].call)
                /\ calls[i].claim = id
                /\ slots[i].state \in {"InFlight", "Forgotten"}
                /\ claims[id].handler \in handlers

QueueOK == Lists(pending, WaitingSet(claims, slots, calls), SentOf(calls))

\* The types of what an operation on cells leaves, and of the rest.
CoreTyped ==
    /\ slots \in [Slots -> Entry]
    /\ calls \in [Slots -> CallEntry \cup {NoCall}]
    /\ pending \in Seq(Correlations)
    /\ slotWaker \in [Callers -> Wakers \cup {NoWaker}]
    /\ panicked \in BOOLEAN
    /\ asleep \subseteq Registrations
RestTyped ==
    /\ nextSent \in 0 .. MaxSends
    /\ callers \subseteq Callers /\ nextCaller \in 1 .. MaxCallers + 1
    /\ claims \in [ClaimIds -> ClaimOwner \cup {NoOwner}]
    /\ nextClaim \in 1 .. MaxSends + 1
    /\ handlers \subseteq Handlers /\ nextHandler \in 1 .. MaxHandlers + 1
    /\ served \in [Handlers -> SUBSET Members]
    /\ claimWaker \in [Handlers -> Wakers \cup {NoWaker}]
    /\ failNextSettle \in BOOLEAN /\ faults \in 0 .. MaxFaults
    /\ released \subseteq Correlations

Core == CoreTyped /\ NoPanic /\ CellsOK /\ Numbered /\ ClaimsOK /\ QueueOK
IInv == TypeOK /\ NoPanic /\ CellsOK /\ Numbered /\ ClaimsOK /\ QueueOK

\* The invariant is what operations on cells keep, and the types of the rest.
LEMMA InvParts == IInv <=> Core /\ RestTyped
  BY DEF IInv, Core, TypeOK, CoreTyped, RestTyped

\* And so it is after a step.
LEMMA InvPartsNext == IInv' <=> Core' /\ RestTyped'
  BY DEF IInv, Core, TypeOK, CoreTyped, RestTyped

\* A live call of the store.
LEMMA LiveCall ==
    ASSUME IInv, NEW i \in Slots, calls[i] # NoCall
    PROVE  /\ calls[i] \in CallEntry /\ calls[i].correlation \in Correlations
           /\ SlotOf(calls[i].correlation) = i
           /\ slots[i] \in Entry /\ slots[i].state \in {"InFlight", "Forgotten", "Settled"}
           /\ calls[i].claim \in ClaimIds \cup {None} /\ calls[i].sent \in 0 .. MaxSends
<1>2. slots[i].state # "Free" /\ slots[i] \in Entry /\ calls[i] \in CallEntry
      /\ SlotOf(calls[i].correlation) = i
  BY DEF CellOK, IInv, CellsOK
<1> QED BY <1>2 DEF Entry, States, CallEntry

\* The cell of a slot as it is.
LEMMA CellGood ==
    ASSUME IInv, NEW i \in Slots
    PROVE  /\ Good(Cell(i), i) /\ IsCell(Cell(i))
           /\ Cell(i).e = slots[i] /\ Cell(i).k = calls[i]
  BY DEF IInv, CellsOK, Good, IsCell, Cell

\* The call a claim on record names.
LEMMA ClaimCall ==
    ASSUME IInv, NEW id \in ClaimIds, claims[id] # NoOwner
    PROVE  LET i == SlotOf(claims[id].call)
           IN  /\ claims[id] \in ClaimOwner
               /\ i \in Slots /\ calls[i] # NoCall /\ calls[i].correlation = claims[id].call
               /\ calls[i].claim = id /\ slots[i].state \in {"InFlight", "Forgotten"}
               /\ claims[id].handler \in handlers
  BY DEF IInv, TypeOK, ClaimsOK, Known, HasEntry

\* Two live calls carry different claims.
LEMMA ClaimOnce ==
    ASSUME IInv, NEW i \in Slots, NEW j \in Slots, calls[i] # NoCall, calls[j] # NoCall,
           calls[i].claim # None, calls[i].claim = calls[j].claim
    PROVE  i = j
  BY DEF IInv, Numbered, Live

\* The call of a claim on record that slot i carries.
LEMMA OwnedCall ==
    ASSUME IInv, NEW i \in Slots, calls[i] # NoCall, Owner(calls[i]) # NoOwner
    PROVE  /\ calls[i].claim \in ClaimIds
           /\ Owner(calls[i]) = claims[calls[i].claim] /\ Owner(calls[i]) \in ClaimOwner
           /\ Owner(calls[i]).call = calls[i].correlation
           /\ slots[i].state \in {"InFlight", "Forgotten"}
           /\ Owner(calls[i]).handler \in handlers
<1>1. calls[i].claim # None /\ Owner(calls[i]) = claims[calls[i].claim]
  BY DEF Owner
<1>2. calls[i].claim \in ClaimIds
  BY <1>1, LiveCall
<1> DEFINE id == calls[i].claim
           j == SlotOf(claims[id].call)
<1>3. /\ claims[id] \in ClaimOwner
      /\ j \in Slots /\ calls[j] # NoCall /\ calls[j].correlation = claims[id].call
      /\ calls[j].claim = id /\ slots[j].state \in {"InFlight", "Forgotten"}
      /\ claims[id].handler \in handlers
  BY <1>1, <1>2, ClaimCall
<1>4. j = i
  <2> HIDE DEF j
  <2> QED BY <1>1, <1>3, ClaimOnce
<1> QED BY <1>1, <1>2, <1>3, <1>4

\* The calls of the queue are those that wait.
LEMMA WaitingIff ==
    ASSUME IInv, NEW i \in Slots, calls[i] # NoCall
    PROVE  /\ Waiting(calls[i]) <=> WaitsIn(claims, slots[i], calls[i])
           /\ Waiting(calls[i]) <=> calls[i].correlation \in WaitingSet(claims, slots, calls)
<1> DEFINE W == WaitingSet(claims, slots, calls)
           c == calls[i].correlation
<1>2. c \in W <=> WaitsIn(claims, slots[i], calls[i])
  BY LiveCall DEF WaitingSet
<1>3. Lists(pending, W, SentOf(calls))
  BY DEF IInv, QueueOK
<1> HIDE DEF W
<1>5. Waiting(calls[i]) <=> c \in W
  BY <1>3, ElementOfSeq, LenProperties DEF Lists, Waiting, Range
<1> QED BY <1>2, <1>5 DEF W

\* Numbers are kept when calls only go.
Thinned ==
    \A i \in Slots :
        calls'[i] # NoCall => calls[i] # NoCall /\ SameCall(calls[i], calls'[i])

\* The store has finitely many slots.
LEMMA UnclaimedFinite ==
    ASSUME NEW S \in SUBSET Slots
    PROVE  IsFiniteSet(S) /\ Cardinality(S) \in Nat
<1>1. IsFiniteSet(Slots)
  <2>1. N - 1 \in Int /\ 0 \in Int
    BY LoopbackAssumption
  <2> QED BY <2>1, FS_Interval DEF Slots
<1> QED BY <1>1, FS_Subset, FS_CardinalityType

\* Calls that only go leave the numbers of the others in order.
LEMMA NumberedKept ==
    ASSUME IInv, Thinned, UNCHANGED <<nextSent, nextClaim>>
    PROVE  Numbered'
<1>1. Live' \subseteq Live /\ Unclaimed' \subseteq Unclaimed
  BY DEF Thinned, Live, Unclaimed, SameCall
<1>2. Live \subseteq Slots /\ \A i \in Live' : SameCall(calls[i], calls'[i])
  BY DEF Live, Thinned
<1>3. IsFiniteSet(Unclaimed) /\ Cardinality(Unclaimed) \in Nat /\ Cardinality(Unclaimed') \in Nat
  <2> QED BY <1>1, <1>2, UnclaimedFinite DEF Unclaimed
<1>5. nextSent \in Nat /\ nextClaim \in Nat
  BY LoopbackAssumption DEF IInv, TypeOK
<1>6. nextClaim' + Cardinality(Unclaimed') <= nextSent' + 1
  BY <1>3, <1>1, FS_Subset, <1>5 DEF IInv, Numbered
<1>8. \A i, j \in Live' : i # j => calls'[i].sent # calls'[j].sent
  BY <1>1, <1>2 DEF IInv, Numbered, SameCall
<1>9. \A i, j \in Live' : i # j /\ calls'[i].claim # None => calls'[i].claim # calls'[j].claim
  BY <1>1, <1>2 DEF IInv, Numbered, SameCall
<1> QED BY <1>6, <1>1, <1>2, <1>8, <1>9 DEF Numbered, IInv, SameCall

\* The queue follows the calls that wait.
LEMMA QueueFollows ==
    ASSUME IInv, NEW gone, Thinned,
           pending' = Without(pending, gone),
           WaitingSet(claims, slots, calls)' = WaitingSet(claims, slots, calls) \ gone
    PROVE  QueueOK'
<1> DEFINE W == WaitingSet(claims, slots, calls)
           V == WaitingSet(claims, slots, calls)'
           key == SentOf(calls)
           key2 == SentOf(calls')
<1>1. Lists(pending, W, key)
  BY DEF IInv, QueueOK
<1>2. V = W \ gone
  OBVIOUS
<1>3. \A c \in V : key2[c] = key[c]
  BY DEF WaitingSet, WaitsIn, SentOf, Thinned, SameCall
<1> HIDE DEF W, V, key, key2
<1>4. Lists(pending', V, key)
  BY <1>1, <1>2, ListsWithout
<1>5. Lists(pending', V, key2)
  BY <1>3, <1>4, ListsSame
<1> QED BY <1>5 DEF QueueOK, V, key2

\* The queue stays when the calls that wait do.
LEMMA QueueStays ==
    ASSUME IInv, Thinned, pending' = pending,
           WaitingSet(claims, slots, calls)' = WaitingSet(claims, slots, calls)
    PROVE  QueueOK'
<1> DEFINE W == WaitingSet(claims, slots, calls)
           V == WaitingSet(claims, slots, calls)'
           key == SentOf(calls)
           key2 == SentOf(calls')
<1>1. Lists(pending, W, key)
  BY DEF IInv, QueueOK
<1>2. V = W
  OBVIOUS
<1>3. \A c \in V : key2[c] = key[c]
  BY DEF WaitingSet, WaitsIn, SentOf, Thinned, SameCall
<1> HIDE DEF W, V, key, key2
<1>5. Lists(pending', V, key2)
  BY <1>1, <1>2, <1>3, ListsSame
<1> QED BY <1>5 DEF QueueOK, V, key2

\* What waits is of the calls the store may hold.
LEMMA QueueTyped == QueueOK' => pending' \in Seq(Correlations)
<1> SUFFICES ASSUME QueueOK' PROVE pending' \in Seq(Correlations)
  OBVIOUS
<1> DEFINE V == WaitingSet(claims, slots, calls)'
<1>1. pending' \in Seq(V)
  BY DEF QueueOK, Lists
<1>2. V \subseteq Correlations
  BY DEF WaitingSet
<1> HIDE DEF V
<1> QED BY <1>1, <1>2

\* What putting good cells back leaves.
LEMMA Applied ==
    ASSUME IInv, NEW cells, NEW more, Apply(cells, more),
           \A i \in Slots : Good(cells[i], i)
    PROVE  /\ slots' = [i \in Slots |-> cells[i].e] /\ calls' = [i \in Slots |-> cells[i].k]
           /\ slots' \in [Slots -> Entry]
           /\ calls' \in [Slots -> CallEntry \cup {NoCall}]
           /\ slotWaker' \in [Callers -> Wakers \cup {NoWaker}]
           /\ asleep' \subseteq Registrations
           /\ panicked' = FALSE
           /\ CellsOK'
<1>2. \A i \in Slots : CellOK(cells[i].e, cells[i].k, i) /\ cells[i].panic = FALSE
  BY DEF Good
<1>3. \A i \in Slots : cells[i].e \in Entry /\ (cells[i].k # NoCall => cells[i].k \in CallEntry)
  BY <1>2 DEF CellOK
<1>4. panicked' = FALSE
  BY <1>2 DEF Apply
<1>5. slotWaker' \in [Callers -> Wakers \cup {NoWaker}]
  BY DEF Apply, IInv, TypeOK
<1>6. asleep' \subseteq Registrations
  BY DEF Apply, IInv, TypeOK
<1> QED BY <1>2, <1>3, <1>4, <1>5, <1>6 DEF CellsOK, Apply

\* What a step does to the calls there are: one that goes leaves nobody asleep
\* for a slot; one that stays is the same call, and is settled only when it has
\* a claim.
Followed ==
    \A i \in Slots :
        calls[i] # NoCall =>
            IF calls'[i] = NoCall THEN \A r \in asleep' : r[1] # "Slot"
            ELSE /\ calls'[i].correlation = calls[i].correlation
                 /\ calls'[i].member = calls[i].member /\ calls'[i].caller = calls[i].caller
                 /\ calls[i].claim # None => calls'[i].claim = calls[i].claim
                 /\ slots'[i].state = "Settled" =>
                       slots[i].state = "Settled" \/ calls'[i].claim # None

\* The cell z that an operation leaves in slot i is the call that was there.
StillCall(i, z) ==
    IF z.k = NoCall THEN z.freed
    ELSE /\ SameCall(calls[i], z.k)
         /\ z.e.state = "Settled" => slots[i].state = "Settled" \/ calls[i].claim # None

\* An operation on the cells that frees what it empties is such a step.
LEMMA AppliedFollowed ==
    ASSUME NEW cells, NEW more, Apply(cells, more),
           \A i \in Slots : calls[i] # NoCall => StillCall(i, cells[i])
    PROVE  Followed
<1> SUFFICES ASSUME NEW i \in Slots, calls[i] # NoCall
             PROVE  IF calls'[i] = NoCall THEN \A r \in asleep' : r[1] # "Slot"
                    ELSE /\ calls'[i].correlation = calls[i].correlation
                         /\ calls'[i].member = calls[i].member /\ calls'[i].caller = calls[i].caller
                         /\ calls[i].claim # None => calls'[i].claim = calls[i].claim
                         /\ slots'[i].state = "Settled" =>
                               slots[i].state = "Settled" \/ calls'[i].claim # None
  BY DEF Followed
<1>1. calls'[i] = cells[i].k /\ slots'[i] = cells[i].e
  BY DEF Apply
<1>4. StillCall(i, cells[i])
  OBVIOUS
<1>2. CASE calls'[i] = NoCall
  <2>2. \A r \in asleep' : r[1] # "Slot"
    BY <1>1, <1>2, <1>4 DEF Apply, StillCall
  <2> QED BY <1>2, <2>2
<1>3. CASE calls'[i] # NoCall
  BY <1>1, <1>3, <1>4 DEF StillCall, SameCall
<1> QED BY <1>2, <1>3

\* What the forgets and the operations on streams do to the store: the calls
\* of D are withdrawn, the others are kept.
WithdrawnOrKept(cells, D) ==
    \A i \in Slots :
        IF calls[i] = NoCall THEN cells[i] = Cell(i)
        ELSE IF i \in D THEN /\ Good(cells[i], i) /\ cells[i].k = NoCall /\ cells[i].freed
                              /\ Withdrawable(calls[i])
        ELSE Kept(Cell(i), cells[i], i)

\* What the store is after an operation on its cells.
LEMMA KeptCells ==
    ASSUME IInv, NEW cells, NEW more, NEW D, Apply(cells, more), WithdrawnOrKept(cells, D)
    PROVE  /\ \A i \in Slots : Good(cells[i], i)
           /\ Thinned /\ Followed
           /\ \A i \in Slots :
                 calls[i] # NoCall =>
                    IF i \in D THEN calls'[i] = NoCall
                    ELSE IF calls'[i] = NoCall THEN slots[i].state = "Settled"
                    ELSE /\ SameCall(calls[i], calls'[i])
                         /\ (slots'[i].state = "Settled") <=> (slots[i].state = "Settled")
<1>2. \A i \in Slots : slots'[i] = cells[i].e /\ calls'[i] = cells[i].k
  BY DEF Apply
<1>3. ASSUME NEW i \in Slots, calls[i] # NoCall
      PROVE  IF i \in D THEN calls'[i] = NoCall
             ELSE IF calls'[i] = NoCall THEN slots[i].state = "Settled"
             ELSE /\ SameCall(calls[i], calls'[i])
                  /\ (slots'[i].state = "Settled") <=> (slots[i].state = "Settled")
  <2> QED BY <1>2, <1>3, CellGood DEF WithdrawnOrKept, Kept
<1>4. \A i \in Slots : calls[i] = NoCall => calls'[i] = NoCall
  BY <1>2, CellGood DEF WithdrawnOrKept
<1>5. Followed
  <2>2. ASSUME NEW i \in Slots, calls[i] # NoCall
        PROVE  StillCall(i, cells[i])
    BY CellGood, <2>2 DEF WithdrawnOrKept, Kept, StillCall
  <2> QED BY <2>2, AppliedFollowed
<1> QED BY CellGood, <1>3, <1>4, <1>5 DEF Thinned, WithdrawnOrKept, Kept

\* Forgets and operations on streams keep the core of the invariant.
LEMMA KeptStore ==
    ASSUME IInv, NEW cells, NEW more, NEW D \in SUBSET Slots, Apply(cells, more),
           WithdrawnOrKept(cells, D),
           UNCHANGED <<claims, nextClaim, nextSent, handlers>>,
           \/ pending' = Without(pending, {calls[i].correlation : i \in D})
           \/ D = {} /\ pending' = pending,
           \A i \in D : calls[i] # NoCall
    PROVE  Core' /\ Followed
<1> DEFINE W == WaitingSet(claims, slots, calls)
           V == WaitingSet(claims, slots, calls)'
           gone == {calls[i].correlation : i \in D}
<1>1. /\ \A i \in Slots : Good(cells[i], i)
      /\ Thinned /\ Followed
      /\ \A i \in Slots :
            calls[i] # NoCall =>
               IF i \in D THEN calls'[i] = NoCall
               ELSE IF calls'[i] = NoCall THEN slots[i].state = "Settled"
               ELSE /\ SameCall(calls[i], calls'[i])
                    /\ (slots'[i].state = "Settled") <=> (slots[i].state = "Settled")
  BY KeptCells
<1>2. /\ slots' \in [Slots -> Entry]
      /\ calls' \in [Slots -> CallEntry \cup {NoCall}]
      /\ slotWaker' \in [Callers -> Wakers \cup {NoWaker}]
      /\ asleep' \subseteq Registrations
      /\ panicked' = FALSE
      /\ CellsOK'
  BY <1>1, Applied
<1>3. Numbered'
  BY <1>1, NumberedKept
<1>4. \A i \in D : i \in Slots /\ Withdrawable(calls[i]) /\ calls[i] # NoCall
  BY DEF WithdrawnOrKept
<1>5. ClaimsOK'
  <2> SUFFICES ASSUME NEW id \in ClaimIds, claims[id] # NoOwner
               PROVE  LET i == SlotOf(claims[id].call)
                      IN  /\ Known(claims[id].call)'
                          /\ calls'[i].claim = id
                          /\ slots'[i].state \in {"InFlight", "Forgotten"}
                          /\ claims[id].handler \in handlers
    BY DEF ClaimsOK
  <2> DEFINE i == SlotOf(claims[id].call)
  <2>1. /\ i \in Slots /\ calls[i] # NoCall /\ calls[i].correlation = claims[id].call
        /\ calls[i].claim = id /\ slots[i].state \in {"InFlight", "Forgotten"}
        /\ claims[id].handler \in handlers
    BY ClaimCall
  <2>2. i \notin D
    <3> SUFFICES ASSUME i \in D PROVE FALSE
      OBVIOUS
    <3>2. Waiting(calls[i]) /\ ~Offered(calls[i])
      BY <1>4 DEF Withdrawable
    <3>5. Owner(calls[i]) = claims[id] /\ OwnerIn(claims, calls[i]) = claims[id]
      BY <2>1 DEF Owner, OwnerIn, ClaimIds, None
    <3> HIDE DEF i
    <3> QED BY <3>2, <2>1, WaitingIff, <3>5 DEF WaitsIn, Offered, Claimed
  <2>3. /\ calls'[i] # NoCall /\ SameCall(calls[i], calls'[i])
        /\ slots'[i].state # "Settled"
    BY <1>1, <2>1, <2>2
  <2>4. slots'[i].state \in {"InFlight", "Forgotten"}
    <3>2. slots'[i] \in Entry /\ slots'[i].state # "Free"
      BY <2>3, <1>2, <2>1 DEF CellOK, CellsOK
    <3> QED BY <2>3, <3>2 DEF Entry, States
  <2> QED BY <2>1, <2>3, <2>4 DEF Known, HasEntry, SameCall
<1>6. ASSUME NEW c \in Correlations PROVE c \in V <=> c \in W /\ c \notin gone
  <2> DEFINE i == SlotOf(c)
  <2>1. CASE i \in Slots /\ calls[i] # NoCall /\ calls[i].correlation = c
    <3>1. c \in gone <=> i \in D
      <4> QED BY <2>1, <1>4, LiveCall
    <3>2. CASE i \in D
      BY <1>1, <2>1, <3>1, <3>2 DEF WaitingSet, WaitsIn
    <3>3. CASE i \notin D
      <4>1. CASE calls'[i] = NoCall
        <5> QED BY <4>1, <1>1, <2>1, <3>3 DEF WaitingSet, WaitsIn
      <4>2. CASE calls'[i] # NoCall
        <5>1. /\ SameCall(calls[i], calls'[i])
              /\ (slots'[i].state = "Settled") <=> (slots[i].state = "Settled")
          BY <1>1, <2>1, <3>3, <4>2
        <5>2. WaitsIn(claims, slots[i], calls[i]) <=> WaitsIn(claims, slots'[i], calls'[i])
          BY <2>1, <4>2, <5>1 DEF WaitsIn, OwnerIn, SameCall
        <5>4. c \in V <=> WaitsIn(claims, slots'[i], calls'[i])
          BY <2>1, <5>1 DEF WaitingSet, SameCall
        <5> QED BY <3>1, <3>3, <5>2, <2>1, <5>4 DEF WaitingSet
      <4> QED BY <4>1, <4>2
    <3> QED BY <3>2, <3>3
  <2>2. CASE ~(i \in Slots /\ calls[i] # NoCall /\ calls[i].correlation = c)
    <3>2. c \notin V
      BY <1>1, <2>2 DEF WaitingSet, WaitsIn, Thinned, SameCall
    <3> QED BY <2>2, <3>2 DEF WaitingSet, WaitsIn
  <2> QED BY <2>1, <2>2
<1>7. V = W \ gone
  <2>1. V \subseteq Correlations /\ W \subseteq Correlations
    BY DEF WaitingSet
  <2> HIDE DEF V, W, gone
  <2> QED BY <1>6, <2>1
<1>8. QueueOK'
  <2>1. CASE pending' = Without(pending, gone)
    BY <1>1, <1>7, <2>1, QueueFollows
  <2>2. CASE D = {} /\ pending' = pending
    <3> QED BY <1>1, <2>2, <1>7, QueueStays
  <2> QED BY <2>1, <2>2
<1> QED BY <1>1, <1>2, <1>3, <1>5, <1>8, QueueTyped DEF Core, CoreTyped, NoPanic

\* One cell that is kept.
LEMMA OneKept ==
    ASSUME IInv, NEW i \in Slots, calls[i] # NoCall, NEW x, Kept(Cell(i), x, i), ApplyTo(i, x),
           UNCHANGED <<claims, nextClaim, nextSent, handlers, pending>>
    PROVE  Core' /\ Followed
<1> DEFINE cells == [j \in Slots |-> IF j = i THEN x ELSE Cell(j)]
<1>1. Apply(cells, {})
  BY DEF ApplyTo
<1>2. \A j \in Slots : cells[j] = IF j = i THEN x ELSE Cell(j)
  OBVIOUS
<1> HIDE DEF cells
<1>3. ASSUME NEW j \in Slots, calls[j] # NoCall PROVE Kept(Cell(j), Cell(j), j)
  BY <1>3, CellGood, KeptSelf
<1> DEFINE D == {}
           more == {}
<1>4. WithdrawnOrKept(cells, D)
  BY <1>2, <1>3 DEF WithdrawnOrKept
<1>5. D \in SUBSET Slots /\ (\A j \in D : calls[j] # NoCall) /\ D = {}
  OBVIOUS
<1>6. Apply(cells, more)
  BY <1>1
<1> HIDE DEF D, more
<1> QED BY <1>4, <1>5, <1>6, KeptStore

\* The cell a forget leaves.
LEMMA ForgottenCell ==
    ASSUME IInv, NEW i \in Slots, calls[i] # NoCall
    PROVE  IF Withdrawable(calls[i])
           THEN /\ Good(ForgetCell(Cell(i)), i) /\ ForgetCell(Cell(i)).k = NoCall
                /\ ForgetCell(Cell(i)).freed
           ELSE Kept(Cell(i), ForgetCell(Cell(i)), i)
<1>2. Waiting(calls[i]) => slots[i].state # "Settled"
  BY WaitingIff DEF WaitsIn
<1> DEFINE x == Cell(i)
<1>3. Good(x, i) /\ x.k # NoCall /\ (Waiting(x.k) => x.e.state # "Settled") /\ x.k = calls[i]
  BY CellGood, <1>2
<1> HIDE DEF x
<1> QED BY <1>3, ForgetCellGood DEF x

\* A forget keeps it.
LEMMA ForgetCore ==
    ASSUME IInv, NEW c \in Correlations, Forget(c)
    PROVE  Core' /\ Followed
<1> DEFINE i == SlotOf(c)
           x == ForgetCell(Cell(i))
           cells == [j \in Slots |-> IF j = i THEN x ELSE Cell(j)]
           D == IF Withdrawable(calls[i]) THEN {i} ELSE {}
<1>1. i \in Slots /\ calls[i] # NoCall /\ calls[i].correlation = c
  BY DEF Forget, Known, HasEntry
<1>2. /\ Apply(cells, {})
      /\ pending' = IF Withdrawable(calls[i]) THEN Without(pending, {c}) ELSE pending
      /\ UNCHANGED <<claims, nextClaim, nextSent, handlers>>
  BY DEF Forget, ApplyTo, handlerVars
<1>3. IF Withdrawable(calls[i]) THEN Good(x, i) /\ x.k = NoCall /\ x.freed ELSE Kept(Cell(i), x, i)
  BY <1>1, ForgottenCell
<1> HIDE DEF x, i
<1>4. \A j \in Slots : cells[j] = IF j = i THEN x ELSE Cell(j)
  OBVIOUS
<1>5. ASSUME NEW j \in Slots, calls[j] # NoCall PROVE Kept(Cell(j), Cell(j), j)
  BY <1>5, CellGood, KeptSelf
<1> HIDE DEF cells
<1>6. WithdrawnOrKept(cells, D)
  BY <1>1, <1>3, <1>4, <1>5 DEF WithdrawnOrKept
<1>7. D \in SUBSET Slots /\ \A j \in D : calls[j] # NoCall
  BY <1>1
<1>8. \/ pending' = Without(pending, {calls[j].correlation : j \in D})
      \/ D = {} /\ pending' = pending
  <2>1. CASE Withdrawable(calls[i])
    <3> QED BY <1>2, <2>1, <1>1
  <2>2. CASE ~Withdrawable(calls[i])
    BY <1>2, <2>2
  <2> QED BY <2>1, <2>2
<1> HIDE DEF D
<1> QED BY <1>2, <1>6, <1>7, <1>8, KeptStore

\* A caller's drop keeps it: all its calls are forgotten.
LEMMA CloseCallerCore ==
    ASSUME IInv, NEW caller \in Callers, CloseCaller(caller)
    PROVE  Core' /\ Followed
<1> DEFINE sent == {i \in Slots : calls[i] # NoCall /\ calls[i].caller = caller}
           D == {j \in sent : Withdrawable(calls[j])}
           gone == {calls[i].correlation : i \in D}
           cells == [i \in Slots |-> IF i \in sent THEN ForgetCell(Cell(i)) ELSE Cell(i)]
           more == {<<"Slot", caller, 0, slotWaker[caller]>>}
<1>1. Apply(cells, more) /\ pending' = Without(pending, gone)
      /\ UNCHANGED <<claims, nextClaim, nextSent, handlers>>
  BY DEF CloseCaller, handlerVars
<1>2. \A i \in Slots : cells[i] = IF i \in sent THEN ForgetCell(Cell(i)) ELSE Cell(i)
  OBVIOUS
<1>3. D \in SUBSET Slots /\ \A i \in D : calls[i] # NoCall
  OBVIOUS
<1>4. ASSUME NEW i \in Slots, calls[i] # NoCall PROVE Kept(Cell(i), Cell(i), i)
  BY <1>4, CellGood, KeptSelf
<1>5. \A i \in Slots : i \in sent => calls[i] # NoCall
  OBVIOUS
<1>6. \A i \in Slots : i \in D <=> i \in sent /\ Withdrawable(calls[i])
  OBVIOUS
<1> HIDE DEF cells, sent, D, more
<1>7. WithdrawnOrKept(cells, D)
  BY <1>2, <1>4, <1>5, <1>6, ForgottenCell DEF WithdrawnOrKept
<1> QED BY <1>1, <1>3, <1>7, KeptStore

\* An answered call waits no longer, and its claim is off the record.
LEMMA SettleCore ==
    ASSUME IInv, NEW h \in Handlers, NEW id \in ClaimIds, NEW outcome \in Outcomes,
           SettleClaim(h, id, outcome)
    PROVE  Core' /\ Followed
<1> DEFINE c == claims[id].call
           i == SlotOf(c)
           x == SettleCell(Cell(i), h, outcome)
           cells == [j \in Slots |-> IF j = i THEN x ELSE Cell(j)]
           W == WaitingSet(claims, slots, calls)
           V == WaitingSet(claims, slots, calls)'
           more == {}
<1>1. /\ claims[id] \in ClaimOwner /\ claims[id] # NoOwner
      /\ i \in Slots /\ calls[i] # NoCall /\ calls[i].correlation = c
      /\ calls[i].claim = id /\ slots[i].state \in {"InFlight", "Forgotten"}
  BY ClaimCall DEF SettleClaim
<1>3. /\ Apply(cells, more) /\ claims' = [claims EXCEPT ![id] = NoOwner]
      /\ pending' = IF claims[id].taken THEN pending ELSE Without(pending, {c})
      /\ UNCHANGED <<nextClaim, nextSent, handlers>>
  BY <1>1 DEF SettleClaim, ApplyTo, handlerVars, HasEntry
<1>4. Answered(Cell(i), x, i)
  <2> DEFINE y == Cell(i)
  <2>2. Good(y, i) /\ y.k # NoCall /\ y.e.state \in {"InFlight", "Forgotten"}
    BY <1>1, CellGood
  <2> HIDE DEF y
  <2> QED BY <2>2, SettleCellGood DEF y
<1> HIDE DEF more
<1>5. \A j \in Slots : cells[j] = IF j = i THEN x ELSE Cell(j)
  OBVIOUS
<1> HIDE DEF x, cells
<1>7. /\ slots' = [j \in Slots |-> cells[j].e] /\ calls' = [j \in Slots |-> cells[j].k]
      /\ slots' \in [Slots -> Entry]
      /\ calls' \in [Slots -> CallEntry \cup {NoCall}]
      /\ slotWaker' \in [Callers -> Wakers \cup {NoWaker}]
      /\ asleep' \subseteq Registrations
      /\ panicked' = FALSE
      /\ CellsOK'
  BY <1>3, <1>4, <1>5, CellGood, Applied DEF Answered
<1>8. /\ calls'[i] # NoCall => SameCall(calls[i], calls'[i]) /\ slots'[i].state = "Settled"
      /\ \A j \in Slots \ {i} : calls'[j] = calls[j] /\ slots'[j] = slots[j]
  <2>2. \A j \in Slots \ {i} : cells[j].e = slots[j] /\ cells[j].k = calls[j]
    BY <1>5, CellGood
  <2>3. slots'[i] = x.e /\ calls'[i] = x.k
    BY <1>1, <1>5, <1>7
  <2> QED BY <1>4, <1>7, <1>1, CellGood, <2>2, <2>3 DEF Answered
<1>9. Thinned
  BY <1>1, <1>8 DEF Thinned, SameCall
<1>10. Numbered'
  BY <1>3, <1>9, NumberedKept
<1>11. claims \in [ClaimIds -> ClaimOwner \cup {NoOwner}]
  BY DEF IInv, TypeOK
<1>12. ClaimsOK'
  <2> SUFFICES ASSUME NEW n \in ClaimIds, claims'[n] # NoOwner
               PROVE  LET j == SlotOf(claims'[n].call)
                      IN  /\ Known(claims[n].call)'
                          /\ calls'[j].claim = n
                          /\ slots'[j].state \in {"InFlight", "Forgotten"}
                          /\ claims'[n].handler \in handlers'
    BY DEF ClaimsOK
  <2> DEFINE j == SlotOf(claims[n].call)
  <2>1. n # id /\ claims'[n] = claims[n]
    BY <1>3, <1>11
  <2>2. /\ j \in Slots /\ calls[j] # NoCall /\ calls[j].correlation = claims[n].call
        /\ calls[j].claim = n /\ slots[j].state \in {"InFlight", "Forgotten"}
        /\ claims[n].handler \in handlers
    BY <2>1, ClaimCall
  <2> QED BY <1>3, <2>1, <2>2, <1>1, <1>8 DEF Known, HasEntry
<1>13. ASSUME NEW d \in Correlations PROVE d \in V <=> d \in W /\ d # c
  <2> DEFINE j == SlotOf(d)
  <2>1. CASE j = i
    <3>2. d # c => d \notin W
      BY <1>1, <2>1 DEF WaitingSet
    <3> QED BY <1>8, <2>1, <3>2 DEF WaitingSet, WaitsIn
  <2>2. CASE j # i /\ j \in Slots
    <3>2. calls[j] # NoCall => OwnerIn(claims', calls[j]) = OwnerIn(claims, calls[j])
      <4> SUFFICES ASSUME calls[j] # NoCall, calls[j].claim # None
                   PROVE  claims'[calls[j].claim] = claims[calls[j].claim]
        BY DEF OwnerIn
      <4>2. calls[j].claim # id
        <5> HIDE DEF i, j
        <5> QED BY <1>1, <2>2, ClaimOnce
      <4> QED BY <1>3, <1>11, <2>2, LiveCall, <4>2
    <3> QED BY <2>2, <1>8, <3>2 DEF WaitingSet, WaitsIn
  <2>3. CASE j \notin Slots
    <3> QED BY <2>3, <1>1 DEF WaitingSet
  <2> QED BY <2>1, <2>2, <2>3
<1>14. V = W \ {c}
  <2>1. V \subseteq Correlations /\ W \subseteq Correlations
    BY DEF WaitingSet
  <2> HIDE DEF V, W
  <2> QED BY <1>13, <2>1
<1>15. QueueOK'
  <2>1. CASE claims[id].taken
    <3>1. c \notin W
      <4> QED BY <1>1, <2>1 DEF WaitingSet, WaitsIn, OwnerIn, ClaimIds, None
    <3> QED BY <1>9, <1>3, <1>14, <2>1, <3>1, QueueStays
  <2>2. CASE ~claims[id].taken
    <3> DEFINE gone == {c}
    <3> HIDE DEF gone
    <3> QED BY <1>9, <1>3, <1>14, <2>2, QueueFollows
  <2> QED BY <2>1, <2>2
<1>17. Followed
  <2>1. \A j \in Slots : Cell(j).k = calls[j] /\ Cell(j).e = slots[j]
    BY CellGood
  <2>2. ASSUME NEW j \in Slots, calls[j] # NoCall
        PROVE  StillCall(j, cells[j])
    <3>1. CASE j = i
      <4> QED BY <1>4, <1>5, <2>1, <3>1, <1>1 DEF Answered, StillCall, ClaimIds, None
    <3>2. CASE j # i
      BY <1>5, <2>1, <2>2, <3>2 DEF StillCall, SameCall
    <3> QED BY <3>1, <3>2
  <2> QED BY <1>3, <2>2, AppliedFollowed
<1> QED BY <1>7, <1>10, <1>12, <1>15, QueueTyped, <1>17 DEF Core, CoreTyped, NoPanic

\* A handler is presented the first call it serves: it waits, and its claim,
\* minted when it has none yet, is no other call's.
LEMMA PresentedCall ==
    ASSUME IInv, NEW h \in Handlers, ClaimWaiting(h)
    PROVE  LET c == pending[Min(Servable(served[h]))]
               i == SlotOf(c)
           IN  /\ c \in WaitingSet(claims, slots, calls) /\ c \in Correlations
               /\ i \in Slots /\ calls[i] # NoCall /\ calls[i].correlation = c
               /\ slots[i].state \in {"InFlight", "Forgotten"}
               /\ Mints(i) => nextClaim \in ClaimIds /\ nextClaim + 1 \in 1 .. MaxSends + 1
               /\ ~Mints(i) => calls[i].claim \in ClaimIds
<1> DEFINE P == Servable(served[h])
           c == pending[Min(P)]
           i == SlotOf(c)
           W == WaitingSet(claims, slots, calls)
<1>1. P \subseteq DOMAIN pending /\ P # {}
  BY DEF ClaimWaiting, Servable
<1>2. P \in SUBSET Nat
  <2>2. DOMAIN pending \subseteq Nat
    BY LenProperties DEF IInv, TypeOK
  <2> QED BY <1>1, <2>2
<1>3. Min(P) \in DOMAIN pending
  <2> HIDE DEF P
  <2> QED BY <1>1, <1>2, MinIsLeast
<1>4. c \in W
  <2>1. Lists(pending, W, SentOf(calls))
    BY DEF IInv, QueueOK
  <2> HIDE DEF W
  <2> QED BY <1>3, <2>1, ElementOfSeq, LenProperties DEF Lists
<1>5. /\ c \in Correlations /\ i \in Slots /\ calls[i] # NoCall /\ calls[i].correlation = c
      /\ slots[i].state # "Settled"
  BY <1>4 DEF WaitingSet, WaitsIn
<1>7. ~Mints(i) => calls[i].claim \in ClaimIds
  BY <1>5, LiveCall DEF Mints
<1>8. Mints(i) => nextClaim \in ClaimIds /\ nextClaim + 1 \in 1 .. MaxSends + 1
  <2> SUFFICES ASSUME calls[i].claim = None PROVE nextClaim \in 1 .. MaxSends
    BY LoopbackAssumption DEF Mints, ClaimIds
  <2> HIDE DEF i
  <2>1. i \in Unclaimed /\ Unclaimed \in SUBSET Slots
    BY <1>5 DEF Unclaimed, Live
  <2>2. Cardinality(Unclaimed) \in Nat /\ Cardinality(Unclaimed) # 0
    <3> QED BY <2>1, UnclaimedFinite, FS_EmptySet
  <2>4. nextSent \in 0 .. MaxSends /\ nextClaim \in 1 .. MaxSends + 1 /\ MaxSends \in Nat
    BY LoopbackAssumption DEF IInv, TypeOK
  <2> QED BY <2>2, <2>4 DEF IInv, Numbered
<1> QED BY <1>4, <1>5, LiveCall, <1>7, <1>8

\* Presenting a call, taken or only offered, keeps it.
LEMMA NextClaimCore ==
    ASSUME IInv, NEW h \in Handlers, NEW fits \in BOOLEAN, NextClaim(h, fits)
    PROVE  Core' /\ Followed
<1> DEFINE c == pending[Min(Servable(served[h]))]
           i == SlotOf(c)
           id == IF Mints(i) THEN nextClaim ELSE calls[i].claim
           W == WaitingSet(claims, slots, calls)
           V == WaitingSet(claims, slots, calls)'
<1>1. /\ c \in W /\ c \in Correlations
      /\ i \in Slots /\ calls[i] # NoCall /\ calls[i].correlation = c
      /\ slots[i].state \in {"InFlight", "Forgotten"}
      /\ Mints(i) => nextClaim \in ClaimIds /\ nextClaim + 1 \in 1 .. MaxSends + 1
      /\ ~Mints(i) => calls[i].claim \in ClaimIds
  BY PresentedCall DEF NextClaim
<1>2. /\ calls' = [calls EXCEPT ![i].claim = id]
      /\ nextClaim' = IF Mints(i) THEN nextClaim + 1 ELSE nextClaim
      /\ claims' = [claims EXCEPT ![id] = [call |-> c, handler |-> h, taken |-> fits]]
      /\ pending' = IF fits THEN Without(pending, {c}) ELSE pending
      /\ h \in handlers /\ handlers' = handlers
      /\ UNCHANGED <<slots, nextSent, slotWaker, panicked, asleep>>
  BY DEF NextClaim, handlerVars
<1> HIDE DEF c
<1>3. id \in ClaimIds
  BY <1>1
<1>4. /\ calls \in [Slots -> CallEntry \cup {NoCall}] /\ calls[i] \in CallEntry
      /\ claims \in [ClaimIds -> ClaimOwner \cup {NoOwner}]
      /\ nextClaim \in Nat /\ nextSent \in Nat
  BY <1>1, LiveCall, LoopbackAssumption DEF IInv, TypeOK
<1> HIDE DEF i
<1>5. \A j \in Slots : calls[j] # NoCall /\ j # i => calls[j].claim # id
  <2> SUFFICES ASSUME NEW j \in Slots, calls[j] # NoCall, j # i, calls[j].claim = id PROVE FALSE
    OBVIOUS
  <2>1. CASE Mints(i)
    <3> QED BY <1>4, <2>1 DEF IInv, Numbered, Live
  <2>2. CASE ~Mints(i)
    BY <1>1, <2>2, ClaimOnce DEF Mints
  <2> QED BY <2>1, <2>2
<1>6. Mints(i) \/ calls[i].claim = id
  OBVIOUS
<1>7. nextClaim' \in Nat /\ id < nextClaim' /\ nextClaim <= nextClaim'
  <2>1. CASE Mints(i)
    BY <1>2, <1>4, <2>1
  <2>2. CASE ~Mints(i)
    <3> QED BY <1>2, <1>4, <2>2, <1>1 DEF IInv, Numbered, Live
  <2> QED BY <2>1, <2>2
<1>8. nextClaim' + Cardinality(Unclaimed') <= nextSent' + 1
  <2>1. Unclaimed \in SUBSET Slots /\ Unclaimed' = Unclaimed \ {i}
    <3>1. \A j \in Slots : calls'[j] # NoCall <=> calls[j] # NoCall
      BY <1>1, <1>2, <1>3, <1>4, NoneAssumption DEF CallEntry
    <3>3. calls'[i].claim # None
      BY <1>1, <1>2, <1>3, <1>4 DEF CallEntry, ClaimIds, None
    <3> QED BY <3>1, <1>2, <1>4, <3>3 DEF Unclaimed, Live
  <2>2. IsFiniteSet(Unclaimed) /\ Cardinality(Unclaimed) \in Nat
    BY <2>1, UnclaimedFinite
  <2>3. Cardinality(Unclaimed) + nextClaim <= nextSent + 1
    BY <1>4, <2>2 DEF IInv, Numbered
  <2>4. CASE Mints(i)
    <3>2. Cardinality(Unclaimed \ {i}) = Cardinality(Unclaimed) - 1
      BY <2>2, <1>1, <2>4, FS_RemoveElement DEF Unclaimed, Live, Mints
    <3> QED BY <1>2, <1>4, <2>1, <2>2, <2>3, <2>4, <3>2
  <2>5. CASE ~Mints(i)
    <3>1. Unclaimed' = Unclaimed
      BY <2>1, <2>5 DEF Unclaimed, Mints
    <3> QED BY <1>2, <1>4, <2>2, <2>3, <2>5, <3>1
  <2> QED BY <2>4, <2>5
<1> HIDE DEF id
<1>9. /\ calls'[i] = [calls[i] EXCEPT !.claim = id]
      /\ \A j \in Slots \ {i} : calls'[j] = calls[j]
  BY <1>1, <1>2, <1>4
<1>10. /\ calls'[i] \in CallEntry /\ calls'[i] # NoCall /\ calls'[i].claim = id
       /\ calls'[i].correlation = c /\ calls'[i].sent = calls[i].sent
       /\ calls'[i].forgotten = calls[i].forgotten
       /\ calls'[i].pendingForget = calls[i].pendingForget
       /\ calls'[i].settledBy = calls[i].settledBy
  BY <1>1, <1>3, <1>4, <1>9, NoneAssumption DEF CallEntry
<1>12. CellsOK'
  <2> SUFFICES ASSUME NEW j \in Slots PROVE CellOK(slots[j], calls'[j], j)
    BY <1>2 DEF CellsOK
  <2>1. CellOK(slots[j], calls[j], j)
    BY DEF IInv, CellsOK
  <2>2. CASE j = i
    <3>2. calls[i] \in CallEntry /\ calls[i].correlation = c
      BY <1>1, <1>4
    <3> QED BY <1>10, <2>1, <2>2, <1>1, <3>2 DEF CellOK, i
  <2>3. CASE j # i
    BY <1>9, <2>1, <2>3
  <2> QED BY <2>2, <2>3
<1>13. Numbered'
  <2>1. Live' = Live
    BY <1>1, <1>9, <1>10 DEF Live
  <2>2. \A j \in Live : calls'[j].sent = calls[j].sent
    BY <1>9, <1>10 DEF Live
  <2>3. \A j \in Live : calls'[j].claim < nextClaim'
    <3> SUFFICES ASSUME NEW j \in Live, j # i PROVE calls[j].claim < nextClaim'
      BY <1>7, <1>9, <1>10 DEF Live
    <3> QED BY <1>4, <1>7, LiveCall DEF IInv, Numbered, Live, ClaimIds, None
  <2>4. \A j, l \in Live : j # l /\ calls'[j].claim # None => calls'[j].claim # calls'[l].claim
    <3> SUFFICES ASSUME NEW j \in Live, NEW l \in Live, j # l, calls'[j].claim # None
                 PROVE  calls'[j].claim # calls'[l].claim
      OBVIOUS
    <3>1. j \in Slots /\ l \in Slots /\ calls[j] # NoCall /\ calls[l] # NoCall
      BY DEF Live
    <3>2. CASE j = i
      BY <1>5, <1>9, <1>10, <3>1, <3>2
    <3>3. CASE l = i
      BY <1>5, <1>9, <1>10, <3>1, <3>3
    <3>4. CASE j # i /\ l # i
      <4> QED BY <3>1, <1>9, <3>4, ClaimOnce
    <3> QED BY <3>2, <3>3, <3>4
  <2>5. \A j \in Live : calls'[j].sent < nextSent'
    BY <1>2, <2>2 DEF IInv, Numbered
  <2> QED BY <1>8, <2>1, <2>3, <2>4, <2>5, <2>2 DEF Numbered, IInv
<1> DEFINE owner == [call |-> c, handler |-> h, taken |-> fits]
<1>15. /\ claims'[id] = owner /\ owner # NoOwner
       /\ owner.call = c /\ owner.handler = h /\ owner.taken = fits
       /\ \A n \in ClaimIds \ {id} : claims'[n] = claims[n]
  BY <1>2, <1>3, <1>4, <1>1, NoneAssumption DEF ClaimOwner
<1> HIDE DEF owner
<1>16. ClaimsOK'
  <2> SUFFICES ASSUME NEW n \in ClaimIds, claims'[n] # NoOwner
               PROVE  LET j == SlotOf(claims'[n].call)
                      IN  /\ Known(claims[n].call)'
                          /\ calls'[j].claim = n
                          /\ slots'[j].state \in {"InFlight", "Forgotten"}
                          /\ claims'[n].handler \in handlers'
    BY DEF ClaimsOK
  <2>1. CASE n = id
    BY <1>1, <1>2, <1>10, <1>15, <2>1 DEF Known, HasEntry, i
  <2>2. CASE n # id
    <3> DEFINE j == SlotOf(claims[n].call)
    <3>1. claims'[n] = claims[n]
      BY <1>15, <2>2
    <3>2. /\ j \in Slots /\ calls[j] # NoCall /\ calls[j].correlation = claims[n].call
          /\ calls[j].claim = n /\ slots[j].state \in {"InFlight", "Forgotten"}
          /\ claims[n].handler \in handlers
      BY <2>2, <3>1, ClaimCall
    <3>3. j # i
      <4> SUFFICES ASSUME j = i PROVE FALSE
        OBVIOUS
      <4>1. calls[i].claim = n
        BY <3>2
      <4> QED BY <4>1, <1>6, <2>2 DEF Mints, ClaimIds, None
    <3>4. calls'[j] = calls[j]
      BY <1>9, <3>2, <3>3
    <3>5. SlotOf(claims'[n].call) = j /\ claims'[n].call = claims[n].call
      BY <3>1
    <3>6. Known(claims[n].call)'
      BY <3>2, <3>4, <3>5 DEF Known, HasEntry
    <3>8. claims'[n].handler \in handlers'
      BY <1>2, <3>1, <3>2
    <3> HIDE DEF j
    <3> QED BY <3>5, <3>6, <1>2, <3>2, <3>4, <3>8
  <2> QED BY <2>1, <2>2
<1>17. ASSUME NEW d \in Correlations PROVE d \in V <=> d \in W /\ (fits => d # c)
  <2> DEFINE j == SlotOf(d)
  <2>1. CASE j = i
    <3>3. WaitsIn(claims', slots'[i], calls'[i]) <=> ~fits
      BY <1>1, <1>2, <1>10, <1>15, <1>3 DEF WaitsIn, OwnerIn, ClaimIds, None
    <3>4. d \in V <=> ~fits /\ d = c
      BY <1>1, <1>10, <2>1, <3>3 DEF WaitingSet
    <3> QED BY <1>1, <2>1, <3>4 DEF WaitingSet
  <2>2. CASE j # i /\ j \in Slots
    <3>2. d # c
      BY <2>2 DEF i
    <3>3. calls[j] # NoCall => OwnerIn(claims', calls[j]) = OwnerIn(claims, calls[j])
      <4> SUFFICES ASSUME calls[j] # NoCall, calls[j].claim # None
                   PROVE  claims'[calls[j].claim] = claims[calls[j].claim]
        BY DEF OwnerIn
      <4>2. calls[j].claim # id
        BY <1>5, <2>2
      <4> QED BY <1>15, <2>2, LiveCall, <4>2
    <3> QED BY <2>2, <1>2, <1>9, <3>2, <3>3 DEF WaitingSet, WaitsIn
  <2>3. CASE j \notin Slots
    BY <1>1, <2>3 DEF WaitingSet
  <2> QED BY <2>1, <2>2, <2>3
<1>18. V = IF fits THEN W \ {c} ELSE W
  <2>1. V \subseteq Correlations /\ W \subseteq Correlations
    BY DEF WaitingSet
  <2> HIDE DEF V, W
  <2> QED BY <1>17, <2>1
<1> DEFINE key == SentOf(calls)
           key2 == SentOf(calls')
           gone == {c}
<1>19. \A d \in W : key2[d] = key[d]
  BY <1>1, <1>9, <1>10 DEF WaitingSet, SentOf, i
<1>20. Lists(pending, W, key)
  BY DEF IInv, QueueOK
<1>21. Lists(pending', V, key2)
  <2> HIDE DEF W, V, key, key2
  <2>1. CASE fits
    <3>1. pending' = Without(pending, gone) /\ V = W \ gone
      BY <1>2, <1>18, <2>1
    <3> HIDE DEF gone
    <3>3. \A d \in V : key2[d] = key[d]
      BY <1>19, <3>1
    <3> QED BY <1>20, <3>1, ListsWithout, <3>3, ListsSame
  <2>2. CASE ~fits
    <3> QED BY <1>19, <1>20, <1>2, <1>18, <2>2, ListsSame
  <2> QED BY <2>1, <2>2
<1>22. QueueOK'
  BY <1>21 DEF QueueOK
<1>23. pending' \in Seq(Correlations)
  BY <1>22, QueueTyped
<1>24. CoreTyped' /\ NoPanic'
  BY <1>2, <1>4, <1>9, <1>10, <1>23 DEF IInv, TypeOK, NoPanic, CoreTyped
<1>25. Followed
  <2>2. /\ calls'[i] # NoCall /\ calls'[i].correlation = calls[i].correlation
        /\ calls'[i].member = calls[i].member /\ calls'[i].caller = calls[i].caller
        /\ calls'[i].claim = id
    BY <1>1, <1>2, <1>3, <1>4, NoneAssumption DEF CallEntry
  <2>3. calls[i].claim # None => id = calls[i].claim
    BY <1>6 DEF Mints
  <2>4. slots' = slots
    BY <1>2
  <2> HIDE DEF id
  <2> QED BY <1>2, <1>4, <2>2, <2>3, <2>4 DEF Followed
<1> QED BY <1>12, <1>13, <1>16, <1>22, <1>24, <1>25 DEF Core

\* A sent call takes a free slot, waits last, and has no claim yet.
LEMMA SendCore ==
    ASSUME IInv, NEW caller \in Callers, NEW kind \in Kinds, NEW member \in Members,
           Send(caller, kind, member)
    PROVE  Core' /\ Followed
<1> DEFINE i == Min(FreeSlots)
           c == Correlation(slots[i].generation, i)
           k == NewCall(c, caller, kind, member)
           cell == [Cell(i) EXCEPT !.e = Inserted(@, 0), !.k = NewCall(c, caller, kind, member)]
           cells == [j \in Slots |-> IF j = i THEN cell ELSE Cell(j)]
           more == ClaimWaiters({h \in handlers : Serves(h, member)})
           W == WaitingSet(claims, slots, calls)
           V == WaitingSet(claims, slots, calls)'
<1>1. /\ Apply(cells, more) /\ pending' = Append(pending, c)
      /\ nextSent < MaxSends /\ nextSent' = nextSent + 1
      /\ UNCHANGED <<claims, nextClaim, handlers>>
  BY DEF Send, handlerVars
<1>2. i \in Slots /\ slots[i].state = "Free"
  <2>1. FreeSlots # {} /\ FreeSlots \in SUBSET Slots /\ FreeSlots \in SUBSET Nat
    <3>2. FreeSlots \subseteq Slots
      BY DEF FreeSlots
    <3>3. Slots \subseteq Nat
      BY LoopbackAssumption DEF Slots
    <3> QED BY <3>2, <3>3 DEF Send
  <2> QED BY <2>1, MinIsLeast DEF FreeSlots
<1> HIDE DEF more, i
<1>3. slots[i] \in Entry /\ slots[i].generation \in 0 .. GenSpan - 1 /\ calls[i] = NoCall
  <2> QED BY <1>2 DEF CellOK, Entry, IInv, CellsOK
<1>4. c \in Correlations /\ SlotOf(c) = i /\ GenerationOf(c) = slots[i].generation
  <2>1. i \in 0 .. SlotSpan - 1
    BY <1>2, LoopbackAssumption, SpanAssumption DEF Slots
  <2>3. SlotOf(c) = i /\ GenerationOf(c) = slots[i].generation
    BY <2>1, <1>3, SpanAssumption, CorrelationHalves
  <2> QED BY <1>3, <2>1, <2>3 DEF Correlations
<1> HIDE DEF c
<1>5. nextSent \in Nat /\ nextSent \in 0 .. MaxSends /\ nextClaim \in Nat /\ nextClaim >= 1
  BY LoopbackAssumption DEF IInv, TypeOK
<1>6. /\ k \in CallEntry /\ k.correlation = c /\ k.sent = nextSent /\ k.claim = None
      /\ k.forgotten = FALSE /\ k.pendingForget = FALSE /\ k.settledBy = None
  <2>2. None \in ClaimIds \cup {None} /\ None \in Handlers \cup {None}
    OBVIOUS
  <2> HIDE DEF k
  <2>3. k = NewCall(c, caller, kind, member)
    BY DEF k
  <2> QED BY <1>4, <1>5, StreamsTyped, <2>2, <2>3 DEF NewCall, CallEntry
<1> DEFINE f == Inserted(slots[i], 0)
<1>7. f \in Entry /\ f.state = "InFlight" /\ f.generation = slots[i].generation
  BY <1>3 DEF Inserted, Entry, States, NoStreams
<1>8. IsCell(cell) /\ cell.e = f /\ cell.k = k /\ cell.panic = FALSE
  BY DEF IsCell, Cell
<1> HIDE DEF k, f, cell
<1>9. k # NoCall
  BY <1>6, NoneAssumption
<1>10. Good(cell, i)
  <2>2. CellOK(f, k, i)
    BY <1>4, <1>6, <1>7 DEF CellOK, Held
  <2> QED BY <1>8, <2>2 DEF Good
<1>11. \A j \in Slots : cells[j] = IF j = i THEN cell ELSE Cell(j)
  OBVIOUS
<1> HIDE DEF cells
<1>13. /\ slots' = [j \in Slots |-> cells[j].e] /\ calls' = [j \in Slots |-> cells[j].k]
       /\ slots' \in [Slots -> Entry]
       /\ calls' \in [Slots -> CallEntry \cup {NoCall}]
       /\ slotWaker' \in [Callers -> Wakers \cup {NoWaker}]
       /\ asleep' \subseteq Registrations
       /\ panicked' = FALSE
       /\ CellsOK'
  BY <1>1, <1>10, <1>11, CellGood, Applied
<1>14. /\ calls'[i] = k /\ slots'[i] = f
       /\ \A j \in Slots \ {i} : calls'[j] = calls[j] /\ slots'[j] = slots[j]
  BY <1>2, <1>8, <1>11, <1>13, CellGood
<1>15. Live' = Live \cup {i} /\ i \notin Live /\ Unclaimed' = Unclaimed \cup {i}
       /\ i \notin Unclaimed
  BY <1>2, <1>3, <1>6, <1>9, <1>14 DEF Live, Unclaimed
<1>16. \A j \in Live : j \in Slots /\ calls'[j] = calls[j] /\ calls[j].sent \in Nat
                        /\ calls[j].sent < nextSent /\ calls[j].claim < nextClaim
  <2>2. \A j \in Live : calls[j].sent \in Nat
    BY LiveCall DEF Live
  <2> QED BY <1>14, <1>15, <2>2 DEF IInv, Numbered, Live
<1>17. Numbered'
  <2>1. nextClaim' + Cardinality(Unclaimed') <= nextSent' + 1
    <3>2. IsFiniteSet(Unclaimed) /\ Cardinality(Unclaimed) \in Nat
      BY UnclaimedFinite DEF Unclaimed, Live
    <3>3. Cardinality(Unclaimed \cup {i}) = Cardinality(Unclaimed) + 1
      BY <1>15, <3>2, FS_AddElement
    <3>4. nextClaim + Cardinality(Unclaimed) <= nextSent + 1
      BY DEF IInv, Numbered
    <3> QED BY <1>1, <1>5, <1>15, <3>2, <3>3, <3>4
  <2>2. \A j \in Live' : calls'[j].sent < nextSent' /\ calls'[j].claim < nextClaim'
    <3>1. calls'[i].sent < nextSent' /\ calls'[i].claim < nextClaim'
      BY <1>1, <1>5, <1>6, <1>14 DEF None
    <3> QED BY <1>1, <1>15, <1>16, <3>1, <1>5
  <2>3. \A j, l \in Live' : j # l => calls'[j].sent # calls'[l].sent
    <3>2. \A j, l \in Live : j # l => calls[j].sent # calls[l].sent
      BY DEF IInv, Numbered
    <3> QED BY <1>6, <1>14, <1>15, <1>16, <1>5, <3>2
  <2>4. \A j, l \in Live' : j # l /\ calls'[j].claim # None => calls'[j].claim # calls'[l].claim
    <3> QED BY <1>6, <1>14, <1>15, <1>16 DEF IInv, Numbered
  <2> QED BY <2>1, <2>2, <2>3, <2>4 DEF Numbered
<1>18. ClaimsOK'
  <2> SUFFICES ASSUME NEW n \in ClaimIds, claims[n] # NoOwner
               PROVE  LET j == SlotOf(claims[n].call)
                      IN  /\ Known(claims[n].call)'
                          /\ calls'[j].claim = n
                          /\ slots'[j].state \in {"InFlight", "Forgotten"}
                          /\ claims[n].handler \in handlers
    BY <1>1 DEF ClaimsOK
  <2> DEFINE j == SlotOf(claims[n].call)
  <2>1. /\ j \in Slots /\ calls[j] # NoCall /\ calls[j].correlation = claims[n].call
        /\ calls[j].claim = n /\ slots[j].state \in {"InFlight", "Forgotten"}
        /\ claims[n].handler \in handlers
    BY ClaimCall
  <2> QED BY <1>1, <2>1, <1>3, <1>14 DEF Known, HasEntry
<1>19. ASSUME NEW d \in Correlations PROVE d \in V <=> d \in W \/ d = c
  <2> DEFINE j == SlotOf(d)
  <2>1. CASE j = i
    <3>2. d \in V <=> d = c
      BY <1>2, <1>6, <1>7, <1>9, <1>14, <2>1 DEF WaitingSet, WaitsIn, OwnerIn
    <3> QED BY <1>3, <2>1, <3>2 DEF WaitingSet, WaitsIn
  <2>2. CASE j # i /\ j \in Slots
    <3> QED BY <2>2, <1>1, <1>4, <1>14 DEF WaitingSet, WaitsIn
  <2>3. CASE j \notin Slots
    BY <1>2, <1>4, <2>3 DEF WaitingSet
  <2> QED BY <2>1, <2>2, <2>3
<1>20. V = W \cup {c} /\ c \notin W
  <2>1. V \subseteq Correlations /\ W \subseteq Correlations
    BY DEF WaitingSet
  <2>2. c \notin W
    BY <1>3, <1>4 DEF WaitingSet, WaitsIn
  <2> HIDE DEF V, W
  <2> QED BY <1>4, <1>19, <2>1, <2>2
<1> DEFINE key == SentOf(calls)
           key2 == SentOf(calls')
<1>21. /\ \A d \in W : key2[d] = key[d] /\ key[d] \in Nat /\ key[d] < nextSent
       /\ key2[c] = nextSent
  <2>1. \A d \in W : d \in Correlations /\ SlotOf(d) \in Live
    BY DEF WaitingSet, WaitsIn, Live
  <2>2. \A d \in W : key2[d] = calls'[SlotOf(d)].sent /\ key[d] = calls[SlotOf(d)].sent
    BY <2>1 DEF SentOf
  <2>3. key2[c] = calls'[i].sent
    BY <1>4 DEF SentOf
  <2> HIDE DEF W, key, key2
  <2> QED BY <1>6, <1>14, <1>16, <2>1, <2>2, <2>3
<1>22. Lists(pending, W, key)
  BY DEF IInv, QueueOK
<1>23. Lists(pending', V, key2)
  <2> HIDE DEF W, V, key, key2
  <2>1. Lists(pending, W, key2)
    BY <1>21, <1>22, ListsSame
  <2>3. Lists(Append(pending, c), W \cup {c}, key2)
    BY <1>20, <2>1, <1>5, <1>21, ListsAppended
  <2> QED BY <1>1, <1>20, <2>3
<1>24. QueueOK'
  BY <1>23 DEF QueueOK
<1>26. Followed
  BY <1>3, <1>14 DEF Followed
<1> QED BY <1>13, <1>17, <1>18, <1>24, QueueTyped, <1>26 DEF Core, CoreTyped, NoPanic

\* An action that leaves the calls, the claims and the queue alone.
LEMMA UntouchedCore ==
    ASSUME IInv, UNCHANGED <<slots, calls, pending, nextSent, claims, nextClaim, panicked>>,
           handlers \subseteq handlers',
           slotWaker' \in [Callers -> Wakers \cup {NoWaker}], asleep' \subseteq Registrations
    PROVE  Core' /\ Followed
<1>1. CellsOK' /\ Numbered'
  BY DEF IInv, CellsOK, Numbered, Live, Unclaimed
<1>2. ClaimsOK'
  BY DEF IInv, ClaimsOK, Known, HasEntry
<1>3. QueueOK'
  BY DEF IInv, QueueOK, SentOf, WaitingSet, WaitsIn, OwnerIn
<1>4. CoreTyped' /\ NoPanic'
  BY DEF IInv, TypeOK, CoreTyped, NoPanic
<1>5. Followed
  BY DEF Followed
<1> QED BY <1>1, <1>2, <1>3, <1>4, <1>5 DEF Core

\* A waker stored in a slot or in a stream, which changes no call.
LEMMA StoredCore ==
    ASSUME IInv, NEW i \in Slots, calls[i] # NoCall,
           \A j \in Slots \ {i} : slots'[j] = slots[j] /\ calls'[j] = calls[j],
           slots' \in [Slots -> Entry], calls' \in [Slots -> CallEntry \cup {NoCall}],
           slots'[i].state = slots[i].state, slots'[i].generation = slots[i].generation,
           StreamsMoved(calls[i], calls'[i]),
           UNCHANGED <<pending, nextSent, claims, nextClaim, handlers, slotWaker, panicked>>,
           asleep' \subseteq Registrations
    PROVE  Core' /\ Followed
<1> DEFINE W == WaitingSet(claims, slots, calls)
           V == WaitingSet(claims, slots, calls)'
<1>1. calls'[i] \in CallEntry /\ calls'[i] # NoCall /\ SameCall(calls[i], calls'[i])
  BY NoneAssumption DEF StreamsMoved
<1>2. Thinned
  BY <1>1 DEF Thinned, SameCall
<1>3. Numbered'
  BY <1>2, NumberedKept
<1>4. CellsOK'
  <2> SUFFICES ASSUME NEW j \in Slots PROVE CellOK(slots'[j], calls'[j], j)
    BY DEF CellsOK
  <2>1. CellOK(slots[j], calls[j], j) /\ slots'[j] \in Entry
    BY DEF IInv, CellsOK
  <2>2. CASE j = i
    <3>2. Held(slots'[i], calls'[i].correlation) <=> Held(slots[i], calls[i].correlation)
      BY <1>1 DEF Held, SameCall
    <3> QED BY <1>1, <2>1, <2>2, <3>2 DEF CellOK, StreamsMoved, SameCall
  <2>3. CASE j # i
    BY <2>1, <2>3
  <2> QED BY <2>2, <2>3
<1>5. ClaimsOK'
  <2> SUFFICES ASSUME NEW n \in ClaimIds, claims[n] # NoOwner
               PROVE  LET j == SlotOf(claims[n].call)
                      IN  /\ Known(claims[n].call)'
                          /\ calls'[j].claim = n
                          /\ slots'[j].state \in {"InFlight", "Forgotten"}
                          /\ claims[n].handler \in handlers
    BY DEF ClaimsOK
  <2> DEFINE j == SlotOf(claims[n].call)
  <2>1. /\ j \in Slots /\ calls[j] # NoCall /\ calls[j].correlation = claims[n].call
        /\ calls[j].claim = n /\ slots[j].state \in {"InFlight", "Forgotten"}
        /\ claims[n].handler \in handlers
    BY ClaimCall
  <2> QED BY <2>1, <1>1 DEF Known, HasEntry, SameCall
<1>6. ASSUME NEW d \in Correlations PROVE d \in V <=> d \in W
  <2> DEFINE j == SlotOf(d)
  <2>1. CASE j = i
    BY <1>1, <2>1 DEF WaitingSet, WaitsIn, OwnerIn, SameCall
  <2>2. CASE j # i /\ j \in Slots
    BY <2>2 DEF WaitingSet, WaitsIn, OwnerIn
  <2>3. CASE j \notin Slots
    BY <2>3 DEF WaitingSet
  <2> QED BY <2>1, <2>2, <2>3
<1>7. V = W
  <2>1. V \subseteq Correlations /\ W \subseteq Correlations
    BY DEF WaitingSet
  <2> HIDE DEF V, W
  <2> QED BY <1>6, <2>1
<1>8. QueueOK'
  BY <1>2, <1>7, QueueStays
<1>10. Followed
  BY <1>1 DEF Followed, SameCall
<1> QED BY <1>3, <1>4, <1>5, <1>8, QueueTyped, <1>10 DEF Core, CoreTyped, NoPanic, IInv, TypeOK

(***************************************************************************)
(* The drop of a handler.                                                  *)
(***************************************************************************)
\* The calls that return at the drop, by their slots, and those withdrawn.
ReturnedSlots(h) == {i \in Slots : calls[i] # NoCall /\ Returns(h, calls[i])}
WithdrawnSlots(h) ==
    {i \in Slots : /\ calls[i] # NoCall /\ HeldBy(h, calls[i])
                   /\ Offered(calls[i]) /\ calls[i].forgotten}
CallsAt(I) == {calls[i] : i \in I}
CorrelationsAt(I) == {calls[i].correlation : i \in I}

\* The queue after the first n claims were gone through.
GoneThrough(f, base, returned, n) ==
    f = [m \in 0 .. n |->
           IF m = 0 THEN base
           ELSE IF \E k \in returned : k.claim = m
                THEN InsertBySent(f[m - 1], CHOOSE k \in returned : k.claim = m)
                ELSE f[m - 1]]

\* The queue a handler's drop goes through exists.
LEMMA GoneThroughExists ==
    ASSUME NEW base, NEW returned, NEW n \in Nat
    PROVE  \E f : GoneThrough(f, base, returned, n)
<1> DEFINE Bad == {m \in Nat : ~\E f : GoneThrough(f, base, returned, m)}
           G(q, m) == IF \E k \in returned : k.claim = m
                      THEN InsertBySent(q, CHOOSE k \in returned : k.claim = m)
                      ELSE q
<1> SUFFICES ASSUME Bad # {} PROVE FALSE
  OBVIOUS
<1>0. ASSUME NEW f, NEW m \in Nat
      PROVE  GoneThrough(f, base, returned, m)
                <=> f = [i \in 0 .. m |-> IF i = 0 THEN base ELSE G(f[i - 1], i)]
  BY DEF GoneThrough
<1> HIDE DEF G
<1>1. PICK m \in Bad : \A k \in Bad : m <= k
  <2>1. Bad \in SUBSET Nat
    OBVIOUS
  <2> HIDE DEF Bad
  <2> QED BY <2>1, LeastNumber
<1>2. CASE m = 0
  <2> DEFINE f == [i \in 0 .. 0 |-> base]
  <2>1. f = [i \in 0 .. 0 |-> IF i = 0 THEN base ELSE G(f[i - 1], i)]
    OBVIOUS
  <2> HIDE DEF f
  <2>2. GoneThrough(f, base, returned, 0)
    BY <1>0, <2>1
  <2> QED BY <1>1, <1>2, <2>2
<1>3. CASE m # 0
  <2>1. m \in Nat /\ m - 1 \in Nat /\ ~(m <= m - 1)
    BY <1>3
  <2>2. PICK g : GoneThrough(g, base, returned, m - 1)
    BY <1>1, <2>1
  <2> DEFINE f == [i \in 0 .. m |-> IF i = 0 THEN base ELSE G(g[i - 1], i)]
  <2>4. \A i \in 0 .. (m - 1) : f[i] = g[i]
    <3> HIDE DEF f
    <3>1. \A i \in 0 .. (m - 1) : g[i] = IF i = 0 THEN base ELSE G(g[i - 1], i)
      BY <1>0, <2>1, <2>2
    <3>3. \A i \in 0 .. (m - 1) : i \in 0 .. m
      BY <2>1
    <3> QED BY <3>1, <3>3 DEF f
  <2>5. ASSUME NEW i \in 0 .. m
        PROVE  f[i] = IF i = 0 THEN base ELSE G(f[i - 1], i)
    <3>1. i # 0 => i - 1 \in 0 .. (m - 1)
      BY <2>1
    <3> QED BY <2>4, <3>1
  <2>6. f = [i \in 0 .. m |-> IF i = 0 THEN base ELSE G(f[i - 1], i)]
    <3>1. f = [i \in 0 .. m |-> f[i]]
      OBVIOUS
    <3> HIDE DEF f
    <3> QED BY <2>5, <3>1
  <2> HIDE DEF f
  <2> QED BY <1>1, <1>0, <2>1, <2>6
<1> QED BY <1>2, <1>3

\* What waits is a live call; two of them were sent one after the other.
LEMMA LiveSent ==
    ASSUME IInv
    PROVE  /\ \A c \in WaitingSet(claims, slots, calls) :
                 /\ c \in Correlations /\ SlotOf(c) \in Slots /\ calls[SlotOf(c)] # NoCall
                 /\ calls[SlotOf(c)].correlation = c
           /\ \A i \in Slots : calls[i] # NoCall =>
                 /\ SentOf(calls)[calls[i].correlation] = calls[i].sent
                 /\ calls[i].sent \in Nat
           /\ \A i, j \in Slots : calls[i] # NoCall /\ calls[j] # NoCall /\ i # j =>
                 /\ calls[i].sent # calls[j].sent
                 /\ calls[i].correlation # calls[j].correlation
<1>1. \A i \in Slots : calls[i] # NoCall =>
         calls[i].correlation \in Correlations /\ SlotOf(calls[i].correlation) = i
  BY LiveCall
<1>3. \A i \in Slots : calls[i] # NoCall => calls[i].sent \in Nat
  BY LiveCall
<1>4. \A i, j \in Slots : calls[i] # NoCall /\ calls[j] # NoCall /\ i # j =>
         calls[i].sent # calls[j].sent
  BY DEF IInv, Numbered, Live
<1>5. \A i, j \in Slots : calls[i] # NoCall /\ calls[j] # NoCall /\ i # j =>
         calls[i].correlation # calls[j].correlation
  BY <1>1
<1>6. \A c \in WaitingSet(claims, slots, calls) :
         /\ c \in Correlations /\ SlotOf(c) \in Slots /\ calls[SlotOf(c)] # NoCall
         /\ calls[SlotOf(c)].correlation = c
  BY DEF WaitingSet, WaitsIn
<1> QED BY <1>1, <1>3, <1>4, <1>5, <1>6 DEF SentOf

\* One returned call goes back to its place.
LEMMA InsertedBySent ==
    ASSUME IInv, NEW q, NEW I \in SUBSET Slots, \A j \in I : calls[j] # NoCall,
           Lists(q, CorrelationsAt(I), SentOf(calls)),
           NEW i \in Slots \ I, calls[i] # NoCall
    PROVE  Lists(InsertBySent(q, calls[i]), CorrelationsAt(I \cup {i}), SentOf(calls))
<1> DEFINE S == CorrelationsAt(I)
           key == SentOf(calls)
           c == calls[i].correlation
           B == {p \in DOMAIN q : key[q[p]] < key[c]}
           before == {p \in DOMAIN q : calls[SlotOf(q[p])].sent < calls[i].sent}
<1>1. key[c] = calls[i].sent /\ key[c] \in Nat
  BY LiveSent
<1>2. c \notin S /\ \A d \in S : key[d] # key[c]
  BY LiveSent DEF CorrelationsAt
<1>3. CorrelationsAt(I \cup {i}) = S \cup {c}
  BY DEF CorrelationsAt
<1>4. \A p \in DOMAIN q : q[p] \in S
  <2> HIDE DEF S
  <2> QED BY ElementOfSeq, LenProperties DEF Lists, S
<1>5. \A d \in S : key[d] = calls[SlotOf(d)].sent
  BY LiveCall DEF CorrelationsAt, SentOf
<1>6. B = before
  <2> HIDE DEF S, key
  <2> QED BY <1>1, <1>4, <1>5
<1>7. InsertBySent(q, calls[i]) = InsertAt(q, Cardinality(before) + 1, c)
  BY DEF InsertBySent
<1>8. Lists(q, S, key)
  OBVIOUS
<1> HIDE DEF S, key, c, before
<1>9. Lists(InsertAt(q, Cardinality(B) + 1, c), S \cup {c}, key)
  BY <1>1, <1>2, <1>8, ListsInserted
<1> QED BY <1>3, <1>6, <1>7, <1>9 DEF key

\* The claims gone through, every returned call is back in its place.
LEMMA AllReturned ==
    ASSUME IInv, NEW q, NEW I \in SUBSET Slots, \A j \in I : calls[j] # NoCall,
           Lists(q, CorrelationsAt(I), SentOf(calls)),
           NEW R \in SUBSET (Slots \ I), \A j \in R : calls[j] # NoCall /\ calls[j].claim \in ClaimIds,
           NEW f, GoneThrough(f, q, CallsAt(R), MaxSends)
    PROVE  Lists(f[MaxSends], CorrelationsAt(I \cup R), SentOf(calls))
<1> DEFINE key == SentOf(calls)
           Back(n) == {j \in R : calls[j].claim <= n}
           Bad == {n \in 0 .. MaxSends : ~Lists(f[n], CorrelationsAt(I \cup Back(n)), key)}
<1>1. \A n \in 0 .. MaxSends :
         f[n] = IF n = 0 THEN q
                ELSE IF \E k \in CallsAt(R) : k.claim = n
                     THEN InsertBySent(f[n - 1], CHOOSE k \in CallsAt(R) : k.claim = n)
                     ELSE f[n - 1]
  BY DEF GoneThrough
<1>2. MaxSends \in Nat
  BY LoopbackAssumption
<1>3. \A j \in R : calls[j].claim \in 1 .. MaxSends
  BY DEF ClaimIds
<1>4. Bad = {}
  <2> SUFFICES ASSUME Bad # {} PROVE FALSE
    OBVIOUS
  <2>1. PICK n \in Bad : \A m \in Bad : n <= m
    <3>1. Bad \in SUBSET Nat
      BY <1>2
    <3> HIDE DEF Bad
    <3> QED BY <3>1, LeastNumber
  <2>2. n \in 0 .. MaxSends /\ ~Lists(f[n], CorrelationsAt(I \cup Back(n)), key)
    OBVIOUS
  <2>3. n # 0
    <3> SUFFICES ASSUME n = 0 PROVE FALSE
      OBVIOUS
    <3>2. f[n] = q /\ I \cup Back(n) = I
      BY <1>1, <2>2, <1>3
    <3> QED BY <2>2, <3>2
  <2>4. n - 1 \in 0 .. MaxSends /\ ~(n <= n - 1) /\ n \in Nat
    BY <1>2, <2>2, <2>3
  <2> DEFINE J == I \cup Back(n - 1)
  <2>5. Lists(f[n - 1], CorrelationsAt(J), key)
    BY <2>1, <2>4
  <2>6. CASE \E j \in R : calls[j].claim = n
    <3>1. PICK j \in R : calls[j].claim = n
      BY <2>6
    <3>2. \A l \in R : calls[l].claim = n => l = j
      <4> SUFFICES ASSUME NEW l \in R, calls[l].claim = n PROVE l = j
        OBVIOUS
      <4>2. calls[l].claim # None
        BY <2>3 DEF None
      <4> QED BY <3>1, <4>2, ClaimOnce
    <3>4. f[n] = InsertBySent(f[n - 1], calls[j])
      BY <1>1, <2>2, <2>3, <3>1, <3>2 DEF CallsAt
    <3>5. I \cup Back(n) = J \cup {j}
      <4> QED BY <1>3, <2>4, <3>1, <3>2
    <3>6. J \in SUBSET Slots /\ j \in Slots \ J /\ calls[j] # NoCall
          /\ \A l \in J : calls[l] # NoCall
      BY <2>4, <3>1
    <3> HIDE DEF J, Back
    <3>7. Lists(InsertBySent(f[n - 1], calls[j]), CorrelationsAt(J \cup {j}), key)
      BY <2>5, <3>6, InsertedBySent
    <3> QED BY <2>2, <3>4, <3>5, <3>7
  <2>7. CASE ~\E j \in R : calls[j].claim = n
    <3>2. f[n] = f[n - 1]
      BY <1>1, <2>2, <2>3, <2>7 DEF CallsAt
    <3>3. Back(n) = Back(n - 1)
      <4> QED BY <1>3, <2>4, <2>7
    <3> QED BY <2>2, <2>5, <3>2, <3>3
  <2> QED BY <2>6, <2>7
<1>6. Back(MaxSends) = R
  BY <1>3
<1> QED BY <1>4, <1>2, <1>6

\* What the drop of handler h makes of the call in slot i.
LEMMA DroppedCell ==
    ASSUME IInv, NEW h \in Handlers, NEW i \in Slots
    PROVE  LET x == Cell(i)
               z == CloseHandlerCell(x, h)
               k == calls[i]
           IN  /\ Good(z, i)
               /\ k = NoCall => z.k = NoCall
               /\ k # NoCall /\ HeldBy(h, k) /\ k.forgotten => z.k = NoCall /\ z.freed
               /\ k # NoCall /\ HeldBy(h, k) /\ ~k.forgotten =>
                     IF Owner(k).taken /\ k.providerUsedStreams THEN Answered(x, z, i)
                     ELSE Kept(x, z, i) /\ z.k # NoCall
               /\ k # NoCall /\ ~HeldBy(h, k) =>
                     \/ z = x
                     \/ slots[i].state = "Settled" /\ Answered(x, z, i)
<1> DEFINE x == Cell(i)
           z == CloseHandlerCell(x, h)
           k == calls[i]
<1>1. Good(x, i) /\ x.e = slots[i] /\ x.k = k
  BY CellGood
<1>2. z = CASE x.k # NoCall /\ HeldBy(h, x.k) -> DropHeld(x, h)
            [] x.k # NoCall /\ ~HeldBy(h, x.k) /\ x.k.settledBy = h -> DropSettled(x)
            [] OTHER -> x
  BY DEF CloseHandlerCell
<1> HIDE DEF x, z
<1>3. CASE k = NoCall
  <2> QED BY <1>1, <1>3, <1>2 DEF x, z
<1>4. CASE k # NoCall /\ HeldBy(h, k)
  <2>2. x.e.state \in {"InFlight", "Forgotten"}
    <3> QED BY <1>1, <1>4, OwnedCall DEF HeldBy, Claimed
  <2>3. /\ x.k.forgotten => Good(z, i) /\ z.k = NoCall /\ z.freed
        /\ ~x.k.forgotten /\ Owner(x.k).taken /\ x.k.providerUsedStreams => Answered(x, z, i)
        /\ ~x.k.forgotten /\ ~(Owner(x.k).taken /\ x.k.providerUsedStreams) =>
              Kept(x, z, i) /\ z.k # NoCall
    BY <1>1, <1>4, <1>2, <2>2, DropHeldGood
  <2> QED BY <1>1, <1>4, <2>3 DEF x, z, Answered, Kept
<1>5. CASE k # NoCall /\ ~HeldBy(h, k) /\ k.settledBy = h
  <2>2. slots[i].state = "Settled"
    <3>1. CellOK(slots[i], k, i)
      BY DEF IInv, CellsOK
    <3> QED BY <1>5, <3>1 DEF CellOK, Handlers, None
  <2>3. Answered(x, z, i)
    BY <1>1, <1>5, <1>2, <2>2, DropSettledGood
  <2> QED BY <1>5, <2>2, <2>3 DEF x, z, Answered
<1>6. CASE k # NoCall /\ ~HeldBy(h, k) /\ k.settledBy # h
  <2> QED BY <1>1, <1>6, <1>2 DEF x, z
<1> QED BY <1>3, <1>4, <1>5, <1>6

\* What is left of the calls and of the slots.
LEMMA DroppedStore ==
    ASSUME IInv, NEW h \in Handlers, NEW more,
           Apply([i \in Slots |-> CloseHandlerCell(Cell(i), h)], more)
    PROVE  /\ Thinned /\ Followed
           /\ slots' \in [Slots -> Entry]
           /\ calls' \in [Slots -> CallEntry \cup {NoCall}]
           /\ slotWaker' \in [Callers -> Wakers \cup {NoWaker}]
           /\ asleep' \subseteq Registrations
           /\ panicked' = FALSE
           /\ CellsOK'
           /\ \A i \in Slots :
                 LET k == calls[i]
                     settled == slots'[i].state = "Settled"
                 IN  /\ k # NoCall /\ HeldBy(h, k) /\ k.forgotten => calls'[i] = NoCall
                     /\ k # NoCall /\ HeldBy(h, k) /\ ~k.forgotten =>
                           IF Owner(k).taken /\ k.providerUsedStreams
                           THEN calls'[i] # NoCall => settled
                           ELSE calls'[i] # NoCall /\ ~settled
                     /\ k # NoCall /\ ~HeldBy(h, k) =>
                           \/ calls'[i] = k /\ slots'[i] = slots[i]
                           \/ slots[i].state = "Settled" /\ (calls'[i] # NoCall => settled)
<1> DEFINE cells == [i \in Slots |-> CloseHandlerCell(Cell(i), h)]
<1>1. \A i \in Slots : cells[i] = CloseHandlerCell(Cell(i), h)
  OBVIOUS
<1>2. Apply(cells, more)
  OBVIOUS
<1> HIDE DEF cells
<1>3. ASSUME NEW i \in Slots
      PROVE  LET x == Cell(i)
                 z == cells[i]
                 k == calls[i]
             IN  /\ Good(z, i)
                 /\ k = NoCall => z.k = NoCall
                 /\ k # NoCall /\ HeldBy(h, k) /\ k.forgotten => z.k = NoCall /\ z.freed
                 /\ k # NoCall /\ HeldBy(h, k) /\ ~k.forgotten =>
                       IF Owner(k).taken /\ k.providerUsedStreams THEN Answered(x, z, i)
                       ELSE Kept(x, z, i) /\ z.k # NoCall
                 /\ k # NoCall /\ ~HeldBy(h, k) =>
                       \/ z = x
                       \/ slots[i].state = "Settled" /\ Answered(x, z, i)
  BY <1>1, DroppedCell
<1>5. /\ slots' = [j \in Slots |-> cells[j].e] /\ calls' = [j \in Slots |-> cells[j].k]
      /\ slots' \in [Slots -> Entry]
      /\ calls' \in [Slots -> CallEntry \cup {NoCall}]
      /\ slotWaker' \in [Callers -> Wakers \cup {NoWaker}]
      /\ asleep' \subseteq Registrations
      /\ panicked' = FALSE
      /\ CellsOK'
  BY <1>2, <1>3, Applied
<1>6. \A i \in Slots : slots'[i] = cells[i].e /\ calls'[i] = cells[i].k
  BY <1>5
<1>7. \A i \in Slots : Cell(i).e = slots[i] /\ Cell(i).k = calls[i]
  BY CellGood
<1>8. Thinned
  <2> SUFFICES ASSUME NEW i \in Slots, calls'[i] # NoCall
               PROVE  calls[i] # NoCall /\ SameCall(calls[i], calls'[i])
    BY DEF Thinned
  <2>1. calls[i] # NoCall
    BY <1>3, <1>6
  <2>3. CASE cells[i] = Cell(i)
    BY <1>6, <1>7, <2>1, <2>3 DEF SameCall
  <2>4. CASE Answered(Cell(i), cells[i], i) \/ Kept(Cell(i), cells[i], i)
    BY <1>6, <1>7, <2>1, <2>4 DEF Answered, Kept
  <2> QED BY <1>3, <1>6, <2>1, <2>3, <2>4
<1>10. Followed
  <2>1. ASSUME NEW i \in Slots, calls[i] # NoCall
        PROVE  StillCall(i, cells[i])
    <3>2. CASE cells[i] = Cell(i)
      BY <1>7, <2>1, <3>2 DEF StillCall, SameCall
    <3>3. CASE Kept(Cell(i), cells[i], i)
      BY <1>7, <2>1, <3>3 DEF Kept, StillCall
    <3>4. CASE Answered(Cell(i), cells[i], i)
      <4>1. slots[i].state = "Settled" \/ calls[i].claim # None \/ cells[i].k = NoCall
            \/ Kept(Cell(i), cells[i], i) \/ cells[i] = Cell(i)
        <5> QED BY <1>3, <2>1 DEF HeldBy, Claimed, Owner
      <4> QED BY <1>7, <2>1, <3>2, <3>3, <3>4, <4>1 DEF Answered, StillCall
    <3> QED BY <1>3, <2>1, <3>2, <3>3, <3>4 DEF StillCall
  <2> QED BY <1>2, <2>1, AppliedFollowed
<1>9. ASSUME NEW i \in Slots
      PROVE  LET k == calls[i]
                 settled == slots'[i].state = "Settled"
             IN  /\ k # NoCall /\ HeldBy(h, k) /\ k.forgotten => calls'[i] = NoCall
                 /\ k # NoCall /\ HeldBy(h, k) /\ ~k.forgotten =>
                       IF Owner(k).taken /\ k.providerUsedStreams
                       THEN calls'[i] # NoCall => settled
                       ELSE calls'[i] # NoCall /\ ~settled
                 /\ k # NoCall /\ ~HeldBy(h, k) =>
                       \/ calls'[i] = k /\ slots'[i] = slots[i]
                       \/ slots[i].state = "Settled" /\ (calls'[i] # NoCall => settled)
  <2> DEFINE k == calls[i]
             z == cells[i]
  <2>1. CASE k # NoCall /\ HeldBy(h, k) /\ k.forgotten
    BY <1>3, <1>6, <2>1
  <2>2. CASE k # NoCall /\ HeldBy(h, k) /\ ~k.forgotten
    <3>1. slots[i].state \in {"InFlight", "Forgotten"}
      <4> QED BY <2>2, OwnedCall DEF HeldBy, Claimed
    <3>2. CASE Owner(k).taken /\ k.providerUsedStreams
      <4> QED BY <1>6, <2>2, <3>2, <1>3 DEF Answered
    <3>3. CASE ~(Owner(k).taken /\ k.providerUsedStreams)
      <4>1. Kept(Cell(i), z, i) /\ z.k # NoCall
        BY <1>3, <2>2, <3>3
      <4> QED BY <1>6, <2>2, <3>3, <4>1, <1>7, <3>1 DEF Kept
    <3> QED BY <3>2, <3>3
  <2>3. CASE k # NoCall /\ ~HeldBy(h, k)
    <3>2. CASE z = Cell(i)
      BY <1>6, <1>7, <2>3, <3>2
    <3>3. CASE slots[i].state = "Settled" /\ Answered(Cell(i), z, i)
      BY <1>6, <2>3, <3>3 DEF Answered
    <3> QED BY <1>3, <2>3, <3>2, <3>3
  <2>4. CASE k = NoCall
    BY <2>4
  <2> QED BY <2>1, <2>2, <2>3, <2>4
<1> QED BY <1>5, <1>8, <1>9, <1>10

\* The calls that wait after the drop of h waited before, or it returned them.
CameBack(h) ==
    \A c \in WaitingSet(claims, slots, calls)' :
        \/ c \in WaitingSet(claims, slots, calls)
        \/ \E i \in Slots : calls[i] # NoCall /\ calls[i].correlation = c /\ Returns(h, calls[i])

\* A handler's drop keeps it: the calls it had return to their place.
LEMMA CloseHandlerCore ==
    ASSUME IInv, NEW h \in Handlers, CloseHandler(h)
    PROVE  Core' /\ Followed /\ CameBack(h)
<1> DEFINE R == ReturnedSlots(h)
           D == WithdrawnSlots(h)
           gone == CorrelationsAt(D)
           W == WaitingSet(claims, slots, calls)
           V == WaitingSet(claims, slots, calls)'
           key == SentOf(calls)
           key2 == SentOf(calls')
           base == Without(pending, gone)
<1>1. /\ \E more : Apply([i \in Slots |-> CloseHandlerCell(Cell(i), h)], more)
      /\ claims' = [id \in ClaimIds |->
                      IF claims[id] # NoOwner /\ claims[id].handler = h THEN NoOwner
                      ELSE claims[id]]
      /\ handlers' = handlers \ {h}
      /\ UNCHANGED <<nextSent, nextClaim>>
  BY DEF CloseHandler
<1>2. \E f : GoneThrough(f, base, CallsAt(R), MaxSends) /\ pending' = f[MaxSends]
  <2>2. gone = {calls[i].correlation : i \in
                  {j \in Slots : /\ calls[j] # NoCall /\ HeldBy(h, calls[j])
                                 /\ Offered(calls[j]) /\ calls[j].forgotten}}
    BY DEF CorrelationsAt, WithdrawnSlots
  <2>3. pending' = (CHOOSE f : GoneThrough(f, base, CallsAt(R), MaxSends))[MaxSends]
    BY <2>2 DEF CloseHandler, GoneThrough, CallsAt, ReturnedSlots
  <2> QED BY <2>3, GoneThroughExists, LoopbackAssumption
<1>3. /\ Thinned /\ Followed
      /\ slots' \in [Slots -> Entry]
      /\ calls' \in [Slots -> CallEntry \cup {NoCall}]
      /\ slotWaker' \in [Callers -> Wakers \cup {NoWaker}]
      /\ asleep' \subseteq Registrations
      /\ panicked' = FALSE
      /\ CellsOK'
      /\ \A i \in Slots :
            LET k == calls[i]
                settled == slots'[i].state = "Settled"
            IN  /\ k # NoCall /\ HeldBy(h, k) /\ k.forgotten => calls'[i] = NoCall
                /\ k # NoCall /\ HeldBy(h, k) /\ ~k.forgotten =>
                      IF Owner(k).taken /\ k.providerUsedStreams
                      THEN calls'[i] # NoCall => settled
                      ELSE calls'[i] # NoCall /\ ~settled
                /\ k # NoCall /\ ~HeldBy(h, k) =>
                      \/ calls'[i] = k /\ slots'[i] = slots[i]
                      \/ slots[i].state = "Settled" /\ (calls'[i] # NoCall => settled)
  BY <1>1, DroppedStore
<1>4. Numbered'
  BY <1>1, <1>3, NumberedKept
<1>5. claims \in [ClaimIds -> ClaimOwner \cup {NoOwner}]
  BY DEF IInv, TypeOK
<1>6. ClaimsOK'
  <2> SUFFICES ASSUME NEW n \in ClaimIds, claims'[n] # NoOwner
               PROVE  LET j == SlotOf(claims'[n].call)
                      IN  /\ Known(claims[n].call)'
                          /\ calls'[j].claim = n
                          /\ slots'[j].state \in {"InFlight", "Forgotten"}
                          /\ claims'[n].handler \in handlers'
    BY DEF ClaimsOK
  <2> DEFINE j == SlotOf(claims[n].call)
  <2>1. claims'[n] = claims[n] /\ claims[n] # NoOwner /\ claims[n].handler # h
    BY <1>1
  <2>2. /\ j \in Slots /\ calls[j] # NoCall /\ calls[j].correlation = claims[n].call
        /\ calls[j].claim = n /\ slots[j].state \in {"InFlight", "Forgotten"}
        /\ claims[n].handler \in handlers
    BY <2>1, ClaimCall
  <2>3. ~HeldBy(h, calls[j])
    <3> QED BY <2>1, <2>2 DEF HeldBy, Owner, ClaimIds, None
  <2>4. calls'[j] = calls[j] /\ slots'[j] = slots[j]
    BY <1>3, <2>2, <2>3
  <2>5. SlotOf(claims'[n].call) = j /\ claims'[n].call = claims[n].call
    BY <2>1
  <2>6. Known(claims[n].call)'
    BY <2>2, <2>4, <2>5 DEF Known, HasEntry
  <2>8. claims'[n].handler \in handlers'
    BY <1>1, <2>1, <2>2
  <2> HIDE DEF j
  <2> QED BY <2>5, <2>6, <2>2, <2>4, <2>8
<1>7. /\ R \in SUBSET Slots /\ D \in SUBSET Slots
      /\ \A i \in R \cup D : calls[i] # NoCall /\ HeldBy(h, calls[i])
      /\ \A i \in R : Owner(calls[i]).taken /\ ~calls[i].forgotten
                      /\ ~calls[i].providerUsedStreams /\ calls[i].claim \in ClaimIds
  <2> QED BY OwnedCall DEF ReturnedSlots, WithdrawnSlots, Returns, HeldBy, Claimed
<1> DEFINE I == {i \in Slots : calls[i] # NoCall /\ calls[i].correlation \in W \ gone}
<1>8. W \ gone = CorrelationsAt(I)
  <2>1. \A c \in W : c \in Correlations /\ SlotOf(c) \in Slots /\ calls[SlotOf(c)] # NoCall
                     /\ calls[SlotOf(c)].correlation = c
    BY LiveSent
  <2> HIDE DEF W, gone
  <2> QED BY <2>1 DEF CorrelationsAt
<1>9. \A i \in Slots : calls[i] # NoCall =>
         (i \in I <=> WaitsIn(claims, slots[i], calls[i]) /\ i \notin D)
  <2> SUFFICES ASSUME NEW i \in Slots, calls[i] # NoCall
               PROVE  i \in I <=> WaitsIn(claims, slots[i], calls[i]) /\ i \notin D
    OBVIOUS
  <2>1. calls[i].correlation \in W <=> WaitsIn(claims, slots[i], calls[i])
    BY WaitingIff
  <2>2. calls[i].correlation \in gone <=> i \in D
    <3> HIDE DEF D
    <3>2. \A j \in D : calls[j].correlation = calls[i].correlation => j = i
      BY <1>7, LiveSent
    <3> QED BY <3>2 DEF CorrelationsAt
  <2> HIDE DEF W, gone, D
  <2> QED BY <2>1, <2>2
<1>10. R \in SUBSET (Slots \ I) /\ I \in SUBSET Slots /\ \A j \in I : calls[j] # NoCall
  <2>1. ASSUME NEW i \in R, i \in I PROVE FALSE
    <3>2. Owner(calls[i]) # NoOwner /\ Owner(calls[i]).taken
      BY <1>7 DEF HeldBy, Claimed
    <3> QED BY <1>7, <1>9, <2>1, <3>2 DEF WaitsIn, OwnerIn, Owner
  <2> HIDE DEF R
  <2> QED BY <1>7, <2>1
<1>11. ASSUME NEW i \in Slots, calls[i] # NoCall
       PROVE  (calls'[i] # NoCall /\ WaitsIn(claims', slots'[i], calls'[i]))
                 <=> i \in I \cup R
  <2> DEFINE k == calls[i]
  <2>3. CASE HeldBy(h, k)
    <3>1. /\ Owner(k) # NoOwner /\ k.claim \in ClaimIds /\ Owner(k) = claims[k.claim]
          /\ slots[i].state \in {"InFlight", "Forgotten"} /\ Owner(k).handler = h
          /\ k.claim # None
      BY <1>11, <2>3, OwnedCall DEF HeldBy, Claimed, ClaimIds, None
    <3>2. claims'[k.claim] = NoOwner
      BY <1>1, <3>1
    <3>3. calls'[i] # NoCall => OwnerIn(claims', calls'[i]) = NoOwner
      BY <1>3, <3>1, <3>2 DEF OwnerIn, Thinned, SameCall
    <3>5. i \in R <=> Owner(k).taken /\ ~k.forgotten /\ ~k.providerUsedStreams
      BY <1>11, <2>3 DEF ReturnedSlots, Returns
    <3>7. i \in I <=> ~Owner(k).taken /\ ~k.forgotten
      <4>1. WaitsIn(claims, slots[i], k) <=> ~Owner(k).taken
        BY <1>11, <3>1 DEF Claimed, WaitsIn, OwnerIn, Owner
      <4> QED BY <1>9, <1>11, <2>3, <3>1, <4>1 DEF WithdrawnSlots, Offered, Claimed
    <3>8. (calls'[i] # NoCall /\ slots'[i].state # "Settled")
             <=> ~k.forgotten /\ ~(Owner(k).taken /\ k.providerUsedStreams)
      BY <1>3, <1>11, <2>3
    <3> HIDE DEF I, R, D, k
    <3> QED BY <3>3, <3>5, <3>7, <3>8 DEF WaitsIn
  <2>4. CASE ~HeldBy(h, k)
    <3>1. i \notin R /\ i \notin D
      BY <1>7, <2>4
    <3>2. i \in I <=> WaitsIn(claims, slots[i], k)
      BY <1>9, <1>11, <3>1
    <3>3. CASE calls'[i] = k /\ slots'[i] = slots[i]
      <4>1. OwnerIn(claims', k) = OwnerIn(claims, k)
        <5>1. CASE k.claim = None
          BY <5>1 DEF OwnerIn
        <5>2. CASE k.claim # None
          <6>2. claims'[k.claim] = claims[k.claim]
            BY <1>1, <2>4, <1>11, <5>2, LiveCall DEF HeldBy, Claimed, Owner
          <6> QED BY <5>2, <6>2 DEF OwnerIn
        <5> QED BY <5>1, <5>2
      <4> QED BY <1>11, <3>1, <3>2, <3>3, <4>1 DEF WaitsIn
    <3>4. CASE slots[i].state = "Settled" /\ (calls'[i] # NoCall => slots'[i].state = "Settled")
      <4>2. ~(calls'[i] # NoCall /\ WaitsIn(claims', slots'[i], calls'[i]))
        BY <3>4 DEF WaitsIn
      <4> QED BY <3>1, <3>2, <3>4, <4>2 DEF WaitsIn
    <3> QED BY <1>3, <1>11, <2>4, <3>3, <3>4
  <2> QED BY <2>3, <2>4
<1>12. V = CorrelationsAt(I \cup R)
  <2>2. V \subseteq CorrelationsAt(I \cup R)
    <3> SUFFICES ASSUME NEW c \in V PROVE c \in CorrelationsAt(I \cup R)
      OBVIOUS
    <3> DEFINE i == SlotOf(c)
    <3>1. i \in Slots /\ calls'[i] # NoCall /\ WaitsIn(claims', slots'[i], calls'[i])
          /\ calls'[i].correlation = c
      BY DEF WaitingSet, WaitsIn
    <3>2. calls[i] # NoCall /\ calls[i].correlation = c
      BY <1>3, <3>1 DEF Thinned, SameCall
    <3> HIDE DEF i, I, R
    <3> QED BY <3>2, <1>11, <3>1 DEF CorrelationsAt
  <2>3. CorrelationsAt(I \cup R) \subseteq V
    <3> SUFFICES ASSUME NEW i \in I \cup R PROVE calls[i].correlation \in V
      BY DEF CorrelationsAt
    <3>1. i \in Slots /\ calls[i] # NoCall
      BY <1>7, <1>10
    <3>2. calls'[i] # NoCall /\ WaitsIn(claims', slots'[i], calls'[i])
      BY <1>11, <3>1
    <3>4. calls[i].correlation \in Correlations /\ SlotOf(calls[i].correlation) = i
      BY <3>1, LiveCall
    <3> HIDE DEF I, R
    <3> QED BY <3>1, <3>2, <1>3, <3>4 DEF WaitingSet, Thinned, SameCall
  <2> QED BY <2>2, <2>3
<1>13. Lists(base, CorrelationsAt(I), key)
  <2>1. Lists(pending, W, key)
    BY DEF IInv, QueueOK
  <2> HIDE DEF W, gone, key, I
  <2>2. Lists(Without(pending, gone), W \ gone, key)
    BY <2>1, ListsWithout
  <2> QED BY <1>8, <2>2
<1>14. Lists(pending', CorrelationsAt(I \cup R), key)
  <2>2. PICK f : GoneThrough(f, base, CallsAt(R), MaxSends) /\ pending' = f[MaxSends]
    BY <1>2
  <2> HIDE DEF R, I, base
  <2> QED BY <1>10, <1>13, <1>7, <2>2, AllReturned
<1>15. \A c \in V : key2[c] = key[c]
  BY <1>3 DEF WaitingSet, WaitsIn, SentOf, Thinned, SameCall
<1>16. QueueOK'
  <2> HIDE DEF V, key, key2, I, R
  <2>1. Lists(pending', V, key2)
    BY <1>12, <1>14, <1>15, ListsSame
  <2> QED BY <2>1 DEF QueueOK, V, key2
<1>18. CameBack(h)
  <2> SUFFICES ASSUME NEW c \in V
               PROVE  \/ c \in W
                      \/ \E i \in Slots : /\ calls[i] # NoCall /\ calls[i].correlation = c
                                         /\ Returns(h, calls[i])
    BY DEF CameBack
  <2>1. PICK i \in I \cup R : calls[i].correlation = c
    <3> HIDE DEF V, I, R
    <3> QED BY <1>12 DEF CorrelationsAt
  <2>2. CASE i \in I
    <3> HIDE DEF W
    <3> QED BY <2>1, <2>2
  <2>3. CASE i \in R
    BY <2>1, <2>3 DEF ReturnedSlots
  <2> QED BY <2>1, <2>2, <2>3
<1> QED BY <1>3, <1>4, <1>6, <1>16, QueueTyped, <1>18 DEF Core, CoreTyped, NoPanic

(***************************************************************************)
(* The steps.                                                              *)
(***************************************************************************)
\* A correlation is a number.
LEMMA CorrelationNumber == Correlations \subseteq Nat
<1>2. ASSUME NEW g \in 0 .. GenSpan - 1, NEW i \in 0 .. SlotSpan - 1
      PROVE  Correlation(g, i) \in Nat
  <2>1. g \in Nat /\ i \in Nat /\ g * SlotSpan \in Nat
    BY SpanAssumption
  <2> QED BY <2>1 DEF Correlation
<1> QED BY <1>2 DEF Correlations

\* A registration a task makes.
LEMMA RegistrationTyped ==
    ASSUME NEW kind \in {"Outcome", "Stream", "ClaimStream", "Slot", "Claim"}, NEW id \in Nat,
           NEW s \in StreamNos \cup {0}, NEW task \in Wakers, NEW S \in SUBSET Registrations,
           NEW gone
    PROVE  (S \ gone) \cup {<<kind, id, s, task>>} \subseteq Registrations
<1> QED BY LoopbackAssumption DEF Registrations

\* The types the steps rest on.
LEMMA TypesNow ==
    ASSUME IInv
    PROVE  RestTyped /\ asleep \in SUBSET Registrations
           /\ slotWaker \in [Callers -> Wakers \cup {NoWaker}]
           /\ slots \in [Slots -> Entry] /\ calls \in [Slots -> CallEntry \cup {NoCall}]
           /\ Callers \subseteq Nat /\ Handlers \subseteq Nat /\ ClaimIds \subseteq Nat
  BY LoopbackAssumption, SMTT(30) DEF IInv, TypeOK, RestTyped, Callers, Handlers, ClaimIds

\* Opening a handle and arming the hook change no call.
LEMMA OpenStep ==
    ASSUME IInv, OpenCaller \/ OpenHandler \/ FailNextSettle
    PROVE  IInv' /\ Followed
<1>1. UNCHANGED <<slots, calls, pending, nextSent, claims, nextClaim, panicked, slotWaker, asleep>>
      /\ handlers \subseteq handlers'
  BY DEF OpenCaller, OpenHandler, FailNextSettle, handlerVars, callerVars, faultVars
<1>3. RestTyped'
  <2>1. CASE OpenCaller
    <3>1. nextCaller \in 1 .. MaxCallers + 1 /\ MaxCallers \in Nat /\ callers \subseteq Callers
          /\ RestTyped
      BY TypesNow, LoopbackAssumption DEF RestTyped
    <3>2. nextCaller <= MaxCallers /\ nextCaller' = nextCaller + 1
          /\ callers' = callers \cup {nextCaller}
          /\ UNCHANGED <<nextSent, claims, nextClaim, handlers, nextHandler, served, claimWaker,
                         failNextSettle, faults, released>>
      BY <2>1 DEF OpenCaller, handlerVars, faultVars
    <3> QED BY <3>1, <3>2 DEF RestTyped, Callers
  <2>2. CASE OpenHandler
    <3>1. nextHandler \in 1 .. MaxHandlers + 1 /\ MaxHandlers \in Nat /\ handlers \subseteq Handlers
          /\ RestTyped
      BY TypesNow, LoopbackAssumption DEF RestTyped
    <3>2. nextHandler <= MaxHandlers /\ nextHandler' = nextHandler + 1
          /\ handlers' = handlers \cup {nextHandler}
          /\ UNCHANGED <<nextSent, claims, nextClaim, callers, nextCaller, served, claimWaker,
                         failNextSettle, faults, released>>
      BY <2>2 DEF OpenHandler, callerVars, faultVars
    <3> QED BY <3>1, <3>2 DEF RestTyped, Handlers
  <2>3. CASE FailNextSettle
    BY <2>3, TypesNow, LoopbackAssumption DEF FailNextSettle, RestTyped, callerVars, handlerVars
  <2> QED BY <2>1, <2>2, <2>3
<1> QED BY <1>1, TypesNow, UntouchedCore, <1>3, InvPartsNext

\* Send.
LEMMA SendStep ==
    ASSUME IInv, NEW caller \in Callers, NEW kind \in Kinds, NEW member \in Members,
           Send(caller, kind, member)
    PROVE  IInv' /\ Followed
<1>2. /\ nextSent < MaxSends /\ nextSent' = nextSent + 1
      /\ \E woken : claimWaker' = [h \in Handlers |-> IF h \in woken THEN NoWaker ELSE claimWaker[h]]
      /\ UNCHANGED <<callerVars, claims, nextClaim, handlerVars, faultVars, released>>
  BY DEF Send
<1>3. RestTyped'
  BY <1>2, TypesNow, LoopbackAssumption DEF RestTyped, callerVars, handlerVars, faultVars
<1> QED BY SendCore, <1>3, InvPartsNext

\* The drop of a caller.
LEMMA CloseCallerStep ==
    ASSUME IInv, NEW caller \in Callers, CloseCaller(caller)
    PROVE  IInv' /\ Followed
<1>3. released' \subseteq Correlations
  <2> QED BY LiveCall, TypesNow DEF RestTyped, CloseCaller
<1>4. RestTyped'
  BY <1>3, TypesNow DEF RestTyped, handlerVars, faultVars, CloseCaller
<1> QED BY CloseCallerCore, <1>4, InvPartsNext

\* A task waits for a slot.
LEMMA WaitSlotStep ==
    ASSUME IInv, NEW caller \in Callers, NEW task \in Wakers, WaitSlot(caller, task)
    PROVE  IInv' /\ Followed
<1>1. /\ slotWaker' = [slotWaker EXCEPT ![caller] = Registered(task, SlotReady)]
      /\ asleep' = AsleepOn("Slot", caller, slotWaker[caller], task, SlotReady)
      /\ UNCHANGED <<slots, calls, pending, nextSent, callerVars, claims, nextClaim, handlerVars,
                     claimWaker, faultVars, panicked, released>>
  BY DEF WaitSlot
<1>3. asleep' \subseteq Registrations
  <2> DEFINE gone == {<<"Slot", caller, 0, slotWaker[caller]>>}
  <2>2. (asleep \ gone) \cup {<<"Slot", caller, 0, task>>} \subseteq Registrations
    BY TypesNow, RegistrationTyped
  <2>3. asleep' = (asleep \ gone) \cup (IF SlotReady THEN {} ELSE {<<"Slot", caller, 0, task>>})
    BY <1>1 DEF AsleepOn
  <2> HIDE DEF gone
  <2> QED BY <2>2, <2>3
<1>4. Core' /\ Followed
  BY <1>1, TypesNow, <1>3, UntouchedCore DEF handlerVars, Registered
<1>5. RestTyped'
  BY <1>1, TypesNow DEF RestTyped, callerVars, handlerVars, faultVars
<1> QED BY <1>4, <1>5, InvPartsNext

\* A task waits for a claim.
LEMMA WaitClaimStep ==
    ASSUME IInv, NEW h \in Handlers, NEW task \in Wakers, WaitClaim(h, task)
    PROVE  IInv' /\ Followed
<1>1. /\ claimWaker' = [claimWaker EXCEPT ![h] = Registered(task, ClaimWaiting(h))]
      /\ asleep' = AsleepOn("Claim", h, claimWaker[h], task, ClaimWaiting(h))
      /\ UNCHANGED <<slots, calls, pending, nextSent, callerVars, slotWaker, claims, nextClaim,
                     handlerVars, faultVars, panicked, released>>
  BY DEF WaitClaim
<1>3. asleep' \subseteq Registrations
  <2> DEFINE gone == {<<"Claim", h, 0, claimWaker[h]>>}
  <2>2. (asleep \ gone) \cup {<<"Claim", h, 0, task>>} \subseteq Registrations
    BY TypesNow, RegistrationTyped
  <2>3. asleep' = (asleep \ gone) \cup (IF ClaimWaiting(h) THEN {} ELSE {<<"Claim", h, 0, task>>})
    BY <1>1 DEF AsleepOn
  <2> HIDE DEF gone
  <2> QED BY <2>2, <2>3
<1>5. RestTyped'
  BY <1>1, TypesNow DEF RestTyped, callerVars, handlerVars, faultVars, Registered
<1> QED BY <1>1, <1>3, TypesNow, UntouchedCore, <1>5, InvPartsNext DEF handlerVars

\* Forget.
LEMMA ForgetStep ==
    ASSUME IInv, NEW c \in Correlations, Forget(c)
    PROVE  IInv' /\ Followed
<1>3. RestTyped'
  BY TypesNow DEF RestTyped, callerVars, handlerVars, faultVars, Forget
<1> QED BY ForgetCore, <1>3, InvPartsNext

\* A task waits for an outcome.
LEMMA WaitOutcomeStep ==
    ASSUME IInv, NEW c \in Correlations, NEW task \in Wakers, WaitOutcome(c, task)
    PROVE  IInv' /\ Followed
<1> DEFINE i == SlotOf(c)
           f == WakeOnEntry(slots[i], c, task)
<1>1. /\ i \in Slots /\ calls[i] # NoCall
      /\ slots' = [slots EXCEPT ![i] = f]
      /\ asleep' = (asleep \ OutcomeWaiter(slots[i], c)) \cup {<<"Outcome", c, 0, task>>}
      /\ UNCHANGED <<calls, pending, nextSent, callerVars, slotWaker, claims, nextClaim,
                     handlerVars, claimWaker, faultVars, panicked, released>>
  BY DEF WaitOutcome, Known, HasEntry
<1>2. asleep' \subseteq Registrations
  <2> DEFINE gone == OutcomeWaiter(slots[i], c)
  <2>2. asleep' = (asleep \ gone) \cup {<<"Outcome", c, 0, task>>}
    BY <1>1
  <2> HIDE DEF gone
  <2> QED BY CorrelationNumber, <2>2, TypesNow, RegistrationTyped
<1>3. slots[i] \in Entry /\ calls[i] \in CallEntry
  BY <1>1, LiveCall
<1> HIDE DEF i
<1>4. f \in Entry /\ f.state = slots[i].state /\ f.generation = slots[i].generation
  BY <1>3, WakerStored DEF Wakers
<1> HIDE DEF f
<1>6. StreamsMoved(calls[i], calls'[i])
  BY <1>1, <1>3 DEF StreamsMoved, SameCall
<1>7. Core' /\ Followed
  BY <1>1, <1>2, <1>4, TypesNow, <1>6, StoredCore DEF handlerVars
<1>8. RestTyped'
  BY <1>1, TypesNow DEF RestTyped, callerVars, handlerVars, faultVars
<1> QED BY <1>7, <1>8, InvPartsNext

\* Serve.
LEMMA ServeStep ==
    ASSUME IInv, NEW h \in Handlers, NEW member \in Members, Serve(h, member)
    PROVE  IInv' /\ Followed
<1>1. /\ served' = [served EXCEPT ![h] = @ \cup {member}]
      /\ claimWaker' = claimWaker \/ claimWaker' = [claimWaker EXCEPT ![h] = NoWaker]
      /\ UNCHANGED <<slots, calls, pending, nextSent, callerVars, slotWaker, claims, nextClaim,
                     handlers, nextHandler, faultVars, panicked, released>>
  BY DEF Serve
<1>3. Core' /\ Followed
  BY <1>1, TypesNow, UntouchedCore DEF Serve
<1>4. RestTyped'
  BY <1>1, TypesNow DEF RestTyped, callerVars, faultVars
<1> QED BY <1>3, <1>4, InvPartsNext

\* A handler is presented a call.
LEMMA NextClaimStep ==
    ASSUME IInv, NEW h \in Handlers, NEW fits \in BOOLEAN, NextClaim(h, fits)
    PROVE  IInv' /\ Followed
<1> DEFINE c == pending[Min(Servable(served[h]))]
           i == SlotOf(c)
           id == IF Mints(i) THEN nextClaim ELSE calls[i].claim
           owner == [call |-> c, handler |-> h, taken |-> fits]
<1>2. /\ c \in Correlations
      /\ Mints(i) => nextClaim \in ClaimIds /\ nextClaim + 1 \in 1 .. MaxSends + 1
      /\ ~Mints(i) => calls[i].claim \in ClaimIds
  BY PresentedCall DEF NextClaim
<1>3. /\ nextClaim' = IF Mints(i) THEN nextClaim + 1 ELSE nextClaim
      /\ claims' = [claims EXCEPT ![id] = owner]
      /\ UNCHANGED <<nextSent, handlerVars, callerVars, claimWaker, faultVars, released>>
  BY DEF NextClaim
<1> HIDE DEF c, i
<1>4. owner \in ClaimOwner
  BY <1>2 DEF ClaimOwner
<1> HIDE DEF owner
<1>5. claims' \in [ClaimIds -> ClaimOwner \cup {NoOwner}]
  BY <1>2, <1>3, <1>4, TypesNow DEF RestTyped
<1>7. RestTyped'
  BY <1>3, <1>5, <1>2, TypesNow DEF RestTyped, callerVars, handlerVars, faultVars
<1> QED BY NextClaimCore, <1>7, InvPartsNext

\* A handler settles a claim.
LEMMA SettleStep ==
    ASSUME IInv, NEW h \in Handlers, NEW id \in ClaimIds, NEW outcome \in Outcomes,
           SettleClaim(h, id, outcome)
    PROVE  IInv' /\ Followed
<1>3. RestTyped'
  BY TypesNow DEF RestTyped, callerVars, handlerVars, faultVars, SettleClaim
<1> QED BY SettleCore, <1>3, InvPartsNext

\* The injected failure of a settlement.
LEMMA SettleFailsStep ==
    ASSUME IInv, NEW h \in Handlers, NEW id \in ClaimIds, SettleFails(h, id)
    PROVE  IInv' /\ Followed
<1>1. /\ failNextSettle' = FALSE
      /\ UNCHANGED <<slots, calls, pending, nextSent, callerVars, slotWaker, claims, nextClaim,
                     handlerVars, claimWaker, faults, panicked, released, asleep>>
  BY DEF SettleFails
<1>3. RestTyped'
  BY <1>1, TypesNow DEF RestTyped, callerVars, handlerVars
<1> QED BY <1>1, TypesNow, UntouchedCore, <1>3, InvPartsNext DEF handlerVars

\* The drop of a handler.
LEMMA CloseHandlerStep ==
    ASSUME IInv, NEW h \in Handlers, CloseHandler(h)
    PROVE  IInv' /\ Followed
<1>2. /\ handlers' = handlers \ {h}
      /\ claims' = [id \in ClaimIds |->
                      IF claims[id] # NoOwner /\ claims[id].handler = h THEN NoOwner
                      ELSE claims[id]]
      /\ served' = [served EXCEPT ![h] = {}]
      /\ \E woken : claimWaker' = [g \in Handlers |-> IF g \in woken THEN NoWaker ELSE claimWaker[g]]
      /\ UNCHANGED <<nextSent, callerVars, nextClaim, nextHandler, faultVars, released>>
  BY DEF CloseHandler
<1>4. claimWaker' \in [Handlers -> Wakers \cup {NoWaker}]
  BY <1>2, TypesNow DEF RestTyped
<1>5. RestTyped'
  BY <1>2, TypesNow, <1>4 DEF RestTyped, callerVars, faultVars
<1> QED BY CloseHandlerCore, <1>5, InvPartsNext

(***************************************************************************)
(* The steps on streams.                                                   *)
(***************************************************************************)
\* An operation on the streams of one call keeps the invariant when it keeps
\* the cell of the call.
LEMMA CellStep ==
    ASSUME IInv, NEW i \in Slots, calls[i] # NoCall, NEW x, Kept(Cell(i), x, i),
           ApplyTo(i, x),
           UNCHANGED <<pending, nextSent, callerVars, claims, nextClaim, handlerVars, claimWaker,
                       faults, released>>,
           failNextSettle' \in BOOLEAN
    PROVE  IInv' /\ Followed
<1>2. RestTyped'
  BY TypesNow DEF RestTyped, callerVars, handlerVars
<1> QED BY OneKept, <1>2, InvPartsNext DEF handlerVars

\* Only a live call has streams to move.
LEMMA MayLive ==
    ASSUME NEW side, NEW i, May(side, i)
    PROVE  calls[i] # NoCall
  BY DEF May, CallerMay, HandlerMay

\* A pull by either side.
LEMMA PullStep ==
    ASSUME IInv, NEW side \in Sides, NEW i \in Slots, NEW s \in StreamNos, Pull(side, i, s)
    PROVE  IInv' /\ Followed
<1> DEFINE x == Cell(i)
           y == PullCell(x, side, s)
<1>1. calls[i] # NoCall
  BY MayLive DEF Pull
<1>2. Good(x, i) /\ x.k # NoCall
  BY <1>1, CellGood
<1>3. ApplyTo(i, y) /\ UNCHANGED streamRest
  BY DEF Pull
<1> HIDE DEF x
<1>5. Kept(x, y, i)
  BY <1>2, PullCellGood
<1> HIDE DEF y
<1> QED BY <1>1, <1>3, TypesNow, <1>5, CellStep DEF x, streamRest, faultVars, RestTyped

\* A push by either side.
LEMMA PushStep ==
    ASSUME IInv, NEW side \in Sides, NEW i \in Slots, NEW s \in StreamNos,
           NEW chunk \in {"bytes", "empty"}, Push(side, i, s, chunk)
    PROVE  IInv' /\ Followed
<1> DEFINE x == Cell(i)
           y == PushCell(x, side, s, chunk)
<1>1. calls[i] # NoCall
  BY MayLive DEF Push
<1>2. Good(x, i) /\ x.k # NoCall
  BY <1>1, CellGood
<1>3. ApplyTo(i, y) /\ UNCHANGED streamRest
  BY DEF Push
<1> HIDE DEF x
<1>5. Kept(x, y, i)
  BY <1>2, PushCellGood
<1> HIDE DEF y
<1> QED BY <1>1, <1>3, TypesNow, <1>5, CellStep DEF x, streamRest, faultVars, RestTyped

\* The end of a stream that settles nothing.
LEMMA EndStep ==
    ASSUME IInv, NEW i \in Slots, NEW s \in StreamNos, NEW side, calls[i] # NoCall,
           ApplyTo(i, EndCell(Cell(i), side, s)), UNCHANGED streamRest
    PROVE  IInv' /\ Followed
<1> DEFINE x == Cell(i)
           y == EndCell(x, side, s)
<1>2. Good(x, i) /\ x.k # NoCall
  BY CellGood
<1>3. ApplyTo(i, y)
  OBVIOUS
<1>4. failNextSettle' \in BOOLEAN
  BY TypesNow DEF RestTyped, streamRest, faultVars
<1> HIDE DEF x
<1>5. Kept(x, y, i)
  BY <1>2, EndCellGood
<1> HIDE DEF y
<1> QED BY <1>3, <1>4, <1>5, CellStep DEF x, streamRest, faultVars

\* The abort of a stream that settles nothing.
LEMMA AbortStep ==
    ASSUME IInv, NEW i \in Slots, NEW s \in StreamNos, NEW side \in Sides, calls[i] # NoCall,
           ApplyTo(i, AbortCell(Cell(i), side, s)), UNCHANGED streamRest
    PROVE  IInv' /\ Followed
<1> DEFINE x == Cell(i)
           y == AbortCell(x, side, s)
<1>2. Good(x, i) /\ x.k # NoCall
  BY CellGood
<1>3. ApplyTo(i, y)
  OBVIOUS
<1>4. failNextSettle' \in BOOLEAN
  BY TypesNow DEF RestTyped, streamRest, faultVars
<1> HIDE DEF x
<1>5. Kept(x, y, i)
  BY <1>2, AbortCellGood
<1> HIDE DEF y
<1> QED BY <1>3, <1>4, <1>5, CellStep DEF x, streamRest, faultVars

\* A claim's end or abort on the reply stream of a claim still held is its
\* settlement, with an outcome a provider may settle with.
LEMMA EndClaimStep ==
    ASSUME IInv, NEW h \in Handlers, NEW i \in Slots, NEW s \in StreamNos,
           EndClaim(h, i, s) \/ AbortClaim(h, i, s)
    PROVE  IInv' /\ Followed
<1>1. calls[i] # NoCall
  BY DEF EndClaim, AbortClaim, HandlerMay
<1>3. CASE s = ReplyStream /\ Claimed(calls[i])
  <2>1. calls[i].claim \in ClaimIds
    BY <1>1, <1>3, OwnedCall DEF Claimed
  <2>3. \E outcome \in {"Ok", "Err"} : SettleClaim(h, calls[i].claim, outcome)
    BY <1>3 DEF EndClaim, AbortClaim, EndOutcome
  <2> QED BY LoopbackAssumption, <2>1, <2>3, SettleStep
<1>4. CASE ~(s = ReplyStream /\ Claimed(calls[i]))
  <2>2. "Provider" \in Sides
    BY DEF Sides
  <2> QED BY <1>1, <1>4, <2>2, EndStep, AbortStep DEF EndClaim, AbortClaim
<1> QED BY <1>3, <1>4

\* A caller ends or aborts a stream.
LEMMA CallerEndStep ==
    ASSUME IInv, NEW i \in Slots, NEW s \in StreamNos, CallerEnd(i, s) \/ CallerAbort(i, s)
    PROVE  IInv' /\ Followed
<1>2. \/ ApplyTo(i, EndCell(Cell(i), "Caller", s)) /\ UNCHANGED streamRest
      \/ ApplyTo(i, AbortCell(Cell(i), "Caller", s)) /\ UNCHANGED streamRest
  BY DEF CallerEnd, CallerAbort
<1>3. "Caller" \in Sides
  BY DEF Sides
<1> QED BY <1>2, <1>3, EndStep, AbortStep DEF CallerEnd, CallerAbort, CallerMay

\* The injected failure of a claim's end.
LEMMA EndClaimFailsStep ==
    ASSUME IInv, NEW h \in Handlers, NEW i \in Slots, EndClaimFails(h, i)
    PROVE  IInv' /\ Followed
<1> DEFINE x == Cell(i)
           st == Stream(calls[i], ReplyStream)
           y == WithStream(x, ReplyStream, st)
<1>1. calls[i] # NoCall
  BY DEF EndClaimFails, HandlerMay
<1>2. Good(x, i) /\ x.k # NoCall
  BY <1>1, CellGood
<1>3. ApplyTo(i, y) /\ failNextSettle' = FALSE
      /\ UNCHANGED <<pending, nextSent, callerVars, claims, nextClaim, handlerVars, claimWaker,
                     faults, released>>
  BY DEF EndClaimFails
<1>4. ReplyStream \in StreamNos
  BY LoopbackAssumption DEF ReplyStream
<1>5. st \in StreamType
  BY <1>1, <1>4, LiveCall, StreamsTyped
<1> HIDE DEF x, st
<1>6. Kept(x, y, i)
  BY <1>2, <1>4, <1>5, WithStreamGood
<1> HIDE DEF y
<1> QED BY <1>1, <1>3, <1>6, CellStep DEF x

\* A caller's task waits for a stream.
LEMMA WaitStreamStep ==
    ASSUME IInv, NEW c \in Correlations, NEW s \in StreamNos, NEW task \in Wakers,
           WaitStream(c, s, task)
    PROVE  IInv' /\ Followed
<1> DEFINE i == SlotOf(c)
           f == WakeOnStreamEntry(slots[i], c, s, task)
           gone == {<<"Stream", c, s, slots[i].streams[s]>>}
<1>1. /\ i \in Slots /\ calls[i] # NoCall
      /\ slots' = [slots EXCEPT ![i] = f]
      /\ asleep' = (asleep \ gone) \cup {<<"Stream", c, s, task>>}
      /\ UNCHANGED <<calls, slotWaker, panicked, streamRest>>
  BY DEF WaitStream, Known, HasEntry
<1> HIDE DEF gone
<1>2. asleep' \subseteq Registrations
  <2>2. asleep' = (asleep \ gone) \cup {<<"Stream", c, s, task>>}
    BY <1>1
  <2> QED BY CorrelationNumber, <2>2, TypesNow, RegistrationTyped
<1>3. slots[i] \in Entry /\ calls[i] \in CallEntry
  BY <1>1, LiveCall
<1> HIDE DEF i
<1>4. f \in Entry /\ f.state = slots[i].state /\ f.generation = slots[i].generation
  BY <1>3, StreamWakerStored DEF Wakers
<1> HIDE DEF f
<1>6. StreamsMoved(calls[i], calls'[i])
  BY <1>1, <1>3 DEF StreamsMoved, SameCall
<1>7. Core' /\ Followed
  BY <1>1, <1>2, <1>4, TypesNow, <1>6, StoredCore DEF streamRest, handlerVars
<1>8. RestTyped'
  BY <1>1, TypesNow DEF RestTyped, streamRest, callerVars, handlerVars, faultVars
<1> QED BY <1>7, <1>8, InvPartsNext

\* A provider's task waits for a stream.
LEMMA WaitClaimStreamStep ==
    ASSUME IInv, NEW h \in Handlers, NEW i \in Slots, NEW s \in StreamNos, NEW task \in Wakers,
           WaitClaimStream(h, i, s, task)
    PROVE  IInv' /\ Followed
<1> DEFINE st == Stream(calls[i], s)
           id == calls[i].claim
           t == IF Finished(st) THEN st ELSE [st EXCEPT !.waker = task]
           gone == {<<"ClaimStream", id, s, st.waker>>}
           f == [calls[i].streams EXCEPT ![s] = t]
           l == [calls[i] EXCEPT !.streams = f]
<1>1. /\ calls[i] # NoCall
      /\ calls' = [calls EXCEPT ![i].streams[s] = t]
      /\ asleep' = asleep \/ asleep' = (asleep \ gone) \cup {<<"ClaimStream", id, s, task>>}
      /\ UNCHANGED <<slots, slotWaker, panicked, streamRest>>
  BY DEF WaitClaimStream, HandlerMay
<1>2. calls[i] \in CallEntry /\ id \in ClaimIds \cup {None}
  BY <1>1, LiveCall
<1>3. st \in StreamType
  BY <1>2, StreamsTyped
<1>4. t \in StreamType
  <2> HIDE DEF st
  <2> QED BY <1>3 DEF StreamType, Wakers
<1>5. calls' = [calls EXCEPT ![i] = l]
  BY <1>1
<1> HIDE DEF st, t, gone
<1>6. asleep' \subseteq Registrations
  <2> HIDE DEF id
  <2>2. (asleep \ gone) \cup {<<"ClaimStream", id, s, task>>} \subseteq Registrations
    BY <1>2, TypesNow, RegistrationTyped DEF None
  <2> QED BY <1>1, <2>2, TypesNow
<1>7. f \in [StreamNos -> StreamType]
  BY <1>2, <1>4 DEF CallEntry
<1> HIDE DEF f
<1>8. StreamsMoved(calls[i], l)
  BY <1>2, <1>7, StreamsReplaced
<1> HIDE DEF l
<1>9. /\ calls'[i] = l /\ calls' \in [Slots -> CallEntry \cup {NoCall}]
      /\ \A j \in Slots \ {i} : calls'[j] = calls[j]
  BY <1>5, <1>8, TypesNow DEF StreamsMoved
<1>10. Core' /\ Followed
  BY <1>1, <1>6, <1>8, <1>9, TypesNow, StoredCore DEF streamRest, handlerVars
<1>11. RestTyped'
  BY <1>1, TypesNow DEF RestTyped, streamRest, callerVars, handlerVars, faultVars
<1> QED BY <1>10, <1>11, InvPartsNext

(***************************************************************************)
(* The invariant.                                                          *)
(***************************************************************************)
\* An empty store is consistent.
LEMMA InitInv == Init => IInv
<1> SUFFICES ASSUME Init PROVE IInv
  OBVIOUS
<1>1. FreeEntry \in Entry /\ FreeEntry.state = "Free"
  <2>2. NoStreams \in [StreamNos -> Tasks \cup {NoWaker}]
    BY DEF NoStreams
  <2> QED BY SpanAssumption, <2>2 DEF FreeEntry, Entry, States
<1>2. /\ slots \in [Slots -> Entry] /\ \A i \in Slots : slots[i] = FreeEntry
      /\ calls \in [Slots -> CallEntry \cup {NoCall}] /\ \A i \in Slots : calls[i] = NoCall
      /\ pending = <<>>
      /\ claims \in [ClaimIds -> ClaimOwner \cup {NoOwner}]
      /\ \A id \in ClaimIds : claims[id] = NoOwner
  BY <1>1 DEF Init
<1>3. TypeOK
  <2>2. /\ nextSent \in 0 .. MaxSends /\ nextCaller \in 1 .. MaxCallers + 1
        /\ nextClaim \in 1 .. MaxSends + 1 /\ nextHandler \in 1 .. MaxHandlers + 1
        /\ faults \in 0 .. MaxFaults
    BY LoopbackAssumption DEF Init
  <2>3. /\ callers \subseteq Callers /\ handlers \subseteq Handlers
        /\ failNextSettle \in BOOLEAN /\ panicked \in BOOLEAN
        /\ released \subseteq Correlations /\ asleep \subseteq Registrations
    BY DEF Init
  <2>4. pending \in Seq(Correlations)
    BY <1>2
  <2> QED BY <1>2, <2>2, <2>3, <2>4 DEF TypeOK, Init
<1>4. CellsOK
  BY <1>1, <1>2 DEF CellsOK, CellOK
<1>5. Live = {} /\ Unclaimed = {}
  BY <1>2 DEF Live, Unclaimed
<1>6. Numbered
  <2>2. nextClaim = 1 /\ nextSent = 0
    BY DEF Init
  <2> QED BY <1>5, FS_EmptySet, <2>2 DEF Numbered
<1>7. ClaimsOK
  BY <1>2 DEF ClaimsOK
<1>8. QueueOK
  <2> DEFINE W == WaitingSet(claims, slots, calls)
  <2> HIDE DEF W
  <2>2. DOMAIN pending = {} /\ pending \in Seq(W)
    BY <1>2
  <2> QED BY <1>2, <2>2 DEF QueueOK, Lists, W, WaitingSet, WaitsIn
<1>9. NoPanic
  BY DEF Init, NoPanic
<1> QED BY <1>3, <1>4, <1>6, <1>7, <1>8, <1>9 DEF IInv

\* Every operation of the store keeps it.
LEMMA CallsNextInv == IInv /\ Next => IInv' /\ Followed
<1> SUFFICES ASSUME IInv, Next PROVE IInv' /\ Followed
  OBVIOUS
<1>1. CASE OpenCaller \/ OpenHandler \/ FailNextSettle
  BY <1>1, OpenStep
<1>2. ASSUME NEW caller \in Callers,
             \/ \E kind \in Kinds, member \in Members : Send(caller, kind, member)
             \/ CloseCaller(caller)
             \/ \E task \in Wakers : WaitSlot(caller, task)
      PROVE  IInv' /\ Followed
  BY <1>2, SendStep, CloseCallerStep, WaitSlotStep
<1>3. ASSUME NEW c \in Correlations,
             Forget(c) \/ \E task \in Wakers : WaitOutcome(c, task)
      PROVE  IInv' /\ Followed
  BY <1>3, ForgetStep, WaitOutcomeStep
<1>4. ASSUME NEW h \in Handlers,
             \/ \E member \in Members : Serve(h, member)
             \/ \E fits \in BOOLEAN : NextClaim(h, fits)
             \/ CloseHandler(h)
             \/ \E task \in Wakers : WaitClaim(h, task)
      PROVE  IInv' /\ Followed
  BY <1>4, ServeStep, NextClaimStep, CloseHandlerStep, WaitClaimStep
<1>5. ASSUME NEW h \in Handlers, NEW id \in ClaimIds,
             \/ \E outcome \in {"Ok", "Err"} : Settle(h, id, outcome)
             \/ SettleFails(h, id)
      PROVE  IInv' /\ Followed
  BY LoopbackAssumption, <1>5, SettleStep, SettleFailsStep DEF Settle
<1> QED BY <1>1, <1>2, <1>3, <1>4, <1>5 DEF Next

\* And every operation on a call's streams.
LEMMA StreamsNextInv == IInv /\ NextStream => IInv' /\ Followed
<1> SUFFICES ASSUME IInv, NextStream PROVE IInv' /\ Followed
  OBVIOUS
<1>1. ASSUME NEW side \in Sides, NEW i \in Slots, NEW s \in StreamNos,
             Pull(side, i, s) \/ \E chunk \in {"bytes", "empty"} : Push(side, i, s, chunk)
      PROVE  IInv' /\ Followed
  BY <1>1, PullStep, PushStep
<1>2. ASSUME NEW i \in Slots, NEW s \in StreamNos, CallerEnd(i, s) \/ CallerAbort(i, s)
      PROVE  IInv' /\ Followed
  BY <1>2, CallerEndStep
<1>3. ASSUME NEW i \in Slots, NEW s \in StreamNos, NEW h \in Handlers,
             \/ EndClaim(h, i, s)
             \/ AbortClaim(h, i, s)
             \/ \E task \in Wakers : WaitClaimStream(h, i, s, task)
      PROVE  IInv' /\ Followed
  BY <1>3, EndClaimStep, WaitClaimStreamStep
<1>4. ASSUME NEW h \in Handlers, NEW i \in Slots, EndClaimFails(h, i)
      PROVE  IInv' /\ Followed
  BY <1>4, EndClaimFailsStep
<1>5. ASSUME NEW c \in Correlations, NEW s \in StreamNos, NEW task \in Wakers,
             WaitStream(c, s, task)
      PROVE  IInv' /\ Followed
  BY <1>5, WaitStreamStep
<1> QED BY <1>1, <1>2, <1>3, <1>4, <1>5 DEF NextStream

\* A step of neither changes nothing of it.
LEMMA StutterInv == IInv /\ UNCHANGED vars => IInv' /\ Followed
<1> SUFFICES ASSUME IInv, UNCHANGED vars PROVE IInv' /\ Followed
  OBVIOUS
<1>2. RestTyped'
  BY TypesNow DEF RestTyped, vars
<1> QED BY TypesNow, UntouchedCore, <1>2, InvPartsNext DEF vars

(***************************************************************************)
(* What follows from it.                                                   *)
(***************************************************************************)
\* A call that waits is in the queue once, one that does not is not.
LEMMA PlacesCounted ==
    ASSUME IInv, NEW i \in Slots, calls[i] # NoCall
    PROVE  LET places == {p \in DOMAIN pending : pending[p] = calls[i].correlation}
           IN  IF WaitsIn(claims, slots[i], calls[i]) THEN Cardinality(places) = 1
               ELSE places = {}
<1> DEFINE c == calls[i].correlation
           W == WaitingSet(claims, slots, calls)
           key == SentOf(calls)
           places == {p \in DOMAIN pending : pending[p] = c}
<1>1. Lists(pending, W, key)
  BY DEF IInv, QueueOK
<1>2. c \in W <=> WaitsIn(claims, slots[i], calls[i])
  BY WaitingIff
<1> HIDE DEF W, key, c
<1>3. /\ \A p \in DOMAIN pending : pending[p] \in W /\ p \in Nat
      /\ \A d \in W : key[d] \in Nat
      /\ \A d \in W : \E p \in DOMAIN pending : pending[p] = d
      /\ \A p, r \in DOMAIN pending : p < r => key[pending[p]] < key[pending[r]]
  BY <1>1, ElementOfSeq, LenProperties DEF Lists
<1>4. CASE c \notin W
  <2> QED BY <1>2, <1>4, <1>3 DEF c
<1>5. CASE c \in W
  <2>1. PICK p \in DOMAIN pending : pending[p] = c
    BY <1>3, <1>5
  <2>2. ASSUME NEW r \in DOMAIN pending, pending[r] = c PROVE r = p
    <3>1. key[c] \in Nat /\ p \in Nat /\ r \in Nat
      BY <1>3, <1>5
    <3> QED BY <3>1, <1>3, <2>1, <2>2
  <2>4. Cardinality({p}) = 1
    BY FS_Singleton
  <2> QED BY <1>2, <1>5, <2>1, <2>2, <2>4 DEF c
<1> QED BY <1>4, <1>5

\* The store is consistent wherever the invariant holds.
LEMMA InvConsistent == IInv => StoreConsistent
<1> SUFFICES ASSUME IInv PROVE StoreConsistent
  OBVIOUS
<1>1. EntriesMatchTable
  <2> SUFFICES ASSUME NEW i \in Slots
               PROVE  IF slots[i].state = "Free" THEN calls[i] = NoCall
                      ELSE /\ calls[i] # NoCall
                           /\ SlotOf(calls[i].correlation) = i
                           /\ Held(slots[i], calls[i].correlation)
    BY DEF EntriesMatchTable
  <2> QED BY NoneAssumption DEF CellOK, IInv, CellsOK
<1>2. InFlightSomewhere
  <2> SUFFICES ASSUME NEW i \in Slots, calls[i] # NoCall
               PROVE  LET k == calls[i]
                          places == {p \in DOMAIN pending : pending[p] = k.correlation}
                          taken == Claimed(k) /\ Owner(k).taken
                      IN  /\ Claimed(k) => Owner(k).handler \in handlers
                                           /\ Owner(k).call = k.correlation
                          /\ IF slots[i].state = "Settled" THEN places = {} /\ ~Claimed(k)
                             ELSE IF taken THEN places = {} ELSE Cardinality(places) = 1
    BY DEF InFlightSomewhere
  <2> DEFINE k == calls[i]
             places == {p \in DOMAIN pending : pending[p] = k.correlation}
             taken == Claimed(k) /\ Owner(k).taken
  <2>2. WaitsIn(claims, slots[i], k) <=> slots[i].state # "Settled" /\ ~taken
    BY DEF WaitsIn, OwnerIn, Claimed, Owner
  <2>3. IF WaitsIn(claims, slots[i], k) THEN Cardinality(places) = 1 ELSE places = {}
    BY PlacesCounted
  <2> QED BY OwnedCall, <2>2, <2>3 DEF Claimed
<1>3. ClaimsNameCalls
  BY DEF IInv, ClaimsOK, ClaimsNameCalls
<1>4. WaitingInSendOrder
  <2> DEFINE W == WaitingSet(claims, slots, calls)
             key == SentOf(calls)
  <2>1. Lists(pending, W, key)
    BY DEF IInv, QueueOK
  <2>2. W \subseteq Correlations
    BY DEF WaitingSet
  <2> HIDE DEF W
  <2>3. \A p \in DOMAIN pending : pending[p] \in Correlations
    BY <2>1, <2>2, ElementOfSeq, LenProperties DEF Lists
  <2>4. \A p \in DOMAIN pending : key[pending[p]] = calls[SlotOf(pending[p])].sent
    BY <2>3 DEF SentOf
  <2> HIDE DEF key
  <2> QED BY <2>1, <2>4 DEF Lists, WaitingInSendOrder
<1> QED BY <1>1, <1>2, <1>3, <1>4 DEF StoreConsistent, IInv

(***************************************************************************)
(* The theorems.                                                           *)
(***************************************************************************)
\* Whatever the order of sends, claims, short claims, failed settlements,
\* forgets and drops, the store of the loopback stays consistent with its
\* table and with itself (crates/ridl-loopback/src/store.rs).
THEOREM StoreStaysConsistent == Spec => []StoreConsistent
<1>1. Init => IInv
  BY InitInv
<1>2. IInv /\ [Next]_vars => IInv'
  BY CallsNextInv, StutterInv
<1>3. IInv => StoreConsistent
  BY InvConsistent
<1> QED BY <1>1, <1>2, <1>3, PTL DEF Spec

\* So it does when the calls carry streams too: no push, pull, end or abort of
\* a stream by either side, and no deferred forget, breaks it.
THEOREM StoreStaysConsistentWithStreams == StreamsSpec => []StoreConsistent
<1>1. Init => IInv
  BY InitInv
<1>2. IInv /\ [StreamsNext]_vars => IInv'
  BY CallsNextInv, StreamsNextInv, StutterInv DEF StreamsNext
<1>3. IInv => StoreConsistent
  BY InvConsistent
<1> QED BY <1>1, <1>2, <1>3, PTL DEF StreamsSpec

(***************************************************************************)
(* The streams of a call, and the tasks that wait on it.                   *)
(***************************************************************************)
\* Nothing of the streams of call k was moved by a provider.
Untouched(k) ==
    /\ k.streams[ReplyStream].chunks = <<>> /\ ~k.streams[ReplyStream].ended
    /\ \A s \in StreamNos : k.streams[s].stopped # "Provider" /\ ~k.streams[s].drained

\* A stream nothing has named is as new, and once the parameters were released
\* every one of them that is named is finished.
Shaped(k) ==
    /\ \A s \in StreamNos : ~k.streams[s].named => k.streams[s] = UnnamedStream
    /\ k.parametersReleased =>
          \A s \in StreamNos \ {ReplyStream} : k.streams[s].named => Finished(k.streams[s])

\* What the streams of the call k are to the state of its slot e.
SoundBut(e, k) ==
    /\ Shaped(k)
    /\ e.state # "Settled" => ~k.parametersReleased
    /\ e.state # "Settled" /\ ~k.providerUsedStreams => Untouched(k)
    /\ e.state = "Settled" => k.streams[ReplyStream].named /\ Finished(k.streams[ReplyStream])
    /\ e.state = "Settled" /\ k.settledBy = None => k.parametersReleased
    /\ e.state # "InFlight" => e.waker = NoWaker
SoundCall(e, k) == SoundBut(e, k) /\ (k.pendingForget => Undrained(k))

\* No task that has its waker in the cell x is forgotten by what left y: its
\* waker is still there, or on the wake list.
Woken(x, y) ==
    LET c == x.k.correlation
    IN  /\ x.wake \subseteq y.wake
        /\ x.e.waker \in Wakers =>
              \/ y.k # NoCall /\ y.e.waker = x.e.waker
              \/ <<"Outcome", c, 0, x.e.waker>> \in y.wake
        /\ \A s \in StreamNos : x.e.streams[s] \in Wakers =>
              \/ y.k # NoCall /\ y.e.streams[s] = x.e.streams[s]
              \/ <<"Stream", c, s, x.e.streams[s]>> \in y.wake
        /\ \A s \in StreamNos : x.k.streams[s].waker \in Wakers =>
              \/ y.k # NoCall /\ y.k.streams[s].waker = x.k.streams[s].waker
              \/ <<"ClaimStream", x.k.claim, s, x.k.streams[s].waker>> \in y.wake

\* What stands for no waker is no task.
LEMMA NoWakerIsNone == NoWaker \notin Wakers /\ Noop \notin Wakers
  BY WakerAssumption DEF Wakers

\* What waits is woken by the first of two operations or by the second.
LEMMA WokenTwice ==
    ASSUME NEW x, NEW y, NEW z, Woken(x, y), Woken(y, z),
           y.k # NoCall => SameCall(x.k, y.k)
    PROVE  Woken(x, z)
<1> DEFINE c == x.k.correlation
<1>1. x.wake \subseteq y.wake /\ y.wake \subseteq z.wake
  BY DEF Woken
<1>3. ASSUME NEW s \in StreamNos, x.e.streams[s] \in Wakers
      PROVE  \/ z.k # NoCall /\ z.e.streams[s] = x.e.streams[s]
             \/ <<"Stream", c, s, x.e.streams[s]>> \in z.wake
  BY <1>1, <1>3 DEF Woken, SameCall
<1>4. ASSUME NEW s \in StreamNos, x.k.streams[s].waker \in Wakers
      PROVE  \/ z.k # NoCall /\ z.k.streams[s].waker = x.k.streams[s].waker
             \/ <<"ClaimStream", x.k.claim, s, x.k.streams[s].waker>> \in z.wake
  BY <1>1, <1>4 DEF Woken, SameCall
<1> QED BY <1>1, <1>3, <1>4 DEF Woken, SameCall

\* A cell left alone loses nobody.
LEMMA WokenSelf ==
    ASSUME NEW x, x.k # NoCall
    PROVE  Woken(x, x)
  BY DEF Woken

\* An operation that changes neither a waker nor the wake list.
LEMMA WokenSame ==
    ASSUME NEW x, NEW y, y.k # NoCall, y.wake = x.wake,
           y.e.waker = x.e.waker, y.e.streams = x.e.streams,
           \A s \in StreamNos : y.k.streams[s].waker = x.k.streams[s].waker
    PROVE  Woken(x, y)
  BY DEF Woken

\* Taking the stream wakers of a slot wakes them.
LEMMA TakeStreamsWoken ==
    ASSUME NEW x, IsCell(x), x.k # NoCall
    PROVE  LET y == TakeStreams(x)
           IN  Woken(x, y) /\ y.wake = x.wake \cup StreamWaiters(x.e, x.k.correlation)
               /\ y.e.waker = x.e.waker
<1> DEFINE y == TakeStreams(x)
           more == StreamWaiters(x.e, x.k.correlation)
<1>1. IsCell(y) /\ y.e = TakeStreamsEntry(x.e) /\ y.k = x.k /\ y.panic = x.panic
  BY TakeStreamsFields
<1>2. y.wake = x.wake \cup more
  BY DEF TakeStreams, IsCell
<1>3. y.e.waker = x.e.waker
  BY <1>1 DEF TakeStreamsEntry
<1>4. \A s \in StreamNos : <<"Stream", x.k.correlation, s, x.e.streams[s]>> \in more
  BY DEF StreamWaiters
<1> HIDE DEF y, more
<1>5. Woken(x, y)
  BY <1>1, <1>2, <1>3, <1>4 DEF Woken
<1> QED BY <1>2, <1>3, <1>5 DEF y, more

\* A reclaimed entry goes with every waker of its streams; its outcome had none
\* to wake.
LEMMA ReclaimWoken ==
    ASSUME NEW x, IsCell(x), x.k # NoCall, x.k \in CallEntry, Shaped(x.k),
           x.e.waker \notin Wakers
    PROVE  Woken(x, Reclaim(x)) /\ x.wake \subseteq Reclaim(x).wake
<1> DEFINE named == {s \in StreamNos : x.k.streams[s].named}
           u == TakeStreams(x)
           more == StreamWaiters(x.e, x.k.correlation)
           most == ClaimStreamWaiters(x.k, named)
           y == [u EXCEPT !.k = NoCall, !.freed = TRUE, !.wake = @ \cup most]
<1>1. IsCell(u) /\ u.wake = x.wake \cup more
  BY TakeStreamsFields, TakeStreamsWoken
<1>2. Reclaim(x) = y
  BY DEF Reclaim
<1> HIDE DEF u
<1>3. y.wake = (x.wake \cup more) \cup most
  BY <1>1 DEF IsCell
<1>4. \A s \in StreamNos : <<"Stream", x.k.correlation, s, x.e.streams[s]>> \in more
  BY DEF StreamWaiters
<1>5. ASSUME NEW s \in StreamNos, x.k.streams[s].waker \in Wakers
      PROVE  <<"ClaimStream", x.k.claim, s, x.k.streams[s].waker>> \in most
  <2> QED BY <1>5, NoWakerIsNone DEF ClaimStreamWaiters, Shaped, UnnamedStream
<1> HIDE DEF y, more, most
<1>6. Woken(x, y)
  BY <1>3, <1>4, <1>5 DEF Woken
<1> QED BY <1>2, <1>3, <1>6

\* The slot of a call changes: its stream wakers stay, and its outcome's waker
\* stays or is put on the wake list.
LEMMA SlotWoken ==
    ASSUME NEW x, NEW y, y.k # NoCall, y.k.streams = x.k.streams,
           y.e.streams = x.e.streams, x.wake \subseteq y.wake,
           \/ x.e.waker \notin Wakers
           \/ y.e.waker = x.e.waker
           \/ OutcomeWaiter(x.e, x.k.correlation) \subseteq y.wake
    PROVE  Woken(x, y)
  BY DEF Woken, OutcomeWaiter

\* What Stream answers of a call, for a stream that was named and for one it
\* names.
LEMMA StreamAnswered ==
    ASSUME NEW k \in CallEntry, Shaped(k), NEW s \in StreamNos
    PROVE  LET st == Stream(k, s)
           IN  /\ st \in StreamType /\ st.named
               /\ k.streams[s].named => st = k.streams[s]
               /\ st.waker = k.streams[s].waker
               /\ k.parametersReleased /\ s # ReplyStream => Finished(st)
               /\ ~k.parametersReleased /\ ~k.streams[s].named =>
                     /\ st.chunks = <<>> /\ ~st.ended
                     /\ st.stopped # "Provider" /\ ~st.drained
<1> DEFINE fresh == [UnnamedStream EXCEPT !.named = TRUE,
                                          !.stopped = IF k.forgotten THEN "Caller" ELSE "No"]
           st == Stream(k, s)
<1>1. st \in StreamType
  BY StreamsTyped
<1>2. k.streams[s] \in StreamType /\ k.streams[s].named \in BOOLEAN
      /\ k.parametersReleased \in BOOLEAN
  BY DEF CallEntry, StreamType
<1>3. /\ fresh.named /\ fresh.chunks = <<>> /\ fresh.ended = FALSE
      /\ fresh.stopped \in {"Caller", "No"} /\ fresh.drained = FALSE /\ fresh.waker = NoWaker
      /\ fresh \in [named : BOOLEAN, chunks : {<<>>}, ended : BOOLEAN,
                    stopped : {"No", "Caller", "Provider"}, drained : BOOLEAN, waker : {NoWaker}]
  BY DEF UnnamedStream
<1>4. CASE k.streams[s].named
  <2>1. st = k.streams[s]
    BY <1>4 DEF Stream
  <2> QED BY <1>1, <1>4, <2>1 DEF Shaped
<1>5. CASE ~k.streams[s].named
  <2>1. k.streams[s].waker = NoWaker
    BY <1>5 DEF Shaped, UnnamedStream
  <2>2. CASE k.parametersReleased /\ s # ReplyStream
    <3>1. st = ReleaseStream(fresh)
      BY <1>5, <2>2 DEF Stream
    <3> HIDE DEF fresh, st
    <3>2. st.named /\ st.waker = NoWaker /\ Finished(st)
      BY <1>3, <3>1 DEF ReleaseStream, Finished
    <3> QED BY <1>1, <1>5, <2>1, <2>2, <3>2 DEF st
  <2>3. CASE ~(k.parametersReleased /\ s # ReplyStream)
    <3>1. st = fresh
      BY <1>5, <2>3 DEF Stream
    <3> HIDE DEF fresh, st
    <3>2. /\ st.named /\ st.chunks = <<>> /\ ~st.ended /\ st.waker = NoWaker
          /\ st.stopped # "Provider" /\ ~st.drained
      BY <1>3, <3>1
    <3> QED BY <1>1, <1>5, <2>1, <2>3, <3>2 DEF st
  <2> QED BY <2>2, <2>3
<1> QED BY <1>4, <1>5

\* The stream t follows st: it is named and finished when st was, and as long
\* as `still` nothing of it is a provider's when nothing of st was.
Follows(st, t, still) ==
    /\ ~t.named => t = UnnamedStream
    /\ st.named => t.named
    /\ Finished(st) => Finished(t)
    /\ still =>
          /\ st.stopped # "Provider" => t.stopped # "Provider"
          /\ ~st.drained => ~t.drained
StreamsFollow(k, l, still) ==
    /\ \A s \in StreamNos : Follows(k.streams[s], l.streams[s], still)
    /\ \A s \in StreamNos \ {ReplyStream} :
          k.parametersReleased /\ l.streams[s].named /\ ~k.streams[s].named =>
             Finished(l.streams[s])
    /\ still /\ k.streams[ReplyStream].chunks = <<>> /\ ~k.streams[ReplyStream].ended =>
          l.streams[ReplyStream].chunks = <<>> /\ ~l.streams[ReplyStream].ended

\* A call stays sound when its streams follow.
LEMMA SoundFollows ==
    ASSUME NEW e, NEW k, NEW l, SoundBut(e, k),
           StreamsFollow(k, l, e.state # "Settled" /\ ~l.providerUsedStreams),
           l.parametersReleased = k.parametersReleased,
           k.providerUsedStreams => l.providerUsedStreams,
           l.settledBy = k.settledBy
    PROVE  SoundBut(e, l)
<1>1. Shaped(l)
  <2>2. ASSUME NEW s \in StreamNos \ {ReplyStream}, l.parametersReleased, l.streams[s].named
        PROVE  Finished(l.streams[s])
    BY <2>2 DEF StreamsFollow, Follows, SoundBut, Shaped
  <2> QED BY <2>2 DEF Shaped, StreamsFollow, Follows
<1>2. ASSUME e.state # "Settled", ~l.providerUsedStreams
      PROVE  Untouched(l)
  <2> QED BY <1>2 DEF StreamsFollow, Follows, Untouched, SoundBut
<1>3. e.state = "Settled" => l.streams[ReplyStream].named /\ Finished(l.streams[ReplyStream])
  BY LoopbackAssumption DEF SoundBut, StreamsFollow, Follows, ReplyStream
<1> QED BY <1>1, <1>2, <1>3 DEF SoundBut

\* What is unread stays unread.
LEMMA UndrainedFollows ==
    ASSUME NEW k, NEW l, Undrained(k),
           \A s \in StreamNos : /\ k.streams[s].named => l.streams[s].named
                                /\ k.streams[s].named /\ ~k.streams[s].drained =>
                                      ~l.streams[s].drained
    PROVE  Undrained(l)
  BY DEF Undrained

\* A slot changes nothing of that while its state and its waker stay.
LEMMA SoundSlot ==
    ASSUME NEW e, NEW f, NEW k, f.state = e.state, f.waker = e.waker
    PROVE  /\ SoundBut(e, k) => SoundBut(f, k)
           /\ SoundCall(e, k) => SoundCall(f, k)
  BY DEF SoundBut, SoundCall

\* One stream moved on from what Stream answers.
LEMMA MoveFollows ==
    ASSUME NEW k \in CallEntry, NEW e, SoundBut(e, k), NEW s \in StreamNos, NEW t \in StreamType,
           NEW l, l.streams = [k.streams EXCEPT ![s] = t],
           l.parametersReleased = k.parametersReleased,
           k.providerUsedStreams => l.providerUsedStreams,
           l.settledBy = k.settledBy,
           t.named, Finished(Stream(k, s)) => Finished(t),
           e.state # "Settled" /\ ~l.providerUsedStreams =>
              /\ Stream(k, s).stopped # "Provider" => t.stopped # "Provider"
              /\ ~Stream(k, s).drained => ~t.drained
              /\ s = ReplyStream /\ Stream(k, s).chunks = <<>> /\ ~Stream(k, s).ended =>
                    t.chunks = <<>> /\ ~t.ended
    PROVE  /\ SoundBut(e, l)
           /\ (t.drained => Stream(k, s).drained) /\ Undrained(k) => Undrained(l)
<1> DEFINE st == Stream(k, s)
           still == e.state # "Settled" /\ ~l.providerUsedStreams
<1>1. l.streams[s] = t /\ \A r \in StreamNos \ {s} : l.streams[r] = k.streams[r]
  BY DEF CallEntry
<1>2. Shaped(k) /\ (e.state # "Settled" => ~k.parametersReleased)
  BY DEF SoundBut
<1>3. /\ st.named /\ (k.streams[s].named => st = k.streams[s])
      /\ k.parametersReleased /\ s # ReplyStream => Finished(st)
      /\ ~k.parametersReleased /\ ~k.streams[s].named =>
            st.chunks = <<>> /\ ~st.ended /\ st.stopped # "Provider" /\ ~st.drained
  BY <1>2, StreamAnswered
<1>h. /\ Finished(st) => Finished(t)
      /\ still => /\ st.stopped # "Provider" => t.stopped # "Provider"
                  /\ ~st.drained => ~t.drained
                  /\ s = ReplyStream /\ st.chunks = <<>> /\ ~st.ended => t.chunks = <<>> /\ ~t.ended
  OBVIOUS
<1>4. still => ~k.parametersReleased
  BY <1>2
<1> HIDE DEF st, still
<1>5. ASSUME NEW r \in StreamNos PROVE Follows(k.streams[r], l.streams[r], still)
  <2>1. CASE r # s
    <3> QED BY <1>2, <1>1, <2>1 DEF Follows, Shaped
  <2>2. CASE r = s
    <3>1. Finished(k.streams[s]) => Finished(t)
      <4> QED BY <1>3, <1>h, <1>2 DEF Shaped, UnnamedStream, Finished
    <3> QED BY <1>1, <2>2, <3>1, <1>3, <1>4, <1>h DEF Follows
  <2> QED BY <2>1, <2>2
<1>7. still /\ k.streams[ReplyStream].chunks = <<>> /\ ~k.streams[ReplyStream].ended =>
         l.streams[ReplyStream].chunks = <<>> /\ ~l.streams[ReplyStream].ended
  <2>2. CASE s = ReplyStream
    BY <1>1, <1>3, <1>4, <1>h, <2>2
  <2>3. CASE s # ReplyStream
    BY <1>1, LoopbackAssumption, <2>3 DEF ReplyStream
  <2> QED BY <2>2, <2>3
<1>8. StreamsFollow(k, l, still)
  BY <1>5, <1>1, <1>3, <1>h, <1>7 DEF StreamsFollow
<1>10. ASSUME t.drained => st.drained, Undrained(k)
       PROVE  Undrained(l)
  <2>1. ASSUME NEW r \in StreamNos
        PROVE  /\ k.streams[r].named => l.streams[r].named
               /\ k.streams[r].named /\ ~k.streams[r].drained => ~l.streams[r].drained
    BY <1>1, <1>3, <1>10
  <2> QED BY <1>10, <2>1, UndrainedFollows
<1> QED BY <1>8, SoundFollows, <1>10 DEF st, still

\* The call stays the same call, and whoever waits on it is not forgotten.
Passed(x, y) ==
    Woken(x, y) /\ (y.k # NoCall => SameCall(x.k, y.k) /\ y.k.caller = x.k.caller)
\* And its streams are what its slot makes of them.
Minded(x, y) == Passed(x, y) /\ (y.k # NoCall => SoundCall(y.e, y.k))

\* What two operations leave, one after the other.
LEMMA PassedTwice ==
    ASSUME NEW x, NEW y, NEW z, Passed(x, y), y.k # NoCall, Passed(y, z)
    PROVE  Passed(x, z)
<1> QED BY WokenTwice DEF Passed, SameCall

\* Two operations leave what the second leaves.
LEMMA MindedTwice ==
    ASSUME NEW x, NEW y, NEW z, Passed(x, y), y.k # NoCall, Minded(y, z)
    PROVE  Minded(x, z)
  BY PassedTwice DEF Minded

\* A cell left alone stays as it is.
LEMMA MindedSelf ==
    ASSUME NEW x, x.k # NoCall, SoundCall(x.e, x.k)
    PROVE  Minded(x, x)
  BY WokenSelf DEF Minded, Passed, SameCall

\* The call is moved, in its streams only.
Carried(x, y) ==
    /\ CellMoved(x, y) /\ Passed(x, y)
    /\ y.k # NoCall /\ y.k.providerUsedStreams = x.k.providerUsedStreams

(***************************************************************************)
(* What the operations on all streams of a call do.                        *)
(***************************************************************************)
\* Interrupting them moves only streams and loses nobody.
LEMMA InterruptCarried ==
    ASSUME NEW x, NEW i, Occupied(x, i), SoundBut(x.e, x.k)
    PROVE  LET y == InterruptStreams(x)
           IN  Carried(x, y) /\ SoundBut(y.e, y.k)
<1> DEFINE y == InterruptStreams(x)
<1>1. IsCell(x) /\ x.k \in CallEntry /\ x.k.streams \in [StreamNos -> StreamType]
      /\ x.k # NoCall
  BY NoneAssumption DEF Occupied, CallEntry
<1>2. CellMoved(x, y)
  BY InterruptStreamsMoved
<1>3. CASE x.k.forgotten
  <2>1. y = x
    BY <1>3 DEF InterruptStreams
  <2> HIDE DEF y
  <2>2. Passed(x, x)
    BY <1>1, WokenSelf DEF Passed, SameCall
  <2>3. Carried(x, y) /\ SoundBut(y.e, y.k)
    BY <1>1, <1>2, <2>1, <2>2 DEF Carried
  <2> QED BY <2>3 DEF y
<1>4. CASE ~x.k.forgotten
  <2> DEFINE g(s) == LET st == x.k.streams[s]
                     IN  IF ~st.named THEN st
                         ELSE [st EXCEPT !.waker = NoWaker,
                                         !.stopped = IF Finished(st) THEN @ ELSE "Caller"]
             f == [s \in StreamNos |-> g(s)]
             more == ClaimStreamWaiters(x.k, StreamNos)
  <2>1. y = [x EXCEPT !.k.streams = f, !.wake = @ \cup more]
    BY <1>4 DEF InterruptStreams
  <2>2. ASSUME NEW s \in StreamNos
        PROVE  /\ g(s).named = x.k.streams[s].named /\ g(s).chunks = x.k.streams[s].chunks
               /\ g(s).ended = x.k.streams[s].ended /\ g(s).drained = x.k.streams[s].drained
               /\ g(s).stopped = x.k.streams[s].stopped \/ g(s).stopped = "Caller"
               /\ Finished(x.k.streams[s]) => Finished(g(s))
               /\ ~x.k.streams[s].named => g(s) = x.k.streams[s]
    <3> DEFINE st == x.k.streams[s]
    <3>2. g(s) = IF ~st.named THEN st
                 ELSE [st EXCEPT !.waker = NoWaker,
                                 !.stopped = IF Finished(st) THEN @ ELSE "Caller"]
      OBVIOUS
    <3> HIDE DEF st, g
    <3>3. /\ g(s).named = st.named /\ g(s).chunks = st.chunks
          /\ g(s).ended = st.ended /\ g(s).drained = st.drained
          /\ g(s).stopped = st.stopped \/ g(s).stopped = "Caller"
          /\ Finished(st) => Finished(g(s))
          /\ ~st.named => g(s) = st
      BY <1>1, <3>2 DEF StreamType, Finished
    <3> QED BY <3>3 DEF st
  <2>3. \A s \in StreamNos : f[s] = g(s)
    OBVIOUS
  <2>4. \A s \in StreamNos : <<"ClaimStream", x.k.claim, s, x.k.streams[s].waker>> \in more
    BY DEF ClaimStreamWaiters
  <2> HIDE DEF f, g, more, y
  <2>5. y.wake = x.wake \cup more /\ y.k = [x.k EXCEPT !.streams = f]
    BY <1>1, <2>1 DEF IsCell
  <2>6. /\ y.k.streams = f /\ y.k.caller = x.k.caller
        /\ y.k.providerUsedStreams = x.k.providerUsedStreams
        /\ y.k.parametersReleased = x.k.parametersReleased
        /\ y.k.settledBy = x.k.settledBy
    BY <1>1, <2>5 DEF CallEntry
  <2>7. y.e = x.e /\ y.k # NoCall /\ SameCall(x.k, y.k)
    BY <1>2, NoneAssumption DEF CellMoved, StreamsMoved
  <2>8. Woken(x, y)
    BY <2>4, <2>5, <2>7 DEF Woken
  <2>9. SoundBut(y.e, y.k)
    <3> DEFINE still == x.e.state # "Settled" /\ ~y.k.providerUsedStreams
    <3>0. ReplyStream \in StreamNos /\ Shaped(x.k)
      BY LoopbackAssumption DEF ReplyStream, SoundBut
    <3>1. ASSUME NEW s \in StreamNos PROVE Follows(x.k.streams[s], y.k.streams[s], still)
      <4> HIDE DEF still
      <4> QED BY <2>2, <3>0, <2>3, <2>6 DEF Follows, Shaped
    <3>2. StreamsFollow(x.k, y.k, still)
      BY <2>2, <2>3, <2>6, <3>0, <3>1 DEF StreamsFollow
    <3> QED BY <2>6, <2>7, <3>2, SoundFollows
  <2> QED BY <1>2, <2>6, <2>7, <2>8, <2>9 DEF y, Carried, Passed
<1> QED BY <1>3, <1>4

\* The parameters released: what is named of them is finished, the reply stream
\* is as it was.
LEMMA ReleaseCarried ==
    ASSUME NEW x, IsCell(x), x.k \in CallEntry, Shaped(x.k)
    PROVE  LET y == ReleaseParameters(x)
           IN  /\ Carried(x, y) /\ Shaped(y.k) /\ y.k.parametersReleased
               /\ y.k.streams[ReplyStream] = x.k.streams[ReplyStream]
<1> DEFINE y == ReleaseParameters(x)
           params == {s \in StreamNos \ {ReplyStream} : x.k.streams[s].named}
           g(s) == IF s \in params THEN [ReleaseStream(x.k.streams[s]) EXCEPT !.waker = NoWaker]
                   ELSE x.k.streams[s]
           f == [s \in StreamNos |-> g(s)]
           more == ClaimStreamWaiters(x.k, params)
<1>1. CellMoved(x, y)
  BY ReleaseParametersMoved
<1>2. y = [x EXCEPT !.k.parametersReleased = TRUE, !.k.streams = f, !.wake = @ \cup more]
  BY DEF ReleaseParameters
<1>3. \A s \in params : <<"ClaimStream", x.k.claim, s, x.k.streams[s].waker>> \in more
  BY DEF ClaimStreamWaiters
<1>4. \A s \in StreamNos : f[s] = g(s)
  OBVIOUS
<1>5. ASSUME NEW s \in params PROVE g(s).named /\ Finished(g(s))
  <2> DEFINE r == ReleaseStream(x.k.streams[s])
  <2>1. x.k.streams[s] \in StreamType /\ x.k.streams[s].named /\ g(s) = [r EXCEPT !.waker = NoWaker]
    BY DEF CallEntry
  <2>2. r.named /\ Finished(r) /\ r \in StreamType
    <3>1. r \in StreamType
      BY <2>1, StreamsTyped
    <3> QED BY <2>1, <3>1 DEF ReleaseStream, Finished, StreamType
  <2> HIDE DEF r, g
  <2> QED BY <2>1, <2>2 DEF Finished, StreamType
<1>6. \A s \in StreamNos \ params : g(s) = x.k.streams[s]
  OBVIOUS
<1>7. \A s \in StreamNos : s \in params <=> s # ReplyStream /\ x.k.streams[s].named
  OBVIOUS
<1> HIDE DEF y, f, g, more, params
<1>8. /\ y.wake = x.wake \cup more
      /\ y.k = [x.k EXCEPT !.parametersReleased = TRUE, !.streams = f]
  BY <1>2 DEF IsCell
<1>9. /\ y.k.streams = f /\ y.k.caller = x.k.caller
      /\ y.k.providerUsedStreams = x.k.providerUsedStreams
      /\ y.k.parametersReleased
  BY <1>8 DEF CallEntry
<1>10. y.e = x.e /\ y.k # NoCall /\ SameCall(x.k, y.k)
  BY <1>1, NoneAssumption DEF CellMoved, StreamsMoved
<1>11. Woken(x, y)
  <2>1. ASSUME NEW s \in StreamNos, x.k.streams[s].waker \in Wakers
        PROVE  \/ y.k.streams[s].waker = x.k.streams[s].waker
               \/ <<"ClaimStream", x.k.claim, s, x.k.streams[s].waker>> \in y.wake
    BY <1>3, <1>4, <1>6, <1>8, <1>9
  <2> QED BY <1>8, <1>10, <2>1 DEF Woken
<1>12. Shaped(y.k)
  BY <1>4, <1>5, <1>6, <1>7, <1>9 DEF Shaped
<1>13. y.k.streams[ReplyStream] = x.k.streams[ReplyStream]
  BY <1>4, <1>6, <1>7, <1>9, LoopbackAssumption DEF ReplyStream
<1> QED BY <1>9, <1>12, <1>13, <1>1, <1>10, <1>11 DEF y, Carried, Passed

\* Every waker of the streams taken.
LEMMA TakeClaimCarried ==
    ASSUME NEW x, IsCell(x), x.k \in CallEntry, SoundBut(x.e, x.k)
    PROVE  LET y == TakeClaimStreams(x)
           IN  /\ Carried(x, y) /\ SoundBut(y.e, y.k)
               /\ Undrained(x.k) => Undrained(y.k)
<1> DEFINE y == TakeClaimStreams(x)
           g(s) == [x.k.streams[s] EXCEPT !.waker = NoWaker]
           f == [s \in StreamNos |-> g(s)]
           more == ClaimStreamWaiters(x.k, StreamNos)
<1>1. CellMoved(x, y)
  BY TakeClaimStreamsMoved
<1>2. y = [x EXCEPT !.k.streams = f, !.wake = @ \cup more]
  BY DEF TakeClaimStreams
<1>3. \A s \in StreamNos : <<"ClaimStream", x.k.claim, s, x.k.streams[s].waker>> \in more
  BY DEF ClaimStreamWaiters
<1>4. \A s \in StreamNos : f[s] = g(s)
  OBVIOUS
<1>5. ASSUME NEW s \in StreamNos
      PROVE  /\ g(s).named = x.k.streams[s].named /\ g(s).chunks = x.k.streams[s].chunks
             /\ g(s).ended = x.k.streams[s].ended /\ g(s).drained = x.k.streams[s].drained
             /\ g(s).stopped = x.k.streams[s].stopped
             /\ x.k.streams[s] = UnnamedStream => g(s) = UnnamedStream
  <2>1. x.k.streams[s] \in StreamType
    BY DEF CallEntry
  <2>3. x.k.streams[s].waker = NoWaker => g(s) = x.k.streams[s]
    BY <2>1 DEF StreamType
  <2> QED BY <2>1, <2>3 DEF StreamType, UnnamedStream
<1> HIDE DEF y, f, g, more
<1>8. y.wake = x.wake \cup more /\ y.k = [x.k EXCEPT !.streams = f]
  BY <1>2 DEF IsCell
<1>9. /\ y.k.streams = f /\ y.k.caller = x.k.caller
      /\ y.k.providerUsedStreams = x.k.providerUsedStreams
      /\ y.k.parametersReleased = x.k.parametersReleased
      /\ y.k.settledBy = x.k.settledBy
  BY <1>8 DEF CallEntry
<1>10. y.e = x.e /\ y.k # NoCall /\ SameCall(x.k, y.k)
  BY <1>1, NoneAssumption DEF CellMoved, StreamsMoved
<1>11. Woken(x, y)
  BY <1>3, <1>8, <1>10 DEF Woken
<1>12. SoundBut(y.e, y.k)
  <2> DEFINE still == x.e.state # "Settled" /\ ~y.k.providerUsedStreams
  <2>0. ReplyStream \in StreamNos /\ Shaped(x.k)
    BY LoopbackAssumption DEF ReplyStream, SoundBut
  <2>1. ASSUME NEW s \in StreamNos PROVE Follows(x.k.streams[s], y.k.streams[s], still)
    <3> HIDE DEF still
    <3> QED BY <1>5, <2>0, <1>4, <1>9 DEF Follows, Shaped, Finished
  <2>2. StreamsFollow(x.k, y.k, still)
    BY <1>4, <1>5, <1>9, <2>0, <2>1 DEF StreamsFollow
  <2> QED BY <1>9, <1>10, <2>2, SoundFollows
<1>14. Carried(x, y)
  BY <1>1, <1>9, <1>10, <1>11 DEF Carried, Passed
<1> QED BY <1>12, <1>4, <1>5, <1>9, UndrainedFollows, <1>14 DEF y

\* The reply stream finished by a settlement.
LEMMA FinishReplyShaped ==
    ASSUME NEW k \in CallEntry, Shaped(k), NEW outcome
    PROVE  LET l == FinishReply(k, outcome)
           IN  /\ StreamsMoved(k, l) /\ Shaped(l)
               /\ l.streams[ReplyStream].named /\ Finished(l.streams[ReplyStream])
               /\ \A s \in StreamNos : l.streams[s].waker = k.streams[s].waker
               /\ \A s \in StreamNos \ {ReplyStream} : l.streams[s] = k.streams[s]
               /\ l.parametersReleased = k.parametersReleased /\ l.caller = k.caller
               /\ l.providerUsedStreams = k.providerUsedStreams
<1> DEFINE l == FinishReply(k, outcome)
           st == Stream(k, ReplyStream)
           t == CASE Finished(st) -> st
                  [] ~Finished(st) /\ outcome = "Ok" -> [st EXCEPT !.ended = TRUE]
                  [] OTHER -> [st EXCEPT !.stopped = "Provider"]
           f == [k.streams EXCEPT ![ReplyStream] = t]
<1>1. ReplyStream \in StreamNos
  BY LoopbackAssumption DEF ReplyStream
<1>2. st \in StreamType /\ st.named /\ st.waker = k.streams[ReplyStream].waker
  BY <1>1, StreamAnswered
<1>3. StreamsMoved(k, l)
  BY FinishReplyMoved
<1>4. l = [k EXCEPT !.streams = f]
  BY DEF FinishReply
<1> HIDE DEF st, l
<1>5. t.named /\ Finished(t) /\ t.waker = st.waker
  <2>1. CASE Finished(st)
    BY <1>2, <2>1
  <2>2. CASE ~Finished(st) /\ outcome = "Ok"
    <3>1. t = [st EXCEPT !.ended = TRUE]
      BY <2>2
    <3> HIDE DEF t
    <3> QED BY <1>2, <3>1 DEF Finished, StreamType
  <2>3. CASE ~Finished(st) /\ ~(outcome = "Ok")
    <3>1. t = [st EXCEPT !.stopped = "Provider"]
      BY <2>3
    <3> HIDE DEF t
    <3> QED BY <1>2, <3>1 DEF Finished, StreamType
  <2> QED BY <2>1, <2>2, <2>3
<1> HIDE DEF t
<1>7. f[ReplyStream] = t /\ \A s \in StreamNos \ {ReplyStream} : f[s] = k.streams[s]
  BY <1>1 DEF CallEntry
<1> HIDE DEF f
<1>8. /\ l.streams = f /\ l.parametersReleased = k.parametersReleased /\ l.caller = k.caller
      /\ l.providerUsedStreams = k.providerUsedStreams
  BY <1>4 DEF CallEntry
<1>10. /\ StreamsMoved(k, l) /\ Shaped(l)
       /\ l.streams[ReplyStream].named /\ Finished(l.streams[ReplyStream])
       /\ \A s \in StreamNos : l.streams[s].waker = k.streams[s].waker
       /\ \A s \in StreamNos \ {ReplyStream} : l.streams[s] = k.streams[s]
       /\ l.parametersReleased = k.parametersReleased /\ l.caller = k.caller
       /\ l.providerUsedStreams = k.providerUsedStreams
  BY <1>1, <1>2, <1>3, <1>5, <1>7, <1>8 DEF Shaped
<1> QED BY <1>10 DEF l

(***************************************************************************)
(* What forgets and settlements do to them.                                *)
(***************************************************************************)
\* Settling and forgetting touch no stream waker and leave no outcome waker.
LEMMA EntryWakers ==
    ASSUME NEW e \in Entry, NEW c, NEW o, Held(e, c)
    PROVE  /\ SettleEntry(e, c, o).streams = e.streams
           /\ ForgetEntry(e, c).streams = e.streams
           /\ e.state \in {"InFlight", "Forgotten"} => SettleEntry(e, c, o).waker = NoWaker
           /\ e.state \in {"InFlight", "Settled"} => ForgetEntry(e, c).waker = NoWaker
<1>1. Reclaimed(e).streams = e.streams /\ Reclaimed(e).waker = NoWaker
  BY DEF Reclaimed, Entry
<1>3. /\ ForgetEntry(e, c).streams = e.streams
      /\ e.state \in {"InFlight", "Settled"} => ForgetEntry(e, c).waker = NoWaker
  BY <1>1 DEF ForgetEntry, ForgetAnswer, Entry
<1> QED BY <1>1, <1>3 DEF SettleEntry, SettleAnswer, Entry

\* A slot whose stream wakers are taken, and its outcome's with them.
LEMMA TakenWoken ==
    ASSUME NEW x, NEW w, w.k # NoCall, x.wake \subseteq w.wake,
           StreamWaiters(x.e, x.k.correlation) \subseteq w.wake,
           \/ x.e.waker \notin Wakers
           \/ OutcomeWaiter(x.e, x.k.correlation) \subseteq w.wake,
           \A s \in StreamNos : w.k.streams[s].waker = x.k.streams[s].waker
    PROVE  Woken(x, w)
  BY DEF Woken, StreamWaiters, OutcomeWaiter

\* A freed slot is reclaimed.
LEMMA ReclaimMinded ==
    ASSUME NEW x, NEW z, IsCell(z), z.k = x.k, x.k \in CallEntry, Shaped(x.k),
           z.e.streams = x.e.streams, z.e.waker = NoWaker, x.wake \subseteq z.wake,
           \/ x.e.waker = NoWaker
           \/ OutcomeWaiter(x.e, x.k.correlation) \subseteq z.wake
    PROVE  Minded(x, Reclaim(z)) /\ Reclaim(z).k = NoCall
<1>1. x.k # NoCall
  BY NoneAssumption
<1>3. Woken(z, Reclaim(z))
  BY <1>1, ReclaimWoken, NoWakerIsNone
<1>5. SameCall(x.k, z.k)
  BY DEF SameCall
<1> DEFINE y == Reclaim(z)
<1> HIDE DEF y
<1>6. Woken(x, y)
  BY <1>1, SlotWoken, NoWakerIsNone, <1>3, <1>5, WokenTwice DEF y
<1> QED BY ReclaimFields, <1>6 DEF Minded, Passed, y

\* Forgetting a call in the table.
LEMMA ForgetInTableMinded ==
    ASSUME NEW x, NEW i, Occupied(x, i), x.k.pendingForget = FALSE,
           x.e.state = "Forgotten" => x.k.forgotten,
           SoundBut(x.e, x.k)
    PROVE  LET y == ForgetInTable(x)
           IN  /\ Minded(x, y)
               /\ y.k # NoCall => /\ y.k.forgotten /\ y.k.settledBy = x.k.settledBy
                                  /\ y.k.providerUsedStreams = x.k.providerUsedStreams
                                  /\ x.e.state # "Settled"
<1> DEFINE c == x.k.correlation
           y == [x EXCEPT !.e = ForgetEntry(@, c)]
<1>1. x.e \in Entry /\ Held(x.e, c) /\ IsCell(x) /\ x.k \in CallEntry /\ x.k # NoCall
  BY NoneAssumption DEF Occupied
<1>2. IsCell(y) /\ y.e = ForgetEntry(x.e, c) /\ y.k = x.k /\ y.wake = x.wake
  BY <1>1 DEF IsCell
<1>4. ForgetInTable(x) =
         CASE ForgetAnswer(x.e, c) = "Reclaimed" -> Reclaim(y)
           [] ForgetAnswer(x.e, c) = "Marked" ->
                 [TakeStreams(y) EXCEPT !.wake = @ \cup OutcomeWaiter(x.e, c),
                                        !.k.forgotten = TRUE]
           [] OTHER -> x
  BY DEF ForgetInTable
<1> HIDE DEF y
<1>5. CASE x.e.state = "Settled"
  <2>2. ForgetInTable(x) = Reclaim(y)
    BY <1>4, <1>1, <1>5, EntryForgotten
  <2>4. x.e.waker = NoWaker /\ Shaped(x.k)
    BY <1>5 DEF SoundBut
  <2>5. Minded(x, Reclaim(y)) /\ Reclaim(y).k = NoCall
    BY <1>1, <1>2, <1>5, EntryWakers, <2>4, ReclaimMinded
  <2> QED BY <2>2, <2>5
<1>6. CASE x.e.state = "InFlight"
  <2>1. /\ ForgetAnswer(x.e, c) = "Marked" /\ y.e.state = "Forgotten" /\ y.e \in Entry
    BY <1>1, <1>2, <1>6, EntryForgotten
  <2>2. y.e.streams = x.e.streams /\ y.e.waker = NoWaker
    BY <1>1, <1>2, <1>6, EntryWakers
  <2> DEFINE u == TakeStreams(y)
             most == OutcomeWaiter(x.e, c)
             w == [u EXCEPT !.wake = @ \cup most, !.k.forgotten = TRUE]
  <2>3. ForgetInTable(x) = w
    BY <1>4, <2>1
  <2>4. IsCell(u) /\ u.e = TakeStreamsEntry(y.e) /\ u.k = x.k
    BY <1>2, TakeStreamsFields
  <2>5. u.wake = x.wake \cup StreamWaiters(x.e, c) /\ u.e.waker = NoWaker
    <3>2. StreamWaiters(y.e, c) = StreamWaiters(x.e, c)
      BY <2>2 DEF StreamWaiters
    <3> QED BY <1>2, <2>2, <1>1, TakeStreamsWoken, <3>2
  <2>6. u.e.state = "Forgotten"
    BY <2>1, <2>4, StreamsTaken
  <2> HIDE DEF u, most
  <2>7. w.e = u.e /\ w.k = [x.k EXCEPT !.forgotten = TRUE] /\ w.wake = u.wake \cup most
    BY <2>4 DEF IsCell
  <2> HIDE DEF w
  <2>8. /\ w.k \in CallEntry /\ SameCall(x.k, w.k) /\ w.k.forgotten
        /\ w.k.pendingForget = FALSE /\ w.k.settledBy = x.k.settledBy
        /\ w.k.streams = x.k.streams /\ w.k.caller = x.k.caller
        /\ w.k.parametersReleased = x.k.parametersReleased
        /\ w.k.providerUsedStreams = x.k.providerUsedStreams
    BY <1>1, <2>7 DEF CallEntry, SameCall
  <2>10. Woken(x, w)
    BY <2>5, <2>7, <2>8, NoneAssumption, TakenWoken DEF most
  <2>11. SoundCall(w.e, w.k)
    BY <1>6, <2>5, <2>6, <2>7, <2>8 DEF SoundCall, SoundBut, Shaped, Untouched
  <2> QED BY <1>6, <2>3, <2>8, <2>10, <2>11 DEF Minded, Passed
<1>7. CASE x.e.state = "Forgotten"
  <2>2. ForgetInTable(x) = x
    BY <1>4, <1>1, <1>7, EntryForgotten
  <2>4. Minded(x, x)
    BY <1>1, MindedSelf DEF SoundCall
  <2> QED BY <1>7, <2>2, <2>4
<1> QED BY <1>1, <1>5, <1>6, <1>7 DEF Held, Entry, States

\* Withdrawing a call nobody has.
LEMMA WithdrawMinded ==
    ASSUME NEW x, NEW i, Occupied(x, i), x.e.state \in {"InFlight", "Forgotten"},
           SoundBut(x.e, x.k)
    PROVE  Minded(x, Withdraw(x))
<1> DEFINE c == x.k.correlation
           y == [x EXCEPT !.e = SettleEntry(@, c, "Undelivered")]
           more == OutcomeWaiter(x.e, c)
           z == [y EXCEPT !.e = ForgetEntry(@, c), !.wake = @ \cup more]
<1>1. x.e \in Entry /\ Held(x.e, c) /\ IsCell(x) /\ x.k \in CallEntry /\ Shaped(x.k)
  BY DEF Occupied, SoundBut
<1>2. IsCell(y) /\ y.e = SettleEntry(x.e, c, "Undelivered") /\ y.k = x.k /\ y.wake = x.wake
  BY <1>1 DEF IsCell
<1>3. "Undelivered" \in Outcomes
  BY LoopbackAssumption
<1>4. Withdraw(x) =
         CASE SettleAnswer(x.e, c) = "Recorded" /\ ForgetAnswer(y.e, c) = "Reclaimed" -> Reclaim(z)
           [] SettleAnswer(x.e, c) = "Reclaimed" -> Reclaim(y)
           [] OTHER -> Panic(x)
  BY DEF Withdraw
<1> HIDE DEF more
<1>5. IsCell(z) /\ z.e = ForgetEntry(y.e, c) /\ z.k = x.k /\ z.wake = x.wake \cup more
  BY <1>2 DEF IsCell
<1> HIDE DEF y, z
<1>6. y.e.streams = x.e.streams /\ y.e.waker = NoWaker
  BY <1>1, <1>2, EntryWakers
<1>7. CASE x.e.state = "InFlight"
  <2>1. /\ SettleAnswer(x.e, c) = "Recorded" /\ y.e \in Entry /\ y.e.state = "Settled"
        /\ y.e.generation = x.e.generation
    BY <1>1, <1>2, <1>3, <1>7, EntrySettled
  <2>2. Held(y.e, c)
    BY <1>1, <2>1 DEF Held
  <2>4. Withdraw(x) = Reclaim(z)
    BY <1>4, <2>1, <2>2, EntryForgotten
  <2>5. z.e.streams = x.e.streams /\ z.e.waker = NoWaker
    BY <1>5, <1>6, <2>1, <2>2, EntryWakers
  <2> QED BY <1>1, <1>5, <2>4, <2>5, ReclaimMinded DEF more
<1>8. CASE x.e.state = "Forgotten"
  <2>2. Withdraw(x) = Reclaim(y)
    BY <1>4, <1>1, <1>3, <1>8, EntrySettled
  <2> QED BY <1>1, <1>2, <1>6, <2>2, <1>8, ReclaimMinded DEF SoundBut
<1> QED BY <1>7, <1>8

\* A deferred forget told to the table.
LEMMA DeferredForgetMinded ==
    ASSUME NEW x, NEW i, Good(x, i), x.k # NoCall, x.k.pendingForget, SoundBut(x.e, x.k)
    PROVE  LET y == ForgetInTable([x EXCEPT !.k.pendingForget = FALSE])
           IN  /\ Minded(x, y)
               /\ y.k # NoCall => /\ y.k.forgotten /\ y.k.settledBy = x.k.settledBy
                                  /\ y.k.providerUsedStreams = x.k.providerUsedStreams
                                  /\ x.e.state # "Settled"
<1> DEFINE y == [x EXCEPT !.k.pendingForget = FALSE]
<1>1. Occupied(x, i) /\ x.k.forgotten /\ IsCell(x) /\ x.k \in CallEntry
  BY GoodOccupied DEF Occupied
<1>2. /\ IsCell(y) /\ y.e = x.e /\ y.panic = x.panic /\ y.wake = x.wake
      /\ y.k = [x.k EXCEPT !.pendingForget = FALSE]
  BY <1>1 DEF IsCell
<1> HIDE DEF y
<1>3. /\ y.k \in CallEntry /\ SameCall(x.k, y.k) /\ y.k.pendingForget = FALSE
      /\ y.k.forgotten = x.k.forgotten /\ y.k.settledBy = x.k.settledBy
      /\ y.k.streams = x.k.streams /\ y.k.caller = x.k.caller
      /\ y.k.parametersReleased = x.k.parametersReleased
      /\ y.k.providerUsedStreams = x.k.providerUsedStreams
  BY <1>1, <1>2, UnmarkedEntry
<1>4. Occupied(y, i) /\ y.k # NoCall
  BY <1>1, <1>2, <1>3, NoneAssumption DEF Occupied, SameCall
<1>5. SoundBut(y.e, y.k)
  BY <1>2, <1>3 DEF SoundBut, Shaped, Untouched
<1> DEFINE z == ForgetInTable(y)
<1>7. /\ Minded(y, z)
      /\ z.k # NoCall => /\ z.k.forgotten /\ z.k.settledBy = y.k.settledBy
                         /\ z.k.providerUsedStreams = y.k.providerUsedStreams
                         /\ y.e.state # "Settled"
  BY <1>1, <1>3, <1>4, <1>5, ForgetInTableMinded
<1> HIDE DEF z
<1>8. Minded(x, z)
  BY <1>4, <1>2, <1>3, WokenSame, <1>7, MindedTwice DEF Passed
<1> QED BY <1>2, <1>3, <1>7, <1>8 DEF z, y

\* Finishing a deferred forget once everything is read.
LEMMA ReleaseIfDrainedMinded ==
    ASSUME NEW x, NEW i, Good(x, i), x.k # NoCall, SoundBut(x.e, x.k)
    PROVE  LET y == ReleaseIfDrained(x)
           IN  /\ Minded(x, y)
               /\ y.k # NoCall => /\ y.k.forgotten = x.k.forgotten
                                  /\ y.k.settledBy = x.k.settledBy
                                  /\ y.k.providerUsedStreams = x.k.providerUsedStreams
<1>1. CASE x.k.pendingForget /\ ~Undrained(x.k)
  <2> DEFINE y == ForgetInTable([x EXCEPT !.k.pendingForget = FALSE])
  <2>1. ReleaseIfDrained(x) = y
    BY <1>1 DEF ReleaseIfDrained
  <2>2. /\ Minded(x, y)
        /\ y.k # NoCall => /\ y.k.forgotten /\ y.k.settledBy = x.k.settledBy
                           /\ y.k.providerUsedStreams = x.k.providerUsedStreams
    BY <1>1, DeferredForgetMinded
  <2> HIDE DEF y
  <2>4. y.k # NoCall => y.k \in CallEntry
    <3> QED BY <2>1, ReleaseIfDrainedGood, GoodOccupied DEF Kept, Occupied
  <2>5. y.k # NoCall => y.k.forgotten = x.k.forgotten
    BY <2>2, <1>1, GoodOccupied, <2>4 DEF CallEntry, Occupied
  <2> QED BY <2>1, <2>2, <2>5
<1>2. CASE ~(x.k.pendingForget /\ ~Undrained(x.k))
  <2>2. SoundCall(x.e, x.k)
    BY <1>2 DEF SoundCall
  <2> QED BY <1>2, <2>2, MindedSelf DEF ReleaseIfDrained
<1> QED BY <1>1, <1>2

\* Deferring a forget while something is unread.
LEMMA DeferForgetMinded ==
    ASSUME NEW x, NEW i, Good(x, i), x.k # NoCall, ~x.k.forgotten, SoundBut(x.e, x.k),
           Undrained(x.k)
    PROVE  LET y == DeferForget(x)
           IN  /\ Minded(x, y) /\ y.k # NoCall
               /\ y.k.forgotten /\ y.k.settledBy = x.k.settledBy
               /\ y.k.providerUsedStreams = x.k.providerUsedStreams
<1> DEFINE c == x.k.correlation
           u == TakeStreams(x)
           most == OutcomeWaiter(x.e, c)
           y == [u EXCEPT !.k.forgotten = TRUE, !.k.pendingForget = TRUE,
                          !.e = WakeOnEntry(@, c, Noop),
                          !.wake = @ \cup most]
<1>1. IsCell(x) /\ x.k \in CallEntry /\ x.e \in Entry
  BY GoodOccupied DEF Occupied
<1>2. IsCell(u) /\ u.e = TakeStreamsEntry(x.e) /\ u.k = x.k
  BY <1>1, TakeStreamsFields
<1>3. u.wake = x.wake \cup StreamWaiters(x.e, c) /\ u.e.waker = x.e.waker
  BY <1>1, TakeStreamsWoken
<1>4. u.e \in Entry /\ u.e.state = x.e.state
  BY <1>1, <1>2, StreamsTaken
<1>5. DeferForget(x) = y
  BY DEF DeferForget
<1> HIDE DEF u, most
<1> DEFINE f == WakeOnEntry(u.e, c, Noop)
<1>6. f.state = u.e.state /\ (f.state # "InFlight" => f.waker = u.e.waker)
  BY <1>4 DEF WakeOnEntry, StoresOutcome, Entry
<1> HIDE DEF f
<1>7. /\ y.e = f /\ y.wake = u.wake \cup most
      /\ y.k = [x.k EXCEPT !.forgotten = TRUE, !.pendingForget = TRUE]
  BY <1>2 DEF IsCell, f
<1> HIDE DEF y
<1>8. /\ y.k \in CallEntry /\ SameCall(x.k, y.k) /\ y.k.forgotten
      /\ y.k.settledBy = x.k.settledBy
      /\ y.k.streams = x.k.streams /\ y.k.caller = x.k.caller
      /\ y.k.parametersReleased = x.k.parametersReleased
      /\ y.k.providerUsedStreams = x.k.providerUsedStreams
  BY <1>1, <1>7 DEF CallEntry, SameCall
<1>9. y.k # NoCall
  BY <1>8, NoneAssumption
<1>10. Woken(x, y)
  BY <1>3, <1>7, <1>8, <1>9, TakenWoken DEF most
<1>11. SoundCall(y.e, y.k)
  BY <1>3, <1>4, <1>6, <1>7, <1>8 DEF SoundCall, SoundBut, Shaped, Untouched, Undrained
<1> QED BY <1>5, <1>8, <1>9, <1>10, <1>11 DEF Minded, Passed

\* What is left of a call after its forget is forgotten, and a handler has it.
LEMMA ForgetCellMinded ==
    ASSUME NEW x, NEW i, Good(x, i), x.k # NoCall, SoundCall(x.e, x.k),
           Waiting(x.k) => x.e.state # "Settled"
    PROVE  LET y == ForgetCell(x)
           IN  /\ Minded(x, y)
               /\ y.k # NoCall => /\ y.k.forgotten /\ y.k.settledBy = x.k.settledBy
                                  /\ y.k.providerUsedStreams = x.k.providerUsedStreams
                                  /\ \/ x.k.forgotten
                                     \/ Claimed(x.k) \/ x.k.settledBy # None
                                     \/ ~Withdrawable(x.k) /\ x.e.state # "Settled"
<1> DEFINE y == InterruptStreams(x)
<1>1. /\ Occupied(x, i) /\ x.e.state \in {"InFlight", "Forgotten", "Settled"}
      /\ x.k.pendingForget => x.k.forgotten
  BY GoodOccupied
<1>2. Carried(x, y) /\ SoundBut(y.e, y.k)
  BY <1>1, InterruptCarried DEF SoundCall
<1>3. ForgetCell(x) =
         CASE x.k.pendingForget -> x
           [] Withdrawable(x.k) -> Withdraw(y)
           [] ~x.k.pendingForget /\ ~Withdrawable(x.k) /\ Defers(y.k) -> DeferForget(y)
           [] OTHER -> ForgetInTable(y)
  BY DEF ForgetCell
<1> HIDE DEF y
<1>4. CellMoved(x, y) /\ Passed(x, y) /\ y.k # NoCall
      /\ y.k.providerUsedStreams = x.k.providerUsedStreams
  BY <1>2 DEF Carried
<1>5. Good(y, i) /\ y.e.state = x.e.state
  BY <1>4, MovedGood
<1>6. /\ y.k.settledBy = x.k.settledBy /\ y.k.forgotten = x.k.forgotten
      /\ y.k.pendingForget = x.k.pendingForget /\ y.k.claim = x.k.claim
  BY <1>4 DEF CellMoved, StreamsMoved, SameCall
<1>7. Occupied(y, i) /\ (y.e.state = "Forgotten" => y.k.forgotten)
  BY <1>4, <1>5, GoodOccupied
<1>8. CASE x.k.pendingForget
  <2>2. Minded(x, x)
    BY MindedSelf
  <2> QED BY <1>1, <1>8, <1>3, <2>2 DEF Withdrawable
<1>9. CASE Withdrawable(x.k)
  <2> DEFINE z == Withdraw(y)
  <2>1. ForgetCell(x) = z /\ x.e.state # "Settled"
    BY <1>3, <1>9 DEF Withdrawable
  <2>2. Minded(y, z)
    BY <1>1, <1>2, <1>5, <1>7, <2>1, WithdrawMinded
  <2>3. z.k = NoCall
    BY <1>1, <1>5, <1>7, <2>1, WithdrawGood
  <2> HIDE DEF z
  <2>4. Minded(x, z)
    BY <1>4, <2>2, MindedTwice
  <2> QED BY <2>1, <2>3, <2>4
<1>10. CASE ~x.k.pendingForget /\ ~Withdrawable(x.k) /\ Defers(y.k)
  <2> DEFINE z == DeferForget(y)
  <2>1. ForgetCell(x) = z /\ ~y.k.forgotten /\ Undrained(y.k)
    BY <1>3, <1>10 DEF Defers
  <2>3. /\ Minded(y, z) /\ z.k.forgotten /\ z.k.settledBy = y.k.settledBy
        /\ z.k.providerUsedStreams = y.k.providerUsedStreams
    BY <1>2, <1>4, <1>5, <2>1, DeferForgetMinded
  <2> HIDE DEF z
  <2>4. Minded(x, z)
    BY <1>4, <2>3, MindedTwice
  <2> QED BY <1>4, <1>6, <2>1, <1>10, <2>3, <2>4 DEF Defers, Claimed, Owner
<1>11. CASE ~x.k.pendingForget /\ ~Withdrawable(x.k) /\ ~Defers(y.k)
  <2> DEFINE z == ForgetInTable(y)
  <2>1. ForgetCell(x) = z
    BY <1>3, <1>11
  <2>3. /\ Minded(y, z)
        /\ z.k # NoCall => /\ z.k.forgotten /\ z.k.settledBy = y.k.settledBy
                           /\ z.k.providerUsedStreams = y.k.providerUsedStreams
                           /\ y.e.state # "Settled"
    BY <1>2, <1>7, <1>1, <1>6, <1>11, ForgetInTableMinded DEF Occupied, CallEntry
  <2> HIDE DEF z
  <2>4. Minded(x, z)
    BY <1>4, <2>3, MindedTwice
  <2> QED BY <1>4, <1>5, <1>6, <1>11, <2>1, <2>3, <2>4
<1> QED BY <1>8, <1>9, <1>10, <1>11

\* What a settlement leaves is settled by its handler, forgotten as it was.
LEMMA SettleCellMinded ==
    ASSUME NEW x, NEW i, Good(x, i), x.k # NoCall, x.e.state \in {"InFlight", "Forgotten"},
           SoundCall(x.e, x.k), NEW h \in Handlers, NEW outcome \in Outcomes
    PROVE  LET y == SettleCell(x, h, outcome)
           IN  /\ Minded(x, y)
               /\ y.k # NoCall => y.k.settledBy = h /\ y.k.forgotten = x.k.forgotten
<1> DEFINE c == x.k.correlation
           more == OutcomeWaiter(x.e, c)
           settled == [x EXCEPT !.e = SettleEntry(@, c, outcome), !.k.settledBy = h,
                                !.wake = @ \cup OutcomeWaiter(x.e, c)]
           done == IF x.k.kind = "Query" \/ outcome # "Ok" THEN ReleaseParameters(settled)
                   ELSE settled
           replied == [done EXCEPT !.k = FinishReply(@, outcome)]
           gone == [x EXCEPT !.e = SettleEntry(@, c, outcome)]
<1>1. Occupied(x, i) /\ x.e \in Entry /\ x.k \in CallEntry /\ Held(x.e, c) /\ IsCell(x)
  BY GoodOccupied DEF Occupied
<1>2. SettleCell(x, h, outcome) =
         CASE SettleAnswer(x.e, c) = "Recorded" -> ReleaseIfDrained(TakeStreams(replied))
           [] SettleAnswer(x.e, c) = "Reclaimed" -> Reclaim(gone)
           [] OTHER -> Panic(x)
  BY DEF SettleCell
<1> HIDE DEF more
<1>3. /\ IsCell(settled) /\ settled.e = SettleEntry(x.e, c, outcome) /\ settled.panic = x.panic
      /\ settled.k = [x.k EXCEPT !.settledBy = h] /\ settled.wake = x.wake \cup more
  BY <1>1 DEF IsCell, more
<1>4. IsCell(gone) /\ gone.e = SettleEntry(x.e, c, outcome) /\ gone.k = x.k /\ gone.wake = x.wake
  BY <1>1 DEF IsCell
<1> HIDE DEF settled, gone
<1>5. Shaped(x.k)
  BY DEF SoundCall, SoundBut
<1>6. SettleEntry(x.e, c, outcome).streams = x.e.streams
      /\ SettleEntry(x.e, c, outcome).waker = NoWaker
  BY <1>1, EntryWakers
<1>7. CASE x.e.state = "Forgotten"
  <2>2. SettleCell(x, h, outcome) = Reclaim(gone)
    BY <1>2, <1>1, <1>7, EntrySettled
  <2>4. gone.e.streams = x.e.streams /\ gone.e.waker = NoWaker /\ x.wake \subseteq gone.wake
    BY <1>4, <1>6
  <2>5. Minded(x, Reclaim(gone)) /\ Reclaim(gone).k = NoCall
    BY <1>1, <1>4, <1>5, <1>7, <2>4, ReclaimMinded DEF SoundCall, SoundBut
  <2> QED BY <2>2, <2>5
<1>8. CASE x.e.state = "InFlight"
  <2>1. /\ SettleAnswer(x.e, c) = "Recorded" /\ settled.e \in Entry
        /\ settled.e.state = "Settled" /\ settled.e.generation = x.e.generation
    BY <1>1, <1>3, <1>8, EntrySettled
  <2>2. /\ settled.k \in CallEntry /\ SameCall(x.k, settled.k) /\ settled.k.settledBy = h
        /\ settled.k.forgotten = x.k.forgotten /\ settled.k.pendingForget = x.k.pendingForget
        /\ settled.k.streams = x.k.streams /\ settled.k.caller = x.k.caller
        /\ settled.k.parametersReleased = x.k.parametersReleased
    BY <1>1, <1>3 DEF CallEntry, SameCall
  <2>3. Occupied(settled, i)
    BY <1>1, <1>3, <2>1, <2>2 DEF Occupied, Held, SameCall
  <2>4. Good(settled, i) /\ settled.k # NoCall
    BY <1>8, <2>1, <2>2, <2>3, GoodOccupied, OccupiedGood
  <2>5. Passed(x, settled) /\ Shaped(settled.k) /\ settled.e.waker = NoWaker
    <3>1. settled.e.streams = x.e.streams /\ settled.e.waker = NoWaker
      BY <1>3, <1>6
    <3> QED BY <1>5, <2>2, <3>1, <1>3, <2>4, SlotWoken DEF Passed, Shaped, more
  <2>6. CellMoved(settled, done) /\ Passed(settled, done) /\ Shaped(done.k) /\ done.k # NoCall
    <3>1. CASE x.k.kind = "Query" \/ outcome # "Ok"
      <4> DEFINE p == ReleaseParameters(settled)
      <4>1. Carried(settled, p) /\ Shaped(p.k)
        BY <1>3, <2>2, <2>5, ReleaseCarried
      <4>2. done = p
        BY <3>1
      <4> HIDE DEF p
      <4> QED BY <4>1, <4>2 DEF Carried
    <3>2. CASE ~(x.k.kind = "Query" \/ outcome # "Ok")
      <4>2. CellMoved(settled, settled)
        BY <1>3, <2>2 DEF CellMoved, StreamsMoved, SameCall
      <4>3. Passed(settled, settled)
        BY <2>4, WokenSelf DEF Passed, SameCall
      <4> QED BY <2>4, <2>5, <3>2, <4>2, <4>3
    <3> QED BY <3>1, <3>2
  <2> HIDE DEF done
  <2> DEFINE l == FinishReply(done.k, outcome)
  <2>7. IsCell(done) /\ done.k \in CallEntry
    BY <2>6 DEF CellMoved, StreamsMoved
  <2>8. /\ StreamsMoved(done.k, l) /\ Shaped(l)
        /\ l.streams[ReplyStream].named /\ Finished(l.streams[ReplyStream])
        /\ \A s \in StreamNos : l.streams[s].waker = done.k.streams[s].waker
        /\ l.caller = done.k.caller
    BY <2>6, <2>7, FinishReplyShaped
  <2>9. /\ IsCell(replied) /\ replied.e = done.e /\ replied.panic = done.panic
        /\ replied.k = l /\ replied.wake = done.wake
    BY <2>7 DEF IsCell
  <2> HIDE DEF replied, l
  <2>11. CellMoved(settled, replied)
    BY <2>6, <2>8, <2>9, MovedTwice DEF CellMoved
  <2>12. Good(replied, i) /\ replied.k # NoCall /\ replied.e.state = "Settled"
    BY <2>1, <2>4, <2>11, MovedGood
  <2>13. Passed(x, replied)
    <3>2. Passed(done, replied)
      BY <2>8, <2>9, <2>12, WokenSame DEF Passed, StreamsMoved
    <3> QED BY <2>6, <3>2, <2>4, <2>5, PassedTwice
  <2> DEFINE w == TakeStreams(replied)
  <2>14. Good(w, i) /\ w.k = replied.k /\ w.e.state = "Settled"
    BY <2>12, TakeStreamsMoved
  <2>15. Woken(replied, w) /\ w.e.waker = replied.e.waker
    BY <2>9, <2>12, TakeStreamsWoken
  <2> HIDE DEF w
  <2>17. Passed(x, w)
    <3> QED BY <2>12, <2>13, <2>14, <2>15, PassedTwice DEF Passed, SameCall
  <2>18. w.k.settledBy = h /\ w.k.forgotten = x.k.forgotten
    BY <2>2, <2>11, <2>14 DEF CellMoved, StreamsMoved
  <2>19. SoundBut(w.e, w.k)
    <3>1. w.e.waker = NoWaker
      BY <2>5, <2>11, <2>15 DEF CellMoved
    <3> QED BY <2>8, <2>9, <2>14, <2>18, <3>1 DEF SoundBut, Handlers, None
  <2> DEFINE y == ReleaseIfDrained(w)
  <2>20. /\ Minded(w, y)
         /\ y.k # NoCall => y.k.forgotten = w.k.forgotten /\ y.k.settledBy = w.k.settledBy
    BY <2>12, <2>14, <2>19, ReleaseIfDrainedMinded
  <2> HIDE DEF y
  <2>21. Minded(x, y)
    BY <2>12, <2>14, <2>17, <2>20, MindedTwice
  <2> QED BY <1>2, <2>1, <2>18, <2>20, <2>21 DEF y, w
<1> QED BY <1>7, <1>8

\* What an interruption leaves of a call its caller has not forgotten.
LEMMA InterruptClaimMinded ==
    ASSUME NEW x, NEW i, Good(x, i), x.k # NoCall, x.e.state = "InFlight", ~x.k.forgotten,
           SoundBut(x.e, x.k)
    PROVE  LET y == InterruptClaim(x)
           IN  /\ Minded(x, y) /\ y.k # NoCall
               /\ ~y.k.forgotten /\ y.k.settledBy = None
<1> DEFINE c == x.k.correlation
           y == ReleaseParameters(x)
           r == FinishReply(y.k, "Interrupted")
           l == [r EXCEPT !.streams[ReplyStream].waker = NoWaker]
           most == ClaimStreamWaiters(y.k, {ReplyStream})
           z == [y EXCEPT !.k = [FinishReply(@, "Interrupted") EXCEPT
                                  !.streams[ReplyStream].waker = NoWaker],
                          !.wake = @ \cup ClaimStreamWaiters(y.k, {ReplyStream}),
                          !.e = SettleEntry(@, c, "Interrupted")]
<1>1. Occupied(x, i) /\ x.e \in Entry /\ x.k \in CallEntry /\ Held(x.e, c) /\ IsCell(x)
      /\ (x.k.pendingForget => x.k.forgotten) /\ x.k.settledBy = None
  BY GoodOccupied DEF Occupied
<1>2. InterruptClaim(x) =
         CASE SettleAnswer(x.e, c) = "Recorded" ->
                 [TakeStreams(z) EXCEPT !.wake = @ \cup OutcomeWaiter(x.e, c)]
           [] SettleAnswer(x.e, c) = "Reclaimed" -> Reclaim(z)
           [] OTHER -> Panic(x)
  BY DEF InterruptClaim
<1>3. /\ Carried(x, y) /\ Shaped(y.k) /\ y.k.parametersReleased
  BY <1>1, ReleaseCarried DEF SoundBut
<1> HIDE DEF y, most
<1>4. IsCell(y) /\ y.e = x.e /\ y.panic = x.panic /\ y.k \in CallEntry
      /\ SameCall(x.k, y.k) /\ y.k # NoCall /\ Passed(x, y)
      /\ y.k.forgotten = x.k.forgotten /\ y.k.pendingForget = x.k.pendingForget
      /\ y.k.settledBy = x.k.settledBy
  BY <1>3 DEF Carried, CellMoved, StreamsMoved
<1>5. IsCell(z) /\ z.e = SettleEntry(y.e, c, "Interrupted") /\ z.panic = y.panic /\ z.k = l
      /\ z.wake = y.wake \cup most
  BY <1>4 DEF IsCell, most
<1>6. /\ StreamsMoved(y.k, r) /\ Shaped(r)
      /\ r.streams[ReplyStream].named /\ Finished(r.streams[ReplyStream])
      /\ \A s \in StreamNos \ {ReplyStream} : r.streams[s] = y.k.streams[s]
      /\ r.parametersReleased = y.k.parametersReleased /\ r.caller = y.k.caller
  BY <1>3, <1>4, FinishReplyShaped
<1> HIDE DEF r, z
<1>7. /\ l \in CallEntry /\ SameCall(r, l) /\ l.forgotten = r.forgotten
      /\ l.pendingForget = r.pendingForget /\ l.settledBy = r.settledBy
      /\ l.parametersReleased = r.parametersReleased /\ l.caller = r.caller
      /\ l.streams[ReplyStream].named /\ Finished(l.streams[ReplyStream])
      /\ \A s \in StreamNos \ {ReplyStream} : l.streams[s] = r.streams[s]
  <2> DEFINE st == [r.streams[ReplyStream] EXCEPT !.waker = NoWaker]
             f == [r.streams EXCEPT ![ReplyStream] = st]
  <2>1. r \in CallEntry /\ ReplyStream \in StreamNos
    BY <1>6, LoopbackAssumption DEF StreamsMoved, ReplyStream
  <2>2. r.streams \in [StreamNos -> StreamType] /\ r.streams[ReplyStream] \in StreamType
    BY <2>1 DEF CallEntry
  <2>3. st \in StreamType /\ st.named /\ Finished(st)
    BY <1>6, <2>2 DEF StreamType, Finished
  <2> HIDE DEF st
  <2>4. f \in [StreamNos -> StreamType] /\ f[ReplyStream] = st
        /\ \A s \in StreamNos \ {ReplyStream} : f[s] = r.streams[s]
    BY <2>1, <2>2, <2>3
  <2>5. l = [r EXCEPT !.streams = f]
    BY DEF st
  <2> HIDE DEF f, l
  <2>7. /\ l.parametersReleased = r.parametersReleased /\ l.caller = r.caller
        /\ l.streams = f
    BY <2>1, <2>5 DEF CallEntry
  <2> QED BY <2>3, <2>4, <2>1, <2>5, StreamsReplaced, <2>7 DEF StreamsMoved
<1> HIDE DEF l
<1>10. /\ SettleAnswer(x.e, c) = "Recorded" /\ z.e \in Entry /\ z.e.state = "Settled"
  BY <1>1, <1>4, <1>5, LoopbackAssumption, EntrySettled
<1>11. z.e.streams = x.e.streams /\ z.e.waker = NoWaker
  BY <1>1, <1>4, <1>5, EntryWakers
<1> DEFINE u == TakeStreams(z)
           more == OutcomeWaiter(x.e, c)
           w == [u EXCEPT !.wake = @ \cup more]
<1>12. IsCell(u) /\ u.e = TakeStreamsEntry(z.e) /\ u.k = z.k
  BY <1>5, TakeStreamsFields
<1>13. z.k # NoCall
  BY <1>5, <1>7, NoneAssumption
<1>14. u.wake = (y.wake \cup most) \cup StreamWaiters(x.e, c) /\ u.e.waker = NoWaker
       /\ u.e.state = "Settled"
  <2>1. u.wake = z.wake \cup StreamWaiters(z.e, z.k.correlation) /\ u.e.waker = z.e.waker
    BY <1>5, <1>13, TakeStreamsWoken
  <2>3. z.k.correlation = c
    BY <1>4, <1>5, <1>6, <1>7 DEF SameCall, StreamsMoved
  <2>4. u.e.state = z.e.state
    BY <1>10, <1>12, StreamsTaken
  <2> QED BY <1>5, <1>10, <1>11, <2>1, <2>3, <2>4 DEF StreamWaiters
<1>15. InterruptClaim(x) = w
  BY <1>2, <1>10
<1> HIDE DEF u, more
<1>16. w.e = u.e /\ w.k = l /\ w.wake = u.wake \cup more
  BY <1>5, <1>12 DEF IsCell
<1> HIDE DEF w
<1>17. SameCall(y.k, l) /\ l.caller = y.k.caller /\ l.forgotten = x.k.forgotten
       /\ l.pendingForget = x.k.pendingForget /\ l.settledBy = None /\ l.parametersReleased
  BY <1>1, <1>3, <1>4, <1>6, <1>7 DEF SameCall, StreamsMoved
<1>18. Woken(y, w)
  <2>1. y.wake \subseteq w.wake /\ w.k # NoCall
    BY <1>5, <1>13, <1>14, <1>16
  <2>3. \A s \in StreamNos : <<"Stream", c, s, y.e.streams[s]>> \in w.wake
    BY <1>4, <1>14, <1>16 DEF StreamWaiters
  <2>4. ASSUME NEW s \in StreamNos
        PROVE  \/ w.k.streams[s].waker = y.k.streams[s].waker
               \/ <<"ClaimStream", y.k.claim, s, y.k.streams[s].waker>> \in w.wake
    <3>1. CASE s = ReplyStream
      <4> QED BY <1>14, <1>16, <3>1 DEF ClaimStreamWaiters, most
    <3>2. CASE s # ReplyStream
      BY <1>6, <1>7, <1>16, <3>2
    <3> QED BY <3>1, <3>2
  <2> QED BY <1>4, <2>1, <1>16, <2>3, <2>4 DEF Woken, SameCall, OutcomeWaiter, more
<1>19. Passed(x, w)
  <2> QED BY <1>4, <1>16, <1>17, <1>18, PassedTwice DEF Passed
<1>20. SoundCall(w.e, w.k)
  BY <1>1, <1>7, <1>6, <1>14, <1>16, <1>17 DEF SoundCall, SoundBut, Shaped
<1> QED BY <1>5, <1>13, <1>15, <1>16, <1>17, <1>19, <1>20 DEF Minded

\* What is left of a call its settling handler dropped: its caller has it.
LEMMA DropSettledMinded ==
    ASSUME NEW x, NEW i, Good(x, i), x.k # NoCall, x.e.state = "Settled",
           SoundCall(x.e, x.k)
    PROVE  LET y == DropSettled(x)
           IN  /\ Minded(x, y)
               /\ y.k # NoCall => ~x.k.forgotten /\ ~y.k.forgotten /\ y.k.settledBy = None
<1> DEFINE v == [x EXCEPT !.k.settledBy = None]
           p == ReleaseParameters(v)
           t == TakeStreams(p)
           y == TakeClaimStreams(t)
<1>1. Occupied(x, i) /\ x.k \in CallEntry /\ IsCell(x)
      /\ (~x.k.pendingForget => ~x.k.forgotten)
  BY GoodOccupied DEF Occupied
<1>2. IsCell(v) /\ v.e = x.e /\ v.panic = x.panic /\ v.k = [x.k EXCEPT !.settledBy = None]
      /\ v.wake = x.wake
  BY <1>1 DEF IsCell
<1>3. DropSettled(x) =
         IF x.k.pendingForget THEN ForgetInTable([y EXCEPT !.k.pendingForget = FALSE]) ELSE y
  BY DEF DropSettled
<1> HIDE DEF v
<1>4. /\ v.k \in CallEntry /\ SameCall(x.k, v.k) /\ v.k.settledBy = None
      /\ v.k.forgotten = x.k.forgotten /\ v.k.pendingForget = x.k.pendingForget
      /\ v.k.streams = x.k.streams /\ v.k.caller = x.k.caller
      /\ v.k.parametersReleased = x.k.parametersReleased
  BY <1>1, <1>2 DEF CallEntry, SameCall, None
<1>5. Occupied(v, i)
  BY <1>1, <1>2, <1>4 DEF Occupied, SameCall
<1>6. Good(v, i) /\ v.k # NoCall
  BY <1>2, <1>4, <1>5, GoodOccupied, OccupiedGood
<1>7. Shaped(v.k) /\ v.e.waker = NoWaker /\ v.k.streams[ReplyStream].named
      /\ Finished(v.k.streams[ReplyStream]) /\ Passed(x, v)
  <2>1. Woken(x, v)
    BY <1>2, <1>4, <1>6, WokenSame
  <2> QED BY <1>2, <1>4, <2>1 DEF SoundCall, SoundBut, Shaped, Passed
<1>8. /\ Carried(v, p) /\ Shaped(p.k) /\ p.k.parametersReleased
      /\ p.k.streams[ReplyStream] = v.k.streams[ReplyStream]
  BY <1>2, <1>4, <1>7, ReleaseCarried
<1> HIDE DEF p
<1>9. Good(p, i) /\ p.k # NoCall /\ p.e.state = "Settled" /\ p.k \in CallEntry /\ p.e = v.e
      /\ IsCell(p) /\ Passed(v, p)
  BY <1>2, <1>6, <1>8, MovedGood DEF Carried, CellMoved, StreamsMoved
<1>10. Good(t, i) /\ t.k = p.k /\ t.e.state = "Settled" /\ IsCell(t)
  BY <1>9, TakeStreamsMoved DEF Good
<1>11. Woken(p, t) /\ t.e.waker = p.e.waker
  BY <1>9, TakeStreamsWoken
<1> HIDE DEF t
<1>13. Carried(t, y) /\ SoundBut(y.e, y.k)
  BY <1>9, <1>10, <1>7, <1>8, <1>11, TakeClaimCarried DEF SoundBut
<1> HIDE DEF y
<1>14. Good(y, i) /\ y.k # NoCall /\ y.e.state = "Settled" /\ Passed(t, y)
  BY <1>9, <1>10, <1>13, MovedGood DEF Carried
<1>15. y.k.pendingForget = x.k.pendingForget /\ y.k.forgotten = x.k.forgotten
       /\ y.k.settledBy = None
  BY <1>4, <1>8, <1>10, <1>13 DEF Carried, CellMoved, StreamsMoved
<1>16. Passed(x, y)
  <2>2. Passed(p, t)
    BY <1>10, <1>11 DEF Passed, SameCall
  <2>3. Passed(x, t)
    BY <1>9, <1>6, <1>7, PassedTwice, <2>2
  <2> QED BY <1>9, <1>10, <1>14, <2>3, PassedTwice
<1>17. CASE x.k.pendingForget
  <2> DEFINE w == ForgetInTable([y EXCEPT !.k.pendingForget = FALSE])
  <2>1. Minded(y, w) /\ (w.k # NoCall => y.e.state # "Settled")
    BY <1>13, <1>14, <1>15, <1>17, DeferredForgetMinded
  <2>2. DropSettled(x) = w
    BY <1>3, <1>17
  <2> HIDE DEF w
  <2>3. Minded(x, w)
    BY <1>14, <1>16, <2>1, MindedTwice
  <2> QED BY <1>14, <2>1, <2>2, <2>3
<1>18. CASE ~x.k.pendingForget
  <2>2. SoundCall(y.e, y.k)
    BY <1>13, <1>15, <1>18 DEF SoundCall
  <2> QED BY <1>1, <1>15, <1>16, <1>18, <1>3, <2>2 DEF Minded
<1> QED BY <1>17, <1>18

\* What is left of a call whose holder dropped: its caller has it too.
LEMMA DropHeldMinded ==
    ASSUME NEW x, NEW i, Good(x, i), x.k # NoCall, x.e.state \in {"InFlight", "Forgotten"},
           SoundCall(x.e, x.k), NEW h
    PROVE  LET y == DropHeld(x, h)
           IN  /\ Minded(x, y)
               /\ y.k # NoCall =>
                     /\ ~x.k.forgotten /\ ~y.k.forgotten /\ y.k.settledBy = None
                     /\ \/ Owner(x.k).taken /\ x.k.providerUsedStreams
                        \/ y.k.providerUsedStreams = x.k.providerUsedStreams
<1> DEFINE y == TakeClaimStreams(x)
<1>0. Occupied(x, i) /\ x.k \in CallEntry /\ IsCell(x) /\ x.k.settledBy = None
      /\ (x.k.pendingForget => x.k.forgotten)
      /\ (~x.k.forgotten => x.e.state = "InFlight")
  BY GoodOccupied DEF Occupied
<1>1. Carried(x, y) /\ SoundBut(y.e, y.k)
  BY <1>0, TakeClaimCarried DEF SoundCall
<1>2. DropHeld(x, h) =
         CASE x.k.forgotten -> Withdraw(y)
           [] ~x.k.forgotten /\ Owner(x.k).taken /\ x.k.providerUsedStreams -> InterruptClaim(y)
           [] OTHER -> y
  BY DEF DropHeld
<1> HIDE DEF y
<1>3. Good(y, i) /\ y.k # NoCall /\ y.e.state = x.e.state /\ Passed(x, y)
  BY <1>1, MovedGood DEF Carried
<1>4. y.k.forgotten = x.k.forgotten /\ y.k.pendingForget = x.k.pendingForget
      /\ y.k.settledBy = x.k.settledBy /\ y.k.providerUsedStreams = x.k.providerUsedStreams
  BY <1>1 DEF Carried, CellMoved, StreamsMoved
<1>5. CASE x.k.forgotten
  <2>3. Minded(y, Withdraw(y)) /\ Withdraw(y).k = NoCall
    BY <1>1, <1>3, GoodOccupied, WithdrawMinded, WithdrawGood
  <2>4. Minded(x, Withdraw(y))
    BY <1>3, <2>3, MindedTwice
  <2> QED BY <1>2, <1>5, <2>3, <2>4
<1>6. CASE ~x.k.forgotten /\ Owner(x.k).taken /\ x.k.providerUsedStreams
  <2> DEFINE z == InterruptClaim(y)
  <2>1. DropHeld(x, h) = z
    BY <1>2, <1>6
  <2>2. Minded(y, z) /\ ~z.k.forgotten /\ z.k.settledBy = None
    BY <1>0, <1>1, <1>3, <1>4, <1>6, InterruptClaimMinded
  <2> HIDE DEF z
  <2>3. Minded(x, z)
    BY <1>3, <2>2, MindedTwice
  <2> QED BY <1>6, <2>1, <2>2, <2>3
<1>7. CASE ~x.k.forgotten /\ ~(Owner(x.k).taken /\ x.k.providerUsedStreams)
  <2>2. SoundCall(y.e, y.k)
    BY <1>0, <1>1, <1>4, <1>7 DEF SoundCall
  <2> QED BY <1>0, <1>3, <1>4, <1>7, <1>2, <2>2 DEF Minded
<1> QED BY <1>5, <1>6, <1>7

\* A side works on a stream of the call: of what its slot makes of its streams
\* only the deferred forget may be due.
Led(x, y, i, side) ==
    /\ Good(y, i) /\ y.k # NoCall /\ Passed(x, y) /\ SoundBut(y.e, y.k)
    /\ y.k.forgotten = x.k.forgotten /\ y.k.settledBy = x.k.settledBy
    /\ y.k.pendingForget = x.k.pendingForget /\ y.e.state = x.e.state
    /\ side # "Provider" => y.k.providerUsedStreams = x.k.providerUsedStreams
\* What a side's operation leaves of the call.
Steered(x, y, side) ==
    /\ Minded(x, y)
    /\ y.k # NoCall =>
          /\ y.k.forgotten = x.k.forgotten /\ y.k.settledBy = x.k.settledBy
          /\ side # "Provider" => y.k.providerUsedStreams = x.k.providerUsedStreams

\* A side's operation may be two.
LEMMA LedTwice ==
    ASSUME NEW x, NEW y, NEW z, NEW i, NEW side, Led(x, y, i, side), Led(y, z, i, side)
    PROVE  Led(x, z, i, side)
<1> QED BY PassedTwice DEF Led

\* It may finish a deferred forget at the end.
LEMMA LedSteered ==
    ASSUME NEW x, NEW y, NEW i, NEW side, Led(x, y, i, side)
    PROVE  /\ SoundCall(y.e, y.k) => Steered(x, y, side)
           /\ Steered(x, ReleaseIfDrained(y), side)
<1> DEFINE z == ReleaseIfDrained(y)
<1>2. /\ Minded(y, z)
      /\ z.k # NoCall => /\ z.k.forgotten = y.k.forgotten
                         /\ z.k.settledBy = y.k.settledBy
                         /\ z.k.providerUsedStreams = y.k.providerUsedStreams
  BY ReleaseIfDrainedMinded DEF Led
<1> HIDE DEF z
<1>4. Steered(x, z, side)
  BY <1>2, MindedTwice DEF Led, Steered
<1> QED BY <1>4 DEF z, Led, Steered, Minded

\* One stream replaced by what it becomes.
LEMMA StreamLed ==
    ASSUME NEW x, NEW i, Good(x, i), x.k # NoCall, SoundCall(x.e, x.k),
           NEW s \in StreamNos, NEW t \in StreamType, NEW side,
           t.named, t.waker = Stream(x.k, s).waker,
           Finished(Stream(x.k, s)) => Finished(t),
           x.e.state # "Settled" /\ side # "Provider" =>
              /\ Stream(x.k, s).stopped # "Provider" => t.stopped # "Provider"
              /\ ~Stream(x.k, s).drained => ~t.drained
              /\ s = ReplyStream /\ Stream(x.k, s).chunks = <<>> /\ ~Stream(x.k, s).ended =>
                    t.chunks = <<>> /\ ~t.ended
    PROVE  LET y == Used(WithStream(x, s, t), side)
           IN  /\ Led(x, y, i, side)
               /\ (t.drained => Stream(x.k, s).drained) => SoundCall(y.e, y.k)
               /\ y.k.streams[s] = t
<1> DEFINE u == WithStream(x, s, t)
           y == Used(u, side)
           st == Stream(x.k, s)
<1>1. IsCell(x) /\ x.k \in CallEntry /\ x.k.streams \in [StreamNos -> StreamType]
  BY GoodOccupied DEF Occupied, CallEntry
<1>2. CellMoved(x, u) /\ u.k \in CallEntry /\ IsCell(u)
  BY <1>1, WithStreamMoved DEF CellMoved, StreamsMoved
<1>3. CellMoved(u, y)
  BY <1>2, UsedMoved
<1>4. u = [x EXCEPT !.k.streams[s] = t]
  BY DEF WithStream
<1>5. y = IF side = "Provider" THEN [u EXCEPT !.k.providerUsedStreams = TRUE] ELSE u
  BY DEF Used
<1> HIDE DEF u, y
<1>6. u.k = [x.k EXCEPT !.streams[s] = t] /\ u.wake = x.wake /\ u.e = x.e
  BY <1>1, <1>4 DEF IsCell
<1>7. /\ u.k.streams = [x.k.streams EXCEPT ![s] = t]
      /\ u.k.parametersReleased = x.k.parametersReleased
      /\ u.k.providerUsedStreams = x.k.providerUsedStreams
      /\ u.k.settledBy = x.k.settledBy /\ u.k.caller = x.k.caller
  BY <1>1, <1>6 DEF CallEntry
<1>8. y.wake = x.wake /\ y.e = x.e
      /\ y.k = IF side = "Provider" THEN [u.k EXCEPT !.providerUsedStreams = TRUE] ELSE u.k
  BY <1>2, <1>5, <1>6 DEF IsCell
<1>9. /\ y.k.streams = [x.k.streams EXCEPT ![s] = t]
      /\ y.k.parametersReleased = x.k.parametersReleased
      /\ side # "Provider" => y.k.providerUsedStreams = x.k.providerUsedStreams
      /\ side = "Provider" => y.k.providerUsedStreams = TRUE
      /\ y.k.settledBy = x.k.settledBy /\ y.k.caller = x.k.caller
  BY <1>2, <1>7, <1>8 DEF CallEntry
<1>10. CellMoved(x, y)
  BY <1>2, <1>3, MovedTwice
<1>11. Good(y, i) /\ y.k # NoCall /\ y.e.state = x.e.state
  BY <1>10, MovedGood
<1>12. SoundBut(x.e, x.k) /\ (x.k.pendingForget => Undrained(x.k))
  BY DEF SoundCall
<1>15. /\ SoundBut(x.e, y.k)
       /\ (t.drained => st.drained) /\ Undrained(x.k) => Undrained(y.k)
  <2> DEFINE l == y.k
             k == x.k
             e == x.e
  <2>1. /\ l.streams = [k.streams EXCEPT ![s] = t] /\ l.parametersReleased = k.parametersReleased
        /\ (k.providerUsedStreams => l.providerUsedStreams) /\ l.settledBy = k.settledBy
        /\ Finished(Stream(k, s)) => Finished(t)
        /\ SoundBut(e, k) /\ k \in CallEntry
    BY <1>1, <1>9, <1>12
  <2>2. e.state # "Settled" /\ ~l.providerUsedStreams =>
          /\ Stream(k, s).stopped # "Provider" => t.stopped # "Provider"
          /\ ~Stream(k, s).drained => ~t.drained
          /\ s = ReplyStream /\ Stream(k, s).chunks = <<>> /\ ~Stream(k, s).ended =>
                t.chunks = <<>> /\ ~t.ended
    BY <1>9
  <2> HIDE DEF l, k, e
  <2> QED BY <2>1, <2>2, MoveFollows DEF l, k, e
<1>16. ASSUME NEW r \in StreamNos PROVE y.k.streams[r].waker = x.k.streams[r].waker
  <2> QED BY <1>1, <1>9, <1>12, StreamAnswered DEF SoundBut
<1>17. Passed(x, y)
  <2>1. Woken(x, y)
    BY <1>8, <1>11, <1>16, WokenSame, ZenonT(30)
  <2> QED BY <1>9, <1>10, <2>1 DEF Passed, CellMoved, StreamsMoved
<1>18. Led(x, y, i, side)
  BY <1>8, <1>9, <1>10, <1>11, <1>15, <1>17 DEF Led, CellMoved, StreamsMoved
<1>19. (t.drained => st.drained) => SoundCall(y.e, y.k)
  BY <1>8, <1>10, <1>12, <1>15 DEF SoundCall, CellMoved, StreamsMoved
<1> QED BY <1>18, <1>19, <1>1, <1>9 DEF y, u, st

\* The waker of a side taken, of a stream that is named.
LEMMA WakeSideLed ==
    ASSUME NEW x, NEW i, Good(x, i), x.k # NoCall, SoundBut(x.e, x.k),
           NEW s \in StreamNos, x.k.streams[s].named, NEW side, NEW by
    PROVE  LET y == WakeSide(x, s, side)
           IN  /\ Led(x, y, i, by)
               /\ SoundCall(x.e, x.k) => SoundCall(y.e, y.k)
<1> DEFINE y == WakeSide(x, s, side)
<1>1. IsCell(x) /\ x.k \in CallEntry /\ x.k.streams \in [StreamNos -> StreamType]
      /\ x.e \in Entry
  BY GoodOccupied DEF Occupied, CallEntry
<1>2. Kept(x, y, i) /\ y.k # NoCall
  BY WakeSideGood
<1>3. CASE side = "Caller"
  <2> DEFINE f == TakeStreamEntry(x.e, x.k.correlation, s)
  <2>1. y = [x EXCEPT !.e = f,
                      !.wake = @ \cup {<<"Stream", x.k.correlation, s, x.e.streams[s]>>}]
    BY <1>3 DEF WakeSide
  <2>2. f.state = x.e.state /\ f.waker = x.e.waker
        /\ \A r \in StreamNos \ {s} : f.streams[r] = x.e.streams[r]
    BY <1>1 DEF TakeStreamEntry, Entry
  <2> HIDE DEF y, f
  <2>3. y.e = f /\ y.k = x.k /\ y.wake = x.wake \cup {<<"Stream", x.k.correlation, s, x.e.streams[s]>>}
    BY <1>1, <2>1 DEF IsCell
  <2>5. SoundBut(y.e, y.k) /\ (SoundCall(x.e, x.k) => SoundCall(y.e, y.k))
    BY <2>2, <2>3, SoundSlot
  <2>6. Led(x, y, i, by)
    BY <1>2, <2>2, <2>3, <2>5 DEF Led, Kept, Passed, Woken
  <2> QED BY <2>5, <2>6 DEF y
<1>4. CASE side # "Caller"
  <2> DEFINE t == [x.k.streams[s] EXCEPT !.waker = NoWaker]
             more == ClaimStreamWaiters(x.k, {s})
  <2>1. y = [x EXCEPT !.k.streams[s].waker = NoWaker, !.wake = @ \cup more]
    BY <1>4 DEF WakeSide
  <2>3. /\ t \in StreamType /\ t.named /\ t.chunks = x.k.streams[s].chunks
        /\ t.ended = x.k.streams[s].ended /\ t.stopped = x.k.streams[s].stopped
        /\ t.drained = x.k.streams[s].drained
    BY <1>1 DEF StreamType
  <2>4. <<"ClaimStream", x.k.claim, s, x.k.streams[s].waker>> \in more
    BY DEF ClaimStreamWaiters
  <2>5. x.k.streams[s] = Stream(x.k, s)
    BY DEF Stream
  <2> HIDE DEF y, more
  <2>6. y.e = x.e /\ y.wake = x.wake \cup more
        /\ y.k = [x.k EXCEPT !.streams = [@ EXCEPT ![s] = t]]
    BY <1>1, <2>1 DEF IsCell
  <2> HIDE DEF t
  <2>7. /\ y.k.streams = [x.k.streams EXCEPT ![s] = t]
        /\ y.k.parametersReleased = x.k.parametersReleased
        /\ y.k.providerUsedStreams = x.k.providerUsedStreams
        /\ y.k.settledBy = x.k.settledBy /\ y.k.caller = x.k.caller
        /\ y.k.forgotten = x.k.forgotten /\ y.k.pendingForget = x.k.pendingForget
    BY <1>1, <2>6 DEF CallEntry
  <2>8. /\ SoundBut(x.e, y.k)
        /\ Undrained(x.k) => Undrained(y.k)
    <3> DEFINE l == y.k
               k == x.k
               e == x.e
               st == Stream(k, s)
    <3>1. /\ l.streams = [k.streams EXCEPT ![s] = t] /\ l.parametersReleased = k.parametersReleased
          /\ (k.providerUsedStreams => l.providerUsedStreams) /\ l.settledBy = k.settledBy
          /\ Finished(st) => Finished(t)
          /\ SoundBut(e, k) /\ k \in CallEntry /\ t \in StreamType /\ t.named
          /\ (t.drained => st.drained)
      BY <1>1, <2>3, <2>5, <2>7 DEF Finished
    <3>2. e.state # "Settled" /\ ~l.providerUsedStreams =>
            /\ st.stopped # "Provider" => t.stopped # "Provider"
            /\ ~st.drained => ~t.drained
            /\ s = ReplyStream /\ st.chunks = <<>> /\ ~st.ended =>
                  t.chunks = <<>> /\ ~t.ended
      BY <2>3, <2>5
    <3> HIDE DEF l, k, e
    <3>3. SoundBut(e, l) /\ (Undrained(k) => Undrained(l))
      BY <3>1, <3>2, MoveFollows
    <3> QED BY <3>3 DEF l, k, e
  <2>9. Woken(x, y)
    <3>1. ASSUME NEW r \in StreamNos
          PROVE  \/ y.k.streams[r].waker = x.k.streams[r].waker
                 \/ <<"ClaimStream", x.k.claim, r, x.k.streams[r].waker>> \in y.wake
      BY <1>1, <2>4, <2>6, <2>7
    <3> QED BY <1>2, <2>6, <3>1 DEF Woken
  <2>11. SoundCall(x.e, x.k) => SoundCall(y.e, y.k)
    BY <2>6, <2>7, <2>8 DEF SoundCall
  <2> QED BY <1>2, <2>6, <2>7, <2>8, <2>9, <2>11 DEF y, Led, Kept, Passed
<1> QED BY <1>3, <1>4

\* What side may make of stream s of the call k: it stays named and finished,
\* and no caller drains it, stops it for the provider or replies on it while
\* the call in flight is untouched.
Becomes(e, k, s, t, side) ==
    LET st == Stream(k, s)
    IN  /\ t \in StreamType /\ t.named /\ t.waker = st.waker
        /\ Finished(st) => Finished(t)
        /\ e.state # "Settled" /\ side # "Provider" =>
              /\ st.stopped # "Provider" => t.stopped # "Provider"
              /\ ~st.drained => ~t.drained
              /\ s = ReplyStream /\ st.chunks = <<>> /\ ~st.ended => t.chunks = <<>> /\ ~t.ended

\* A side leaves a stream another one, and wakes the other side.
LEMMA BecameLed ==
    ASSUME NEW x, NEW i, Good(x, i), x.k # NoCall, SoundCall(x.e, x.k),
           NEW s \in StreamNos, NEW t, NEW side, Becomes(x.e, x.k, s, t, side), NEW other
    PROVE  LET y == Used(WithStream(x, s, t), side)
               z == WakeSide(y, s, other)
               undone == t.drained => Stream(x.k, s).drained
           IN  /\ Led(x, y, i, side) /\ (undone => SoundCall(y.e, y.k))
               /\ Led(x, z, i, side) /\ (undone => SoundCall(z.e, z.k))
<1> DEFINE y == Used(WithStream(x, s, t), side)
           z == WakeSide(y, s, other)
           undone == t.drained => Stream(x.k, s).drained
<1>1. Led(x, y, i, side) /\ (undone => SoundCall(y.e, y.k)) /\ y.k.streams[s] = t /\ t.named
  BY StreamLed DEF Becomes
<1> HIDE DEF y, undone
<1>2. Led(y, z, i, side) /\ (SoundCall(y.e, y.k) => SoundCall(z.e, z.k))
  BY <1>1, WakeSideLed DEF Led
<1> QED BY <1>1, <1>2, LedTwice DEF y, undone

\* An operation that only names the stream.
LEMMA NamedSteered ==
    ASSUME NEW x, NEW i, Good(x, i), x.k # NoCall, SoundCall(x.e, x.k),
           NEW s \in StreamNos, NEW side
    PROVE  Steered(x, WithStream(x, s, Stream(x.k, s)), side)
<1> DEFINE st == Stream(x.k, s)
           y == WithStream(x, s, st)
<1>2. Becomes(x.e, x.k, s, st, "Caller")
  BY GoodOccupied, StreamAnswered DEF Becomes, Occupied, SoundCall, SoundBut
<1> HIDE DEF st
<1>4. Led(x, Used(y, "Caller"), i, "Caller") /\ SoundCall(Used(y, "Caller").e, Used(y, "Caller").k)
  BY <1>2, BecameLed DEF st
<1>5. Steered(x, y, "Caller")
  BY <1>4, LedSteered DEF Used
<1> QED BY <1>5 DEF Steered, st

\* An operation that is refused.
LEMMA SelfSteered ==
    ASSUME NEW x, x.k # NoCall, SoundCall(x.e, x.k), NEW side
    PROVE  Steered(x, x, side)
  BY MindedSelf DEF Steered

\* A pull.
LEMMA PullCellSteered ==
    ASSUME NEW x, NEW i, Good(x, i), x.k # NoCall, SoundCall(x.e, x.k),
           NEW s \in StreamNos, NEW side \in Sides, Producer(s) # side
    PROVE  Steered(x, PullCell(x, side, s), side)
<1> DEFINE st == Stream(x.k, s)
           t == [st EXCEPT !.chunks = Tail(@)]
           d == [st EXCEPT !.drained = TRUE]
           ended == Used(WithStream(x, s, d), side)
           pulled == WakeSide(Used(WithStream(x, s, t), side), s, Other(side))
<1>1. st \in StreamType /\ st.named
  BY GoodOccupied, StreamAnswered DEF Occupied, SoundCall, SoundBut
<1>2. PullCell(x, side, s) =
         CASE st.chunks # <<>> -> pulled
           [] st.chunks = <<>> /\ Finished(st) /\ side = "Provider" -> ReleaseIfDrained(ended)
           [] OTHER -> WithStream(x, s, st)
  BY DEF PullCell
<1> HIDE DEF st
<1>3. CASE st.chunks # <<>>
  <2>1. /\ t \in StreamType /\ t.named /\ t.waker = st.waker /\ t.ended = st.ended
        /\ t.stopped = st.stopped /\ t.drained = st.drained
    <3> DEFINE q == Tail(st.chunks)
    <3>1. q \in Seq({"empty", "bytes"})
      BY <1>1, <1>3 DEF StreamType
    <3>2. t = [st EXCEPT !.chunks = q]
      OBVIOUS
    <3> HIDE DEF q, t
    <3> QED BY <1>1, <3>1, <3>2 DEF StreamType
  <2> HIDE DEF t
  <2>3. Led(x, pulled, i, side) /\ SoundCall(pulled.e, pulled.k)
    BY <2>1, <1>3, BecameLed DEF st, Becomes, Finished
  <2> QED BY <2>3, <1>2, <1>3, LedSteered
<1>4. CASE st.chunks = <<>> /\ Finished(st) /\ side = "Provider"
  <2>1. /\ d \in StreamType /\ d.named /\ d.waker = st.waker /\ d.ended = st.ended
        /\ d.stopped = st.stopped
    BY <1>1 DEF StreamType
  <2> HIDE DEF d
  <2>2. Becomes(x.e, x.k, s, d, side)
    BY <1>4, <2>1 DEF Becomes, Finished, st
  <2>3. Led(x, ended, i, side)
    BY <2>2, BecameLed
  <2>4. PullCell(x, side, s) = ReleaseIfDrained(ended)
    BY <1>2, <1>4
  <2> HIDE DEF ended
  <2> QED BY <2>3, <2>4, LedSteered
<1>5. CASE ~(st.chunks # <<>>) /\ ~(st.chunks = <<>> /\ Finished(st) /\ side = "Provider")
  <2> QED BY <1>2, <1>5, NamedSteered DEF st
<1> QED BY <1>3, <1>4, <1>5

\* A push.
LEMMA PushCellSteered ==
    ASSUME NEW x, NEW i, Good(x, i), x.k # NoCall, SoundCall(x.e, x.k),
           NEW s \in StreamNos, NEW side \in Sides, Producer(s) = side,
           NEW chunk \in {"bytes", "empty"}
    PROVE  Steered(x, PushCell(x, side, s, chunk), side)
<1> DEFINE st == Stream(x.k, s)
           t == [st EXCEPT !.chunks = Append(@, chunk)]
           pushed == WakeSide(Used(WithStream(x, s, t), side), s, Other(side))
<1>1. st \in StreamType /\ st.named
  BY GoodOccupied, StreamAnswered DEF Occupied, SoundCall, SoundBut
<1>2. PushCell(x, side, s, chunk) \in {x, WithStream(x, s, st), pushed}
  BY DEF PushCell
<1> HIDE DEF st
<1>3. /\ t \in StreamType /\ t.named /\ t.waker = st.waker /\ t.ended = st.ended
      /\ t.stopped = st.stopped /\ t.drained = st.drained
  BY <1>1 DEF StreamType
<1> HIDE DEF t
<1>5. Led(x, pushed, i, side) /\ SoundCall(pushed.e, pushed.k)
  BY <1>3, BecameLed DEF st, Becomes, Finished, Producer, Sides
<1> HIDE DEF pushed
<1>6. Steered(x, pushed, side)
  BY <1>5, LedSteered
<1>7. Steered(x, x, side)
  BY SelfSteered
<1>8. Steered(x, WithStream(x, s, st), side)
  BY NamedSteered DEF st
<1> QED BY <1>2, <1>6, <1>7, <1>8

\* A provider ends the reply stream this way only once the call is settled.
LEMMA EndCellSteered ==
    ASSUME NEW x, NEW i, Good(x, i), x.k # NoCall, SoundCall(x.e, x.k),
           NEW s \in StreamNos, NEW side \in Sides, Producer(s) = side,
           side = "Provider" => x.e.state = "Settled"
    PROVE  Steered(x, EndCell(x, side, s), side)
<1> DEFINE st == Stream(x.k, s)
           t == [st EXCEPT !.ended = TRUE]
           u == WithStream(x, s, t)
           ended == WakeSide(u, s, Other(side))
<1>1. st \in StreamType /\ st.named
  BY GoodOccupied, StreamAnswered DEF Occupied, SoundCall, SoundBut
<1>2. EndCell(x, side, s) \in {x, WithStream(x, s, st), ended}
  BY DEF EndCell
<1> HIDE DEF st
<1>3. /\ t \in StreamType /\ t.named /\ t.waker = st.waker /\ t.ended = TRUE
      /\ t.stopped = st.stopped /\ t.drained = st.drained
  BY <1>1 DEF StreamType
<1> HIDE DEF t
<1> DEFINE z == WakeSide(Used(u, "Caller"), s, Other(side))
<1>6. Led(x, z, i, "Caller") /\ SoundCall(z.e, z.k)
  BY <1>3, BecameLed DEF st, Becomes, Finished, Producer, Sides
<1> HIDE DEF u
<1>7. Led(x, ended, i, "Caller") /\ SoundCall(ended.e, ended.k)
  BY <1>6 DEF Used
<1> HIDE DEF ended
<1>8. Steered(x, ended, side)
  BY <1>7, LedSteered DEF Steered
<1>9. Steered(x, x, side)
  BY SelfSteered
<1>10. Steered(x, WithStream(x, s, st), side)
  BY NamedSteered DEF st
<1> QED BY <1>2, <1>8, <1>9, <1>10

\* An abort by either side.
LEMMA AbortCellSteered ==
    ASSUME NEW x, NEW i, Good(x, i), x.k # NoCall, SoundCall(x.e, x.k),
           NEW s \in StreamNos, NEW side \in Sides
    PROVE  Steered(x, AbortCell(x, side, s), side)
<1> DEFINE st == Stream(x.k, s)
           receiver == Producer(s) # side
           dropped == IF receiver THEN <<>> ELSE st.chunks
           provider == side = "Provider"
           refused == [st EXCEPT !.chunks = dropped, !.drained = @ \/ (receiver /\ provider)]
           stopped == [st EXCEPT !.chunks = dropped, !.drained = @ \/ provider, !.stopped = side]
           a == Used(WithStream(x, s, refused), side)
           b == WakeSide(Used(WithStream(x, s, stopped), side), s, Other(side))
<1>1. st \in StreamType /\ st.named
  BY GoodOccupied, StreamAnswered DEF Occupied, SoundCall, SoundBut
<1>2. AbortCell(x, side, s) =
         IF Finished(st)
         THEN IF receiver THEN IF provider THEN ReleaseIfDrained(a) ELSE a ELSE a
         ELSE IF provider THEN ReleaseIfDrained(b) ELSE b
  BY DEF AbortCell
<1> HIDE DEF st
<1>3. dropped \in Seq({"empty", "bytes"}) /\ (st.chunks = <<>> => dropped = <<>>)
  BY <1>1 DEF StreamType
<1>4. receiver \in BOOLEAN /\ provider \in BOOLEAN
  OBVIOUS
<1> HIDE DEF dropped, receiver
<1>5. /\ refused \in StreamType /\ refused.named /\ refused.waker = st.waker
      /\ refused.ended = st.ended /\ refused.stopped = st.stopped
      /\ refused.drained = (st.drained \/ (receiver /\ provider))
      /\ refused.chunks = dropped
  BY <1>1, <1>3, <1>4 DEF StreamType
<1>6. /\ stopped \in StreamType /\ stopped.named /\ stopped.waker = st.waker
      /\ stopped.ended = st.ended /\ stopped.stopped = side
      /\ stopped.drained = (st.drained \/ provider)
      /\ stopped.chunks = dropped
  BY <1>1, <1>3, <1>4 DEF StreamType, Sides
<1> HIDE DEF refused, stopped
<1>9. Led(x, a, i, side) /\ (~(receiver /\ provider) => SoundCall(a.e, a.k))
  BY <1>5, <1>3, BecameLed DEF st, Becomes, Finished
<1>10. Led(x, b, i, side) /\ (~provider => SoundCall(b.e, b.k))
  BY <1>6, <1>3, BecameLed DEF st, Becomes, Finished, Sides
<1> HIDE DEF a, b, provider
<1>11. Steered(x, ReleaseIfDrained(a), side) /\ (~(receiver /\ provider) => Steered(x, a, side))
  BY <1>9, LedSteered
<1>12. Steered(x, ReleaseIfDrained(b), side) /\ (~provider => Steered(x, b, side))
  BY <1>10, LedSteered
<1> QED BY <1>2, <1>11, <1>12

(***************************************************************************)
(* The streams of the whole store.                                         *)
(***************************************************************************)
\* The registration r of a task on the call k in the slot e has its waker there.
StoredIn(e, k, r) ==
    /\ k # NoCall
    /\ \/ r[1] = "Outcome" /\ k.correlation = r[2] /\ r[3] = 0 /\ e.waker = r[4]
       \/ r[1] = "Stream" /\ k.correlation = r[2] /\ r[3] \in StreamNos /\ e.streams[r[3]] = r[4]
       \/ /\ r[1] = "ClaimStream" /\ k.claim = r[2] /\ k.claim # None
          /\ r[3] \in StreamNos /\ k.streams[r[3]].waker = r[4]
SleepsOn(r) ==
    \/ r[1] = "Slot" /\ r[2] \in Callers /\ r[3] = 0 /\ slotWaker[r[2]] = r[4]
    \/ r[1] = "Claim" /\ r[2] \in Handlers /\ r[3] = 0 /\ claimWaker[r[2]] = r[4]
    \/ \E i \in Slots : StoredIn(slots[i], calls[i], r)
Sleeping == \A r \in asleep : SleepsOn(r)

\* The call k has somebody who gives its slot back.
HeldFor(ca, ha, cl, k) ==
    /\ k.settledBy # None => k.settledBy \in ha
    /\ k.forgotten => OwnerIn(cl, k) # NoOwner \/ k.settledBy # None
    /\ ~k.forgotten => k.caller \in ca
SoundIn(ca, ha, cl, e, k) ==
    /\ SoundCall(e, k)
    /\ HeldFor(ca, ha, cl, k)
    /\ WaitsIn(cl, e, k) => ~k.providerUsedStreams
SoundCalls ==
    \A i \in Slots : calls[i] # NoCall => SoundIn(callers, handlers, claims, slots[i], calls[i])
SInv == SoundCalls /\ Sleeping

\* The fields of a cell.
LEMMA CellFields ==
    ASSUME NEW i
    PROVE  Cell(i).e = slots[i] /\ Cell(i).k = calls[i] /\ Cell(i).wake = {}
  BY DEF Cell

\* The parts of a registration.
LEMMA RegistrationParts ==
    ASSUME NEW r \in Registrations
    PROVE  /\ r = <<r[1], r[2], r[3], r[4]>> /\ r[4] \in Wakers
           /\ r[1] \in {"Outcome", "Stream", "ClaimStream", "Slot", "Claim"}
  BY DEF Registrations

\* A registration whose waker is not woken stays where it is.
LEMMA StoredStays ==
    ASSUME NEW x, NEW y, NEW r \in Registrations, Passed(x, y), StoredIn(x.e, x.k, r),
           r \notin y.wake
    PROVE  StoredIn(y.e, y.k, r)
<1>1. r = <<r[1], r[2], r[3], r[4]>> /\ r[4] \in Wakers
  BY RegistrationParts
<1>2. CASE r[1] = "Outcome" /\ x.k.correlation = r[2] /\ r[3] = 0 /\ x.e.waker = r[4]
  <2>2. y.k # NoCall /\ y.e.waker = x.e.waker
    BY <1>1, <1>2 DEF Passed, Woken
  <2> QED BY <1>2, <2>2 DEF StoredIn, Passed, SameCall
<1>3. CASE r[1] = "Stream" /\ x.k.correlation = r[2] /\ r[3] \in StreamNos
           /\ x.e.streams[r[3]] = r[4]
  <2>2. y.k # NoCall /\ y.e.streams[r[3]] = x.e.streams[r[3]]
    BY <1>1, <1>3 DEF Passed, Woken
  <2> QED BY <1>3, <2>2 DEF StoredIn, Passed, SameCall
<1>4. CASE r[1] = "ClaimStream" /\ x.k.claim = r[2] /\ x.k.claim # None
           /\ r[3] \in StreamNos /\ x.k.streams[r[3]].waker = r[4]
  <2>2. y.k # NoCall /\ y.k.streams[r[3]].waker = x.k.streams[r[3]].waker
    BY <1>1, <1>4 DEF Passed, Woken
  <2> QED BY <1>4, <2>2 DEF StoredIn, Passed, SameCall
<1> QED BY <1>2, <1>3, <1>4 DEF StoredIn

\* Whoever is not woken by what the cells leave behind still has its waker.
LEMMA AppliedSleeping ==
    ASSUME IInv, Sleeping, NEW cells, NEW more, Apply(cells, more),
           \A i \in Slots : calls[i] # NoCall => Passed(Cell(i), cells[i]),
           \A h \in Handlers : \/ claimWaker'[h] = claimWaker[h]
                               \/ <<"Claim", h, 0, claimWaker[h]>> \in more
    PROVE  Sleeping'
<1> DEFINE woken == more \cup UNION {cells[i].wake : i \in Slots}
           freed == \E i \in Slots : cells[i].freed
<1>1. /\ slots' = [i \in Slots |-> cells[i].e] /\ calls' = [i \in Slots |-> cells[i].k]
      /\ slotWaker' = IF freed THEN [k \in Callers |-> NoWaker] ELSE slotWaker
      /\ asleep' = {r \in asleep \ woken : ~(freed /\ r[1] = "Slot")}
  BY DEF Apply
<1>2. more \subseteq woken /\ \A i \in Slots : cells[i].wake \subseteq woken
  OBVIOUS
<1> HIDE DEF woken, freed
<1> SUFFICES ASSUME NEW r \in asleep' PROVE SleepsOn(r)'
  BY DEF Sleeping
<1>3. r \in asleep /\ r \notin woken /\ ~(freed /\ r[1] = "Slot") /\ r \in Registrations
  BY <1>1, TypesNow
<1>6. CASE r[1] = "Slot" /\ r[2] \in Callers /\ r[3] = 0 /\ slotWaker[r[2]] = r[4]
  <2> QED BY <1>6, <1>1, <1>3 DEF SleepsOn
<1>7. CASE r[1] = "Claim" /\ r[2] \in Handlers /\ r[3] = 0 /\ claimWaker[r[2]] = r[4]
  <2>1. r = <<"Claim", r[2], 0, claimWaker[r[2]]>>
    BY <1>3, RegistrationParts, <1>7
  <2> QED BY <1>7, <1>2, <1>3, <2>1 DEF SleepsOn
<1>8. CASE \E i \in Slots : StoredIn(slots[i], calls[i], r)
  <2>1. PICK i \in Slots : StoredIn(slots[i], calls[i], r)
    BY <1>8
  <2> DEFINE x == Cell(i)
             y == cells[i]
  <2>2. x.e = slots[i] /\ x.k = calls[i] /\ calls[i] # NoCall
    BY <2>1, CellFields DEF StoredIn
  <2>3. Passed(x, y) /\ r \notin y.wake
    BY <1>2, <1>3, <2>2
  <2>4. slots'[i] = y.e /\ calls'[i] = y.k
    BY <1>1
  <2> HIDE DEF x, y
  <2>5. StoredIn(y.e, y.k, r)
    BY <1>3, <2>1, <2>2, <2>3, StoredStays
  <2>6. StoredIn(slots'[i], calls'[i], r)
    BY <2>4, <2>5
  <2> QED BY <2>6 DEF SleepsOn
<1> QED BY <1>3, <1>6, <1>7, <1>8 DEF SleepsOn, Sleeping

\* A side's operation on one call, which is no provider's on a waiting call.
LEMMA OneSteered ==
    ASSUME IInv, SInv, NEW i \in Slots, calls[i] # NoCall, NEW x, NEW side,
           Steered(Cell(i), x, side), Kept(Cell(i), x, i), ApplyTo(i, x),
           side = "Provider" => ~WaitsIn(claims, slots[i], calls[i]),
           UNCHANGED <<callers, claims, handlers, claimWaker>>
    PROVE  SInv'
<1> DEFINE cells == [j \in Slots |-> IF j = i THEN x ELSE Cell(j)]
<1>1. Apply(cells, {})
  BY DEF ApplyTo
<1>2. cells[i] = x /\ \A j \in Slots \ {i} : cells[j] = Cell(j)
  OBVIOUS
<1>3. slots' = [j \in Slots |-> cells[j].e] /\ calls' = [j \in Slots |-> cells[j].k]
  BY <1>1 DEF Apply
<1> HIDE DEF cells
<1>4. Sleeping'
  <2>1. ASSUME NEW j \in Slots, calls[j] # NoCall PROVE Passed(Cell(j), cells[j])
    <3>1. CASE j = i
      BY <1>2, <3>1 DEF Steered, Minded
    <3>2. CASE j # i
      BY <1>2, <2>1, <3>2, WokenSelf, CellFields DEF Passed, SameCall
    <3> QED BY <3>1, <3>2
  <2> QED BY <1>1, <2>1, AppliedSleeping DEF SInv
<1>5. ASSUME NEW j \in Slots, calls'[j] # NoCall
      PROVE  SoundIn(callers, handlers, claims, slots'[j], calls'[j])
  <2>1. CASE j = i
    <3>1. slots'[i] = x.e /\ calls'[i] = x.k /\ x.k # NoCall
      BY <1>2, <1>3, <1>5, <2>1
    <3>2. SoundIn(callers, handlers, claims, slots[i], calls[i])
      BY DEF SInv, SoundCalls
    <3>4. /\ x.k.forgotten = calls[i].forgotten /\ x.k.settledBy = calls[i].settledBy
          /\ x.k.caller = calls[i].caller /\ x.k.claim = calls[i].claim
          /\ (side # "Provider" => x.k.providerUsedStreams = calls[i].providerUsedStreams)
          /\ ((x.e.state = "Settled") <=> (slots[i].state = "Settled"))
      BY <3>1, CellFields DEF Steered, Minded, Passed, Kept, SameCall
    <3>5. HeldFor(callers, handlers, claims, x.k)
      BY <3>2, <3>4 DEF SoundIn, HeldFor, OwnerIn
    <3>6. WaitsIn(claims, x.e, x.k) => ~x.k.providerUsedStreams
      BY <3>2, <3>4 DEF SoundIn, WaitsIn, OwnerIn
    <3> QED BY <2>1, <3>1, <3>5, <3>6 DEF SoundIn, Steered, Minded
  <2>2. CASE j # i
    <3> QED BY <1>5, <1>2, <1>3, <2>2, CellFields DEF SInv, SoundCalls
  <2> QED BY <2>1, <2>2
<1>6. SoundCalls'
  BY <1>5 DEF SoundCalls
<1> QED BY <1>4, <1>6 DEF SInv

\* An operation on any of the cells keeps the invariant cell by cell.
LEMMA AppliedSound ==
    ASSUME IInv, SInv, NEW cells, NEW more, Apply(cells, more),
           \A i \in Slots : calls[i] # NoCall => Passed(Cell(i), cells[i]),
           \A i \in Slots : cells[i].k # NoCall =>
              SoundIn(callers', handlers', claims', cells[i].e, cells[i].k),
           \A h \in Handlers : \/ claimWaker'[h] = claimWaker[h]
                               \/ <<"Claim", h, 0, claimWaker[h]>> \in more
    PROVE  SInv'
<1>1. Sleeping'
  BY AppliedSleeping DEF SInv
<1>3. ASSUME NEW i \in Slots, calls'[i] # NoCall
      PROVE  SoundIn(callers', handlers', claims', slots'[i], calls'[i])
  BY <1>3 DEF Apply
<1>4. SoundCalls'
  BY <1>3 DEF SoundCalls
<1> QED BY <1>1, <1>4 DEF SInv

\* What holds of a live call.
LEMMA SoundNow ==
    ASSUME IInv, SInv, NEW i \in Slots, calls[i] # NoCall
    PROVE  /\ SoundIn(callers, handlers, claims, slots[i], calls[i])
           /\ SoundCall(slots[i], calls[i])
           /\ Good(Cell(i), i) /\ Cell(i).e = slots[i] /\ Cell(i).k = calls[i]
           /\ Passed(Cell(i), Cell(i))
<1>2. Good(Cell(i), i) /\ Cell(i).e = slots[i] /\ Cell(i).k = calls[i]
  BY CellGood
<1>3. Passed(Cell(i), Cell(i))
  BY <1>2, WokenSelf DEF Passed, SameCall
<1> QED BY <1>2, <1>3 DEF SoundIn, SInv, SoundCalls

\* A forgotten call has a handler, whoever of the callers is left.
LEMMA ForgottenSound ==
    ASSUME IInv, SInv, NEW i \in Slots, calls[i] # NoCall, NEW ca
    PROVE  LET y == ForgetCell(Cell(i))
           IN  /\ Passed(Cell(i), y)
               /\ y.k # NoCall => SoundIn(ca, handlers, claims, y.e, y.k)
<1> DEFINE x == Cell(i)
           y == ForgetCell(x)
<1>1. /\ SoundIn(callers, handlers, claims, slots[i], calls[i]) /\ SoundCall(slots[i], calls[i])
      /\ Good(x, i) /\ x.e = slots[i] /\ x.k = calls[i]
  BY SoundNow
<1>2. Waiting(calls[i]) <=> WaitsIn(claims, slots[i], calls[i])
  BY WaitingIff
<1>4. /\ Minded(x, y)
      /\ y.k # NoCall => /\ y.k.forgotten /\ y.k.settledBy = x.k.settledBy
                         /\ y.k.providerUsedStreams = x.k.providerUsedStreams
                         /\ \/ x.k.forgotten
                            \/ Claimed(x.k) \/ x.k.settledBy # None
                            \/ ~Withdrawable(x.k) /\ x.e.state # "Settled"
  BY <1>1, <1>2, ForgetCellMinded DEF WaitsIn
<1>5. IF Withdrawable(calls[i]) THEN y.k = NoCall ELSE Kept(x, y, i)
  BY ForgottenCell
<1> HIDE DEF x, y
<1>7. ASSUME y.k # NoCall
      PROVE  SoundIn(ca, handlers, claims, y.e, y.k)
  <2>1. SoundCall(y.e, y.k) /\ SameCall(x.k, y.k)
    BY <1>4, <1>7 DEF Minded, Passed
  <2>2. Kept(x, y, i)
    BY <1>5, <1>7
  <2>3. OwnerIn(claims, y.k) = OwnerIn(claims, calls[i]) /\ OwnerIn(claims, calls[i]) = Owner(calls[i])
    BY <1>1, <2>1 DEF OwnerIn, Owner, SameCall
  <2>4. OwnerIn(claims, calls[i]) # NoOwner \/ calls[i].settledBy # None
    <3>1. CASE calls[i].forgotten
      BY <1>1, <3>1 DEF SoundIn, HeldFor
    <3>2. CASE ~calls[i].forgotten /\ (Claimed(calls[i]) \/ calls[i].settledBy # None)
      BY <2>3, <3>2 DEF Claimed
    <3>3. CASE ~calls[i].forgotten /\ ~Withdrawable(calls[i]) /\ slots[i].state # "Settled"
      <4>1. ~Waiting(calls[i]) \/ Offered(calls[i])
        BY <1>1, GoodOccupied, <3>3 DEF Withdrawable
      <4> QED BY <2>3, <4>1, <1>2, <3>3 DEF Offered, Claimed, WaitsIn
    <3> QED BY <1>1, <1>4, <1>7, <3>1, <3>2, <3>3
  <2>5. HeldFor(ca, handlers, claims, y.k)
    BY <1>1, <1>4, <1>7, <2>3, <2>4 DEF HeldFor, SoundIn
  <2>6. WaitsIn(claims, y.e, y.k) => ~y.k.providerUsedStreams
    BY <1>1, <1>4, <1>7, <2>2, <2>3 DEF WaitsIn, SoundIn, Kept
  <2> QED BY <2>1, <2>5, <2>6 DEF SoundIn
<1> QED BY <1>4, <1>7 DEF Minded, x, y

\* Forget.
LEMMA ForgetSound ==
    ASSUME IInv, SInv, NEW c \in Correlations, Forget(c)
    PROVE  SInv'
<1> DEFINE i == SlotOf(c)
           cells == [j \in Slots |-> IF j = i THEN ForgetCell(Cell(i)) ELSE Cell(j)]
<1>1. /\ i \in Slots /\ calls[i] # NoCall
      /\ ApplyTo(i, ForgetCell(Cell(i)))
      /\ UNCHANGED <<callers, handlers, claims, claimWaker>>
  BY DEF Forget, Known, HasEntry, callerVars, handlerVars
<1>2. Apply(cells, {})
  BY <1>1 DEF ApplyTo
<1>3. cells[i] = ForgetCell(Cell(i)) /\ \A j \in Slots \ {i} : cells[j] = Cell(j)
  BY <1>1
<1> HIDE DEF cells, i
<1>4. ASSUME NEW j \in Slots, calls[j] # NoCall PROVE Passed(Cell(j), cells[j])
  <2>1. CASE j = i
    BY <1>1, <1>3, <2>1, ForgottenSound
  <2>2. CASE j # i
    BY <1>3, <1>4, <2>2, SoundNow
  <2> QED BY <2>1, <2>2
<1>5. ASSUME NEW j \in Slots, cells[j].k # NoCall
      PROVE  SoundIn(callers', handlers', claims', cells[j].e, cells[j].k)
  <2>1. CASE j = i
    BY <1>1, <1>3, <1>5, <2>1, ForgottenSound
  <2>2. CASE j # i
    <3> QED BY <1>1, <1>5, <1>3, <2>2, CellFields, SoundNow
  <2> QED BY <2>1, <2>2
<1> QED BY <1>1, <1>2, <1>4, <1>5, AppliedSound

\* The drop of a caller.
LEMMA CloseCallerSound ==
    ASSUME IInv, SInv, NEW caller \in Callers, CloseCaller(caller)
    PROVE  SInv'
<1> DEFINE sent == {i \in Slots : calls[i] # NoCall /\ calls[i].caller = caller}
           cells == [i \in Slots |-> IF i \in sent THEN ForgetCell(Cell(i)) ELSE Cell(i)]
           more == {<<"Slot", caller, 0, slotWaker[caller]>>}
<1>1. /\ callers' = callers \ {caller} /\ Apply(cells, more)
      /\ UNCHANGED <<handlers, claims, claimWaker>>
  BY DEF CloseCaller, handlerVars
<1>2. /\ \A i \in sent : cells[i] = ForgetCell(Cell(i)) /\ calls[i] # NoCall
      /\ \A i \in Slots \ sent :
            cells[i] = Cell(i) /\ (calls[i] # NoCall => calls[i].caller # caller)
      /\ sent \subseteq Slots
  OBVIOUS
<1> HIDE DEF cells, sent, more
<1>3. ASSUME NEW j \in Slots, calls[j] # NoCall PROVE Passed(Cell(j), cells[j])
  <2>1. CASE j \in sent
    BY <1>2, <2>1, ForgottenSound
  <2>2. CASE j \notin sent
    BY <1>2, <1>3, <2>2, SoundNow
  <2> QED BY <2>1, <2>2
<1>4. ASSUME NEW j \in Slots, cells[j].k # NoCall
      PROVE  SoundIn(callers', handlers', claims', cells[j].e, cells[j].k)
  <2>1. CASE j \in sent
    BY <1>1, <1>2, <1>4, <2>1, ForgottenSound
  <2>2. CASE j \notin sent
    <3>1. cells[j].e = slots[j] /\ cells[j].k = calls[j]
      BY <1>2, <2>2, CellFields
    <3> QED BY <1>1, <3>1, <1>2, <1>4, <2>2, SoundNow DEF SoundIn, HeldFor
  <2> QED BY <2>1, <2>2
<1> QED BY <1>1, <1>3, <1>4, AppliedSound

\* A new call is untouched, and its caller is open.
LEMMA NewCallSound ==
    ASSUME NEW e, e.state = "InFlight", NEW c, NEW caller, NEW kind, NEW member,
           NEW ca, caller \in ca, NEW ha, NEW cl
    PROVE  SoundIn(ca, ha, cl, e, NewCall(c, caller, kind, member))
<1> DEFINE k == NewCall(c, caller, kind, member)
<1>1. /\ \A s \in StreamNos : k.streams[s] = UnnamedStream
      /\ k.forgotten = FALSE /\ k.settledBy = None /\ k.caller = caller
      /\ k.pendingForget = FALSE /\ k.parametersReleased = FALSE
      /\ k.providerUsedStreams = FALSE
  BY DEF NewCall
<1> HIDE DEF k
<1>3. SoundCall(e, k)
  <2>1. /\ UnnamedStream.chunks = <<>> /\ ~UnnamedStream.ended /\ ~UnnamedStream.drained
        /\ UnnamedStream.stopped # "Provider"
    BY DEF UnnamedStream
  <2>2. Untouched(k)
    BY <1>1, LoopbackAssumption, <2>1 DEF Untouched, ReplyStream
  <2> QED BY <1>1, <2>2 DEF SoundCall, SoundBut, Shaped
<1> QED BY <1>1, <1>3 DEF k, SoundIn, HeldFor

\* Send.
LEMMA SendSound ==
    ASSUME IInv, SInv, NEW caller \in Callers, NEW kind \in Kinds, NEW member \in Members,
           Send(caller, kind, member)
    PROVE  SInv'
<1> DEFINE i == Min(FreeSlots)
           c == Correlation(slots[i].generation, i)
           woken == {h \in handlers : Serves(h, member)}
           cell == [Cell(i) EXCEPT !.e = Inserted(@, 0), !.k = NewCall(c, caller, kind, member)]
           cells == [j \in Slots |-> IF j = i THEN cell ELSE Cell(j)]
           more == ClaimWaiters(woken)
<1>1. /\ caller \in callers /\ FreeSlots # {}
      /\ Apply(cells, more)
      /\ claimWaker' = [h \in Handlers |-> IF h \in woken THEN NoWaker ELSE claimWaker[h]]
      /\ UNCHANGED <<callers, handlers, claims>>
  BY DEF Send, callerVars, handlerVars
<1>2. i \in FreeSlots
  <2>1. FreeSlots \in SUBSET Nat
    BY LoopbackAssumption DEF FreeSlots, Slots
  <2> QED BY <1>1, <2>1, MinIsLeast
<1>3. i \in Slots /\ calls[i] = NoCall /\ slots[i] \in Entry
  BY <1>2 DEF FreeSlots, IInv, TypeOK, CellsOK, CellOK
<1>4. \A h \in woken : <<"Claim", h, 0, claimWaker[h]>> \in more
  BY DEF ClaimWaiters
<1>5. cells[i] = cell /\ \A j \in Slots \ {i} : cells[j] = Cell(j)
  BY <1>3
<1>6. cell.e = Inserted(slots[i], 0) /\ cell.k = NewCall(c, caller, kind, member)
  BY DEF Cell
<1>7. cell.e.state = "InFlight"
  BY <1>3, <1>6 DEF Inserted, Entry
<1> HIDE DEF cells, cell, c, i, woken, more
<1>8. ASSUME NEW j \in Slots, calls[j] # NoCall PROVE Passed(Cell(j), cells[j])
  BY <1>3, <1>5, <1>8, SoundNow
<1>9. ASSUME NEW j \in Slots, cells[j].k # NoCall
      PROVE  SoundIn(callers', handlers', claims', cells[j].e, cells[j].k)
  <2>1. CASE j = i
    BY <1>1, <1>5, <1>6, <1>7, <2>1, NewCallSound
  <2>2. CASE j # i
    <3> QED BY <1>1, <1>9, <1>5, <2>2, CellFields, SoundNow
  <2> QED BY <2>1, <2>2
<1>10. ASSUME NEW h \in Handlers
       PROVE  claimWaker'[h] = claimWaker[h] \/ <<"Claim", h, 0, claimWaker[h]>> \in more
  BY <1>1, <1>4
<1> QED BY <1>1, <1>8, <1>9, <1>10, AppliedSound

\* A settled call is its handler's, and its claim is off the record.
LEMMA SettleSound ==
    ASSUME IInv, SInv, NEW h \in Handlers, NEW id \in ClaimIds, NEW outcome \in Outcomes,
           SettleClaim(h, id, outcome), UNCHANGED <<callers, handlers, claimWaker>>
    PROVE  SInv'
<1> DEFINE c == claims[id].call
           i == SlotOf(c)
           x == Cell(i)
           y == SettleCell(x, h, outcome)
           cells == [j \in Slots |-> IF j = i THEN y ELSE Cell(j)]
<1>1. /\ claims[id] \in ClaimOwner /\ claims[id] # NoOwner
      /\ i \in Slots /\ calls[i] # NoCall /\ calls[i].correlation = c
      /\ calls[i].claim = id /\ slots[i].state \in {"InFlight", "Forgotten"}
      /\ claims[id].handler \in handlers
  BY ClaimCall DEF SettleClaim
<1>3. /\ Apply(cells, {}) /\ claims' = [claims EXCEPT ![id] = NoOwner] /\ h \in handlers
  BY <1>1 DEF SettleClaim, ApplyTo, HasEntry
<1>4. /\ SoundIn(callers, handlers, claims, slots[i], calls[i]) /\ SoundCall(slots[i], calls[i])
      /\ Good(x, i) /\ x.e = slots[i] /\ x.k = calls[i]
  BY <1>1, SoundNow
<1>5. cells[i] = y /\ \A j \in Slots \ {i} : cells[j] = Cell(j)
  BY <1>1
<1> HIDE DEF cells, x, c, i
<1>6. /\ Minded(x, y)
      /\ y.k # NoCall => y.k.settledBy = h /\ y.k.forgotten = x.k.forgotten
  BY <1>1, <1>4, SettleCellMinded
<1>7. Answered(x, y, i)
  BY <1>1, <1>4, SettleCellGood
<1> HIDE DEF y
<1>9. ASSUME NEW j \in Slots, calls[j] # NoCall PROVE Passed(Cell(j), cells[j])
  <2>1. CASE j = i
    BY <1>5, <1>6, <2>1 DEF Minded, x
  <2>2. CASE j # i
    BY <1>5, <1>9, <2>2, SoundNow
  <2> QED BY <2>1, <2>2
<1>11. ASSUME NEW j \in Slots, cells[j].k # NoCall
       PROVE  SoundIn(callers', handlers', claims', cells[j].e, cells[j].k)
  <2>1. CASE j = i
    <3>1. y.k # NoCall /\ cells[j] = y
      BY <1>5, <1>11, <2>1
    <3>2. SoundCall(y.e, y.k) /\ y.k.caller = x.k.caller /\ y.e.state = "Settled"
      BY <1>6, <1>7, <3>1 DEF Minded, Passed, Answered
    <3>4. HeldFor(callers', handlers', claims', y.k)
      BY <1>3, <1>4, <1>6, <3>1, <3>2 DEF HeldFor, SoundIn, Handlers, None
    <3> QED BY <3>1, <3>2, <3>4 DEF SoundIn, WaitsIn
  <2>2. CASE j # i
    <3>1. cells[j].e = slots[j] /\ cells[j].k = calls[j]
      BY <1>5, <2>2, CellFields
    <3>3. OwnerIn(claims', calls[j]) = OwnerIn(claims, calls[j])
      <4>1. calls[j].claim # id
        <5> QED BY <1>1, <1>11, <2>2, <3>1, ClaimOnce DEF ClaimIds, None
      <4>2. calls[j].claim \in ClaimIds \cup {None}
        BY <1>11, <3>1, LiveCall
      <4> QED BY <1>3, <4>1, <4>2 DEF OwnerIn, IInv, TypeOK
    <3> QED BY <3>1, <1>11, SoundNow, <3>3 DEF SoundIn, HeldFor, WaitsIn
  <2> QED BY <2>1, <2>2
<1> QED BY <1>3, <1>9, <1>11, AppliedSound

\* The claims left on the record when those of h are dropped.
ClaimsWithout(h) ==
    [id \in ClaimIds |-> IF claims[id] # NoOwner /\ claims[id].handler = h THEN NoOwner
                         ELSE claims[id]]

\* A call a dropped handler had is its caller's again, or has gone.
LEMMA DroppedSound ==
    ASSUME IInv, SInv, NEW h \in Handlers, NEW i \in Slots, calls[i] # NoCall
    PROVE  LET y == CloseHandlerCell(Cell(i), h)
           IN  /\ Passed(Cell(i), y)
               /\ y.k # NoCall =>
                     SoundIn(callers, handlers \ {h}, ClaimsWithout(h), y.e, y.k)
<1> DEFINE x == Cell(i)
           y == CloseHandlerCell(x, h)
           cl == ClaimsWithout(h)
           ha == handlers \ {h}
<1>1. /\ SoundIn(callers, handlers, claims, slots[i], calls[i]) /\ SoundCall(slots[i], calls[i])
      /\ Good(x, i) /\ x.e = slots[i] /\ x.k = calls[i] /\ Passed(x, x)
  BY SoundNow
<1>3. y = CASE x.k # NoCall /\ HeldBy(h, x.k) -> DropHeld(x, h)
            [] x.k # NoCall /\ ~HeldBy(h, x.k) /\ x.k.settledBy = h -> DropSettled(x)
            [] OTHER -> x
  BY DEF CloseHandlerCell
<1> HIDE DEF x, y
<1>4. CASE HeldBy(h, calls[i])
  <2>1. y = DropHeld(x, h)
    BY <1>1, <1>3, <1>4
  <2>2. slots[i].state \in {"InFlight", "Forgotten"}
    BY <1>4, OwnedCall DEF HeldBy, Claimed
  <2>3. /\ Minded(x, y)
        /\ y.k # NoCall =>
             /\ ~x.k.forgotten /\ ~y.k.forgotten /\ y.k.settledBy = None
             /\ \/ Owner(x.k).taken /\ x.k.providerUsedStreams
                \/ y.k.providerUsedStreams = x.k.providerUsedStreams
    BY <1>1, <2>1, <2>2, DropHeldMinded
  <2>4. ~x.k.forgotten /\ Owner(x.k).taken /\ x.k.providerUsedStreams => Answered(x, y, i)
    BY <1>1, <2>1, <2>2, DropHeldGood
  <2>5. ASSUME y.k # NoCall PROVE SoundIn(callers, ha, cl, y.e, y.k)
    <3>1. SoundCall(y.e, y.k) /\ y.k.caller = x.k.caller
      BY <2>3, <2>5 DEF Minded, Passed
    <3>3. ASSUME WaitsIn(cl, y.e, y.k) PROVE ~y.k.providerUsedStreams
      <4>1. CASE Owner(x.k).taken /\ x.k.providerUsedStreams
        <5> QED BY <3>3, <2>3, <2>4, <2>5, <4>1 DEF WaitsIn, Answered
      <4>2. CASE ~(Owner(x.k).taken /\ x.k.providerUsedStreams)
        <5>2. ASSUME ~Owner(x.k).taken PROVE ~x.k.providerUsedStreams
          <6> QED BY <1>1, <2>2, <5>2 DEF SoundIn, WaitsIn, OwnerIn, Owner
        <5> QED BY <4>2, <2>3, <2>5, <5>2
      <4> QED BY <4>1, <4>2
    <3> QED BY <3>1, <1>1, <2>3, <2>5, <3>3 DEF SoundIn, HeldFor
  <2> QED BY <2>3, <2>5 DEF Minded, x, y
<1>5. CASE ~HeldBy(h, calls[i]) /\ calls[i].settledBy = h
  <2>1. y = DropSettled(x)
    BY <1>1, <1>3, <1>5
  <2>2. x.e.state = "Settled"
    <3>1. h # None
      BY DEF Handlers, None
    <3> QED BY <1>1, GoodOccupied, <1>5, <3>1 DEF Occupied
  <2>3. /\ Minded(x, y)
        /\ y.k # NoCall => ~x.k.forgotten /\ ~y.k.forgotten /\ y.k.settledBy = None
    BY <1>1, <2>1, <2>2, DropSettledMinded
  <2>5. ASSUME y.k # NoCall PROVE SoundIn(callers, ha, cl, y.e, y.k)
    <3>1. SoundCall(y.e, y.k) /\ y.k.caller = x.k.caller
      BY <2>3, <2>5 DEF Minded, Passed
    <3>3. y.e.state = "Settled"
      BY <1>1, <2>1, <2>2, DropSettledGood, <2>5 DEF Answered
    <3> QED BY <3>1, <1>1, <2>3, <2>5, <3>3 DEF SoundIn, WaitsIn, HeldFor
  <2> QED BY <2>3, <2>5 DEF Minded, x, y
<1>6. CASE ~HeldBy(h, calls[i]) /\ calls[i].settledBy # h
  <2>2. OwnerIn(cl, calls[i]) = OwnerIn(claims, calls[i])
    <3>2. CASE calls[i].claim = None
      BY <3>2 DEF OwnerIn
    <3>3. CASE calls[i].claim # None
      <4>1. ~(claims[calls[i].claim] # NoOwner /\ claims[calls[i].claim].handler = h)
        BY <1>6, <3>3 DEF HeldBy, Claimed, Owner
      <4>2. cl[calls[i].claim] = claims[calls[i].claim]
        BY LiveCall, <3>3, <4>1 DEF ClaimsWithout
      <4> QED BY <3>3, <4>2 DEF OwnerIn
    <3> QED BY <3>2, <3>3
  <2>3. SoundIn(callers, ha, cl, slots[i], calls[i])
    BY <1>1, <1>6, <2>2 DEF SoundIn, HeldFor, WaitsIn
  <2> QED BY <1>1, <1>3, <1>6, <2>3 DEF x, y
<1> QED BY <1>4, <1>5, <1>6

\* The drop of a handler.
LEMMA CloseHandlerSound ==
    ASSUME IInv, SInv, NEW h \in Handlers, CloseHandler(h)
    PROVE  SInv'
<1> DEFINE woken == ReturnWakes(h, {calls[i] : i \in {j \in Slots : calls[j] # NoCall /\ Returns(h, calls[j])}})
           cells == [i \in Slots |-> CloseHandlerCell(Cell(i), h)]
           more == ClaimWaiters(woken \cup {h})
<1>1. /\ handlers' = handlers \ {h}
      /\ Apply(cells, more)
      /\ claims' = ClaimsWithout(h)
      /\ claimWaker' = [g \in Handlers |-> IF g \in woken \cup {h} THEN NoWaker ELSE claimWaker[g]]
      /\ UNCHANGED callers
  BY DEF CloseHandler, callerVars, ClaimsWithout
<1>2. \A g \in woken \cup {h} : <<"Claim", g, 0, claimWaker[g]>> \in more
  BY DEF ClaimWaiters
<1>3. \A i \in Slots : cells[i] = CloseHandlerCell(Cell(i), h)
  OBVIOUS
<1> HIDE DEF woken, cells, more
<1>4. ASSUME NEW j \in Slots, calls[j] # NoCall PROVE Passed(Cell(j), cells[j])
  BY <1>3, <1>4, DroppedSound
<1>5. ASSUME NEW j \in Slots, cells[j].k # NoCall
      PROVE  SoundIn(callers', handlers', claims', cells[j].e, cells[j].k)
  <2>1. calls[j] # NoCall
    BY <1>3, <1>5, DroppedCell
  <2> QED BY <1>1, <1>3, <1>5, <2>1, DroppedSound
<1>6. ASSUME NEW g \in Handlers
      PROVE  claimWaker'[g] = claimWaker[g] \/ <<"Claim", g, 0, claimWaker[g]>> \in more
  BY <1>1, <1>2
<1> QED BY <1>1, <1>4, <1>5, <1>6, AppliedSound

\* The presented call was waiting, untouched.
LEMMA NextClaimSound ==
    ASSUME IInv, SInv, NEW h \in Handlers, NEW fits \in BOOLEAN, NextClaim(h, fits)
    PROVE  SInv'
<1> DEFINE c == pending[Min(Servable(served[h]))]
           i == SlotOf(c)
           id == IF Mints(i) THEN nextClaim ELSE calls[i].claim
           own == [call |-> c, handler |-> h, taken |-> fits]
           W == WaitingSet(claims, slots, calls)
<1>1. /\ c \in W /\ c \in Correlations
      /\ i \in Slots /\ calls[i] # NoCall /\ calls[i].correlation = c
      /\ Mints(i) => nextClaim \in ClaimIds
      /\ ~Mints(i) => calls[i].claim \in ClaimIds
  BY PresentedCall DEF NextClaim
<1>2. /\ calls' = [calls EXCEPT ![i].claim = id]
      /\ claims' = [claims EXCEPT ![id] = own]
      /\ UNCHANGED <<slots, slotWaker, claimWaker, asleep, handlers, callers>>
  BY DEF NextClaim, handlerVars, callerVars
<1>3. id \in ClaimIds /\ id # None
  BY <1>1 DEF ClaimIds, None
<1>4. /\ calls \in [Slots -> CallEntry \cup {NoCall}] /\ calls[i] \in CallEntry
      /\ claims \in [ClaimIds -> ClaimOwner \cup {NoOwner}]
      /\ nextClaim \in Nat
  BY <1>1, LiveCall, LoopbackAssumption DEF IInv, TypeOK
<1>5. own # NoOwner
  <2>1. own \in ClaimOwner
    BY <1>1 DEF ClaimOwner
  <2> HIDE DEF own
  <2> QED BY <2>1, NoneAssumption
<1>6. WaitsIn(claims, slots[i], calls[i])
  BY <1>1 DEF WaitingSet
<1> HIDE DEF c, own, W
<1>7. \A j \in Slots : calls[j] # NoCall /\ j # i => calls[j].claim # id
  <2> SUFFICES ASSUME NEW j \in Slots, calls[j] # NoCall, j # i, calls[j].claim = id PROVE FALSE
    OBVIOUS
  <2>1. CASE Mints(i)
    <3> QED BY <1>4, <2>1 DEF IInv, Numbered, Live
  <2>2. CASE ~Mints(i)
    BY <1>1, <2>2, ClaimOnce DEF Mints
  <2> QED BY <2>1, <2>2
<1>8. calls[i].claim # None => calls[i].claim = id
  BY DEF Mints
<1> HIDE DEF id, i
<1>9. /\ calls'[i] = [calls[i] EXCEPT !.claim = id]
      /\ \A j \in Slots \ {i} : calls'[j] = calls[j]
  BY <1>1, <1>2, <1>4
<1>10. /\ calls'[i] \in CallEntry /\ calls'[i].claim = id
       /\ calls'[i].correlation = calls[i].correlation /\ calls'[i].streams = calls[i].streams
       /\ calls'[i].forgotten = calls[i].forgotten /\ calls'[i].caller = calls[i].caller
       /\ calls'[i].settledBy = calls[i].settledBy
       /\ calls'[i].pendingForget = calls[i].pendingForget
       /\ calls'[i].parametersReleased = calls[i].parametersReleased
       /\ calls'[i].providerUsedStreams = calls[i].providerUsedStreams
  BY <1>3, <1>4, <1>9 DEF CallEntry
<1>11. claims'[id] = own /\ \A n \in ClaimIds \ {id} : claims'[n] = claims[n]
  BY <1>2, <1>3, <1>4
<1>12. SoundCalls'
  <2> SUFFICES ASSUME NEW j \in Slots, calls'[j] # NoCall
               PROVE  SoundIn(callers', handlers', claims', slots'[j], calls'[j])
    BY DEF SoundCalls
  <2>1. CASE j = i
    <3>1. SoundIn(callers, handlers, claims, slots[i], calls[i])
      BY <1>1, SoundNow
    <3>2. SoundCall(slots[i], calls'[i])
      BY <1>10, <3>1 DEF SoundIn, SoundCall, SoundBut, Shaped, Untouched, Undrained
    <3>4. HeldFor(callers, handlers, claims', calls'[i])
      BY <1>10, <3>1, <1>3, <1>5, <1>11 DEF SoundIn, HeldFor, OwnerIn
    <3>5. ~calls'[i].providerUsedStreams
      BY <1>6, <1>10, <3>1 DEF SoundIn
    <3> QED BY <1>2, <2>1, <3>2, <3>4, <3>5 DEF SoundIn
  <2>2. CASE j # i
    <3>1. calls'[j] = calls[j] /\ calls[j] # NoCall
      BY <1>9, <2>2
    <3>3. OwnerIn(claims', calls[j]) = OwnerIn(claims, calls[j])
      <4> QED BY <1>11, <1>7, <2>2, <3>1, LiveCall DEF OwnerIn
    <3> QED BY <1>2, <3>1, SoundNow, <3>3 DEF SoundIn, HeldFor, WaitsIn
  <2> QED BY <2>1, <2>2
<1>13. Sleeping'
  <2> SUFFICES ASSUME NEW r \in asleep PROVE SleepsOn(r)'
    BY <1>2 DEF Sleeping
  <2>2. CASE ~\E j \in Slots : StoredIn(slots[j], calls[j], r)
    BY <1>2, <2>2 DEF SleepsOn, SInv, Sleeping
  <2>3. CASE \E j \in Slots : StoredIn(slots[j], calls[j], r)
    <3>1. PICK j \in Slots : StoredIn(slots[j], calls[j], r)
      BY <2>3
    <3>2. CASE j = i
      <4>1. calls'[i] # NoCall
        BY <1>10, NoneAssumption
      <4>2. StoredIn(slots[i], calls'[i], r)
        BY <1>8, <1>10, <3>1, <3>2, <4>1 DEF StoredIn
      <4> QED BY <1>1, <1>2, <4>2 DEF SleepsOn
    <3>3. CASE j # i
      BY <1>2, <1>9, <3>1, <3>3 DEF SleepsOn
    <3> QED BY <3>2, <3>3
  <2> QED BY <2>2, <2>3
<1> QED BY <1>12, <1>13 DEF SInv

\* The calls themselves are as they were.
LEMMA SoundStays ==
    ASSUME SInv, UNCHANGED <<slots, calls, claims>>, callers \subseteq callers',
           handlers \subseteq handlers'
    PROVE  SoundCalls'
<1> SUFFICES ASSUME NEW i \in Slots, calls[i] # NoCall
             PROVE  SoundIn(callers', handlers', claims, slots[i], calls[i])
  BY DEF SoundCalls
<1> QED BY DEF SoundIn, HeldFor, SInv, SoundCalls

\* A step that moves no call and no waker.
LEMMA QuietSound ==
    ASSUME SInv, UNCHANGED <<slots, calls, claims, slotWaker, claimWaker, asleep>>,
           callers \subseteq callers', handlers \subseteq handlers'
    PROVE  SInv'
<1>1. SoundCalls'
  BY SoundStays
<1>2. Sleeping'
  BY DEF SInv, Sleeping, SleepsOn
<1> QED BY <1>1, <1>2 DEF SInv

\* A task waits for a slot.
LEMMA WaitSlotSound ==
    ASSUME IInv, SInv, NEW caller \in Callers, NEW task \in Wakers, WaitSlot(caller, task)
    PROVE  SInv'
<1> DEFINE old == <<"Slot", caller, 0, slotWaker[caller]>>
           new == <<"Slot", caller, 0, task>>
           kept == Registered(task, SlotReady)
<1>1. /\ slotWaker' = [slotWaker EXCEPT ![caller] = kept]
      /\ asleep' = (asleep \ {old}) \cup (IF SlotReady THEN {} ELSE {new})
      /\ ~SlotReady => kept = task
      /\ UNCHANGED <<slots, calls, claims, claimWaker, callers, handlers>>
  BY DEF WaitSlot, AsleepOn, Registered, callerVars, handlerVars
<1>2. slotWaker \in [Callers -> Wakers \cup {NoWaker}] /\ asleep \subseteq Registrations
  BY TypesNow
<1>3. slotWaker'[caller] = kept /\ \A k \in Callers \ {caller} : slotWaker'[k] = slotWaker[k]
  BY <1>1, <1>2
<1> HIDE DEF kept
<1>5. ASSUME NEW r \in asleep' PROVE SleepsOn(r)'
  <2>1. CASE ~SlotReady /\ r = new
    <3>1. slotWaker'[caller] = task
      BY <1>1, <1>3, <2>1
    <3> QED BY <2>1, <3>1 DEF SleepsOn
  <2>2. CASE r \in asleep \ {old}
    <3>1. r = <<r[1], r[2], r[3], r[4]>> /\ SleepsOn(r)
      BY <1>2, <2>2, RegistrationParts DEF SInv, Sleeping
    <3>2. CASE r[1] = "Slot" /\ r[2] \in Callers /\ r[3] = 0 /\ slotWaker[r[2]] = r[4]
      <4> QED BY <1>3, <3>2, <2>2, <3>1 DEF SleepsOn
    <3>3. CASE ~(r[1] = "Slot" /\ r[2] \in Callers /\ r[3] = 0 /\ slotWaker[r[2]] = r[4])
      BY <1>1, <3>1, <3>3 DEF SleepsOn
    <3> QED BY <3>2, <3>3
  <2> QED BY <1>1, <2>1, <2>2
<1>6. SoundCalls'
  BY <1>1, SoundStays
<1> QED BY <1>5, <1>6 DEF SInv, Sleeping

\* A task waits for a claim.
LEMMA WaitClaimSound ==
    ASSUME IInv, SInv, NEW h \in Handlers, NEW task \in Wakers, WaitClaim(h, task)
    PROVE  SInv'
<1> DEFINE old == <<"Claim", h, 0, claimWaker[h]>>
           new == <<"Claim", h, 0, task>>
           ready == ClaimWaiting(h)
           kept == Registered(task, ready)
<1>1. /\ claimWaker' = [claimWaker EXCEPT ![h] = kept]
      /\ asleep' = (asleep \ {old}) \cup (IF ready THEN {} ELSE {new})
      /\ ~ready => kept = task
      /\ UNCHANGED <<slots, calls, claims, slotWaker, callers, handlers>>
  BY DEF WaitClaim, AsleepOn, Registered, callerVars, handlerVars
<1>2. claimWaker \in [Handlers -> Wakers \cup {NoWaker}] /\ asleep \subseteq Registrations
  BY TypesNow DEF RestTyped
<1>3. claimWaker'[h] = kept /\ \A k \in Handlers \ {h} : claimWaker'[k] = claimWaker[k]
  BY <1>1, <1>2
<1> HIDE DEF kept, ready
<1>5. ASSUME NEW r \in asleep' PROVE SleepsOn(r)'
  <2>1. CASE ~ready /\ r = new
    <3>1. claimWaker'[h] = task
      BY <1>1, <1>3, <2>1
    <3> QED BY <2>1, <3>1 DEF SleepsOn
  <2>2. CASE r \in asleep \ {old}
    <3>1. r = <<r[1], r[2], r[3], r[4]>> /\ SleepsOn(r)
      BY <1>2, <2>2, RegistrationParts DEF SInv, Sleeping
    <3>2. CASE r[1] = "Claim" /\ r[2] \in Handlers /\ r[3] = 0 /\ claimWaker[r[2]] = r[4]
      <4> QED BY <1>3, <3>2, <2>2, <3>1 DEF SleepsOn
    <3>3. CASE ~(r[1] = "Claim" /\ r[2] \in Handlers /\ r[3] = 0 /\ claimWaker[r[2]] = r[4])
      BY <1>1, <3>1, <3>3 DEF SleepsOn
    <3> QED BY <3>2, <3>3
  <2> QED BY <1>1, <2>1, <2>2
<1>6. SoundCalls'
  BY <1>1, SoundStays
<1> QED BY <1>5, <1>6 DEF SInv, Sleeping

\* Serve.
LEMMA ServeSound ==
    ASSUME IInv, SInv, NEW h \in Handlers, NEW member \in Members, Serve(h, member)
    PROVE  SInv'
<1> DEFINE old == <<"Claim", h, 0, claimWaker[h]>>
<1>1. /\ UNCHANGED <<slots, calls, claims, slotWaker, callers, handlers>>
      /\ \/ claimWaker' = claimWaker /\ asleep' = asleep
         \/ claimWaker' = [claimWaker EXCEPT ![h] = NoWaker] /\ asleep' = asleep \ {old}
  BY DEF Serve, ClaimWaiters, callerVars
<1>2. claimWaker \in [Handlers -> Wakers \cup {NoWaker}] /\ asleep \subseteq Registrations
  BY TypesNow DEF RestTyped
<1>3. CASE claimWaker' = claimWaker /\ asleep' = asleep
  BY <1>1, <1>3, QuietSound
<1>4. CASE claimWaker' = [claimWaker EXCEPT ![h] = NoWaker] /\ asleep' = asleep \ {old}
  <2>2. ASSUME NEW r \in asleep' PROVE SleepsOn(r)'
    <3>1. r = <<r[1], r[2], r[3], r[4]>> /\ SleepsOn(r) /\ r # old
      BY <1>2, <1>4, <2>2, RegistrationParts DEF SInv, Sleeping
    <3>2. CASE r[1] = "Claim" /\ r[2] \in Handlers /\ r[3] = 0 /\ claimWaker[r[2]] = r[4]
      <4>1. r[2] # h
        BY <3>1, <3>2
      <4> QED BY <1>2, <1>4, <3>2, <4>1 DEF SleepsOn
    <3>3. CASE ~(r[1] = "Claim" /\ r[2] \in Handlers /\ r[3] = 0 /\ claimWaker[r[2]] = r[4])
      BY <1>1, <3>1, <3>3 DEF SleepsOn
    <3> QED BY <3>2, <3>3
  <2>3. SoundCalls'
    BY <1>1, SoundStays
  <2> QED BY <2>2, <2>3 DEF SInv, Sleeping
<1> QED BY <1>1, <1>3, <1>4

\* A task registers on one call: what was registered there and is not
\* replaced stays.
LEMMA RegisterSleeping ==
    ASSUME IInv, Sleeping, NEW i \in Slots, NEW gone, NEW more,
           UNCHANGED <<slotWaker, claimWaker>>,
           \A j \in Slots \ {i} : slots'[j] = slots[j] /\ calls'[j] = calls[j],
           asleep' = (asleep \ gone) \cup more,
           \A r \in more : StoredIn(slots'[i], calls'[i], r),
           \A r \in Registrations \ gone :
              StoredIn(slots[i], calls[i], r) => StoredIn(slots'[i], calls'[i], r)
    PROVE  Sleeping'
<1> SUFFICES ASSUME NEW r \in asleep' PROVE SleepsOn(r)'
  BY DEF Sleeping
<1>1. CASE r \in more
  BY <1>1 DEF SleepsOn
<1>2. CASE r \in asleep \ gone
  <2>1. r \in Registrations \ gone /\ SleepsOn(r)
    BY <1>2, TypesNow DEF Sleeping
  <2>2. CASE \E j \in Slots : StoredIn(slots[j], calls[j], r)
    <3>1. PICK j \in Slots : StoredIn(slots[j], calls[j], r)
      BY <2>2
    <3> QED BY <2>1, <3>1 DEF SleepsOn
  <2>3. CASE ~\E j \in Slots : StoredIn(slots[j], calls[j], r)
    BY <2>1, <2>3 DEF SleepsOn
  <2> QED BY <2>2, <2>3
<1> QED BY <1>1, <1>2

\* Nothing but the streams and the wakers of a call changes.
LEMMA OneSound ==
    ASSUME IInv, SInv, NEW i \in Slots, calls[i] # NoCall,
           UNCHANGED <<callers, handlers, claims>>,
           \A j \in Slots \ {i} : slots'[j] = slots[j] /\ calls'[j] = calls[j],
           slots'[i].state = slots[i].state, SoundCall(slots'[i], calls'[i]),
           calls'[i].forgotten = calls[i].forgotten, calls'[i].caller = calls[i].caller,
           calls'[i].settledBy = calls[i].settledBy, calls'[i].claim = calls[i].claim,
           calls'[i].providerUsedStreams = calls[i].providerUsedStreams
    PROVE  SoundCalls'
<1> SUFFICES ASSUME NEW j \in Slots, calls'[j] # NoCall
             PROVE  SoundIn(callers, handlers, claims, slots'[j], calls'[j])
  BY DEF SoundCalls
<1>1. CASE j = i
  <2>1. SoundIn(callers, handlers, claims, slots[i], calls[i])
    BY SoundNow
  <2>3. WaitsIn(claims, slots'[i], calls'[i]) => ~calls'[i].providerUsedStreams
    BY <2>1 DEF SoundIn, WaitsIn, OwnerIn
  <2> QED BY <1>1, <2>1, <2>3 DEF SoundIn, HeldFor, OwnerIn
<1>2. CASE j # i
  BY <1>2 DEF SInv, SoundCalls
<1> QED BY <1>1, <1>2

\* A task waits for an outcome that is still to come.
LEMMA WaitOutcomeSound ==
    ASSUME IInv, SInv, NEW c \in Correlations, NEW task \in Wakers, WaitOutcome(c, task)
    PROVE  SInv'
<1> DEFINE i == SlotOf(c)
           f == [slots[i] EXCEPT !.waker = task]
           gone == {<<"Outcome", c, 0, slots[i].waker>>}
           new == <<"Outcome", c, 0, task>>
<1>1. /\ i \in Slots /\ calls[i] # NoCall /\ calls[i].correlation = c
      /\ slots' = [slots EXCEPT ![i] = f] /\ slots[i].state = "InFlight"
      /\ asleep' = (asleep \ gone) \cup {new}
      /\ UNCHANGED <<calls, callers, slotWaker, claims, handlers, claimWaker>>
  BY DEF WaitOutcome, Known, HasEntry, WakeOnEntry, StoresOutcome, OutcomeWaiter, callerVars,
         handlerVars
<1> HIDE DEF i
<1>3. slots[i] \in Entry /\ SoundCall(slots[i], calls[i])
  BY <1>1, LiveCall, SoundNow
<1>4. f.waker = task /\ f.state = slots[i].state /\ f.streams = slots[i].streams
  BY <1>3 DEF Entry
<1>5. slots'[i] = f /\ \A j \in Slots \ {i} : slots'[j] = slots[j]
  BY <1>1, TypesNow
<1> HIDE DEF f
<1>7. SoundCalls'
  BY <1>1, <1>4, <1>5, <1>3, OneSound DEF SoundCall, SoundBut
<1>8. StoredIn(slots'[i], calls'[i], new)
  BY <1>1, <1>4, <1>5 DEF StoredIn
<1>9. ASSUME NEW r \in Registrations \ gone, StoredIn(slots[i], calls[i], r)
      PROVE  StoredIn(slots'[i], calls'[i], r)
  <2>2. ~(r[1] = "Outcome" /\ calls[i].correlation = r[2] /\ r[3] = 0 /\ slots[i].waker = r[4])
    BY <1>1, <1>9, RegistrationParts
  <2> QED BY <1>1, <1>4, <1>5, <1>9, <2>2 DEF StoredIn
<1> DEFINE more == {new}
<1>10. asleep' = (asleep \ gone) \cup more /\ \A r \in more : StoredIn(slots'[i], calls'[i], r)
  BY <1>1, <1>8
<1> HIDE DEF gone, new, more
<1>11. \A j \in Slots \ {i} : slots'[j] = slots[j] /\ calls'[j] = calls[j]
  BY <1>1, <1>5
<1>12. Sleeping'
  BY <1>1, <1>9, <1>10, <1>11, RegisterSleeping DEF SInv
<1> QED BY <1>7, <1>12 DEF SInv

\* A caller's task waits for a stream.
LEMMA WaitStreamSound ==
    ASSUME IInv, SInv, NEW c \in Correlations, NEW s \in StreamNos, NEW task \in Wakers,
           WaitStream(c, s, task)
    PROVE  SInv'
<1> DEFINE i == SlotOf(c)
           f == [slots[i] EXCEPT !.streams[s] = task]
           gone == {<<"Stream", c, s, slots[i].streams[s]>>}
           new == <<"Stream", c, s, task>>
<1>1. /\ i \in Slots /\ calls[i] # NoCall /\ calls[i].correlation = c
      /\ slots' = [slots EXCEPT ![i] = f]
      /\ asleep' = (asleep \ gone) \cup {new}
      /\ UNCHANGED <<calls, callers, slotWaker, claims, handlers, claimWaker>>
  BY DEF WaitStream, Known, HasEntry, WakeOnStreamEntry, streamRest, callerVars, handlerVars
<1> HIDE DEF i
<1>3. slots[i] \in Entry /\ SoundCall(slots[i], calls[i])
  BY <1>1, LiveCall, SoundNow
<1>4. /\ f.waker = slots[i].waker /\ f.state = slots[i].state
      /\ f.streams[s] = task /\ \A q \in StreamNos \ {s} : f.streams[q] = slots[i].streams[q]
  BY <1>3 DEF Entry
<1>5. slots'[i] = f /\ \A j \in Slots \ {i} : slots'[j] = slots[j]
  BY <1>1, TypesNow
<1> HIDE DEF f
<1>7. SoundCalls'
  BY <1>1, <1>4, <1>5, <1>3, SoundSlot, OneSound
<1>8. StoredIn(slots'[i], calls'[i], new)
  BY <1>1, <1>4, <1>5 DEF StoredIn
<1>9. ASSUME NEW r \in Registrations \ gone, StoredIn(slots[i], calls[i], r)
      PROVE  StoredIn(slots'[i], calls'[i], r)
  <2>2. r[1] = "Stream" => ~(calls[i].correlation = r[2] /\ r[3] = s /\ slots[i].streams[s] = r[4])
    BY <1>1, <1>9, RegistrationParts
  <2> QED BY <1>1, <1>4, <1>5, <1>9, <2>2 DEF StoredIn
<1> DEFINE more == {new}
<1>10. asleep' = (asleep \ gone) \cup more /\ \A r \in more : StoredIn(slots'[i], calls'[i], r)
  BY <1>1, <1>8
<1> HIDE DEF gone, new, more
<1>11. \A j \in Slots \ {i} : slots'[j] = slots[j] /\ calls'[j] = calls[j]
  BY <1>1, <1>5
<1>12. Sleeping'
  <2>1. Sleeping
    BY DEF SInv
  <2> QED BY <1>1, <1>9, <1>10, <1>11, <2>1, RegisterSleeping, SMTT(30)
<1> QED BY <1>7, <1>12 DEF SInv

\* A provider's task waits for a stream; one that is finished keeps no waker.
LEMMA WaitClaimStreamSound ==
    ASSUME IInv, SInv, NEW h \in Handlers, NEW i \in Slots, NEW s \in StreamNos,
           NEW task \in Wakers, WaitClaimStream(h, i, s, task)
    PROVE  SInv'
<1> DEFINE st == Stream(calls[i], s)
           id == calls[i].claim
           t == IF Finished(st) THEN st ELSE [st EXCEPT !.waker = task]
           f == [calls[i].streams EXCEPT ![s] = t]
           l == [calls[i] EXCEPT !.streams = f]
           new == <<"ClaimStream", id, s, task>>
           gone == IF Finished(st) THEN {} ELSE {<<"ClaimStream", id, s, st.waker>>}
           more == IF Finished(st) THEN {} ELSE {new}
<1>1. /\ calls[i] # NoCall /\ id # None /\ ~calls[i].forgotten
      /\ calls' = [calls EXCEPT ![i].streams[s] = t]
      /\ asleep' = (asleep \ gone) \cup more
      /\ UNCHANGED <<slots, callers, slotWaker, claims, handlers, claimWaker>>
  BY DEF WaitClaimStream, HandlerMay, streamRest, callerVars, handlerVars
<1>3. calls[i] \in CallEntry /\ SoundCall(slots[i], calls[i])
  BY <1>1, LiveCall, SoundNow
<1>4. st \in StreamType
  BY <1>3, StreamsTyped
<1>5. st.named /\ st.waker = calls[i].streams[s].waker
  BY <1>3, StreamAnswered DEF SoundCall, SoundBut
<1>7. /\ t \in StreamType /\ t.named /\ (Finished(st) => Finished(t))
      /\ t.stopped = st.stopped /\ t.drained = st.drained /\ t.chunks = st.chunks
      /\ t.ended = st.ended /\ t.waker = (IF Finished(st) THEN st.waker ELSE task)
  <2> HIDE DEF st
  <2> QED BY <1>4, <1>5 DEF StreamType, Wakers, Finished
<1> HIDE DEF t
<1>8. /\ l.streams = f /\ l.streams[s] = t
      /\ \A q \in StreamNos \ {s} : l.streams[q] = calls[i].streams[q]
      /\ l.forgotten = calls[i].forgotten /\ l.caller = calls[i].caller
      /\ l.settledBy = calls[i].settledBy /\ l.claim = calls[i].claim
      /\ l.correlation = calls[i].correlation /\ l.pendingForget = calls[i].pendingForget
      /\ l.providerUsedStreams = calls[i].providerUsedStreams
      /\ l.parametersReleased = calls[i].parametersReleased
  BY <1>3 DEF CallEntry
<1>9. l # NoCall
  <2>1. l \in CallEntry
    BY <1>3, <1>7 DEF CallEntry
  <2> HIDE DEF l
  <2> QED BY <2>1, NoneAssumption
<1>10. calls'[i] = l /\ \A j \in Slots \ {i} : calls'[j] = calls[j]
  BY <1>1, TypesNow
<1> HIDE DEF l, f
<1>12. SoundCall(slots[i], l)
  <2>1. SoundBut(slots[i], l)
    <3> QED BY <1>3, <1>7, <1>8, MoveFollows DEF SoundCall, f
  <2> QED BY <1>8, <1>1, CellGood, GoodOccupied, <2>1 DEF SoundCall
<1>13. SoundCalls'
  BY <1>1, <1>8, <1>10, <1>12, OneSound
<1>14. ASSUME NEW r \in more PROVE StoredIn(slots'[i], calls'[i], r)
  <2>1. r = new /\ ~Finished(st)
    BY <1>14
  <2> QED BY <1>1, <1>7, <1>8, <1>9, <1>10, <2>1 DEF StoredIn
<1>15. ASSUME NEW r \in Registrations \ gone, StoredIn(slots[i], calls[i], r)
       PROVE  StoredIn(slots'[i], calls'[i], r)
  <2>2. CASE r[1] = "ClaimStream" /\ r[2] = id /\ r[3] = s
    <3>1. r[4] = st.waker
      BY <1>5, <1>15, <2>2 DEF StoredIn
    <3>2. Finished(st)
      BY <1>15, RegistrationParts, <2>2, <3>1
    <3> QED BY <1>1, <1>7, <1>8, <1>9, <1>10, <2>2, <3>1, <3>2, ZenonT(30) DEF StoredIn
  <2>3. CASE ~(r[1] = "ClaimStream" /\ r[2] = id /\ r[3] = s)
    BY <1>1, <1>8, <1>9, <1>10, <1>15, <2>3 DEF StoredIn
  <2> QED BY <2>2, <2>3
<1> HIDE DEF gone, more
<1>16. Sleeping'
  BY <1>1, <1>10, <1>14, <1>15, RegisterSleeping DEF SInv
<1> QED BY <1>13, <1>16 DEF SInv

\* The handler a call is addressed by has taken it, or settled it.
LEMMA HolderTook ==
    ASSUME IInv, NEW h \in Handlers, NEW i \in Slots, HandlerMay(h, i)
    PROVE  /\ calls[i] # NoCall
           /\ ~WaitsIn(claims, slots[i], calls[i])
           /\ ~Claimed(calls[i]) => slots[i].state = "Settled"
<1>1. calls[i] # NoCall /\ Holder(calls[i]) = h /\ h # None
  BY TypesNow DEF HandlerMay, Handlers, None
<1>2. CASE Claimed(calls[i]) /\ Owner(calls[i]).taken
  BY <1>1, <1>2 DEF WaitsIn, OwnerIn, Claimed, Owner
<1>3. CASE Claimed(calls[i]) /\ ~Owner(calls[i]).taken
  BY <1>1, <1>3 DEF Holder
<1>4. CASE ~Claimed(calls[i])
  <2>2. slots[i].state = "Settled"
    BY <1>1, <1>4, CellGood, GoodOccupied DEF Occupied, Holder
  <2> QED BY <1>1, <2>2 DEF WaitsIn
<1> QED BY <1>2, <1>3, <1>4

\* What a provider may address is no waiting call.
LEMMA MayTook ==
    ASSUME IInv, NEW side, NEW i \in Slots, May(side, i)
    PROVE  /\ calls[i] # NoCall
           /\ side = "Provider" => ~WaitsIn(claims, slots[i], calls[i])
<1>1. CASE side = "Caller"
  BY <1>1 DEF May, CallerMay
<1>2. CASE side # "Caller"
  <2>1. PICK h \in handlers : HandlerMay(h, i)
    BY <1>2 DEF May
  <2> QED BY <2>1, TypesNow, HolderTook DEF IInv, TypeOK
<1> QED BY <1>1, <1>2

\* An operation on a stream leaves the handles and the claims alone.
LEMMA RestOfStreams ==
    ASSUME UNCHANGED streamRest
    PROVE  UNCHANGED <<callers, claims, handlers, claimWaker>>
  BY DEF streamRest, callerVars, handlerVars

\* A pull by either side.
LEMMA PullSound ==
    ASSUME IInv, SInv, NEW side \in Sides, NEW i \in Slots, NEW s \in StreamNos, Pull(side, i, s)
    PROVE  SInv'
<1> DEFINE x == Cell(i)
           y == PullCell(x, side, s)
<1>1. /\ calls[i] # NoCall /\ (side = "Provider" => ~WaitsIn(claims, slots[i], calls[i]))
      /\ Producer(s) # side
  BY MayTook DEF Pull
<1>2. Good(x, i) /\ x.k # NoCall /\ SoundCall(x.e, x.k)
  BY <1>1, SoundNow
<1>3. ApplyTo(i, y) /\ UNCHANGED streamRest
  BY DEF Pull
<1> HIDE DEF x
<1>4. Kept(x, y, i) /\ Steered(x, y, side)
  BY <1>1, <1>2, PullCellGood, PullCellSteered
<1> HIDE DEF y
<1> QED BY <1>1, <1>3, <1>4, RestOfStreams, OneSteered DEF x

\* A push by either side.
LEMMA PushSound ==
    ASSUME IInv, SInv, NEW side \in Sides, NEW i \in Slots, NEW s \in StreamNos,
           NEW chunk \in {"bytes", "empty"}, Push(side, i, s, chunk)
    PROVE  SInv'
<1> DEFINE x == Cell(i)
           y == PushCell(x, side, s, chunk)
<1>1. /\ calls[i] # NoCall /\ (side = "Provider" => ~WaitsIn(claims, slots[i], calls[i]))
      /\ Producer(s) = side
  BY MayTook DEF Push
<1>2. Good(x, i) /\ x.k # NoCall /\ SoundCall(x.e, x.k)
  BY <1>1, SoundNow
<1>3. ApplyTo(i, y) /\ UNCHANGED streamRest
  BY DEF Push
<1> HIDE DEF x
<1>4. Kept(x, y, i) /\ Steered(x, y, side)
  BY <1>1, <1>2, PushCellGood, PushCellSteered
<1> HIDE DEF y
<1> QED BY <1>1, <1>3, <1>4, RestOfStreams, OneSteered DEF x

\* The end of a stream that settles nothing.
LEMMA EndSound ==
    ASSUME IInv, SInv, NEW i \in Slots, NEW s \in StreamNos, NEW side \in Sides,
           calls[i] # NoCall, Producer(s) = side,
           side = "Provider" =>
              ~WaitsIn(claims, slots[i], calls[i]) /\ slots[i].state = "Settled",
           ApplyTo(i, EndCell(Cell(i), side, s)), UNCHANGED streamRest
    PROVE  SInv'
<1> DEFINE x == Cell(i)
           y == EndCell(x, side, s)
<1>1. /\ Good(x, i) /\ x.k # NoCall /\ SoundCall(x.e, x.k)
      /\ side = "Provider" => x.e.state = "Settled"
  BY SoundNow
<1>2. ApplyTo(i, y)
  OBVIOUS
<1> HIDE DEF x
<1>3. Kept(x, y, i) /\ Steered(x, y, side)
  BY <1>1, EndCellGood, EndCellSteered
<1> HIDE DEF y
<1> QED BY <1>2, <1>3, RestOfStreams, OneSteered DEF x

\* The abort of a stream that settles nothing.
LEMMA AbortSound ==
    ASSUME IInv, SInv, NEW i \in Slots, NEW s \in StreamNos, NEW side \in Sides,
           calls[i] # NoCall, side = "Provider" => ~WaitsIn(claims, slots[i], calls[i]),
           ApplyTo(i, AbortCell(Cell(i), side, s)), UNCHANGED streamRest
    PROVE  SInv'
<1> DEFINE x == Cell(i)
           y == AbortCell(x, side, s)
<1>1. Good(x, i) /\ x.k # NoCall /\ SoundCall(x.e, x.k)
  BY SoundNow
<1>2. ApplyTo(i, y)
  OBVIOUS
<1> HIDE DEF x
<1>3. Kept(x, y, i) /\ Steered(x, y, side)
  BY <1>1, AbortCellGood, AbortCellSteered
<1> HIDE DEF y
<1> QED BY <1>2, <1>3, RestOfStreams, OneSteered DEF x

\* A caller ends or aborts a stream.
LEMMA CallerEndSound ==
    ASSUME IInv, SInv, NEW i \in Slots, NEW s \in StreamNos, CallerEnd(i, s) \/ CallerAbort(i, s)
    PROVE  SInv'
<1>2. \/ /\ Producer(s) = "Caller"
         /\ ApplyTo(i, EndCell(Cell(i), "Caller", s)) /\ UNCHANGED streamRest
      \/ ApplyTo(i, AbortCell(Cell(i), "Caller", s)) /\ UNCHANGED streamRest
  BY DEF CallerEnd, CallerAbort
<1>3. "Caller" \in Sides
  BY DEF Sides
<1> QED BY <1>2, <1>3, EndSound, AbortSound DEF CallerEnd, CallerAbort, CallerMay

\* A claim's end or abort: on the reply stream of a claim still held it is its
\* settlement, on the reply stream otherwise the call is settled already.
LEMMA EndClaimSound ==
    ASSUME IInv, SInv, NEW h \in Handlers, NEW i \in Slots, NEW s \in StreamNos,
           EndClaim(h, i, s) \/ AbortClaim(h, i, s)
    PROVE  SInv'
<1>1. /\ calls[i] # NoCall /\ ~WaitsIn(claims, slots[i], calls[i])
      /\ ~Claimed(calls[i]) => slots[i].state = "Settled"
  BY HolderTook DEF EndClaim, AbortClaim
<1>2. {"Ok", "Err"} \subseteq Outcomes /\ "Provider" \in Sides
  BY LoopbackAssumption DEF Sides
<1>3. CASE s = ReplyStream /\ Claimed(calls[i])
  <2>1. calls[i].claim \in ClaimIds
    BY <1>1, <1>3, OwnedCall DEF Claimed
  <2>3. PICK outcome \in {"Ok", "Err"} : SettleClaim(h, calls[i].claim, outcome)
    BY <1>3 DEF EndClaim, AbortClaim, EndOutcome
  <2> QED BY <1>2, <2>1, <2>3, SettleSound DEF SettleClaim, callerVars, handlerVars
<1>4. CASE ~(s = ReplyStream /\ Claimed(calls[i]))
  <2>3. Producer(s) = "Provider" => slots[i].state = "Settled"
    BY <1>1, <1>4 DEF Producer
  <2> QED BY <1>1, <1>2, <1>4, <2>3, EndSound, AbortSound DEF EndClaim, AbortClaim
<1> QED BY <1>3, <1>4

\* The injected failure of a claim's end names the reply stream.
LEMMA EndClaimFailsSound ==
    ASSUME IInv, SInv, NEW h \in Handlers, NEW i \in Slots, EndClaimFails(h, i)
    PROVE  SInv'
<1> DEFINE x == Cell(i)
           st == Stream(x.k, ReplyStream)
           y == WithStream(x, ReplyStream, st)
<1>1. calls[i] # NoCall
  BY DEF EndClaimFails, HandlerMay
<1>2. Good(x, i) /\ x.k # NoCall /\ SoundCall(x.e, x.k) /\ x.k = calls[i]
  BY <1>1, SoundNow
<1>3. ApplyTo(i, y) /\ UNCHANGED <<callers, claims, handlers, claimWaker>>
  BY <1>2 DEF EndClaimFails, callerVars, handlerVars
<1>4. ReplyStream \in StreamNos
  BY LoopbackAssumption DEF ReplyStream
<1>5. st \in StreamType
  BY <1>1, <1>2, <1>4, LiveCall, StreamsTyped
<1> HIDE DEF x
<1>6. Steered(x, y, "Caller")
  BY <1>2, <1>4, NamedSteered
<1> HIDE DEF st
<1>7. Kept(x, y, i)
  BY <1>2, <1>4, <1>5, WithStreamGood
<1> HIDE DEF y
<1>8. "Caller" # "Provider"
  OBVIOUS
<1> QED BY <1>1, <1>3, <1>6, <1>7, <1>8, OneSteered DEF x

\* An empty store has no call and nobody asleep.
LEMMA InitSound == Init => SInv
<1> SUFFICES ASSUME Init PROVE SInv
  OBVIOUS
<1> QED BY DEF SInv, SoundCalls, Sleeping, Init

\* Every operation of the store keeps it.
LEMMA CallsNextSound == IInv /\ SInv /\ Next => SInv'
<1> SUFFICES ASSUME IInv, SInv, Next PROVE SInv'
  OBVIOUS
<1>1. CASE OpenCaller \/ OpenHandler \/ FailNextSettle
  <2> QED BY <1>1, QuietSound DEF OpenCaller, OpenHandler, FailNextSettle, callerVars, handlerVars
<1>2. ASSUME NEW caller \in Callers,
             \/ \E kind \in Kinds, member \in Members : Send(caller, kind, member)
             \/ CloseCaller(caller)
             \/ \E task \in Wakers : WaitSlot(caller, task)
      PROVE  SInv'
  BY <1>2, SendSound, CloseCallerSound, WaitSlotSound
<1>3. ASSUME NEW c \in Correlations,
             Forget(c) \/ \E task \in Wakers : WaitOutcome(c, task)
      PROVE  SInv'
  BY <1>3, ForgetSound, WaitOutcomeSound
<1>4. ASSUME NEW h \in Handlers,
             \/ \E member \in Members : Serve(h, member)
             \/ \E fits \in BOOLEAN : NextClaim(h, fits)
             \/ CloseHandler(h)
             \/ \E task \in Wakers : WaitClaim(h, task)
      PROVE  SInv'
  BY <1>4, ServeSound, NextClaimSound, CloseHandlerSound, WaitClaimSound
<1>5. ASSUME NEW h \in Handlers, NEW id \in ClaimIds, NEW outcome \in {"Ok", "Err"},
             Settle(h, id, outcome)
      PROVE  SInv'
  <2>1. SettleClaim(h, id, outcome) /\ UNCHANGED <<callers, handlers, claimWaker>>
    BY <1>5 DEF Settle, SettleClaim, callerVars, handlerVars
  <2> QED BY LoopbackAssumption, <2>1, SettleSound
<1>6. ASSUME NEW h \in Handlers, NEW id \in ClaimIds, SettleFails(h, id)
      PROVE  SInv'
  <2> QED BY <1>6, QuietSound DEF SettleFails, callerVars, handlerVars
<1> QED BY <1>1, <1>2, <1>3, <1>4, <1>5, <1>6 DEF Next

\* And every operation on a call's streams.
LEMMA StreamsNextSound == IInv /\ SInv /\ NextStream => SInv'
<1> SUFFICES ASSUME IInv, SInv, NextStream PROVE SInv'
  OBVIOUS
<1>1. ASSUME NEW side \in Sides, NEW i \in Slots, NEW s \in StreamNos,
             Pull(side, i, s) \/ \E chunk \in {"bytes", "empty"} : Push(side, i, s, chunk)
      PROVE  SInv'
  BY <1>1, PullSound, PushSound
<1>2. ASSUME NEW i \in Slots, NEW s \in StreamNos, CallerEnd(i, s) \/ CallerAbort(i, s)
      PROVE  SInv'
  BY <1>2, CallerEndSound
<1>3. ASSUME NEW i \in Slots, NEW s \in StreamNos, NEW h \in Handlers,
             \/ EndClaim(h, i, s)
             \/ AbortClaim(h, i, s)
             \/ \E task \in Wakers : WaitClaimStream(h, i, s, task)
      PROVE  SInv'
  BY <1>3, EndClaimSound, WaitClaimStreamSound
<1>4. ASSUME NEW h \in Handlers, NEW i \in Slots, EndClaimFails(h, i)
      PROVE  SInv'
  BY <1>4, EndClaimFailsSound
<1>5. ASSUME NEW c \in Correlations, NEW s \in StreamNos, NEW task \in Wakers,
             WaitStream(c, s, task)
      PROVE  SInv'
  BY <1>5, WaitStreamSound
<1> QED BY <1>1, <1>2, <1>3, <1>4, <1>5 DEF NextStream

\* A step of neither changes nothing of it.
LEMMA StutterSound == SInv /\ UNCHANGED vars => SInv'
<1> SUFFICES ASSUME SInv, UNCHANGED vars PROVE SInv'
  OBVIOUS
<1> QED BY QuietSound DEF vars

\* A registration that sleeps on its waker has it stored.
LEMMA SleepsStored ==
    ASSUME IInv, NEW r, SleepsOn(r)
    PROVE  Stored(r)
<1>1. CASE r[1] = "Slot" /\ slotWaker[r[2]] = r[4]
  BY <1>1 DEF Stored
<1>2. CASE r[1] = "Claim" /\ claimWaker[r[2]] = r[4]
  BY <1>2 DEF Stored
<1>3. CASE \E i \in Slots : StoredIn(slots[i], calls[i], r)
  <2>1. PICK i \in Slots : StoredIn(slots[i], calls[i], r)
    BY <1>3
  <2>2. calls[i] # NoCall
    BY <2>1 DEF StoredIn
  <2>4. calls[i].correlation = r[2] => Known(r[2]) /\ SlotOf(r[2]) = i
    BY <2>2, LiveCall DEF Known, HasEntry
  <2>5. CASE r[1] = "Outcome" /\ calls[i].correlation = r[2] /\ slots[i].waker = r[4]
    BY <2>4, <2>5 DEF Stored
  <2>6. CASE /\ r[1] = "Stream" /\ calls[i].correlation = r[2]
             /\ slots[i].streams[r[3]] = r[4]
    BY <2>4, <2>6 DEF Stored
  <2>7. CASE /\ r[1] = "ClaimStream" /\ calls[i].claim = r[2]
             /\ calls[i].streams[r[3]].waker = r[4]
    BY <2>2, <2>7 DEF Stored
  <2> QED BY <2>1, <2>5, <2>6, <2>7 DEF StoredIn
<1> QED BY <1>1, <1>2, <1>3 DEF SleepsOn

\* The streams keep to the life of their call wherever the invariant holds.
LEMMA InvStreamsConsistent == IInv /\ SInv => StreamsConsistent
<1> SUFFICES ASSUME IInv, SInv PROVE StreamsConsistent
  OBVIOUS
<1>0. ReplyStream \in StreamNos
  BY LoopbackAssumption DEF ReplyStream
<1>1. NoSlotLost
  <2> SUFFICES ASSUME NEW i \in Slots, calls[i] # NoCall
               PROVE  \/ ~calls[i].forgotten /\ calls[i].caller \in callers
                      \/ calls[i].forgotten /\ (Claimed(calls[i]) \/ calls[i].settledBy \in handlers)
    BY DEF NoSlotLost
  <2> QED BY SoundNow DEF SoundIn, HeldFor, OwnerIn, Claimed, Owner
<1>2. WaitingStreamsUntouched
  <2> SUFFICES ASSUME NEW i \in Slots, calls[i] # NoCall, Waiting(calls[i])
               PROVE  Untouched(calls[i])
    BY DEF WaitingStreamsUntouched, Untouched
  <2> QED BY WaitingIff, SoundNow DEF SoundIn, SoundCall, SoundBut, WaitsIn
<1>3. DeferredWhileUnread
  BY SoundNow DEF DeferredWhileUnread, SoundCall
<1>4. NoStreamWithoutReader
  <2> SUFFICES ASSUME NEW i \in Slots, calls[i] # NoCall, slots[i].state = "Settled"
               PROVE  /\ Finished(Stream(calls[i], ReplyStream))
                      /\ calls[i].settledBy \notin handlers =>
                            \A s \in StreamNos : Finished(Stream(calls[i], s))
    BY DEF NoStreamWithoutReader
  <2> DEFINE k == calls[i]
  <2>1. SoundBut(slots[i], k) /\ (k.settledBy # None => k.settledBy \in handlers)
    BY SoundNow DEF SoundIn, SoundCall, HeldFor
  <2>2. k \in CallEntry
    BY LiveCall
  <2> HIDE DEF k
  <2>3. Shaped(k) /\ (k.settledBy = None => k.parametersReleased)
    BY <2>1 DEF SoundBut
  <2>4. Finished(Stream(k, ReplyStream))
    <3>1. k.streams[ReplyStream].named /\ Finished(k.streams[ReplyStream])
      BY <2>1 DEF SoundBut
    <3> QED BY <3>1 DEF Stream
  <2>5. ASSUME k.settledBy \notin handlers, NEW s \in StreamNos
        PROVE  Finished(Stream(k, s))
    <3>1. CASE s = ReplyStream
      BY <2>4, <3>1
    <3>2. CASE s # ReplyStream
      BY <2>1, <2>2, <2>3, <2>5, <3>2, StreamAnswered
    <3> QED BY <3>1, <3>2
  <2> QED BY <2>4, <2>5 DEF k
<1>5. NoLostWaker
  BY SleepsStored DEF NoLostWaker, SInv, Sleeping
<1> QED BY <1>1, <1>2, <1>3, <1>4, <1>5 DEF StreamsConsistent

\* The streams of a call keep to the life of the call, whoever of caller and
\* handlers forgets, settles, aborts or is dropped first: no slot is held for
\* nobody, no half-moved call is presented again, no forget is deferred for
\* nothing, no stream is open without a reader and no waker of a sleeping task
\* is dropped (crates/ridl-loopback/src/store.rs).
THEOREM StreamsStayConsistent == StreamsSpec => []StreamsConsistent
<1>1. Init => IInv /\ SInv
  BY InitInv, InitSound
<1>2. IInv /\ SInv /\ [StreamsNext]_vars => (IInv /\ SInv)'
  <2> SUFFICES ASSUME IInv, SInv, [StreamsNext]_vars PROVE IInv' /\ SInv'
    OBVIOUS
  <2>1. CASE Next
    BY <2>1, CallsNextInv, CallsNextSound
  <2>2. CASE NextStream
    BY <2>2, StreamsNextInv, StreamsNextSound
  <2>3. CASE UNCHANGED vars
    BY <2>3, StutterInv, StutterSound
  <2> QED BY <2>1, <2>2, <2>3 DEF StreamsNext
<1>3. IInv /\ SInv => StreamsConsistent
  BY InvStreamsConsistent
<1> QED BY <1>1, <1>2, <1>3, PTL DEF StreamsSpec
==============================================================================
