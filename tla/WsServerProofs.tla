--------------------------- MODULE WsServerProofs ---------------------------
(***************************************************************************)
(* The calls of one connection, for every client, every provider and every *)
(* value of the bounds: first of the server session, against a client that *)
(* may send anything; then of the two ends together, the session and the   *)
(* TypeScript client, over a connection that may be lost.                  *)
(*                                                                         *)
(* A step of the session is about one request: `Touches` says what such a  *)
(* step may do to the calls, to the kept responses and to the client, one  *)
(* lemma per handler shows that it does no more, and the invariant and the *)
(* action properties follow from that.  For the two ends, `Counted` says   *)
(* that their accounts of a stream agree through what is under way;        *)
(* `Moved` is what a step of the client and `Served` what a step of the    *)
(* session may do to the accounts, and every step is one or the other.     *)
(***************************************************************************)
EXTENDS WsServerSession, WsCalls, SequenceTheorems, FiniteSetTheorems,
        WellFoundedInduction, TLAPS

-----------------------------------------------------------------------------
(* Sequences. *)

\* A set of numbers that is not empty has a least one.
LEMMA LeastNumber ==
  ASSUME NEW S \in SUBSET Nat, S # {}
  PROVE  \E n \in S : \A m \in S : n <= m
<1> DEFINE R == OpToRel(<, Nat)
<1>1. IsWellFoundedOn(R, Nat)
  BY NatLessThanWellFounded
<1>2. PICK x \in S : \A y \in S : ~(<<y, x>> \in R)
  <2> HIDE DEF R
  <2> QED BY <1>1, WFMin, Zenon
<1>3. \A y \in S : ~(y < x)
  BY <1>2 DEF OpToRel
<1> QED BY <1>3

\* Every element of t is one of the sequences of ss, in their order.
Places(ss) == {a \in Nat \X Nat : a[1] \in DOMAIN ss /\ a[2] \in DOMAIN ss[a[1]]}
Before(a, b) == a[1] < b[1] \/ (a[1] = b[1] /\ a[2] < b[2])
InPlaces(t, ss, at) ==
  /\ at \in [DOMAIN t -> Places(ss)]
  /\ \A i \in DOMAIN t : t[i] = ss[at[i][1]][at[i][2]]
  /\ \A i, j \in DOMAIN t : i < j => Before(at[i], at[j])

Prefix(ss, f, n) ==
  f = [i \in 1..n |-> IF i = 1 THEN ss[i] ELSE f[i - 1] \o ss[i]]

\* The concatenations of the leading sequences.
LEMMA PrefixExists ==
  ASSUME NEW ss, NEW n \in Nat
  PROVE  \E f : Prefix(ss, f, n)
<1> DEFINE Bad == {m \in Nat : ~\E f : Prefix(ss, f, m)}
<1> SUFFICES ASSUME Bad # {} PROVE FALSE
  OBVIOUS
<1>1. PICK m \in Bad : \A k \in Bad : m <= k
  BY LeastNumber
<1>2. CASE m = 0
  <2>1. Prefix(ss, [i \in 1..0 |-> <<>>], 0)
    BY DEF Prefix
  <2> QED BY <1>1, <1>2, <2>1
<1>3. CASE m # 0
  <2>1. m \in Nat /\ m - 1 \in Nat /\ ~(m <= m - 1)
    BY <1>3
  <2>2. PICK g : Prefix(ss, g, m - 1)
    BY <1>1, <2>1
  <2> DEFINE f == [i \in 1..m |-> IF i = 1 THEN ss[i] ELSE g[i - 1] \o ss[i]]
  <2>3. \A i \in 1..(m - 1) : f[i] = g[i]
    <3> HIDE DEF f
    <3>2. \A i \in 1..m : f[i] = IF i = 1 THEN ss[i] ELSE g[i - 1] \o ss[i]
      BY DEF f
    <3>3. \A i \in 1..(m - 1) : i \in 1..m
      BY <2>1
    <3> QED BY <2>2, <3>2, <3>3 DEF Prefix
  <2>4. ASSUME NEW i \in 1..m PROVE f[i] = IF i = 1 THEN ss[i] ELSE f[i - 1] \o ss[i]
    <3>1. i # 1 => i - 1 \in 1..(m - 1)
      BY <2>1
    <3> QED BY <2>3, <3>1
  <2>5. Prefix(ss, f, m)
    <3>1. f = [i \in 1..m |-> f[i]]
      OBVIOUS
    <3> HIDE DEF f
    <3> QED BY <2>4, <3>1 DEF Prefix
  <2> QED BY <1>1, <2>5
<1> QED BY <1>2, <1>3

\* A further sequence comes after those that are joined already.
LEMMA Joined ==
  ASSUME NEW X, NEW ss \in Seq(Seq(X)), NEW t \in Seq(X), NEW at, NEW k \in DOMAIN ss,
         InPlaces(t, ss, at), \A i \in DOMAIN t : at[i][1] < k
  PROVE  /\ t \o ss[k] \in Seq(X)
         /\ \E at2 : /\ InPlaces(t \o ss[k], ss, at2)
                    /\ \A i \in DOMAIN (t \o ss[k]) : at2[i][1] <= k
<1>1. /\ ss[k] \in Seq(X) /\ k \in Nat
      /\ DOMAIN t = 1..Len(t) /\ Len(t) \in Nat
      /\ DOMAIN ss[k] = 1..Len(ss[k]) /\ Len(ss[k]) \in Nat
  BY LenProperties
<1> DEFINE u == t \o ss[k]
           m == Len(t)
           at2 == [i \in DOMAIN u |-> IF i <= m THEN at[i] ELSE <<k, i - m>>]
<1>2. /\ u \in Seq(X) /\ DOMAIN u = 1..(m + Len(ss[k]))
      /\ \A i \in DOMAIN u : u[i] = IF i <= m THEN t[i] ELSE ss[k][i - m]
  BY <1>1
<1>3. ASSUME NEW i \in DOMAIN u
      PROVE  /\ at2[i] \in Places(ss) /\ at2[i][1] \in Nat /\ at2[i][1] <= k
             /\ u[i] = ss[at2[i][1]][at2[i][2]]
  <2>1. CASE i <= m
    <3>2. at[i] \in Places(ss) /\ t[i] = ss[at[i][1]][at[i][2]] /\ at[i][1] < k
      BY <1>1, <1>2, <2>1 DEF InPlaces
    <3>3. at2[i] = at[i]
      BY <2>1
    <3>4. at[i][1] \in Nat
      BY <3>2 DEF Places
    <3> QED BY <3>2, <3>3, <3>4, <1>1, <1>2, <2>1, SMTT(30)
  <2>2. CASE ~(i <= m)
    <3>1. i - m \in DOMAIN ss[k] /\ i - m \in Nat
      BY <1>1, <1>2, <2>2
    <3>2. at2[i] = <<k, i - m>>
      BY <2>2
    <3> HIDE DEF at2
    <3> QED BY <3>1, <3>2, <1>1, <1>2, <2>2, SMTT(30) DEF Places
  <2> QED BY <2>1, <2>2
<1>4. ASSUME NEW i \in DOMAIN u, NEW j \in DOMAIN u, i < j PROVE Before(at2[i], at2[j])
  <2>1. i \in Nat /\ j \in Nat /\ m \in Nat
    BY <1>1, <1>2
  <2>2. CASE j <= m
    <3>1. i \in DOMAIN t /\ j \in DOMAIN t /\ i <= m
      BY <1>1, <1>2, <2>1, <2>2, <1>4
    <3> QED BY <3>1, <1>4, <2>2 DEF InPlaces
  <2>3. CASE i <= m /\ ~(j <= m)
    <3>2. at2[i] = at[i] /\ at2[j] = <<k, j - m>>
      BY <2>3
    <3> HIDE DEF at2
    <3> QED BY <1>1, <1>2, <2>1, <2>3, <3>2 DEF Before
  <2>4. CASE ~(i <= m) /\ ~(j <= m)
    <3>1. at2[i] = <<k, i - m>> /\ at2[j] = <<k, j - m>>
      BY <2>4
    <3>2. i - m < j - m
      BY <2>1, <1>4
    <3> HIDE DEF at2
    <3> QED BY <3>1, <3>2 DEF Before
  <2> QED BY <2>1, <2>2, <2>3, <2>4, <1>4
<1>5. at2 \in [DOMAIN u -> Places(ss)]
  BY <1>3
<1>6. InPlaces(u, ss, at2) /\ \A i \in DOMAIN u : at2[i][1] <= k
  <2> HIDE DEF at2, u
  <2> QED BY <1>3, <1>4, <1>5 DEF InPlaces
<1> QED BY <1>2, <1>6

\* FlattenSeq joins the sequences in their order.
LEMMA Flattened ==
  ASSUME NEW X, NEW ss \in Seq(Seq(X))
  PROVE  FlattenSeq(ss) \in Seq(X) /\ \E at : InPlaces(FlattenSeq(ss), ss, at)
<1>0. DOMAIN ss = 1..Len(ss) /\ Len(ss) \in Nat
  BY LenProperties
<1>e. \A at : InPlaces(<<>>, ss, <<>>) /\ <<>> \in Seq(X)
  BY DEF InPlaces
<1>1. CASE Len(ss) = 0
  <2> QED BY <1>1, <1>e DEF FlattenSeq
<1>2. CASE Len(ss) # 0
  <2> DEFINE n == Len(ss)
  <2>1. PICK f : FlattenSeq(ss) = f[n] /\ Prefix(ss, f, n)
    <3>1. \E f : Prefix(ss, f, n)
      BY <1>0, PrefixExists
    <3> QED BY <1>2, <3>1 DEF FlattenSeq, Prefix
  <2> DEFINE Good(i) == /\ f[i] \in Seq(X)
                        /\ \E at : /\ InPlaces(f[i], ss, at)
                                  /\ \A j \in DOMAIN f[i] : at[j][1] <= i
             Bad == {i \in 1..n : ~Good(i)}
  <2>2. \A i \in 1..n : f[i] = IF i = 1 THEN ss[i] ELSE f[i - 1] \o ss[i]
    BY <2>1 DEF Prefix
  <2>3. Bad = {}
    <3> SUFFICES ASSUME Bad # {} PROVE FALSE
      OBVIOUS
    <3>1. Bad \in SUBSET Nat
      OBVIOUS
    <3>2. PICK i \in Bad : \A k \in Bad : i <= k
      <4> HIDE DEF Bad
      <4> QED BY <3>1, LeastNumber
    <3>3. i \in 1..n /\ i \in DOMAIN ss /\ i \in Nat /\ ~Good(i)
      BY <1>0
    <3>4. CASE i = 1
      <4>1. f[i] = <<>> \o ss[i]
        <5> QED BY <3>3, <2>2, <3>4
      <4>2. \A j \in DOMAIN <<>> : (<<>>)[j][1] < i
        OBVIOUS
      <4> HIDE DEF Good
      <4>3. /\ <<>> \o ss[i] \in Seq(X)
            /\ \E at2 : /\ InPlaces(<<>> \o ss[i], ss, at2)
                       /\ \A j \in DOMAIN (<<>> \o ss[i]) : at2[j][1] <= i
        BY Joined, <1>e, <4>2, <3>3
      <4> QED BY <4>1, <4>3, <3>3 DEF Good
    <3>5. CASE i # 1
      <4>1. i - 1 \in 1..n /\ i - 1 < i /\ ~(i <= i - 1)
        BY <3>3, <3>5
      <4>3. Good(i - 1)
        BY <4>1, <3>2
      <4>5. PICK at : /\ InPlaces(f[i - 1], ss, at)
                      /\ \A j \in DOMAIN f[i - 1] : at[j][1] <= i - 1
        BY <4>3
      <4>6. \A j \in DOMAIN f[i - 1] : at[j][1] < i
        <5> SUFFICES ASSUME NEW j \in DOMAIN f[i - 1] PROVE at[j][1] < i
          OBVIOUS
        <5> QED BY <4>5, <3>3 DEF InPlaces, Places
      <4>7. f[i - 1] \in Seq(X)
        BY <4>3
      <4> HIDE DEF Good
      <4>8. /\ f[i - 1] \o ss[i] \in Seq(X)
            /\ \E at2 : /\ InPlaces(f[i - 1] \o ss[i], ss, at2)
                       /\ \A j \in DOMAIN (f[i - 1] \o ss[i]) : at2[j][1] <= i
        BY <4>5, <4>6, <4>7, <3>3, Joined
      <4>9. Good(i)
        BY <2>2, <3>3, <3>5, <4>8 DEF Good
      <4> QED BY <4>9, <3>3
    <3> QED BY <3>4, <3>5
  <2> QED BY <2>1, <2>3, <1>0, <1>2
<1> QED BY <1>1, <1>2

-----------------------------------------------------------------------------
(* The invariant. *)

Upload ==
  [state : {"open", "ended", "stopped"}, seqIn : Nat, credit : Nat, queued : Nat,
   ended : BOOLEAN, idle : Nat]
Reply == [seqOut : Nat, credit : Nat, held : BOOLEAN, idle : Nat]

\* A call, over its parameter streams.
Call(streams) ==
  [member : Members, settled : BOOLEAN, age : Nat, since : Nat, uploads : {streams}, reply : Reply]
CallOK(call) ==
  /\ call \in Call(call.uploads)
  /\ call.uploads \in [1..Shape[call.member].params -> Upload]
  /\ call.settled => Shape[call.member].kind = "command"

\* What is kept for a repeat of request s.
KeptOK(entry, s) ==
  /\ entry \in [frame : {entry.frame}, bounded : BOOLEAN, left : Int]
  /\ \/ \E o \in {"ok", "refused"} : entry.frame = Response(s, o)
     \/ entry.frame = EndOut(s, 0, 1, "interrupted")

SessionOK ==
  /\ highest \in Nat
  /\ DOMAIN calls \subseteq 1..highest /\ DOMAIN kept \subseteq 1..highest
  /\ \A s \in DOMAIN calls : CallOK(calls[s])
  /\ \A s \in DOMAIN kept : KeptOK(kept[s], s)
  /\ todo \subseteq DOMAIN calls

\* What a repeat of a request answered with f is told.
Again(f) == IF f.form = "response" THEN f ELSE EndOut(f.seq, 0, 1, "interrupted")

\* A call that is answered has no answer left to give, and what is kept for
\* its repeats is its answer.
Answers ==
  /\ DOMAIN answered \subseteq 1..highest
  /\ NotSettledTwice
  /\ \A s \in DOMAIN calls \cap DOMAIN answered : calls[s].settled
  /\ \A s \in DOMAIN answered : IsFinal(answered[s]) /\ answered[s].seq = s
  /\ \A s \in DOMAIN kept \cap DOMAIN answered : kept[s].frame = Again(answered[s])

\* A stream the client was told is over is not open.
Open(cs, s) == IF s \in DOMAIN cs THEN OpenUploads(cs[s]) ELSE {}
OverIsOver == \A r \in over : r[1] \in 1..highest /\ r[2] \notin Open(calls, r[1])

IInv == SessionOK /\ Answers /\ OverIsOver

-----------------------------------------------------------------------------
(* What a step sends. *)

FramesOf(s) ==
  [form : {"response"}, seq : {s}, outcome : {"ok", "refused"}]
  \cup [form : {"chunk"}, seq : {s}, stream : {0}, n : Nat]
  \cup [form : {"end"}, seq : {s}, stream : Nat, n : Nat, outcome : {"end", "refused", "interrupted"}]
  \cup [form : {"credit"}, seq : {s}, stream : Nat \ {0}, credit : Nat]

OfUpload(f) == f.form \in {"credit", "end"} /\ f.stream # 0
EndsUpload(f) == f.form = "end" /\ f.stream # 0

\* The frames fs of request s, of whose parameter streams those in `before`
\* were open and those in `after` still are: nothing for a stream after its
\* end, and one final frame at most.
Orderly(fs, s, before, after) ==
  /\ fs \in Seq(FramesOf(s))
  /\ \A i \in DOMAIN fs : OfUpload(fs[i]) => fs[i].stream \in before
  /\ \A i \in DOMAIN fs : EndsUpload(fs[i]) => fs[i].stream \notin after
  /\ \A i, j \in DOMAIN fs :
        j < i /\ EndsUpload(fs[j]) /\ OfUpload(fs[i]) => fs[j].stream # fs[i].stream
  /\ \A i, j \in DOMAIN fs : j < i /\ IsFinal(fs[j]) => OfUpload(fs[i])

NotFinal(fs) == \A i \in DOMAIN fs : ~IsFinal(fs[i])
OnlyUploads(fs) == \A i \in DOMAIN fs : OfUpload(fs[i])

LEMMA NothingSent ==
  ASSUME NEW s, NEW A, NEW B
  PROVE  Orderly(<<>>, s, A, B) /\ OnlyUploads(<<>>) /\ NotFinal(<<>>)
BY DEF Orderly, OnlyUploads, NotFinal

\* What is sent for an upload is no final frame.
LEMMA UploadsNotFinal ==
  ASSUME NEW s, NEW f \in FramesOf(s)
  PROVE  /\ f.seq = s
         /\ OfUpload(f) => ~IsFinal(f) /\ f.form # "chunk"
         /\ ~OfUpload(f) => IsFinal(f) \/ f.form = "chunk"
         /\ EndsUpload(f) => OfUpload(f)
BY DEF FramesOf, OfUpload, IsFinal, EndsUpload

\* ... nor are frames that are all about uploads.
LEMMA OnlyUploadsNotFinal ==
  ASSUME NEW s, NEW fs \in Seq(FramesOf(s)), OnlyUploads(fs)
  PROVE  NotFinal(fs)
<1> SUFFICES ASSUME NEW i \in DOMAIN fs PROVE ~IsFinal(fs[i])
  BY DEF NotFinal
<1> QED BY UploadsNotFinal DEF OnlyUploads

\* Frames sent after others.
LEMMA SentAfter ==
  ASSUME NEW s, NEW A, NEW B \in SUBSET A, NEW C \in SUBSET B, NEW fs, NEW gs,
         Orderly(fs, s, A, B), Orderly(gs, s, B, C), NotFinal(fs) \/ OnlyUploads(gs)
  PROVE  /\ Orderly(fs \o gs, s, A, C)
         /\ NotFinal(fs) /\ NotFinal(gs) => NotFinal(fs \o gs)
         /\ OnlyUploads(fs) /\ OnlyUploads(gs) => OnlyUploads(fs \o gs)
<1> DEFINE m == Len(fs)
           hs == fs \o gs
<1>1. /\ fs \in Seq(FramesOf(s)) /\ gs \in Seq(FramesOf(s))
      /\ DOMAIN fs = 1..m /\ m \in Nat
      /\ DOMAIN gs = 1..Len(gs) /\ Len(gs) \in Nat
  BY LenProperties DEF Orderly
<1>2. /\ hs \in Seq(FramesOf(s)) /\ DOMAIN hs = 1..(m + Len(gs))
      /\ \A i \in DOMAIN hs : hs[i] = IF i <= m THEN fs[i] ELSE gs[i - m]
  BY <1>1
<1>3. ASSUME NEW i \in DOMAIN hs
      PROVE  \/ i \in DOMAIN fs /\ i <= m /\ hs[i] = fs[i]
             \/ i - m \in DOMAIN gs /\ ~(i <= m) /\ hs[i] = gs[i - m]
  BY <1>1, <1>2
<1>n. \A i \in DOMAIN hs : i \in Nat
  BY <1>2
<1> HIDE DEF hs
<1>4. ASSUME NEW i \in DOMAIN hs, OfUpload(hs[i]) PROVE hs[i].stream \in A
  BY <1>3, <1>4 DEF Orderly
<1>5. ASSUME NEW i \in DOMAIN hs, EndsUpload(hs[i]) PROVE hs[i].stream \notin C
  <2>2. OfUpload(hs[i])
    BY <1>2, <1>5, UploadsNotFinal
  <2> QED BY <1>3, <1>5, <2>2 DEF Orderly
<1>6. ASSUME NEW i \in DOMAIN hs, NEW j \in DOMAIN hs, j < i,
             EndsUpload(hs[j]), OfUpload(hs[i])
      PROVE  hs[j].stream # hs[i].stream
  <2>1. CASE i <= m
    <3> QED BY <1>3, <1>6, <2>1, <1>1, <1>n DEF Orderly
  <2>2. CASE ~(i <= m) /\ j <= m
    <3>2. hs[i].stream \in B
      BY <1>3, <1>6, <2>2 DEF Orderly
    <3> QED BY <1>3, <1>6, <2>2, <3>2 DEF Orderly
  <2>3. CASE ~(i <= m) /\ ~(j <= m)
    <3> QED BY <1>3, <1>6, <2>3, <1>1, <1>n DEF Orderly
  <2> QED BY <2>1, <2>2, <2>3
<1>7. ASSUME NEW i \in DOMAIN hs, NEW j \in DOMAIN hs, j < i, IsFinal(hs[j])
      PROVE  OfUpload(hs[i])
  <2>1. CASE i <= m
    <3> QED BY <1>3, <1>7, <2>1, <1>1, <1>n DEF Orderly
  <2>2. CASE ~(i <= m) /\ j <= m
    BY <1>3, <1>7, <2>2 DEF NotFinal, OnlyUploads
  <2>3. CASE ~(i <= m) /\ ~(j <= m)
    <3> QED BY <1>3, <1>7, <2>3, <1>1, <1>n DEF Orderly
  <2> QED BY <2>1, <2>2, <2>3
<1>9. /\ NotFinal(fs) /\ NotFinal(gs) => NotFinal(hs)
      /\ OnlyUploads(fs) /\ OnlyUploads(gs) => OnlyUploads(hs)
  BY <1>3 DEF NotFinal, OnlyUploads
<1> QED BY <1>2, <1>4, <1>5, <1>6, <1>7, <1>9 DEF hs, Orderly

\* The frames about each upload in turn.
LEMMA BlocksInOrder ==
  ASSUME NEW s, NEW A, NEW B, NEW ss \in Seq(Seq(FramesOf(s))),
         \A k \in DOMAIN ss : Orderly(ss[k], s, A \cap {k}, B \cap {k}) /\ OnlyUploads(ss[k])
  PROVE  Orderly(FlattenSeq(ss), s, A, B) /\ OnlyUploads(FlattenSeq(ss))
<1> DEFINE fs == FlattenSeq(ss)
<1>1. fs \in Seq(FramesOf(s))
  BY Flattened
<1>2. PICK at : InPlaces(fs, ss, at)
  BY Flattened
<1> HIDE DEF fs
<1>3. ASSUME NEW i \in DOMAIN fs
      PROVE  /\ at[i][1] \in DOMAIN ss /\ at[i][2] \in DOMAIN ss[at[i][1]]
             /\ at[i][1] \in Nat /\ at[i][2] \in Nat
             /\ fs[i] = ss[at[i][1]][at[i][2]]
             /\ OfUpload(fs[i]) /\ fs[i].stream = at[i][1] /\ fs[i].stream \in A
             /\ ~IsFinal(fs[i])
             /\ EndsUpload(fs[i]) => fs[i].stream \notin B
  <2>1. at[i] \in Places(ss) /\ fs[i] = ss[at[i][1]][at[i][2]]
    BY <1>2 DEF InPlaces
  <2>2. /\ at[i][1] \in DOMAIN ss /\ at[i][2] \in DOMAIN ss[at[i][1]]
        /\ at[i][1] \in Nat /\ at[i][2] \in Nat
    BY <2>1 DEF Places
  <2>3. Orderly(ss[at[i][1]], s, A \cap {at[i][1]}, B \cap {at[i][1]}) /\ OnlyUploads(ss[at[i][1]])
    BY <2>2
  <2>4. OfUpload(fs[i])
    BY <2>1, <2>2, <2>3 DEF OnlyUploads
  <2>7. ~IsFinal(fs[i])
    BY <2>4, <1>1, UploadsNotFinal
  <2> QED BY <2>1, <2>2, <2>4, <2>3, <2>7 DEF Orderly
<1>4. ASSUME NEW i \in DOMAIN fs, NEW j \in DOMAIN fs, j < i, EndsUpload(fs[j])
      PROVE  fs[j].stream # fs[i].stream
  <2> SUFFICES ASSUME at[j][1] = at[i][1] PROVE FALSE
    BY <1>3
  <2>2. at[j][2] < at[i][2]
    BY <1>2, <1>4, <1>3 DEF Before, InPlaces
  <2> DEFINE b == ss[at[i][1]]
  <2>3. Orderly(b, s, A \cap {at[i][1]}, B \cap {at[i][1]})
    BY <1>3
  <2>4. fs[i] = b[at[i][2]] /\ fs[j] = b[at[j][2]] /\ at[i][2] \in DOMAIN b /\ at[j][2] \in DOMAIN b
    BY <1>3
  <2>5. OfUpload(fs[i]) /\ fs[j].stream = fs[i].stream
    BY <1>3
  <2> HIDE DEF b
  <2> QED BY <2>2, <2>3, <2>4, <2>5, <1>4 DEF Orderly
<1> QED BY <1>3, <1>1, <1>4 DEF fs, OnlyUploads, Orderly

\* One frame.
LEMMA OneSent ==
  ASSUME NEW s, NEW f \in FramesOf(s), NEW A, NEW B,
         OfUpload(f) => f.stream \in A, EndsUpload(f) => f.stream \notin B
  PROVE  /\ Orderly(<<f>>, s, A, B)
         /\ OfUpload(f) => OnlyUploads(<<f>>)
         /\ ~IsFinal(f) => NotFinal(<<f>>)
<1>1. <<f>> \in Seq(FramesOf(s)) /\ DOMAIN <<f>> = {1} /\ <<f>>[1] = f
  OBVIOUS
<1> QED BY <1>1 DEF Orderly, OnlyUploads, NotFinal

\* The end of an upload that was open.
LEMMA EndOfUpload ==
  ASSUME NEW s, NEW k \in Nat \ {0}, NEW o \in {"end", "refused", "interrupted"}, NEW A, NEW B,
         k \in A, k \notin B
  PROVE  Orderly(<<EndOut(s, k, 1, o)>>, s, A, B) /\ OnlyUploads(<<EndOut(s, k, 1, o)>>)
<1> DEFINE f == EndOut(s, k, 1, o)
<1> HIDE DEF f
<1> QED BY OneSent DEF f, EndOut, FramesOf, OfUpload

\* Session::interrupt_uploads ends what is open, once.
LEMMA InterruptsInOrder ==
  ASSUME NEW s, NEW call, CallOK(call)
  PROVE  /\ Orderly(InterruptFrames(s, call), s, OpenUploads(call), {})
         /\ OnlyUploads(InterruptFrames(s, call))
<1> DEFINE n == Shape[call.member].params
           A == OpenUploads(call)
           ss == [k \in DOMAIN call.uploads |->
                    IF k \in A THEN <<EndOut(s, k, 1, "interrupted")>> ELSE <<>>]
<1>1. DOMAIN call.uploads = 1..n /\ n \in Nat
  BY WsServerAssumption DEF CallOK, Call
<1> HIDE DEF A
<1>2. ASSUME NEW k \in 1..n
      PROVE Orderly(ss[k], s, A \cap {k}, {} \cap {k}) /\ OnlyUploads(ss[k]) /\ ss[k] \in Seq(FramesOf(s))
  <2>1. CASE k \in A
    <3>2. k \in Nat \ {0} /\ k \in A \cap {k}
      BY <2>1, <1>1
    <3>3. Orderly(ss[k], s, A \cap {k}, {} \cap {k}) /\ OnlyUploads(ss[k])
      BY <1>1, <2>1, <3>2, EndOfUpload
    <3> QED BY <3>3 DEF Orderly
  <2>2. CASE k \notin A
    <3>2. Orderly(ss[k], s, A \cap {k}, {} \cap {k}) /\ OnlyUploads(ss[k])
      BY <1>1, <2>2, NothingSent
    <3> QED BY <3>2 DEF Orderly
  <2> QED BY <2>1, <2>2
<1>3. ss \in Seq(Seq(FramesOf(s))) /\ DOMAIN ss = 1..n
  <2>1. DOMAIN ss = 1..n /\ ss = [k \in DOMAIN ss |-> ss[k]]
    BY <1>1
  <2> HIDE DEF ss
  <2>2. ss \in [1..n -> Seq(FramesOf(s))]
    BY <2>1, <1>2
  <2> QED BY <2>1, <2>2, <1>1
<1>4. InterruptFrames(s, call) = FlattenSeq(ss)
  BY DEF InterruptFrames, A
<1> HIDE DEF ss
<1>5. Orderly(FlattenSeq(ss), s, A, {}) /\ OnlyUploads(FlattenSeq(ss))
  BY <1>2, <1>3, BlocksInOrder
<1> QED BY <1>4, <1>5 DEF A

-----------------------------------------------------------------------------
(* Uploads. *)

\* What one pass makes of an upload.
LEMMA DrainKeeps ==
  ASSUME NEW u \in Upload, NEW r \in DrainResults(u)
  PROVE  /\ r.upload \in Upload /\ r.taken \in Nat
         /\ r.upload.state = "open" => u.state = "open"
         /\ r.taken > 0 \/ r.fate = "refused" => u.state = "open"
         /\ r.fate = "refused" => r.upload.state # "open"
<1>1. CASE u.state # "open"
  <2> QED BY <1>1 DEF DrainResults
<1>2. CASE u.state = "open"
  <2>1. PICK d \in DrainFates(u) :
           r = [upload |-> AfterDrain(u, d[1], d[2]), taken |-> d[1], fate |-> d[2]]
    BY <1>2 DEF DrainResults
  <2>2. d[1] \in 0..u.queued /\ d[2] \in {"none", "ended", "refused", "detached"}
    BY DEF DrainFates
  <2> DEFINE t == d[1]
             f == d[2]
             v == AfterDrain(u, t, f)
  <2>3. t \in Nat /\ t <= u.queued /\ u.queued \in Nat /\ u.credit \in Nat /\ u.idle \in Nat
    BY <2>2 DEF Upload
  <2>4. r.upload = v /\ r.taken = t /\ r.fate = f
    BY <2>1
  <2>5. f \in {"none", "ended", "refused", "detached"}
    BY <2>2
  <2> HIDE DEF t, f
  <2> DEFINE w(state, queued) ==
        [state |-> state, seqIn |-> u.seqIn, credit |-> u.credit + t, queued |-> queued,
         ended |-> u.ended, idle |-> IF t > 0 THEN 0 ELSE u.idle]
  <2>6. v \in Upload /\ (f = "refused" => v.state = "stopped")
    <3>1. \A state \in {"open", "ended", "stopped"}, queued \in Nat : w(state, queued) \in Upload
      BY <2>3 DEF Upload
    <3>2. CASE f \in {"refused", "detached"}
      <4>1. v = w("stopped", 0)
        <5>1. v = [u EXCEPT !.state = "stopped", !.queued = 0, !.credit = u.credit + t,
                            !.idle = IF t > 0 THEN 0 ELSE u.idle]
          BY <3>2 DEF AfterDrain
        <5> HIDE DEF v
        <5> QED BY <5>1 DEF Upload
      <4> HIDE DEF v
      <4> QED BY <3>1, <4>1
    <3>3. CASE f = "none"
      <4>1. v = w("open", u.queued - t)
        <5>1. v = [u EXCEPT !.state = "open", !.queued = u.queued - t, !.credit = u.credit + t,
                            !.idle = IF t > 0 THEN 0 ELSE u.idle]
          BY <3>3 DEF AfterDrain
        <5> HIDE DEF v
        <5> QED BY <5>1 DEF Upload
      <4> HIDE DEF v, w
      <4> QED BY <3>1, <3>3, <4>1, <2>3
    <3>4. CASE f = "ended"
      <4>1. v = w("ended", u.queued - t)
        <5>1. v = [u EXCEPT !.state = "ended", !.queued = u.queued - t, !.credit = u.credit + t,
                            !.idle = IF t > 0 THEN 0 ELSE u.idle]
          BY <3>4 DEF AfterDrain
        <5> HIDE DEF v
        <5> QED BY <5>1 DEF Upload
      <4> HIDE DEF v, w
      <4> QED BY <3>1, <3>4, <4>1, <2>3
    <3> QED BY <2>5, <3>2, <3>3, <3>4
  <2> HIDE DEF v
  <2> QED BY <2>3, <2>4, <2>6, <1>2
<1> QED BY <1>1, <1>2

\* ... and of the uploads of a call.
LEMMA DrainedOK ==
  ASSUME NEW s, NEW call, CallOK(call), NEW d \in Drains(call)
  PROVE  /\ CallOK(Drained(call, d))
         /\ Drained(call, d).settled = call.settled /\ Drained(call, d).member = call.member
         /\ Drained(call, d).reply = call.reply /\ Drained(call, d).since = call.since
         /\ OpenUploads(Drained(call, d)) \in SUBSET OpenUploads(call)
         /\ Orderly(DrainFrames(s, d), s, OpenUploads(call), OpenUploads(Drained(call, d)))
         /\ OnlyUploads(DrainFrames(s, d))
<1> DEFINE n == Shape[call.member].params
           U == call.uploads
           V == [k \in DOMAIN d |-> d[k].upload]
           e == Drained(call, d)
           A == OpenUploads(call)
           B == OpenUploads(e)
<1>1. /\ DOMAIN U = 1..n /\ n \in Nat /\ DOMAIN d = 1..n
      /\ \A k \in 1..n : d[k] \in DrainResults(U[k]) /\ U[k] \in Upload
  <2>2. DOMAIN d = DOMAIN U /\ \A k \in DOMAIN d : d[k] \in DrainResults(U[k])
    BY DEF Drains
  <2> QED BY WsServerAssumption, <2>2 DEF CallOK, Call
<1>2. ASSUME NEW k \in 1..n
      PROVE  /\ V[k] \in Upload /\ V[k] = d[k].upload /\ d[k].taken \in Nat
             /\ V[k].state = "open" => U[k].state = "open"
             /\ d[k].taken > 0 \/ d[k].fate = "refused" => U[k].state = "open"
             /\ d[k].fate = "refused" => V[k].state # "open"
  <2>1. V[k] = d[k].upload
    BY <1>1
  <2> HIDE DEF V
  <2>2. d[k] \in DrainResults(U[k]) /\ U[k] \in Upload
    BY <1>1
  <2> HIDE DEF U
  <2> QED BY <2>1, <2>2, DrainKeeps
<1>3. V \in [1..n -> Upload]
  <2>1. V = [k \in 1..n |-> V[k]]
    BY <1>1
  <2> HIDE DEF V
  <2> QED BY <2>1, <1>2
<1>4. /\ e.uploads = V /\ e.settled = call.settled /\ e.member = call.member
      /\ e.reply = call.reply /\ e.since = call.since
      /\ CallOK(e)
  <2>1. call \in Call(U) /\ e = [call EXCEPT !.uploads = V]
    BY DEF CallOK, Drained
  <2> HIDE DEF V, U, e
  <2>3. /\ e.uploads = V /\ e.settled = call.settled /\ e.member = call.member
        /\ e.reply = call.reply /\ e.since = call.since
    BY <2>1 DEF Call
  <2> QED BY <1>3, <2>1, <2>3 DEF CallOK, Call
<1>5. A = {k \in 1..n : U[k].state = "open"} /\ B = {k \in 1..n : V[k].state = "open"}
  <2>1. A = {k \in DOMAIN U : U[k].state = "open"}
    BY DEF OpenUploads
  <2>2. B = {k \in DOMAIN V : V[k].state = "open"}
    <3> HIDE DEF V, e
    <3> QED BY <1>4 DEF OpenUploads
  <2>3. DOMAIN V = 1..n
    BY <1>1
  <2> HIDE DEF V, U, A, B
  <2> QED BY <1>1, <2>1, <2>2, <2>3
<1>6. B \in SUBSET A
  <2> HIDE DEF A, B, U, V
  <2> QED BY <1>5, <1>2
<1> DEFINE Muted(k) == \E j \in 1..(k - 1) : d[j].fate = "detached"
           C(k) == IF d[k].taken > 0 /\ ~d[k].upload.ended THEN <<CreditOut(s, k, d[k].taken)>> ELSE <<>>
           E(k) == IF d[k].fate = "refused" THEN <<EndOut(s, k, 1, "refused")>> ELSE <<>>
           ss == [k \in DOMAIN d |-> IF Muted(k) THEN <<>> ELSE C(k) \o E(k)]
<1>7. DrainFrames(s, d) = FlattenSeq(ss)
  BY DEF DrainFrames
<1> HIDE DEF A, B, U, V, e
<1>8. ASSUME NEW k \in 1..n
      PROVE Orderly(ss[k], s, A \cap {k}, B \cap {k}) /\ OnlyUploads(ss[k])
  <2>1. ss[k] = IF Muted(k) THEN <<>> ELSE C(k) \o E(k)
    BY <1>1
  <2>k. k \in Nat \ {0}
    BY <1>1
  <2>2. Orderly(C(k), s, A \cap {k}, A \cap {k}) /\ OnlyUploads(C(k))
    <3>1. CASE d[k].taken > 0 /\ ~d[k].upload.ended
      <4> DEFINE f == CreditOut(s, k, d[k].taken)
      <4>1. f \in FramesOf(s) /\ OfUpload(f) /\ f.stream = k /\ ~EndsUpload(f)
        BY <1>2, <2>k DEF CreditOut, FramesOf, OfUpload, EndsUpload
      <4>2. k \in A \cap {k}
        BY <1>2, <1>5, <3>1
      <4>3. C(k) = <<f>>
        BY <3>1
      <4> HIDE DEF f, C
      <4> QED BY <4>1, <4>2, <4>3, OneSent
    <3>2. CASE ~(d[k].taken > 0 /\ ~d[k].upload.ended)
      <4>1. C(k) = <<>>
        BY <3>2
      <4> HIDE DEF C
      <4> QED BY <4>1, NothingSent
    <3> QED BY <3>1, <3>2
  <2>3. Orderly(E(k), s, A \cap {k}, B \cap {k}) /\ OnlyUploads(E(k))
    <3>1. CASE d[k].fate = "refused"
      <4>1. E(k) = <<EndOut(s, k, 1, "refused")>>
        BY <3>1
      <4> DEFINE a == A \cap {k}
                 b == B \cap {k}
      <4>3. k \in a /\ k \notin b
        BY <1>2, <1>5, <3>1
      <4> HIDE DEF E, a, b
      <4>4. Orderly(<<EndOut(s, k, 1, "refused")>>, s, a, b) /\ OnlyUploads(<<EndOut(s, k, 1, "refused")>>)
        BY <4>3, <2>k, EndOfUpload
      <4> QED BY <4>1, <4>4 DEF a, b
    <3>2. CASE d[k].fate # "refused"
      <4>1. E(k) = <<>>
        BY <3>2
      <4> HIDE DEF E
      <4> QED BY <4>1, NothingSent
    <3> QED BY <3>1, <3>2
  <2>5. A \cap {k} \in SUBSET (A \cap {k})
    OBVIOUS
  <2> HIDE DEF C, E, ss, Muted
  <2>6. Orderly(C(k) \o E(k), s, A \cap {k}, B \cap {k}) /\ OnlyUploads(C(k) \o E(k))
    BY <2>2, <2>3, <1>6, <2>5, SentAfter
  <2> QED BY <2>1, <2>6, NothingSent
<1>9. ss \in Seq(Seq(FramesOf(s))) /\ DOMAIN ss = 1..n
  <2>1. DOMAIN ss = 1..n /\ ss = [k \in DOMAIN ss |-> ss[k]]
    BY <1>1
  <2> HIDE DEF ss
  <2>3. ss \in [1..n -> Seq(FramesOf(s))]
    BY <2>1, <1>8 DEF Orderly
  <2> QED BY <2>1, <2>3, <1>1, SMTT(30)
<1> HIDE DEF ss
<1>10. Orderly(FlattenSeq(ss), s, A, B) /\ OnlyUploads(FlattenSeq(ss))
  BY <1>8, <1>9, BlocksInOrder
<1> QED BY <1>4, <1>6, <1>7, <1>10 DEF A, B, e

-----------------------------------------------------------------------------
(* A step about one request. *)

Unanswered(s) == s > highest \/ (s \in DOMAIN calls /\ ~calls[s].settled)

\* A call that a step leaves as it is but for its age.
Like(call, old) ==
  CallOK(call) /\ call.settled = old.settled /\ OpenUploads(call) \subseteq OpenUploads(old)

\* Only request s gains a call, an answer or a kept response, and is told of
\* it in order.
CallsTouched(s) ==
  \A x \in DOMAIN calls' :
    IF x = s THEN /\ CallOK(calls'[s])
                  /\ s \in DOMAIN calls \/ s > highest
                  /\ s \in DOMAIN calls => Open(calls', s) \subseteq Open(calls, s)
                  /\ ~calls'[s].settled => /\ Unanswered(s) /\ s \notin DOMAIN kept'
                                           /\ NotFinal(out')
    ELSE x \in DOMAIN calls /\ Like(calls'[x], calls[x])

KeptTouched(s) ==
  \A x \in DOMAIN kept' :
    /\ KeptOK(kept'[x], x)
    /\ \/ x \in DOMAIN kept /\ kept'[x].frame = kept[x].frame
       \/ /\ x = s /\ Unanswered(s)
          /\ \A i \in DOMAIN out' : IsFinal(out'[i]) => kept'[s].frame = Again(out'[i])

Repeats(s) ==
  s \in DOMAIN kept /\ s \notin DOMAIN calls' /\ out' = <<kept[s].frame>>

SentFor(s) ==
  /\ Orderly(out', s, Open(calls, s), Open(calls', s))
  /\ OnlyUploads(out') \/ Unanswered(s) \/ Repeats(s)
  /\ \A i \in DOMAIN out' :
        out'[i].form = "response" /\ out'[i].outcome = "refused" => s \notin DOMAIN calls'

Touches(s) ==
  /\ highest' \in Nat /\ highest <= highest' /\ s <= highest'
  /\ CallsTouched(s) /\ KeptTouched(s) /\ SentFor(s)
  /\ todo' \subseteq DOMAIN calls'

\* An unanswered request has no answer recorded and none kept.
LEMMA UnansweredIsNew ==
  ASSUME IInv, NEW s \in Nat, Unanswered(s)
  PROVE  s \notin DOMAIN answered /\ s \notin DOMAIN kept /\ s >= 1
<1>1. CASE s > highest
  BY <1>1 DEF IInv, SessionOK, Answers
<1>2. CASE s \in DOMAIN calls /\ ~calls[s].settled
  BY <1>2 DEF IInv, SessionOK, Answers, NotSettledTwice
<1> QED BY <1>1, <1>2 DEF Unanswered

\* The final frame of a step, and what the history makes of it.
LEMMA FinalsOfStep ==
  ASSUME NEW s \in Nat, Touches(s)
  PROVE  /\ \A i \in DOMAIN out' : out'[i] \in FramesOf(s) /\ out'[i].seq = s
         /\ \A i, j \in DOMAIN out' : IsFinal(out'[i]) /\ IsFinal(out'[j]) => i = j
         /\ \A f, g \in Finals : f = g
         /\ \A f \in Finals : \E i \in DOMAIN out' : f = out'[i] /\ IsFinal(f) /\ f.seq = s
<1>1. out' \in Seq(FramesOf(s))
  BY DEF Touches, SentFor, Orderly
<1>3. ASSUME NEW i \in DOMAIN out' PROVE out'[i] \in FramesOf(s) /\ out'[i].seq = s
  <2> QED BY <1>1, UploadsNotFinal
<1>4. ASSUME NEW i \in DOMAIN out', NEW j \in DOMAIN out', IsFinal(out'[i]), IsFinal(out'[j]), j < i
      PROVE  FALSE
  <2> QED BY <1>4, <1>3, UploadsNotFinal DEF Touches, SentFor, Orderly
<1>5. \A i, j \in DOMAIN out' : IsFinal(out'[i]) /\ IsFinal(out'[j]) => i = j
  <2> SUFFICES ASSUME NEW i \in DOMAIN out', NEW j \in DOMAIN out',
                      IsFinal(out'[i]), IsFinal(out'[j]), i # j
               PROVE  FALSE
    OBVIOUS
  <2>1. i < j \/ j < i
    BY <1>1, LenProperties
  <2> QED BY <1>4, <2>1
<1> QED BY <1>3, <1>5 DEF Finals, Range

\* The history gains the answer of the one request at most.
LEMMA AnsweredAfter ==
  ASSUME NEW s \in Nat, Touches(s), Record, NEW x \in DOMAIN answered'
  PROVE  \/ x \in DOMAIN answered /\ answered'[x] = answered[x]
         \/ x = s /\ s \notin DOMAIN answered /\ answered'[s] \in Finals
<1>1. answered' = [y \in DOMAIN answered \cup {f.seq : f \in Finals} |->
          IF y \in DOMAIN answered THEN answered[y] ELSE CHOOSE f \in Finals : f.seq = y]
  BY DEF Record
<1>2. x \in DOMAIN answered \cup {f.seq : f \in Finals}
  BY <1>1
<1>3. CASE x \in DOMAIN answered
  BY <1>1, <1>3
<1>4. CASE x \notin DOMAIN answered
  <2>1. \E f \in Finals : f.seq = x
    BY <1>2, <1>4
  <2>4. answered'[x] \in Finals
    BY <2>1, <1>1, <1>2, <1>4
  <2> QED BY <1>4, <2>1, FinalsOfStep, <2>4
<1> QED BY <1>3, <1>4

\* Each conjunct of the invariant, for a step about one request.
LEMMA TouchedSession ==
  ASSUME IInv, NEW s \in Nat, Touches(s)
  PROVE  SessionOK'
<1>1. /\ highest \in Nat /\ highest' \in Nat /\ highest <= highest' /\ s <= highest'
      /\ \A x \in DOMAIN calls : x \in 1..highest
      /\ \A x \in DOMAIN kept : x \in 1..highest
      /\ \A x \in DOMAIN calls : CallOK(calls[x])
  BY DEF IInv, SessionOK, Touches
<1>2. \A x \in 1..highest : x \in 1..highest'
  BY <1>1
<1>3. s > highest => s \in 1..highest'
  BY <1>1
<1>4. ASSUME NEW x \in DOMAIN calls' PROVE x \in 1..highest' /\ CallOK(calls'[x])
  BY <1>1, <1>2, <1>3 DEF Touches, CallsTouched, Like
<1>5. ASSUME NEW x \in DOMAIN kept' PROVE x \in 1..highest' /\ KeptOK(kept'[x], x)
  <2> QED BY <1>1, <1>2, <1>3 DEF Unanswered, Touches, KeptTouched
<1> QED BY <1>1, <1>4, <1>5 DEF SessionOK, Touches

LEMMA TouchedAnswers ==
  ASSUME IInv, NEW s \in Nat, Touches(s), Record
  PROVE  Answers'
<1>1. /\ highest \in Nat /\ highest' \in Nat /\ highest <= highest' /\ s <= highest'
      /\ \A x \in DOMAIN answered : x \in 1..highest
      /\ \A x \in DOMAIN kept : x \in 1..highest
  BY DEF IInv, SessionOK, Touches, Answers
<1>2. \A x \in 1..highest : x \in 1..highest'
  BY <1>1
<1>3. ASSUME NEW f \in Finals
      PROVE  /\ IsFinal(f) /\ f.seq = s /\ s \in 1..highest'
             /\ Unanswered(s) \/ (s \in DOMAIN kept /\ f = kept[s].frame /\ Repeats(s))
  <2>1. PICK i \in DOMAIN out' : f = out'[i] /\ IsFinal(f) /\ f.seq = s
    BY FinalsOfStep
  <2>3. ~OnlyUploads(out')
    BY <2>1, FinalsOfStep, UploadsNotFinal DEF OnlyUploads
  <2>4. CASE Unanswered(s)
    BY <2>1, <2>4, <1>1, UnansweredIsNew
  <2>5. CASE Repeats(s)
    BY <2>1, <2>5, <1>1, <1>2 DEF Repeats
  <2> QED BY <2>3, <2>4, <2>5 DEF Touches, SentFor
<1>4. ASSUME NEW x \in DOMAIN answered'
      PROVE  x \in 1..highest' /\ IsFinal(answered'[x]) /\ answered'[x].seq = x
  <2>1. CASE x \in DOMAIN answered /\ answered'[x] = answered[x]
    BY <2>1, <1>1, <1>2 DEF IInv, Answers
  <2>2. CASE x = s /\ answered'[s] \in Finals
    BY <2>2, <1>3
  <2> QED BY <2>1, <2>2, AnsweredAfter
<1>5. ASSUME NEW x \in DOMAIN calls', x \in DOMAIN kept' PROVE calls'[x].settled
  <2>1. CASE x # s
    <3>1. x \in DOMAIN calls /\ calls'[x].settled = calls[x].settled
      BY <2>1 DEF Touches, CallsTouched, Like
    <3> QED BY <3>1, <2>1, <1>5 DEF IInv, Answers, NotSettledTwice, Touches, KeptTouched
  <2>2. CASE x = s
    BY <2>2, <1>5 DEF Touches, CallsTouched
  <2> QED BY <2>1, <2>2
<1>6. ASSUME NEW x \in DOMAIN calls', x \in DOMAIN answered' PROVE calls'[x].settled
  <2>1. CASE x \in DOMAIN answered /\ x # s
    <3> QED BY <2>1 DEF IInv, Answers, Touches, CallsTouched, Like
  <2>2. CASE x = s
    <3> SUFFICES ASSUME ~calls'[s].settled PROVE FALSE
      BY <2>2
    <3>1. Unanswered(s) /\ NotFinal(out')
      BY <2>2, <1>6 DEF Touches, CallsTouched
    <3>3. PICK i \in DOMAIN out' : IsFinal(out'[i])
      BY <2>2, <3>1, UnansweredIsNew, <1>6, AnsweredAfter, FinalsOfStep
    <3> QED BY <3>1, <3>3 DEF NotFinal
  <2> QED BY <2>1, <2>2, <1>6, AnsweredAfter
<1>7. ASSUME NEW x \in DOMAIN kept', x \in DOMAIN answered' PROVE kept'[x].frame = Again(answered'[x])
  <2>1. \/ x \in DOMAIN kept /\ kept'[x].frame = kept[x].frame
        \/ /\ x = s /\ Unanswered(s)
           /\ \A i \in DOMAIN out' : IsFinal(out'[i]) => kept'[s].frame = Again(out'[i])
    BY <1>7 DEF Touches, KeptTouched
  <2>2. CASE x \in DOMAIN answered /\ answered'[x] = answered[x]
    <3> QED BY <2>1, <2>2, UnansweredIsNew DEF IInv, Answers
  <2>3. CASE x = s /\ s \notin DOMAIN answered /\ answered'[s] \in Finals
    <3>1. CASE Unanswered(s)
      <4>2. PICK i \in DOMAIN out' : answered'[s] = out'[i] /\ IsFinal(out'[i])
        BY <2>3, FinalsOfStep
      <4> QED BY <2>1, <2>3, <3>1, UnansweredIsNew, <4>2
    <3>2. CASE ~Unanswered(s)
      <4>1. s \in DOMAIN kept /\ answered'[s] = kept[s].frame
        BY <1>3, <2>3, <3>2
      <4>3. KeptOK(kept[s], s)
        BY <4>1 DEF IInv, SessionOK
      <4>4. kept[s].frame = Again(kept[s].frame)
        BY <4>3 DEF KeptOK, Again, Response, EndOut
      <4> QED BY <2>3, <4>1, <2>1, <3>2, <4>4
    <3> QED BY <3>1, <3>2
  <2> QED BY <2>2, <2>3, <1>7, AnsweredAfter
<1> QED BY <1>4, <1>5, <1>6, <1>7 DEF Answers, NotSettledTwice

LEMMA TouchedOver ==
  ASSUME IInv, NEW s \in Nat, Touches(s), Record
  PROVE  OverIsOver'
<1>1. /\ highest \in Nat /\ highest' \in Nat /\ highest <= highest' /\ s <= highest'
      /\ \A x \in DOMAIN calls : x \in 1..highest
  BY DEF IInv, SessionOK, Touches
<1>2. \A x \in 1..highest : x \in 1..highest'
  BY <1>1
<1>3. ASSUME NEW r \in over PROVE r[1] \in 1..highest' /\ r[2] \notin Open(calls', r[1])
  <2>1. r[1] \in 1..highest /\ r[2] \notin Open(calls, r[1])
    BY DEF IInv, OverIsOver
  <2>2. Open(calls', r[1]) \subseteq Open(calls, r[1])
    <3>1. CASE r[1] \notin DOMAIN calls'
      BY <3>1 DEF Open
    <3>2. CASE r[1] \in DOMAIN calls' /\ r[1] = s
      <4> QED BY <3>2, <2>1, <1>1 DEF Touches, CallsTouched
    <3>3. CASE r[1] \in DOMAIN calls' /\ r[1] # s
      BY <3>3 DEF Touches, CallsTouched, Like, Open
    <3> QED BY <3>1, <3>2, <3>3
  <2> QED BY <2>1, <2>2, <1>2
<1>4. ASSUME NEW r \in UploadEnds PROVE r[1] \in 1..highest' /\ r[2] \notin Open(calls', r[1])
  <2>1. PICK f \in Range(out') : f.form = "end" /\ f.stream # 0 /\ r = <<f.seq, f.stream>>
    BY DEF UploadEnds
  <2>2. PICK i \in DOMAIN out' : f = out'[i]
    BY DEF Range
  <2>3. r[1] = s /\ r[2] = out'[i].stream
    BY <2>1, <2>2, FinalsOfStep
  <2>5. r[2] \in Open(calls, s) /\ r[2] \notin Open(calls', s)
    BY <2>3, <2>1, <2>2 DEF Touches, SentFor, Orderly, OfUpload, EndsUpload
  <2> QED BY <2>3, <2>5, <1>1, <1>2 DEF Open
<1>5. ASSUME NEW r \in RefusedUploads PROVE r[1] \in 1..highest' /\ r[2] \notin Open(calls', r[1])
  <2>1. PICK f \in Finals : /\ f.form = "response" /\ f.outcome = "refused" /\ f.seq \in DOMAIN calls
                            /\ \E k \in DOMAIN calls[f.seq].uploads : r = <<f.seq, k>>
    BY DEF RefusedUploads
  <2>2. PICK i \in DOMAIN out' : f = out'[i] /\ f.seq = s
    BY FinalsOfStep
  <2>4. r[1] = s
    BY <2>1, <2>2
  <2> QED BY <2>1, <2>2, <2>4, <1>1, <1>2 DEF Open, Touches, SentFor
<1> QED BY <1>3, <1>4, <1>5 DEF OverIsOver, Record

\* What a step about one request keeps.
LEMMA TouchedInv ==
  ASSUME IInv, NEW s \in Nat, Touches(s), Record
  PROVE  IInv'
BY TouchedSession, TouchedAnswers, TouchedOver DEF IInv

\* ... and of each action property.
LEMMA TouchedOnce ==
  ASSUME IInv, NEW s \in Nat, Touches(s)
  PROVE  /\ \A i, j \in DOMAIN out' :
              IsFinal(out'[i]) /\ IsFinal(out'[j]) /\ out'[i].seq = out'[j].seq => i = j
         /\ \A f \in Range(out') :
              f.seq \in DOMAIN answered /\ (IsFinal(f) \/ f.form = "chunk") =>
                f = IF answered[f.seq].form = "response" THEN answered[f.seq]
                    ELSE EndOut(f.seq, 0, 1, "interrupted")
<1>1. ASSUME NEW f \in Range(out'), f.seq \in DOMAIN answered, IsFinal(f) \/ f.form = "chunk"
      PROVE  f = IF answered[f.seq].form = "response" THEN answered[f.seq]
                 ELSE EndOut(f.seq, 0, 1, "interrupted")
  <2>1. PICK i \in DOMAIN out' : f = out'[i]
    BY DEF Range
  <2>2. f \in FramesOf(s) /\ f.seq = s
    BY <2>1, FinalsOfStep
  <2>4. ~OnlyUploads(out')
    BY <2>1, <1>1, <2>2, UploadsNotFinal DEF OnlyUploads
  <2>6. Repeats(s)
    BY <2>4, <1>1, <2>2, UnansweredIsNew DEF Touches, SentFor
  <2>7. f = kept[s].frame /\ s \in DOMAIN kept
    <3>1. out' = <<kept[s].frame>> /\ s \in DOMAIN kept
      BY <2>6 DEF Repeats
    <3> QED BY <2>1, <3>1
  <2> QED BY <2>2, <2>7, <1>1 DEF Again, IInv, Answers
<1> QED BY <1>1, FinalsOfStep

LEMMA TouchedSilent ==
  ASSUME IInv, NEW s \in Nat, Touches(s), NEW i \in DOMAIN out',
         out'[i].form \in {"credit", "end"}, out'[i].stream # 0
  PROVE  /\ <<out'[i].seq, out'[i].stream>> \notin over
         /\ ~\E j \in 1..(i - 1) : /\ out'[j].form = "end"
                                   /\ out'[j].seq = out'[i].seq /\ out'[j].stream = out'[i].stream
<1>1. OfUpload(out'[i]) /\ out'[i].seq = s
  BY FinalsOfStep DEF OfUpload
<1>2. Orderly(out', s, Open(calls, s), Open(calls', s))
  BY DEF Touches, SentFor
<1>4. <<s, out'[i].stream>> \notin over
  <2> SUFFICES ASSUME <<s, out'[i].stream>> \in over PROVE FALSE
    OBVIOUS
  <2> DEFINE r == <<s, out'[i].stream>>
  <2>1. r[1] = s /\ r[2] = out'[i].stream /\ r \in over
    OBVIOUS
  <2> HIDE DEF r
  <2> QED BY <2>1, <1>1, <1>2 DEF IInv, OverIsOver, Orderly
<1>6. ASSUME NEW j \in 1..(i - 1), out'[j].form = "end", out'[j].stream = out'[i].stream
      PROVE  FALSE
  <2>1. j \in DOMAIN out' /\ j < i
    BY <1>2, LenProperties DEF Orderly
  <2> QED BY <1>1, <1>2, <1>6, <2>1 DEF Orderly, EndsUpload
<1> QED BY <1>1, <1>4, <1>6

LEMMA TouchedNew ==
  ASSUME IInv, NEW s \in Nat, Touches(s), NEW x \in 1..highest, x \in DOMAIN calls'
  PROVE  x \in DOMAIN calls
<1> QED BY DEF Touches, CallsTouched, IInv, SessionOK

-----------------------------------------------------------------------------
(* The parts of a step. *)

\* Closing more uploads disturbs no order.
LEMMA FewerOpen ==
  ASSUME NEW s, NEW A, NEW B, NEW C \in SUBSET B, NEW fs, Orderly(fs, s, A, B)
  PROVE  Orderly(fs, s, A, C)
BY DEF Orderly

\* The other calls stay as they are.
Others(cs, s) == \A x \in DOMAIN cs : x # s => x \in DOMAIN calls /\ cs[x] = calls[x]

\* Only the call of the step needs to be looked at.
LEMMA OthersTouched ==
  ASSUME IInv, NEW s \in Nat, Others(calls', s),
         s \in DOMAIN calls' =>
           /\ CallOK(calls'[s])
           /\ s \in DOMAIN calls \/ s > highest
           /\ s \in DOMAIN calls => Open(calls', s) \subseteq Open(calls, s)
           /\ ~calls'[s].settled => /\ Unanswered(s) /\ s \notin DOMAIN kept'
                                    /\ NotFinal(out')
  PROVE  CallsTouched(s)
BY DEF IInv, SessionOK, Others, CallsTouched, Like

\* A call is saved, or forgotten.
LEMMA SavedCall ==
  ASSUME IInv, NEW s \in DOMAIN calls, NEW call, NEW cs,
         cs = [calls EXCEPT ![s] = call] \/ cs = Without(calls, {s})
  PROVE  /\ Others(cs, s)
         /\ DOMAIN calls \ {s} \subseteq DOMAIN cs
         /\ s \in DOMAIN cs => cs = [calls EXCEPT ![s] = call] /\ cs[s] = call
         /\ Open(cs, s) \in SUBSET OpenUploads(call)
BY DEF Others, Without, Open

\* Session::finish_uploads saves the call or forgets it.
LEMMA FinishedCall ==
  ASSUME NEW s, NEW call
  PROVE  Finished(s, call) = [calls EXCEPT ![s] = call] \/ Finished(s, call) = Without(calls, {s})
BY DEF Finished

\* What is kept keeps its frames.
SameFrames(k) ==
  \A x \in DOMAIN k : x \in DOMAIN kept /\ KeptOK(k[x], x) /\ k[x].frame = kept[x].frame

\* Calls::expire changes no kept response.
LEMMA ExpireSame ==
  ASSUME IInv
  PROVE  SameFrames(kept) /\ SameFrames(Expire)
BY DEF IInv, SessionOK, SameFrames, Expire, Without

LEMMA SameTouched ==
  ASSUME NEW s, SameFrames(kept')
  PROVE  KeptTouched(s)
BY DEF SameFrames, KeptTouched

\* Calls::settle keeps one more frame.
LEMMA SettledKept ==
  ASSUME NEW k, NEW s, NEW m, NEW since \in Nat, NEW f,
         NEW x \in DOMAIN Settle(k, s, m, since, f).kept
  PROVE  LET e == Settle(k, s, m, since, f).kept[x]
         IN  \/ x # s /\ x \in DOMAIN k /\ e = k[x]
             \/ /\ x = s /\ e \in [frame : {f}, bounded : BOOLEAN, left : Int]
<1> DEFINE bounded == m \in Members /\ Shape[m].bounded
           entry == [frame |-> f, bounded |-> bounded,
                     left |-> IF bounded /\ since <= Bound THEN Bound - since ELSE -1]
           ring1 == IF bounded THEN ring ELSE Append(ring, s)
           all == [y \in DOMAIN k \cup {s} |-> IF y = s THEN entry ELSE k[y]]
           after == Settle(k, s, m, since, f).kept
<1>1. after = all \/ after = Without(all, {Head(ring1)})
  BY DEF Settle
<1>2. entry \in [frame : {f}, bounded : BOOLEAN, left : Int]
  <2>2. (IF bounded /\ since <= Bound THEN Bound - since ELSE -1) \in Int
    BY WsServerAssumption
  <2> QED BY WsServerAssumption, <2>2
<1> HIDE DEF entry, ring1
<1>3. x \in DOMAIN all /\ after[x] = all[x]
  <2> HIDE DEF all, after
  <2>1. x \in DOMAIN after
    BY DEF after
  <2> QED BY <1>1, <2>1 DEF Without
<1> QED BY <1>2, <1>3

\* An answer is kept and the frames fs are sent.
LEMMA Concluded ==
  ASSUME IInv, NEW s \in Nat, Unanswered(s), NEW k, SameFrames(k), NEW m, NEW since \in Nat,
         NEW f, (\E o \in {"ok", "refused"} : f = Response(s, o)) \/ f = EndOut(s, 0, 1, "interrupted"),
         NEW cs, NEW fs, \A i \in DOMAIN fs : IsFinal(fs[i]) => f = Again(fs[i]),
         ConcludeWith(k, s, m, since, f, cs, fs)
  PROVE  /\ KeptTouched(s) /\ out' = fs
         /\ \/ calls' = cs /\ closed' = closed
            \/ calls' = <<>> /\ todo' = {} /\ closed' = 1008
<1> DEFINE after == Settle(k, s, m, since, f).kept
<1>1. /\ kept' = after /\ out' = fs
      /\ \/ calls' = cs /\ closed' = closed
         \/ calls' = <<>> /\ todo' = {} /\ closed' = 1008
  BY DEF ConcludeWith, Close, Continue
<1>2. ASSUME NEW x \in DOMAIN after
      PROVE  \/ x # s /\ x \in DOMAIN k /\ after[x] = k[x]
             \/ x = s /\ after[x] \in [frame : {f}, bounded : BOOLEAN, left : Int]
  BY <1>2, SettledKept
<1> HIDE DEF after
<1>3. ASSUME NEW x \in DOMAIN kept'
      PROVE  /\ KeptOK(kept'[x], x)
             /\ \/ x \in DOMAIN kept /\ kept'[x].frame = kept[x].frame
                \/ /\ x = s /\ Unanswered(s)
                   /\ \A i \in DOMAIN out' : IsFinal(out'[i]) => kept'[s].frame = Again(out'[i])
  <2>1. CASE x # s /\ x \in DOMAIN k /\ after[x] = k[x]
    BY <1>1, <2>1 DEF SameFrames
  <2>2. CASE x = s /\ after[x] \in [frame : {f}, bounded : BOOLEAN, left : Int]
    <3> QED BY <1>1, <2>2 DEF KeptOK
  <2> QED BY <1>1, <1>2, <2>1, <2>2
<1> QED BY <1>1, <1>3 DEF KeptTouched

\* The response to a request, kept as it is sent.
LEMMA Responded ==
  ASSUME IInv, NEW s \in Nat, Unanswered(s), NEW k, SameFrames(k), NEW m, NEW since \in Nat,
         NEW o \in {"ok", "refused"}, NEW cs, NEW A, NEW B \in SUBSET A, NEW C \in SUBSET B,
         NEW before, Orderly(before, s, A, B), OnlyUploads(before),
         NEW after, Orderly(after, s, B, C), OnlyUploads(after),
         Respond(k, s, m, since, o, cs, before, after)
  PROVE  /\ KeptTouched(s) /\ Orderly(out', s, A, C)
         /\ \A i \in DOMAIN out' : out'[i].form = "response" => out'[i].outcome = o
         /\ \/ calls' = cs /\ closed' = closed
            \/ calls' = <<>> /\ todo' = {} /\ closed' = 1008
<1> DEFINE r == Response(s, o)
           fs == (before \o <<r>>) \o after
<1>1. r \in FramesOf(s) /\ ~OfUpload(r) /\ ~EndsUpload(r) /\ r = Again(r)
  BY DEF Response, FramesOf, OfUpload, EndsUpload, Again
<1> HIDE DEF r
<1>3. NotFinal(before) /\ B \in SUBSET B
  BY OnlyUploadsNotFinal DEF Orderly
<1>4. Orderly(before \o <<r>>, s, A, B)
  BY <1>1, OneSent, <1>3, SentAfter
<1>5. Orderly(fs, s, A, C)
  BY <1>4, SentAfter
<1>6. /\ before \in Seq(FramesOf(s)) /\ after \in Seq(FramesOf(s))
      /\ DOMAIN before = 1..Len(before) /\ Len(before) \in Nat
      /\ DOMAIN after = 1..Len(after) /\ Len(after) \in Nat
  BY LenProperties DEF Orderly
<1>7. ASSUME NEW i \in DOMAIN fs, ~OfUpload(fs[i]) PROVE fs[i] = r
  <2>1. /\ DOMAIN fs = 1..(Len(before) + 1 + Len(after))
        /\ fs[i] = IF i <= Len(before) THEN before[i]
                   ELSE IF i = Len(before) + 1 THEN r
                   ELSE after[i - (Len(before) + 1)]
    BY <1>1, <1>6
  <2>3. ~(i <= Len(before)) /\ i # Len(before) + 1 => i - (Len(before) + 1) \in DOMAIN after
    BY <1>6, <2>1
  <2> HIDE DEF fs
  <2> QED BY <1>7, <2>1, <1>6, <2>3 DEF OnlyUploads
<1>8. ConcludeWith(k, s, m, since, r, cs, fs)
  BY DEF Respond, r
<1>9. ASSUME NEW i \in DOMAIN fs PROVE fs[i] \in FramesOf(s)
  BY <1>5 DEF Orderly
<1>10. \A i \in DOMAIN fs : IsFinal(fs[i]) => r = Again(fs[i])
  <2> HIDE DEF fs
  <2> QED BY <1>1, <1>7, <1>9, UploadsNotFinal
<1>11. \A i \in DOMAIN fs : fs[i].form = "response" => fs[i].outcome = o
  <2> SUFFICES ASSUME NEW i \in DOMAIN fs, fs[i].form = "response" PROVE fs[i].outcome = o
    OBVIOUS
  <2> HIDE DEF fs
  <2> QED BY <1>7 DEF r, Response, OfUpload
<1>12. \E p \in {"ok", "refused"} : r = Response(s, p)
  BY DEF r
<1> HIDE DEF fs
<1>13. /\ KeptTouched(s) /\ out' = fs
       /\ \/ calls' = cs /\ closed' = closed
          \/ calls' = <<>> /\ todo' = {} /\ closed' = 1008
  BY <1>8, <1>10, <1>12, Concluded, ZenonT(30)
<1> QED BY <1>5, <1>11, <1>13

\* The end of a reply stream, kept as an interrupted one.
LEMMA StreamEnded ==
  ASSUME IInv, NEW s \in Nat, Unanswered(s), NEW k, SameFrames(k), NEW m, NEW since \in Nat,
         NEW cs, NEW A, NEW fs, Orderly(fs, s, A, {}),
         \A i \in DOMAIN fs : fs[i].form # "response",
         KeepStreamEnd(k, s, m, since, cs, fs)
  PROVE  /\ KeptTouched(s) /\ out' = fs
         /\ \/ calls' = cs /\ closed' = closed
            \/ calls' = <<>> /\ todo' = {} /\ closed' = 1008
<1> DEFINE f == EndOut(s, 0, 1, "interrupted")
<1>1. ASSUME NEW i \in DOMAIN fs, IsFinal(fs[i]) PROVE f = Again(fs[i])
  <2>2. fs[i].seq = s
    BY UploadsNotFinal DEF Orderly
  <2> QED BY <2>2 DEF Again
<1>2. ConcludeWith(k, s, m, since, f, cs, fs)
  BY DEF KeepStreamEnd
<1> HIDE DEF f
<1>3. f = EndOut(s, 0, 1, "interrupted")
  BY DEF f
<1> QED BY <1>1, <1>2, <1>3, Concluded, ZenonT(30)

-----------------------------------------------------------------------------
(* The steps. *)

LEMMA LikeItself ==
  ASSUME IInv, NEW x \in DOMAIN calls
  PROVE  Like(calls[x], calls[x])
BY DEF IInv, SessionOK, Like

\* A step that sends nothing and answers no request.
LEMMA Silence ==
  ASSUME IInv, highest' = highest, out' = <<>>, SameFrames(kept'),
         \A x \in DOMAIN calls' : x \in DOMAIN calls /\ Like(calls'[x], calls[x]),
         todo' \subseteq DOMAIN calls'
  PROVE  Touches(0)
<1>1. highest \in Nat /\ 0 \notin DOMAIN calls
  BY DEF IInv, SessionOK
<1>3. KeptTouched(0)
  BY SameTouched
<1>4. SentFor(0)
  <2> QED BY NothingSent DEF SentFor
<1> QED BY <1>1, <1>3, <1>4 DEF Touches, CallsTouched

LEMMA KeptUnchanged ==
  ASSUME IInv, kept' = kept
  PROVE  SameFrames(kept')
<1> QED BY ExpireSame DEF SameFrames

LEMMA ExpireIsKept ==
  ASSUME IInv, kept' = Expire
  PROVE  SameFrames(kept')
<1> HIDE DEF Expire
<1> QED BY ExpireSame DEF SameFrames

\* The tick starts.
LEMMA StartTickTouches ==
  ASSUME IInv, StartTick
  PROVE  Touches(0)
<1>1. /\ kept' = Expire /\ todo' = DOMAIN calls /\ out' = <<>>
      /\ highest' = highest /\ calls' = calls
  BY DEF StartTick
<1>3. \A x \in DOMAIN calls : Like(calls[x], calls[x])
  BY LikeItself
<1> QED BY <1>1, ExpireIsKept, <1>3, Silence

LEMMA OlderIsAge ==
  ASSUME NEW age \in Nat, NEW max \in Nat
  PROVE  Older(age, max) \in Nat
BY DEF Older

\* Time passes.
LEMMA TockTouches ==
  ASSUME IInv, Tock
  PROVE  Touches(0)
<1>1. /\ calls' = [s \in DOMAIN calls |-> AgedCall(calls[s])] /\ out' = <<>>
      /\ highest' = highest /\ kept' = kept /\ todo' = {}
  BY DEF Tock
<1>2. AbandonAfter \in Nat
  BY WsServerAssumption
<1>3. ASSUME NEW call, CallOK(call) PROVE Like(AgedCall(call), call)
  <2> DEFINE n == Shape[call.member].params
             U == call.uploads
             V == [k \in DOMAIN U |-> Waited(U[k])]
             e == AgedCall(call)
  <2>1. /\ DOMAIN U = 1..n /\ U \in [1..n -> Upload] /\ call \in Call(U)
        /\ call.settled => Shape[call.member].kind = "command"
    BY <1>3 DEF CallOK
  <2>2. ASSUME NEW k \in 1..n
        PROVE V[k] \in Upload /\ V[k].state = U[k].state
    <3>1. V[k] = [U[k] EXCEPT !.idle = Older(U[k].idle, AbandonAfter)] /\ U[k] \in Upload
      BY <2>1 DEF Waited
    <3> HIDE DEF V, U
    <3> QED BY <3>1, <1>2, OlderIsAge DEF Upload
  <2>3. V \in [1..n -> Upload] /\ DOMAIN V = 1..n
    <3>1. V = [k \in 1..n |-> V[k]]
      BY <2>1
    <3> HIDE DEF V
    <3> QED BY <3>1, <2>2
  <2>4. e = [call EXCEPT !.age = Older(call.age, AbandonAfter), !.uploads = V,
                         !.reply = Waited(call.reply)]
    BY DEF AgedCall
  <2> HIDE DEF V, U, e
  <2>5. Older(call.age, AbandonAfter) \in Nat /\ Waited(call.reply) \in Reply
    <3>1. call.age \in Nat /\ call.reply \in Reply
      BY <2>1 DEF Call
    <3> QED BY <3>1, <1>2, OlderIsAge DEF Waited, Reply
  <2>6. /\ e.uploads = V /\ e.settled = call.settled /\ e.member = call.member /\ e \in Call(V)
    BY <2>1, <2>4, <2>5 DEF Call
  <2>8. OpenUploads(e) \subseteq OpenUploads(call)
    BY <2>1, <2>2, <2>3, <2>6 DEF OpenUploads, U
  <2> QED BY <2>6, <2>1, <2>3, <2>8 DEF Like, e, CallOK
<1>5. SameFrames(kept')
  BY <1>1, KeptUnchanged
<1>6. todo' \subseteq DOMAIN calls'
  BY <1>1
<1> QED BY <1>1, <1>3, <1>5, <1>6, Silence DEF IInv, SessionOK

LEMMA ClockTouches ==
  ASSUME IInv, Clock
  PROVE  Touches(0)
<1>1. /\ calls' = [s \in DOMAIN calls |->
             IF Shape[calls[s].member].bounded
             THEN [calls[s] EXCEPT !.since = Older(calls[s].since, Bound + 1)] ELSE calls[s]]
      /\ kept' = [s \in DOMAIN kept |->
             IF kept[s].left >= 0 THEN [kept[s] EXCEPT !.left = kept[s].left - 1] ELSE kept[s]]
      /\ out' = <<>> /\ highest' = highest /\ todo' = todo
  BY DEF Clock
<1>3. ASSUME NEW x \in DOMAIN calls' PROVE x \in DOMAIN calls /\ Like(calls'[x], calls[x])
  <2> DEFINE c == calls[x]
             e == [c EXCEPT !.since = Older(c.since, Bound + 1)]
  <2>1. x \in DOMAIN calls /\ CallOK(c) /\ (calls'[x] = c \/ calls'[x] = e)
    BY <1>1 DEF IInv, SessionOK
  <2>3. Like(e, c)
    <3> HIDE DEF c
    <3>1. c \in Call(c.uploads) /\ Older(c.since, Bound + 1) \in Nat
      BY <2>1, WsServerAssumption, OlderIsAge DEF CallOK, Call
    <3>2. e.uploads = c.uploads /\ e.settled = c.settled /\ e.member = c.member /\ e \in Call(c.uploads)
      BY <3>1 DEF Call
    <3> HIDE DEF e
    <3> QED BY <2>1, <3>2 DEF Like, CallOK, OpenUploads
  <2> QED BY <2>1, <2>3 DEF Like
<1>4. SameFrames(kept')
  <2> SUFFICES ASSUME NEW x \in DOMAIN kept'
               PROVE x \in DOMAIN kept /\ KeptOK(kept'[x], x) /\ kept'[x].frame = kept[x].frame
    BY DEF SameFrames
  <2> DEFINE c == kept[x]
             e == [c EXCEPT !.left = c.left - 1]
  <2>1. x \in DOMAIN kept /\ KeptOK(c, x) /\ (kept'[x] = c \/ kept'[x] = e)
    BY <1>1 DEF IInv, SessionOK
  <2>2. KeptOK(e, x) /\ e.frame = c.frame
    <3> HIDE DEF c
    <3>2. e.frame = c.frame /\ e \in [frame : {c.frame}, bounded : BOOLEAN, left : Int]
      BY <2>1 DEF KeptOK
    <3> HIDE DEF e
    <3> QED BY <2>1, <3>2 DEF KeptOK
  <2> QED BY <2>1, <2>2
<1> QED BY <1>1, <1>3, <1>4, Silence DEF IInv, SessionOK

\* A step about a call in flight that gives it no final frame.
LEMMA CallStep ==
  ASSUME IInv, NEW s \in DOMAIN calls, NEW call, CallOK(call),
         call.settled = calls[s].settled, OpenUploads(call) \in SUBSET OpenUploads(calls[s]),
         NEW cs, cs = [calls EXCEPT ![s] = call] \/ cs = Without(calls, {s}),
         NEW fs, Orderly(fs, s, OpenUploads(calls[s]), Open(cs, s)), NotFinal(fs),
         OnlyUploads(fs) \/ ~calls[s].settled,
         out' = fs, highest' = highest, kept' = kept,
         \/ calls' = cs /\ todo' \subseteq DOMAIN calls'
         \/ calls' = <<>> /\ todo' = {}
  PROVE  Touches(s)
<1>1. highest \in Nat /\ s \in Nat /\ s <= highest /\ s \in 1..highest
  BY DEF IInv, SessionOK
<1>2. /\ Others(cs, s)
      /\ s \in DOMAIN cs => cs[s] = call
      /\ Open(cs, s) \in SUBSET OpenUploads(call)
  BY SavedCall
<1>3. CallsTouched(s)
  <2>1. CASE calls' = <<>>
    <3> QED BY <2>1 DEF CallsTouched
  <2>2. CASE calls' = cs
    <3>1. ~calls[s].settled => s \notin DOMAIN kept' /\ Unanswered(s)
      BY DEF IInv, Answers, NotSettledTwice, Unanswered
    <3>2. Others(calls', s)
      BY <1>2, <2>2 DEF Others
    <3>3. Open(calls, s) = OpenUploads(calls[s]) /\ Open(calls', s) = Open(cs, s)
      BY <2>2 DEF Open
    <3>4. NotFinal(out')
      BY DEF NotFinal
    <3> HIDE DEF Unanswered, Open
    <3> QED BY <1>1, <1>2, <2>2, <3>1, <3>2, <3>3, <3>4, OthersTouched
  <2> QED BY <2>1, <2>2
<1>5. SentFor(s)
  <2>2. Open(calls', s) \in SUBSET Open(cs, s)
    <3>1. CASE calls' = <<>>
      <4>2. Open(calls', s) = {}
        BY <3>1 DEF Open
      <4> QED BY <4>2
    <3>2. CASE calls' = cs
      BY <3>2 DEF Open
    <3> QED BY <3>1, <3>2
  <2>3. Orderly(fs, s, Open(calls, s), Open(calls', s))
    BY <2>2, FewerOpen DEF Open
  <2>5. OnlyUploads(fs) \/ Unanswered(s)
    BY DEF Unanswered
  <2> QED BY <2>3, <2>5 DEF SentFor, NotFinal, IsFinal
<1>6. todo' \subseteq DOMAIN calls'
  OBVIOUS
<1> QED BY <1>1, <1>3, KeptUnchanged, SameTouched, <1>5, <1>6 DEF Touches

\* A frame that is ignored, and one that ends the session.
LEMMA Ignored ==
  ASSUME IInv, Ignore
  PROVE  Touches(0)
<1>1. highest' = highest /\ out' = <<>> /\ kept' = kept /\ calls' = calls /\ todo' = todo
  BY DEF Ignore, Continue
<1>3. todo' \subseteq DOMAIN calls'
  BY <1>1 DEF IInv, SessionOK
<1>4. \A x \in DOMAIN calls' : x \in DOMAIN calls /\ Like(calls'[x], calls[x])
  BY <1>1, LikeItself
<1> QED BY <1>1, KeptUnchanged, <1>3, <1>4, Silence

LEMMA Violated ==
  ASSUME IInv, Violation
  PROVE  Touches(0)
<1>1. highest' = highest /\ out' = <<>> /\ kept' = kept /\ calls' = <<>> /\ todo' = {}
  BY DEF Violation, Close
<1>3. DOMAIN calls' = {}
  BY <1>1
<1> QED BY <1>1, KeptUnchanged, <1>3, Silence

\* Session::grant.
LEMMA GrantTouches ==
  ASSUME IInv, NEW f \in Frames, Grant(f), todo = {}
  PROVE  Touches(0)
<1>1. /\ out' = <<>> /\ kept' = kept /\ highest' = highest /\ todo' = {} /\ f.form = "credit"
      /\ \/ calls' = calls
         \/ /\ f.seq \in DOMAIN calls
            /\ calls' = [calls EXCEPT ![f.seq].reply = Granted(calls[f.seq].reply, f.credit)]
  BY DEF Grant, Continue, Named
<1>3. todo' \subseteq DOMAIN calls'
  BY <1>1
<1>4. ASSUME NEW x \in DOMAIN calls' PROVE x \in DOMAIN calls /\ Like(calls'[x], calls[x])
  <2> DEFINE c == calls[f.seq]
             r == Granted(c.reply, f.credit)
             e == [c EXCEPT !.reply = r]
  <2>1. \/ x \in DOMAIN calls /\ calls'[x] = calls[x]
        \/ x \in DOMAIN calls /\ x = f.seq /\ calls'[x] = e
    <3>1. CASE calls' = calls
      BY <3>1
    <3>2. CASE f.seq \in DOMAIN calls /\ calls' = [calls EXCEPT ![f.seq].reply = r]
      <4> HIDE DEF r
      <4> QED BY <3>2
    <3> QED BY <1>1, <3>1, <3>2
  <2>2. CASE calls'[x] = calls[x]
    BY <2>1, <2>2, LikeItself
  <2>3. CASE x \in DOMAIN calls /\ x = f.seq /\ calls'[x] = e
    <3>1. CallOK(c)
      BY <2>3 DEF IInv, SessionOK
    <3> HIDE DEF c
    <3>2. r \in Reply
      <4>1. c.reply \in Reply /\ f.credit \in Nat
        BY <3>1, <1>1, FramesAssumption DEF CallOK, Call
      <4>2. r = [c.reply EXCEPT !.credit = c.reply.credit + f.credit, !.idle = 0]
        BY DEF Granted
      <4>3. c.reply.credit + f.credit \in Nat
        BY <4>1 DEF Reply
      <4> HIDE DEF r
      <4> QED BY <4>1, <4>2, <4>3 DEF Reply
    <3> HIDE DEF r
    <3>4. e.uploads = c.uploads /\ e.settled = c.settled /\ e.member = c.member /\ e \in Call(c.uploads)
      BY <3>2, <3>1 DEF Call, CallOK
    <3> HIDE DEF e
    <3> QED BY <2>3, <3>1, <3>4 DEF c, Like, CallOK, OpenUploads
  <2> QED BY <2>1, <2>2, <2>3
<1> QED BY <1>1, KeptUnchanged, <1>3, <1>4, Silence

\* A call with another upload k in it.
LEMMA UploadChanged ==
  ASSUME NEW call, CallOK(call), NEW k \in DOMAIN call.uploads, NEW v \in Upload,
         v.state = "open" => call.uploads[k].state = "open"
  PROVE  LET e == [call EXCEPT !.uploads[k] = v]
         IN  /\ CallOK(e) /\ e.settled = call.settled /\ e.member = call.member
             /\ e.uploads = [call.uploads EXCEPT ![k] = v]
             /\ OpenUploads(e) \in SUBSET OpenUploads(call)
             /\ v.state # "open" => k \notin OpenUploads(e)
<1> DEFINE U == call.uploads
           V == [U EXCEPT ![k] = v]
           e == [call EXCEPT !.uploads[k] = v]
           n == Shape[call.member].params
<1>1. call \in Call(U) /\ U \in [1..n -> Upload] /\ DOMAIN U = 1..n
  BY DEF CallOK
<1>2. V \in [1..n -> Upload] /\ DOMAIN V = 1..n
  BY <1>1
<1>3. /\ e.uploads = V /\ e.settled = call.settled /\ e.member = call.member /\ e \in Call(V)
  <2> HIDE DEF U
  <2>1. e = [call EXCEPT !.uploads = V]
    BY DEF U
  <2> HIDE DEF e, V
  <2> QED BY <1>1, <2>1 DEF Call
<1>4. /\ \A i \in 1..n : V[i] = IF i = k THEN v ELSE U[i]
      /\ k \in 1..n
  BY <1>1
<1> HIDE DEF V, e
<1>6. OpenUploads(e) = {i \in 1..n : V[i].state = "open"} /\ OpenUploads(call) = {i \in 1..n : U[i].state = "open"}
  BY <1>1, <1>2, <1>3 DEF OpenUploads
<1>7. OpenUploads(e) \in SUBSET OpenUploads(call) /\ (v.state # "open" => k \notin OpenUploads(e))
  <2> HIDE DEF U
  <2>1. v.state = "open" => U[k].state = "open"
    BY DEF U
  <2> QED BY <1>4, <1>6, <2>1
<1> QED BY <1>3, <1>1, <1>2, <1>7 DEF e, V, U, CallOK

LEMMA StoppedUpload ==
  ASSUME NEW u \in Upload
  PROVE  Stopped(u) \in Upload /\ Stopped(u).state = "stopped"
BY DEF Upload, Stopped

\* The pass over the uploads of a call that follows a chunk or an end.
LEMMA DrainTouches ==
  ASSUME IInv, NEW s \in DOMAIN calls, NEW call, CallOK(call), call.settled = calls[s].settled,
         OpenUploads(call) \in SUBSET OpenUploads(calls[s]),
         DrainAndFinish(s, call), todo = {}
  PROVE  Touches(s)
<1>1. PICK d \in Drains(call) :
        /\ IF Gone(d) THEN Close(1001, DrainFrames(s, d))
           ELSE /\ Continue(Finished(s, Drained(call, d)), DrainFrames(s, d))
                /\ UNCHANGED todo
        /\ UNCHANGED <<highest, kept, ring>>
  BY DEF DrainAndFinish
<1> DEFINE e == Drained(call, d)
           cs == Finished(s, e)
           fs == DrainFrames(s, d)
<1>2. /\ CallOK(e) /\ e.settled = call.settled
      /\ OpenUploads(e) \in SUBSET OpenUploads(call)
      /\ Orderly(fs, s, OpenUploads(call), OpenUploads(e)) /\ OnlyUploads(fs)
  BY DrainedOK
<1>3. /\ out' = fs /\ highest' = highest /\ kept' = kept
      /\ \/ calls' = cs /\ todo' = {}
         \/ calls' = <<>> /\ todo' = {}
  BY <1>1 DEF Close, Continue
<1>4. cs = [calls EXCEPT ![s] = e] \/ cs = Without(calls, {s})
  BY FinishedCall
<1> HIDE DEF cs, fs, e
<1>6. Orderly(fs, s, OpenUploads(calls[s]), Open(cs, s))
  <2>1. Orderly(fs, s, OpenUploads(calls[s]), OpenUploads(e))
    BY <1>2 DEF Orderly
  <2> QED BY <2>1, <1>4, SavedCall, FewerOpen
<1>7. NotFinal(fs)
  BY <1>2, OnlyUploadsNotFinal DEF Orderly
<1>8. OpenUploads(e) \in SUBSET OpenUploads(calls[s]) /\ e.settled = calls[s].settled
  BY <1>2
<1>9. \/ calls' = cs /\ todo' \subseteq DOMAIN calls'
      \/ calls' = <<>> /\ todo' = {}
  BY <1>3
<1> QED BY <1>2, <1>3, <1>4, <1>6, <1>7, <1>8, <1>9, CallStep

\* An upload that stops, with or without a frame about its end.
LEMMA StopTouches ==
  ASSUME IInv, NEW s \in DOMAIN calls, NEW k \in DOMAIN calls[s].uploads,
         calls[s].uploads[k].state = "open",
         NEW fs, fs = <<>> \/ fs = <<EndOut(s, k, 1, "interrupted")>>,
         Continue(Finished(s, [calls[s] EXCEPT !.uploads[k] = Stopped(calls[s].uploads[k])]), fs),
         UNCHANGED <<highest, kept, ring, todo>>, todo = {}
  PROVE  Touches(s)
<1> DEFINE c == calls[s]
           v == Stopped(c.uploads[k])
           e == [c EXCEPT !.uploads[k] = v]
           cs == Finished(s, e)
<1>1. CallOK(c)
  BY DEF IInv, SessionOK
<1>2. k \in Nat \ {0} /\ c.uploads[k] \in Upload
  BY <1>1, WsServerAssumption DEF CallOK, Call
<1>3. v \in Upload /\ v.state = "stopped"
  BY <1>2, StoppedUpload
<1>4. out' = fs /\ calls' = cs /\ highest' = highest /\ kept' = kept /\ todo' = {}
  BY DEF Continue
<1>5. cs = [calls EXCEPT ![s] = e] \/ cs = Without(calls, {s})
  BY FinishedCall
<1>o. k \in OpenUploads(c)
  BY DEF OpenUploads
<1> HIDE DEF v, c
<1>6. /\ CallOK(e) /\ e.settled = c.settled
      /\ OpenUploads(e) \in SUBSET OpenUploads(c) /\ k \notin OpenUploads(e)
  <2>2. k \in DOMAIN c.uploads
    BY DEF c
  <2> QED BY <1>1, <1>3, <2>2, UploadChanged
<1> HIDE DEF e, cs
<1>7. Open(cs, s) \in SUBSET OpenUploads(e)
  BY <1>5, SavedCall
<1>8. Orderly(fs, s, OpenUploads(c), Open(cs, s)) /\ OnlyUploads(fs)
  <2>1. CASE fs = <<>>
    BY <2>1, NothingSent
  <2>2. CASE fs = <<EndOut(s, k, 1, "interrupted")>>
    <3> DEFINE A == OpenUploads(c)
               B == Open(cs, s)
    <3>1. k \in A /\ k \notin B
      BY <1>o, <1>6, <1>7
    <3> HIDE DEF A, B
    <3> QED BY <2>2, <1>2, <3>1, EndOfUpload DEF A, B
  <2> QED BY <2>1, <2>2
<1>9. NotFinal(fs)
  BY <1>8, OnlyUploadsNotFinal DEF Orderly
<1> QED BY <1>4, <1>5, <1>6, <1>8, <1>9, CallStep DEF c

\* A call in flight and its parameter streams are well formed.
LEMMA UploadTyped ==
  ASSUME IInv, NEW s \in DOMAIN calls, NEW k \in DOMAIN calls[s].uploads
  PROVE  CallOK(calls[s]) /\ calls[s].uploads[k] \in Upload /\ k \in Nat \ {0}
<1> DEFINE c == calls[s]
           n == Shape[c.member].params
<1>1. CallOK(c)
  BY DEF IInv, SessionOK
<1>2. c.uploads \in [1..n -> Upload]
  BY <1>1 DEF CallOK
<1>4. n \in Nat
  BY <1>1, WsServerAssumption DEF CallOK, Call
<1> HIDE DEF n, c
<1>6. c.uploads[k] \in Upload /\ k \in Nat \ {0}
  BY <1>2, <1>4 DEF c
<1> QED BY <1>1, <1>6 DEF c

\* Session::receive_chunk.
LEMMA ReceiveChunkTouches ==
  ASSUME IInv, NEW f \in Frames, ReceiveChunk(f), todo = {}
  PROVE  \E s \in Nat : Touches(s)
<1> DEFINE s == f.seq
           c == calls[s]
           k == f.stream
           u == c.uploads[k]
           q == [u EXCEPT !.seqIn = f.n, !.credit = u.credit - 1, !.queued = u.queued + 1, !.idle = 0]
           others == [c EXCEPT !.uploads[k] = Stopped(u)]
<1>0. s \in Nat
  BY FramesAssumption
<1>1. CASE Ignore \/ Violation
  BY <1>1, Ignored, Violated
<1>2. CASE /\ s \in DOMAIN calls /\ k \in DOMAIN c.uploads /\ u.state = "open"
           /\ Continue(Finished(s, others), <<EndOut(s, k, 1, "interrupted")>>)
           /\ UNCHANGED <<highest, kept, ring, todo>>
  BY <1>0, <1>2, StopTouches
<1>c. ASSUME s \in DOMAIN calls, k \in DOMAIN c.uploads
      PROVE  CallOK(c) /\ u \in Upload /\ k \in Nat \ {0}
  BY <1>c, UploadTyped
<1>3. CASE /\ s \in DOMAIN calls /\ k \in DOMAIN c.uploads /\ u.state = "open"
           /\ Continue(Without(calls, {s}), <<EndOut(s, k, 1, "refused")>> \o InterruptFrames(s, others))
           /\ UNCHANGED <<highest, kept, ring, todo>>
  <2> DEFINE fs == InterruptFrames(s, others)
             cs == Without(calls, {s})
             g == <<EndOut(s, k, 1, "refused")>>
             A == OpenUploads(c)
             B == OpenUploads(others)
  <2>1. /\ CallOK(others) /\ others.settled = c.settled
        /\ B \in SUBSET A /\ k \notin B
    <3>1. Stopped(u) \in Upload /\ Stopped(u).state = "stopped"
      BY <1>3, <1>c, StoppedUpload
    <3> DEFINE v == Stopped(u)
    <3> HIDE DEF v, c
    <3> QED BY <3>1, <1>3, <1>c, UploadChanged DEF v
  <2>2. k \in A
    BY <1>3 DEF OpenUploads
  <2>3. out' = g \o fs /\ calls' = cs /\ highest' = highest /\ kept' = kept /\ todo' = {}
    BY <1>3 DEF Continue
  <2> HIDE DEF others
  <2>4. Orderly(fs, s, B, {}) /\ OnlyUploads(fs)
    BY <2>1, InterruptsInOrder
  <2>5. Open(cs, s) = {}
    BY DEF Open, Without
  <2> HIDE DEF A, B, fs, cs
  <2>6. Orderly(g, s, A, B) /\ OnlyUploads(g)
    BY <1>3, <1>c, <2>1, <2>2, EndOfUpload
  <2> HIDE DEF g
  <2>7. {} \in SUBSET B
    OBVIOUS
  <2>8. Orderly(g \o fs, s, A, {}) /\ OnlyUploads(g \o fs)
    BY <2>1, <2>4, <2>6, <2>7, SentAfter
  <2>9. NotFinal(g \o fs)
    BY <2>8, OnlyUploadsNotFinal DEF Orderly
  <2>11. cs = Without(calls, {s}) /\ todo' \subseteq DOMAIN calls'
    BY <2>3 DEF cs
  <2>12. Touches(s)
    <3> DEFINE hs == g \o fs
    <3>1. out' = hs /\ Orderly(hs, s, OpenUploads(calls[s]), Open(cs, s)) /\ NotFinal(hs) /\ OnlyUploads(hs)
      BY <2>3, <2>5, <2>8, <2>9 DEF A
    <3> HIDE DEF hs
    <3> QED BY <1>3, <1>c, <2>3, <2>11, <3>1, CallStep
  <2> QED BY <1>0, <2>12
<1>4. CASE /\ s \in DOMAIN calls /\ k \in DOMAIN c.uploads /\ u.state = "open" /\ u.credit > 0
           /\ f.n = u.seqIn + 1
           /\ DrainAndFinish(s, [c EXCEPT !.uploads[k] = q])
  <2>1. q \in Upload /\ q.state = "open"
    <3>1. u \in Upload
      BY <1>4, <1>c
    <3>2. f.n \in Nat /\ u.credit - 1 \in Nat /\ u.queued + 1 \in Nat
      BY <3>1, <1>4 DEF Upload
    <3>3. u.state = "open"
      BY <1>4
    <3> HIDE DEF u
    <3> QED BY <3>1, <3>2, <3>3 DEF Upload
  <2> DEFINE e == [c EXCEPT !.uploads[k] = q]
  <2>2. DrainAndFinish(s, e)
    BY <1>4
  <2>3. CallOK(e) /\ e.settled = c.settled /\ OpenUploads(e) \in SUBSET OpenUploads(c)
    <3> HIDE DEF q
    <3>1. q.state = "open" => c.uploads[k].state = "open"
      BY <1>4
    <3> HIDE DEF c
    <3> QED BY <1>4, <1>c, <2>1, <3>1, UploadChanged, SMTT(30)
  <2> HIDE DEF e
  <2> QED BY <1>0, <1>4, <2>2, <2>3, DrainTouches
<1>5. QED
  BY <1>1, <1>2, <1>3, <1>4 DEF ReceiveChunk, Named

\* Session::end_upload.
LEMMA EndUploadTouches ==
  ASSUME IInv, NEW f \in Frames, EndUpload(f), todo = {}
  PROVE  \E s \in Nat : Touches(s)
<1> DEFINE s == f.seq
           c == calls[s]
           k == f.stream
           u == c.uploads[k]
           plain == Shape[c.member].kind = "query" /\ ~Shape[c.member].reply
           w == [u EXCEPT !.seqIn = f.n, !.ended = TRUE, !.idle = 0]
           ended(lag) == [c EXCEPT !.uploads[k] = w,
                                   !.age = IF plain THEN 0 ELSE c.age,
                                   !.since = IF plain /\ Shape[c.member].bounded THEN lag ELSE c.since]
           e == [c EXCEPT !.uploads[k] = w]
<1>0. s \in Nat
  BY FramesAssumption
<1>1. CASE Ignore \/ Violation
  BY <1>1, Ignored, Violated
<1>2. CASE /\ s \in DOMAIN calls /\ k \in DOMAIN c.uploads /\ u.state = "open"
           /\ Continue(Finished(s, [c EXCEPT !.uploads[k] = Stopped(u)]),
                       IF f.n # u.seqIn + 1 THEN <<EndOut(s, k, 1, "interrupted")>> ELSE <<>>)
           /\ UNCHANGED <<highest, kept, ring, todo>>
  <2> DEFINE fs == IF f.n # u.seqIn + 1 THEN <<EndOut(s, k, 1, "interrupted")>> ELSE <<>>
  <2>2. Continue(Finished(s, [c EXCEPT !.uploads[k] = Stopped(u)]), fs)
    BY <1>2
  <2> HIDE DEF fs
  <2> QED BY <1>0, <1>2, <2>2, StopTouches
<1>3. ASSUME s \in DOMAIN calls, k \in DOMAIN c.uploads, u.state = "open", f.n = u.seqIn + 1,
             NEW lag \in Lags, DrainAndFinish(s, ended(lag))
      PROVE  Touches(s)
  <2>1. CallOK(c) /\ u \in Upload
    BY <1>3 DEF IInv, SessionOK, CallOK
  <2>2. w \in Upload /\ w.state = "open"
    <3>1. f.n \in Nat
      BY <2>1, <1>3 DEF Upload
    <3>2. u.state = "open"
      BY <1>3
    <3> HIDE DEF u
    <3> QED BY <2>1, <3>1, <3>2 DEF Upload
  <2>3. CallOK(e) /\ e.settled = c.settled /\ e.member = c.member /\ OpenUploads(e) \in SUBSET OpenUploads(c)
    <3> HIDE DEF w, c
    <3> QED BY <1>3, <2>1, <2>2, UploadChanged
  <2> DEFINE age == IF plain THEN 0 ELSE c.age
             since == IF plain /\ Shape[c.member].bounded THEN lag ELSE c.since
  <2>4. age \in Nat /\ since \in Nat
    BY <2>1, WsServerAssumption DEF CallOK, Call
  <2>5. ended(lag) = [e EXCEPT !.age = age, !.since = since]
    <3> HIDE DEF age, since, w, c, plain
    <3> QED BY <2>1 DEF Call, age, since, CallOK
  <2> DEFINE g == ended(lag)
  <2>6. DrainAndFinish(s, g)
    BY <1>3
  <2>7. g = [e EXCEPT !.age = age, !.since = since]
    BY <2>5
  <2> HIDE DEF g, e, age, since
  <2>8. e \in Call(e.uploads)
    BY <2>3 DEF CallOK
  <2>9. /\ g.uploads = e.uploads /\ g.settled = e.settled /\ g.member = e.member
        /\ g \in Call(e.uploads)
    BY <2>4, <2>7, <2>8 DEF Call
  <2>10. CallOK(g) /\ g.settled = c.settled /\ OpenUploads(g) \in SUBSET OpenUploads(c)
    BY <2>3, <2>9 DEF CallOK, OpenUploads
  <2> QED BY <1>3, <2>6, <2>10, DrainTouches
<1>4. CASE /\ s \in DOMAIN calls /\ k \in DOMAIN c.uploads /\ u.state = "open" /\ f.n = u.seqIn + 1
           /\ \E lag \in Lags : DrainAndFinish(s, ended(lag))
  BY <1>0, <1>3, <1>4
<1>5. QED
  BY <1>1, <1>2, <1>4, ZenonT(30) DEF EndUpload, Named

\* Session::stop_stream.
LEMMA StopStreamTouches ==
  ASSUME IInv, NEW f \in Frames, StopStream(f), todo = {}
  PROVE  \E s \in Nat : Touches(s)
<1> DEFINE s == f.seq
           c == calls[s]
           fs == InterruptFrames(s, c)
           cs == Without(calls, {s})
<1>0. s \in Nat
  BY FramesAssumption
<1>1. CASE Ignore \/ Violation
  BY <1>1, Ignored, Violated
<1>2. CASE /\ s \in DOMAIN calls /\ Streamed(c.member)
           /\ KeepStreamEnd(kept, s, c.member, c.since, cs, fs)
           /\ UNCHANGED <<highest, todo>>
  <2>1. CallOK(c) /\ c.since \in Nat /\ s <= highest /\ highest \in Nat
    BY <1>2 DEF IInv, SessionOK, CallOK, Call
  <2>2. Unanswered(s)
    <3>2. ~c.settled
      BY <2>1, <1>2, WsServerAssumption DEF CallOK, Call, Streamed
    <3> QED BY <1>2, <3>2 DEF Unanswered
  <2>3. Orderly(fs, s, OpenUploads(c), {}) /\ OnlyUploads(fs)
    BY <2>1, InterruptsInOrder
  <2>4. SameFrames(kept)
    BY ExpireSame
  <2> HIDE DEF cs, fs
  <2>5. \A i \in DOMAIN fs : fs[i].form # "response"
    BY <2>3 DEF OnlyUploads, OfUpload
  <2>6. /\ KeptTouched(s) /\ out' = fs
        /\ \/ calls' = cs /\ closed' = closed
           \/ calls' = <<>> /\ todo' = {} /\ closed' = 1008
    <3> HIDE DEF Unanswered
    <3> QED BY <1>0, <1>2, <2>1, <2>2, <2>3, <2>4, <2>5, StreamEnded
  <2>7. s \notin DOMAIN calls' /\ Others(calls', s)
    <3>1. CASE calls' = cs
      BY <3>1 DEF cs, Without, Others
    <3>2. CASE calls' = <<>>
      <4> QED BY <3>2 DEF Others
    <3> QED BY <2>6, <3>1, <3>2
  <2>8. CallsTouched(s)
    BY <1>0, <2>7, OthersTouched
  <2>9. SentFor(s)
    <3> QED BY <2>2, <2>3, <2>6, <2>7, <1>2 DEF SentFor, Open
  <2> QED BY <1>0, <1>2, <2>1, <2>6, <2>8, <2>9 DEF Touches
<1> QED BY <1>1, <1>2 DEF StopStream, Named

\* A request that is refused, or whose reply stream is.
LEMMA RefuseTouches ==
  ASSUME IInv, NEW s \in Nat, s > highest, highest' = s, todo' = {},
         NEW m, NEW since \in Nat,
         \/ KeepStreamEnd(Expire, s, m, since, calls, <<EndOut(s, 0, 1, "refused")>>)
         \/ Respond(Expire, s, m, since, "refused", calls, <<>>, <<>>)
  PROVE  Touches(s)
<1>1. highest \in Nat /\ s \notin DOMAIN calls
  BY DEF IInv, SessionOK
<1>2. Unanswered(s) /\ SameFrames(Expire)
  BY ExpireSame DEF Unanswered
<1> DEFINE k == Expire
           f == EndOut(s, 0, 1, "refused")
<1>3. \/ KeepStreamEnd(k, s, m, since, calls, <<f>>)
      \/ Respond(k, s, m, since, "refused", calls, <<>>, <<>>)
  OBVIOUS
<1>4. f \in FramesOf(s) /\ f.form # "response" /\ ~OfUpload(f) /\ ~EndsUpload(f)
  BY DEF EndOut, FramesOf, OfUpload, EndsUpload
<1>5. SameFrames(k)
  BY <1>2
<1> HIDE DEF k, f, Unanswered
<1>6. /\ KeptTouched(s) /\ Orderly(out', s, {}, {})
      /\ calls' = calls \/ calls' = <<>>
  <2>1. CASE KeepStreamEnd(k, s, m, since, calls, <<f>>)
    <3> DEFINE fs == <<f>>
    <3>1. Orderly(fs, s, {}, {})
      BY <1>4, OneSent
    <3>2. \A i \in DOMAIN fs : fs[i].form # "response"
      BY <1>4
    <3>3. KeepStreamEnd(k, s, m, since, calls, fs)
      BY <2>1
    <3> HIDE DEF fs
    <3> QED BY <1>2, <1>5, <3>1, <3>2, <3>3, StreamEnded
  <2>2. CASE Respond(k, s, m, since, "refused", calls, <<>>, <<>>)
    <3> DEFINE e == <<>>
               A == {}
    <3>1. Orderly(e, s, A, A) /\ OnlyUploads(e) /\ A \in SUBSET A
      BY NothingSent
    <3>2. Respond(k, s, m, since, "refused", calls, e, e)
      BY <2>2
    <3> HIDE DEF e, A
    <3> DEFINE o == "refused"
    <3>o. o \in {"ok", "refused"} /\ Respond(k, s, m, since, o, calls, e, e)
      BY <3>2
    <3> HIDE DEF o
    <3>3. /\ KeptTouched(s) /\ Orderly(out', s, A, A)
          /\ \A i \in DOMAIN out' : out'[i].form = "response" => out'[i].outcome = o
          /\ \/ calls' = calls /\ closed' = closed
             \/ calls' = <<>> /\ todo' = {} /\ closed' = 1008
      BY <1>2, <1>5, <3>1, <3>o, Responded, ZenonT(30)
    <3> QED BY <3>3 DEF A
  <2> QED BY <1>3, <2>1, <2>2
<1>7. s \notin DOMAIN calls' /\ Others(calls', s)
  <2>1. CASE calls' = calls
    BY <2>1, <1>1 DEF Others
  <2>2. CASE calls' = <<>>
    <3> QED BY <2>2 DEF Others
  <2> QED BY <1>6, <2>1, <2>2
<1>9. SentFor(s)
  <2> QED BY <1>2, <1>6, <1>7, <1>1 DEF SentFor, Open
<1>10. todo' \subseteq DOMAIN calls' /\ highest <= highest'
  BY <1>1
<1> QED BY <1>6, <1>7, OthersTouched, <1>9, <1>10 DEF Touches

\* A call that the provider has accepted.
LEMMA NewCallOK ==
  ASSUME NEW m \in Members, NEW lag \in Nat
  PROVE  CallOK(NewCall(m, lag)) /\ ~NewCall(m, lag).settled
<1> DEFINE n == Shape[m].params
           V == [k \in 1..n |-> NewUpload]
           c == NewCall(m, lag)
<1>1. NewUpload \in Upload /\ NewReply \in Reply
  BY WsServerAssumption DEF NewUpload, NewReply, Upload, Reply
<1>2. V \in [1..n -> Upload]
  BY <1>1
<1>4. /\ c.uploads = V /\ ~c.settled /\ c.member = m
      /\ c \in Call(V)
  <2> HIDE DEF V
  <2>1. c = [member |-> m, settled |-> FALSE, age |-> 0,
             since |-> IF Shape[m].bounded THEN lag ELSE 0, uploads |-> V, reply |-> NewReply]
    BY DEF NewCall, V
  <2> HIDE DEF c
  <2> QED BY <1>1, <2>1 DEF Call
<1> HIDE DEF c, V
<1>5. CallOK(c)
  BY <1>2, <1>4 DEF CallOK
<1> QED BY <1>4, <1>5 DEF c

LEMMA AcceptTouches ==
  ASSUME IInv, NEW s \in Nat, s > highest, highest' = s, todo' = {}, kept' = Expire, out' = <<>>,
         NEW m \in Members, NEW lag \in Nat,
         \/ calls' = [x \in DOMAIN calls \cup {s} |-> IF x = s THEN NewCall(m, lag) ELSE calls[x]]
         \/ calls' = <<>>
  PROVE  Touches(s)
<1>1. highest \in Nat /\ s \notin DOMAIN calls
  BY DEF IInv, SessionOK
<1>2. Unanswered(s)
  BY DEF Unanswered
<1>3. SameFrames(kept')
  BY ExpireIsKept
<1>4. s \notin DOMAIN kept'
  BY <1>2, <1>3, UnansweredIsNew DEF SameFrames
<1>6. NotFinal(out') /\ Orderly(out', s, Open(calls, s), Open(calls', s)) /\ OnlyUploads(out')
  BY NothingSent
<1>7. /\ Others(calls', s)
      /\ s \in DOMAIN calls' => calls'[s] = NewCall(m, lag)
  <2>1. CASE calls' = <<>>
    <3> QED BY <2>1 DEF Others
  <2>2. CASE calls' = [x \in DOMAIN calls \cup {s} |-> IF x = s THEN NewCall(m, lag) ELSE calls[x]]
    <3> DEFINE c == NewCall(m, lag)
    <3> HIDE DEF c
    <3>2. Others(calls', s) /\ (s \in DOMAIN calls' => calls'[s] = c)
      BY <2>2 DEF Others, c
    <3> QED BY <3>2 DEF c
  <2> QED BY <2>1, <2>2
<1> DEFINE c == NewCall(m, lag)
<1>8. CallOK(c)
  BY NewCallOK
<1>9. s \in DOMAIN calls' => calls'[s] = c
  BY <1>7
<1> HIDE DEF c, Unanswered
<1>10. CallsTouched(s)
  BY <1>1, <1>2, <1>4, <1>6, <1>7, <1>8, <1>9, OthersTouched
<1>12. SentFor(s)
  BY <1>6 DEF SentFor
<1>13. todo' \subseteq DOMAIN calls' /\ highest <= highest'
  BY <1>1
<1> QED BY <1>10, <1>3, SameTouched, <1>12, <1>13 DEF Touches

\* A repeat is answered with what is kept.
LEMMA RepeatTouches ==
  ASSUME IInv, NEW s \in Nat, ~(s > highest), s \notin DOMAIN calls, s \in DOMAIN Expire,
         kept' = Expire, out' = <<Expire[s].frame>>, calls' = calls, highest' = highest, todo' = {}
  PROVE  Touches(s)
<1>2. s \in DOMAIN kept /\ Expire[s].frame = kept[s].frame /\ KeptOK(kept[s], s)
  BY ExpireSame DEF SameFrames
<1> DEFINE f == kept[s].frame
<1>4. f \in FramesOf(s) /\ ~OfUpload(f) /\ ~EndsUpload(f)
  BY <1>2 DEF KeptOK, Response, EndOut, FramesOf, OfUpload, EndsUpload
<1>5. out' = <<f>>
  BY <1>2
<1> HIDE DEF f
<1>7. Repeats(s)
  BY <1>2, <1>5 DEF Repeats, f
<1>8. SentFor(s)
  BY <1>4, <1>5, OneSent, <1>7 DEF SentFor
<1>9. CallsTouched(s)
  <2> QED BY OthersTouched DEF Others
<1>10. KeptTouched(s)
  BY ExpireIsKept, SameTouched
<1> QED BY <1>8, <1>9, <1>10 DEF Touches, IInv, SessionOK

\* Session::request.
LEMMA RequestTouches ==
  ASSUME IInv, NEW f \in Frames, Request(f), todo = {}
  PROVE  \E s \in Nat : Touches(s)
<1> DEFINE s == f.seq
           m == f.member
<1>0. s \in Nat /\ todo' = {} /\ highest \in Nat
  BY FramesAssumption, ZenonT(30) DEF IInv, SessionOK, Request
<1>1. CASE /\ Seen(s, Expire) = "settled" /\ kept' = Expire
           /\ Continue(calls, <<Expire[s].frame>>) /\ highest' = highest
  <2> QED BY <1>0, <1>1, RepeatTouches DEF Continue, Seen
<1>2. CASE kept' = Expire /\ Continue(calls, <<>>) /\ highest' = highest
  <2>2. calls' = calls /\ out' = <<>> /\ todo' \subseteq DOMAIN calls'
    BY <1>0, <1>2 DEF Continue
  <2>3. \A x \in DOMAIN calls' : x \in DOMAIN calls /\ Like(calls'[x], calls[x])
    BY <2>2, LikeItself
  <2> QED BY <1>2, ExpireIsKept, <2>2, <2>3, Silence
<1>3. ASSUME s > highest, highest' = s, NEW lag \in Lags,
             \/ KeepStreamEnd(Expire, s, m, lag, calls, <<EndOut(s, 0, 1, "refused")>>)
             \/ Respond(Expire, s, m, lag, "refused", calls, <<>>, <<>>)
      PROVE  Touches(s)
  BY <1>0, <1>3, WsServerAssumption, RefuseTouches
<1>4. ASSUME s > highest, highest' = s, NEW lag \in Lags, m \in Members, kept' = Expire,
             \/ Continue([x \in DOMAIN calls \cup {s} |->
                             IF x = s THEN NewCall(m, lag) ELSE calls[x]], <<>>)
             \/ Close(1001, <<>>)
      PROVE  Touches(s)
  <2>1. lag \in Nat
    BY WsServerAssumption
  <2>2. /\ out' = <<>>
        /\ \/ calls' = [x \in DOMAIN calls \cup {s} |-> IF x = s THEN NewCall(m, lag) ELSE calls[x]]
           \/ calls' = <<>>
    BY <1>4 DEF Continue, Close
  <2> QED BY <1>0, <1>4, <2>1, <2>2, AcceptTouches, ZenonT(30)
<1> HIDE DEF Expire
<1> DEFINE Entered(lag) == [x \in DOMAIN calls \cup {s} |-> IF x = s THEN NewCall(m, lag) ELSE calls[x]]
           Refused(lag) ==
             \/ KeepStreamEnd(Expire, s, m, lag, calls, <<EndOut(s, 0, 1, "refused")>>)
             \/ Respond(Expire, s, m, lag, "refused", calls, <<>>, <<>>)
           Sent(lag) ==
             /\ m \in Members /\ kept' = Expire
             /\ Continue(Entered(lag), <<>>) \/ Close(1001, <<>>)
<1>6. CASE /\ Seen(s, Expire) = "new" /\ highest' = s
           /\ \E lag \in Lags : Refused(lag) \/ Sent(lag)
  <2>1. PICK lag \in Lags : Refused(lag) \/ Sent(lag)
    BY <1>6
  <2>2. s > highest /\ highest' = s
    BY <1>6 DEF Seen
  <2>3. CASE Refused(lag)
    <3> QED BY <1>0, <1>3, <2>2, <2>3
  <2>4. CASE Sent(lag)
    <3>1. Touches(s)
      BY <1>4, <2>2, <2>4, ZenonT(30)
    <3> QED BY <1>0, <3>1
  <2> QED BY <2>1, <2>3, <2>4
<1>7. \/ /\ Seen(s, Expire) = "settled" /\ kept' = Expire
         /\ Continue(calls, <<Expire[s].frame>>) /\ highest' = highest
      \/ kept' = Expire /\ Continue(calls, <<>>) /\ highest' = highest
      \/ /\ Seen(s, Expire) = "new" /\ highest' = s
         /\ \E lag \in Lags : Refused(lag) \/ Sent(lag)
  <2> DEFINE Refuse(lag) ==
               IF Streamed(m)
               THEN KeepStreamEnd(Expire, s, m, lag, calls, <<EndOut(s, 0, 1, "refused")>>)
               ELSE Respond(Expire, s, m, lag, "refused", calls, <<>>, <<>>)
             Served == m \in Members /\ (NeedsStreams(m) => CarriesStreams)
             Branch(lag) ==
               \/ ~Served /\ Respond(Expire, s, m, lag, "refused", calls, <<>>, <<>>)
               \/ Served /\ Refuse(lag)
               \/ Served /\ ~f.big /\ kept' = Expire /\ Continue(Entered(lag), <<>>) /\ UNCHANGED ring
               \/ Served /\ ~f.big /\ kept' = Expire /\ Close(1001, <<>>) /\ UNCHANGED ring
  <2>1. \/ /\ Seen(s, Expire) = "settled" /\ kept' = Expire
           /\ Continue(calls, <<Expire[s].frame>>) /\ UNCHANGED <<highest, ring>>
        \/ kept' = Expire /\ Continue(calls, <<>>) /\ UNCHANGED <<highest, ring>>
        \/ Seen(s, Expire) = "new" /\ highest' = s /\ \E lag \in Lags : Branch(lag)
    BY ZenonT(60) DEF Request
  <2>2. ASSUME NEW lag \in Lags, Branch(lag)
        PROVE  Refused(lag) \/ Sent(lag)
    BY <2>2, ZenonT(60)
  <2> HIDE DEF Branch, Refused, Sent
  <2> QED BY <2>1, <2>2
<1> QED BY <1>1, <1>2, <1>6, <1>7

\* The step in which a call in flight gets its answer; an accepted command may
\* stay until its uploads are over.
LEMMA AnswerStep ==
  ASSUME IInv, NEW s \in DOMAIN calls, ~calls[s].settled, NEW call, NEW cs,
         \/ cs = Without(calls, {s})
         \/ /\ cs = [calls EXCEPT ![s] = call] /\ CallOK(call) /\ call.settled
            /\ OpenUploads(call) \in SUBSET OpenUploads(calls[s]),
         highest' = highest, KeptTouched(s),
         Orderly(out', s, OpenUploads(calls[s]), Open(cs, s)),
         \A i \in DOMAIN out' :
           out'[i].form = "response" /\ out'[i].outcome = "refused" => s \notin DOMAIN cs,
         calls' = cs \/ calls' = <<>>, todo' \subseteq DOMAIN calls'
  PROVE  Touches(s)
<1>1. highest \in Nat /\ s \in Nat /\ s <= highest
  BY DEF IInv, SessionOK
<1>2. Unanswered(s)
  BY DEF Unanswered
<1>3. /\ Others(cs, s)
      /\ s \in DOMAIN cs => cs[s] = call /\ CallOK(call) /\ call.settled
      /\ Open(cs, s) \in SUBSET OpenUploads(calls[s])
  <2>2. cs = Without(calls, {s}) => s \notin DOMAIN cs
    BY DEF Without
  <2>3. s \notin DOMAIN cs => Open(cs, s) = {}
    BY DEF Open
  <2> QED BY SavedCall, <2>2, <2>3
<1>4. CASE calls' = <<>>
  <2>1. DOMAIN calls' = {}
    BY <1>4
  <2>3. Orderly(out', s, Open(calls, s), Open(calls', s))
    BY <2>1, FewerOpen DEF Open
  <2>5. CallsTouched(s)
    BY <2>1 DEF CallsTouched
  <2> QED BY <1>1, <1>2, <2>1, <2>3, <2>5 DEF Touches, SentFor
<1>5. CASE calls' = cs
  <2>1. Open(calls', s) = Open(cs, s) /\ Open(calls, s) = OpenUploads(calls[s])
    BY <1>5 DEF Open
  <2> HIDE DEF Open
  <2>4. CallsTouched(s)
    BY <1>1, <1>3, <1>5, <2>1, OthersTouched DEF Others
  <2> QED BY <1>1, <1>2, <1>5, <2>1, <2>4 DEF Touches, SentFor
<1> QED BY <1>4, <1>5

\* Call s is polled; `before` is what the pass over its uploads sent.
Polls(s, call, before) ==
  /\ s \in DOMAIN calls /\ CallOK(call) /\ call.settled = calls[s].settled
  /\ OpenUploads(call) \in SUBSET OpenUploads(calls[s])
  /\ Orderly(before, s, OpenUploads(calls[s]), OpenUploads(call)) /\ OnlyUploads(before)
  /\ highest' = highest /\ closed = 0
  /\ todo' = IF closed' = 0 THEN todo \ {s} ELSE {}

\* The calls still to be polled are in flight.
LEMMA TodoLeft ==
  ASSUME IInv, NEW s, NEW call, NEW before, Polls(s, call, before),
         DOMAIN calls \ {s} \subseteq DOMAIN calls' \/ closed' # 0
  PROVE  todo' \subseteq DOMAIN calls'
BY DEF IInv, SessionOK, Polls

\* A call that is polled and not answered.
LEMMA PolledStep ==
  ASSUME IInv, NEW s, NEW c, NEW before, Polls(s, c, before),
         NEW call, CallOK(call), call.settled = c.settled, OpenUploads(call) = OpenUploads(c),
         NEW cs, cs = [calls EXCEPT ![s] = call] \/ cs = Without(calls, {s}),
         NEW fs, Orderly(fs, s, OpenUploads(c), Open(cs, s)), NotFinal(fs),
         OnlyUploads(fs) \/ ~c.settled,
         kept' = kept, out' = before \o fs,
         (calls' = cs /\ closed' = closed) \/ (calls' = <<>> /\ closed' # 0)
  PROVE  Touches(s)
<1> DEFINE gs == before \o fs
           A == OpenUploads(calls[s])
           B == OpenUploads(c)
           C == Open(cs, s)
<1>1. /\ s \in DOMAIN calls /\ CallOK(c) /\ c.settled = calls[s].settled
      /\ B \in SUBSET A /\ Orderly(before, s, A, B) /\ OnlyUploads(before)
      /\ highest' = highest /\ closed = 0
      /\ todo' = IF closed' = 0 THEN todo \ {s} ELSE {}
  BY DEF Polls
<1>2. DOMAIN calls \ {s} \subseteq DOMAIN cs /\ C \in SUBSET OpenUploads(call)
  BY <1>1, SavedCall
<1>4. C \in SUBSET B
  BY <1>2
<1>5. NotFinal(before)
  BY <1>1, OnlyUploadsNotFinal DEF Orderly
<1>o. Orderly(fs, s, B, C)
  OBVIOUS
<1> HIDE DEF A, B, C
<1>6. /\ Orderly(gs, s, A, C) /\ NotFinal(gs)
      /\ OnlyUploads(fs) => OnlyUploads(gs)
  BY <1>1, <1>4, <1>5, <1>o, SentAfter
<1>7. out' = gs
  OBVIOUS
<1> HIDE DEF gs
<1>8. /\ Orderly(gs, s, OpenUploads(calls[s]), Open(cs, s))
      /\ OnlyUploads(gs) \/ ~calls[s].settled
      /\ OpenUploads(call) \in SUBSET OpenUploads(calls[s]) /\ call.settled = calls[s].settled
  BY <1>1, <1>6 DEF A, B, C
<1>9. \/ calls' = cs /\ todo' \subseteq DOMAIN calls'
      \/ calls' = <<>> /\ todo' = {}
  BY <1>1, <1>2, TodoLeft
<1> QED BY <1>1, <1>6, <1>7, <1>8, <1>9, CallStep

\* Chunks of the reply stream.
LEMMA ChunksSent ==
  ASSUME NEW s, NEW n \in Nat, NEW first \in Nat, NEW A
  PROVE  LET fs == [i \in 1..n |-> ChunkOut(s, first + i)]
         IN  Orderly(fs, s, A, A) /\ NotFinal(fs) /\ \A i \in DOMAIN fs : fs[i].form # "response"
<1> DEFINE fs == [i \in 1..n |-> ChunkOut(s, first + i)]
<1>1. ASSUME NEW i \in 1..n
      PROVE  fs[i] \in FramesOf(s) /\ ~OfUpload(fs[i]) /\ ~EndsUpload(fs[i]) /\ ~IsFinal(fs[i])
             /\ fs[i].form # "response"
  <2>1. fs[i] = ChunkOut(s, first + i) /\ first + i \in Nat
    OBVIOUS
  <2> HIDE DEF fs
  <2> QED BY <2>1 DEF ChunkOut, FramesOf, OfUpload, EndsUpload, IsFinal
<1>2. fs \in [1..n -> FramesOf(s)] /\ DOMAIN fs = 1..n
  BY <1>1
<1> HIDE DEF fs
<1>4. Orderly(fs, s, A, A) /\ NotFinal(fs) /\ \A i \in DOMAIN fs : fs[i].form # "response"
  BY <1>1, <1>2 DEF Orderly, NotFinal
<1> QED BY <1>4 DEF fs

\* What Session::poll_stream pulls.
LEMMA PullsOK ==
  ASSUME NEW r \in Reply, NEW p \in Pulls(r)
  PROVE  /\ p.sent \in Nat /\ Pulled(r, p) \in Reply
         /\ Pulled(r, p).seqOut = r.seqOut + p.sent
         /\ p.fate \in {"pending", "end", "refused", "interrupted", "detached"}
<1> DEFINE limit == IF r.credit < ChunksPerTick THEN r.credit ELSE ChunksPerTick
           first == IF r.held THEN 1 ELSE 0
           fates == {"pending", "end", "refused", "interrupted", "detached"}
<1>1. r.credit \in Nat /\ r.seqOut \in Nat /\ r.idle \in Nat /\ r.held \in BOOLEAN
  BY DEF Reply
<1>2. limit \in Nat /\ limit <= r.credit /\ first \in Nat
  BY <1>1, WsServerAssumption
<1>3. p.sent \in Nat /\ p.sent <= r.credit /\ p.held \in BOOLEAN /\ p.fate \in fates
  <2>1. CASE r.held /\ r.credit = 0
    <3>1. p = [sent |-> 0, held |-> TRUE, fate |-> "pending"]
      BY <2>1 DEF Pulls
    <3> QED BY <1>1, <3>1
  <2>2. CASE ~(r.held /\ r.credit = 0)
    <3>1. p \in [sent : first..limit, held : BOOLEAN, fate : fates]
      BY <2>2 DEF Pulls
    <3> HIDE DEF first, limit, fates
    <3>2. p.sent \in first..limit /\ p.held \in BOOLEAN /\ p.fate \in fates
      BY <3>1
    <3> QED BY <1>1, <1>2, <3>2
  <2> QED BY <2>1, <2>2
<1> DEFINE q == Pulled(r, p)
<1>4. q = [r EXCEPT !.seqOut = r.seqOut + p.sent, !.credit = r.credit - p.sent,
                    !.held = p.held, !.idle = IF p.sent > 0 THEN 0 ELSE r.idle]
  BY DEF Pulled
<1>5. r.seqOut + p.sent \in Nat /\ r.credit - p.sent \in Nat
  BY <1>1, <1>3
<1> HIDE DEF q, fates
<1>6. q \in Reply /\ q.seqOut = r.seqOut + p.sent
  BY <1>1, <1>3, <1>4, <1>5 DEF Reply
<1> QED BY <1>3, <1>6 DEF q, fates

\* Session::poll_stream.
LEMMA PollStreamTouches ==
  ASSUME IInv, NEW s, NEW c, NEW before, Polls(s, c, before), ~c.settled, PollStream(s, c, before)
  PROVE  Touches(s)
<1>1. PICK p \in Pulls(c.reply) :
        LET r == Pulled(c.reply, p)
            after == [c EXCEPT !.reply = r]
            sent == before \o [i \in 1..p.sent |-> ChunkOut(s, c.reply.seqOut + i)]
            fate == IF p.fate = "pending" /\ StreamIdle(after) THEN "interrupted" ELSE p.fate
        IN  CASE fate = "detached" -> Close(1001, sent) /\ UNCHANGED <<kept, ring>>
              [] fate = "pending" -> Continue([calls EXCEPT ![s] = after], sent) /\ UNCHANGED <<kept, ring>>
              [] OTHER -> KeepStreamEnd(kept, s, c.member, c.since, Without(calls, {s}),
                             sent \o <<EndOut(s, 0, r.seqOut + 1, fate)>> \o InterruptFrames(s, c))
  BY DEF PollStream
<1> DEFINE r == Pulled(c.reply, p)
           after == [c EXCEPT !.reply = r]
           chunks == [i \in 1..p.sent |-> ChunkOut(s, c.reply.seqOut + i)]
           sent == before \o chunks
           fate == IF p.fate = "pending" /\ StreamIdle(after) THEN "interrupted" ELSE p.fate
           gone == Without(calls, {s})
           A == OpenUploads(calls[s])
           B == OpenUploads(c)
<1>2. /\ s \in DOMAIN calls /\ CallOK(c) /\ c.settled = calls[s].settled /\ s \in Nat
      /\ B \in SUBSET A /\ Orderly(before, s, A, B) /\ OnlyUploads(before)
      /\ highest' = highest /\ closed = 0
  BY DEF Polls, IInv, SessionOK
<1>3. c.reply \in Reply /\ c.since \in Nat /\ c \in Call(c.uploads)
  BY <1>2 DEF CallOK, Call
<1>4. /\ p.sent \in Nat /\ r \in Reply /\ r.seqOut + 1 \in Nat
      /\ p.fate \in {"pending", "end", "refused", "interrupted", "detached"}
  <2> DEFINE rr == c.reply
  <2>1. rr \in Reply /\ p \in Pulls(rr)
    BY <1>1, <1>3
  <2>2. p.sent \in Nat /\ Pulled(rr, p) \in Reply
        /\ p.fate \in {"pending", "end", "refused", "interrupted", "detached"}
    <3> HIDE DEF rr
    <3> QED BY <2>1, PullsOK
  <2> QED BY <2>2 DEF Reply
<1>5. fate \in {"pending", "end", "refused", "interrupted", "detached"}
  <2> HIDE DEF after
  <2> QED BY <1>4
<1>6. /\ CallOK(after) /\ after.settled = c.settled /\ OpenUploads(after) = OpenUploads(c)
  <2> HIDE DEF r
  <2>1. /\ after.uploads = c.uploads /\ after.settled = c.settled /\ after.member = c.member
        /\ after \in Call(c.uploads)
    BY <1>3, <1>4 DEF Call
  <2> HIDE DEF after
  <2> QED BY <1>2, <2>1 DEF CallOK, OpenUploads
<1>7. Orderly(chunks, s, B, B) /\ NotFinal(chunks) /\ \A i \in DOMAIN chunks : chunks[i].form # "response"
  <2> DEFINE first == c.reply.seqOut
  <2>1. first \in Nat
    BY <1>3 DEF Reply
  <2> HIDE DEF first, B
  <2>2. LET fs == [i \in 1..p.sent |-> ChunkOut(s, first + i)]
        IN  Orderly(fs, s, B, B) /\ NotFinal(fs) /\ \A i \in DOMAIN fs : fs[i].form # "response"
    BY <1>4, <2>1, ChunksSent
  <2> QED BY <2>2 DEF first
<1>8. Open(gone, s) = {}
  BY DEF Open, Without
<1>t. /\ fate = "detached" => Close(1001, sent) /\ kept' = kept
      /\ fate = "pending" => Continue([calls EXCEPT ![s] = after], sent) /\ kept' = kept
      /\ fate \notin {"detached", "pending"} =>
           KeepStreamEnd(kept, s, c.member, c.since, gone,
                         (sent \o <<EndOut(s, 0, r.seqOut + 1, fate)>>) \o InterruptFrames(s, c))
  <2>1. CASE fate = "detached"
    BY <1>1, <2>1
  <2>2. CASE fate = "pending"
    BY <1>1, <2>2
  <2>3. CASE fate \notin {"detached", "pending"}
    BY <1>1, <2>3
  <2> QED BY <2>1, <2>2, <2>3
<1> HIDE DEF fate, r, after, chunks
<1>9. CASE fate = "detached"
  <2>1. kept' = kept /\ out' = before \o chunks /\ calls' = <<>> /\ closed' # 0
    BY <1>t, <1>9 DEF Close
  <2> DEFINE cs == gone
  <2>3. cs = Without(calls, {s})
    OBVIOUS
  <2>4. Orderly(chunks, s, OpenUploads(c), Open(cs, s))
    BY <1>7, <1>8, FewerOpen
  <2> HIDE DEF cs
  <2> QED BY <1>2, <1>7, <2>1, <2>3, <2>4, PolledStep
<1>10. CASE fate = "pending"
  <2> DEFINE cs == [calls EXCEPT ![s] = after]
  <2>1. kept' = kept /\ out' = before \o chunks /\ calls' = cs /\ closed' = closed
    BY <1>t, <1>10 DEF Continue
  <2>2. cs = [calls EXCEPT ![s] = after] \/ cs = Without(calls, {s})
    OBVIOUS
  <2> HIDE DEF cs
  <2>4. Orderly(chunks, s, OpenUploads(c), Open(cs, s))
    BY <1>7, <1>2, <1>6, <2>2, SavedCall, FewerOpen
  <2>5. NotFinal(chunks) /\ OpenUploads(after) = OpenUploads(c)
    BY <1>6, <1>7
  <2>6. CallOK(after) /\ after.settled = c.settled
    BY <1>6
  <2>7. OnlyUploads(chunks) \/ ~c.settled
    OBVIOUS
  <2>8. (calls' = cs /\ closed' = closed) \/ (calls' = <<>> /\ closed' # 0)
    BY <2>1
  <2> HIDE DEF A, B, gone, sent
  <2> QED BY <2>1, <2>2, <2>4, <2>5, <2>6, <2>7, <2>8, PolledStep
<1>11. CASE fate \notin {"detached", "pending"}
  <2> DEFINE e == EndOut(s, 0, r.seqOut + 1, fate)
             halts == InterruptFrames(s, c)
             fs == (sent \o <<e>>) \o halts
  <2>1. /\ e \in FramesOf(s) /\ ~OfUpload(e) /\ ~EndsUpload(e) /\ e.form # "response"
    <3> QED BY <1>4, <1>5, <1>11 DEF EndOut, FramesOf, OfUpload, EndsUpload
  <2>2. KeepStreamEnd(kept, s, c.member, c.since, gone, fs)
    BY <1>t, <1>11
  <2>3. Orderly(halts, s, B, {}) /\ OnlyUploads(halts)
    BY <1>2, InterruptsInOrder
  <2> HIDE DEF e, halts
  <2> HIDE DEF A, B
  <2>5. NotFinal(before) /\ B \in SUBSET B /\ {} \in SUBSET B
    BY <1>2, OnlyUploadsNotFinal DEF Orderly
  <2>6. Orderly(sent, s, A, B) /\ NotFinal(sent)
    BY <1>2, <1>7, <2>5, SentAfter
  <2> HIDE DEF sent
  <2>7. Orderly(sent \o <<e>>, s, A, B)
    BY <1>2, <2>1, OneSent, <2>5, <2>6, SentAfter
  <2>8. Orderly(fs, s, A, {})
    BY <1>2, <2>3, <2>5, <2>7, SentAfter
  <2>9. \A i \in DOMAIN fs : fs[i].form # "response"
    <3>1. /\ sent \in Seq(FramesOf(s)) /\ halts \in Seq(FramesOf(s)) /\ before \in Seq(FramesOf(s))
          /\ chunks \in Seq(FramesOf(s))
      BY <1>2, <1>7, <2>3, <2>6 DEF Orderly
    <3>2. /\ DOMAIN sent = 1..Len(sent) /\ Len(sent) \in Nat
          /\ DOMAIN halts = 1..Len(halts) /\ Len(halts) \in Nat
          /\ DOMAIN before = 1..Len(before) /\ Len(before) \in Nat
          /\ DOMAIN chunks = 1..Len(chunks) /\ Len(chunks) \in Nat
      BY <3>1, LenProperties
    <3>5. ASSUME NEW i \in DOMAIN sent PROVE sent[i].form # "response"
      <4>1. /\ sent[i] = IF i <= Len(before) THEN before[i] ELSE chunks[i - Len(before)]
            /\ DOMAIN sent = 1..(Len(before) + Len(chunks))
        BY <3>1, <3>2 DEF sent
      <4>2. i <= Len(before) => i \in DOMAIN before
        BY <3>2
      <4>3. ~(i <= Len(before)) => i - Len(before) \in DOMAIN chunks
        BY <3>2, <4>1
      <4> QED BY <1>7, <1>2, <4>1, <4>2, <4>3 DEF OnlyUploads, OfUpload
    <3> SUFFICES ASSUME NEW i \in DOMAIN fs PROVE fs[i].form # "response"
      OBVIOUS
    <3>6. /\ DOMAIN fs = 1..(Len(sent) + 1 + Len(halts))
          /\ fs[i] = IF i <= Len(sent) THEN sent[i] ELSE IF i = Len(sent) + 1 THEN e
                     ELSE halts[i - (Len(sent) + 1)]
      BY <2>1, <3>1, <3>2
    <3>7. i <= Len(sent) => i \in DOMAIN sent
      BY <3>2, <3>6
    <3>8. ~(i <= Len(sent)) /\ i # Len(sent) + 1 => i - (Len(sent) + 1) \in DOMAIN halts
      BY <3>2, <3>6
    <3> HIDE DEF fs
    <3> QED BY <2>1, <2>3, <3>5, <3>6, <3>7, <3>8 DEF OnlyUploads, OfUpload
  <2>10. Unanswered(s)
    BY <1>2 DEF Unanswered
  <2>11. SameFrames(kept)
    BY ExpireSame
  <2> DEFINE m == c.member
             since == c.since
             k == kept
  <2>k. /\ since \in Nat /\ s \in Nat /\ SameFrames(k)
        /\ KeepStreamEnd(k, s, m, since, gone, fs)
    BY <1>2, <1>3, <2>2, <2>11
  <2> HIDE DEF fs, gone, Unanswered, m, since, k
  <2>12. /\ KeptTouched(s) /\ out' = fs
         /\ \/ calls' = gone /\ closed' = closed
            \/ calls' = <<>> /\ todo' = {} /\ closed' = 1008
    BY <2>8, <2>9, <2>10, <2>k, StreamEnded, ZenonT(30)
  <2>13. DOMAIN calls \ {s} \subseteq DOMAIN gone /\ s \notin DOMAIN gone
    BY DEF gone, Without
  <2>14. todo' \subseteq DOMAIN calls'
    BY <2>12, <2>13, TodoLeft
  <2>16. Orderly(out', s, OpenUploads(calls[s]), Open(gone, s))
    BY <1>8, <2>8, <2>12 DEF A
  <2> QED BY <1>2, <2>12, <2>13, <2>14, <2>16, AnswerStep DEF gone
<1> QED BY <1>9, <1>10, <1>11

LEMMA PollsMore ==
  ASSUME IInv, NEW s, NEW c, NEW before, Polls(s, c, before)
  PROVE  /\ s \in DOMAIN calls /\ s \in Nat /\ CallOK(c) /\ c.since \in Nat
         /\ c.settled = calls[s].settled
         /\ before \in Seq(FramesOf(s)) /\ before \o <<>> = before
         /\ OpenUploads(c) \in SUBSET OpenUploads(calls[s])
         /\ Orderly(before, s, OpenUploads(calls[s]), OpenUploads(c)) /\ OnlyUploads(before)
<1>1. /\ s \in DOMAIN calls /\ s \in Nat /\ CallOK(c) /\ c.settled = calls[s].settled
      /\ OpenUploads(c) \in SUBSET OpenUploads(calls[s])
      /\ Orderly(before, s, OpenUploads(calls[s]), OpenUploads(c)) /\ OnlyUploads(before)
  BY DEF Polls, IInv, SessionOK
<1>3. before \in Seq(FramesOf(s))
  BY <1>1 DEF Orderly
<1>4. before \o <<>> = before
  BY <1>3
<1> QED BY <1>1, <1>3, <1>4 DEF CallOK, Call

\* The call is forgotten, or stays as the pass over its uploads left it.
LEMMA PassTouches ==
  ASSUME IInv, NEW s, NEW c, NEW before, Polls(s, c, before), kept' = kept,
         \/ Continue(Without(calls, {s}), before)
         \/ Continue(Without(calls, {s}), before \o InterruptFrames(s, c))
         \/ Continue([calls EXCEPT ![s] = c], before)
  PROVE  Touches(s)
<1>1. /\ s \in DOMAIN calls /\ CallOK(c) /\ before \o <<>> = before
  BY PollsMore
<1> DEFINE B == OpenUploads(c)
<1>2. CASE Continue(Without(calls, {s}), before \o InterruptFrames(s, c))
  <2> DEFINE cs == Without(calls, {s})
             fs == InterruptFrames(s, c)
  <2>1. Orderly(fs, s, B, {}) /\ OnlyUploads(fs)
    BY <1>1, InterruptsInOrder
  <2>2. Open(cs, s) = {}
    BY DEF Open, Without
  <2>3. /\ out' = before \o fs
        /\ (calls' = cs /\ closed' = closed) \/ (calls' = <<>> /\ closed' # 0)
        /\ cs = [calls EXCEPT ![s] = c] \/ cs = Without(calls, {s})
    BY <1>2 DEF Continue
  <2> HIDE DEF fs, cs
  <2>4. Orderly(fs, s, OpenUploads(c), Open(cs, s)) /\ NotFinal(fs)
    BY <2>1, <2>2, OnlyUploadsNotFinal DEF Orderly
  <2> HIDE DEF B
  <2> QED BY <1>1, <2>1, <2>3, <2>4, PolledStep
<1>3. CASE Continue(Without(calls, {s}), before) \/ Continue([calls EXCEPT ![s] = c], before)
  <2>1. PICK cs : /\ Continue(cs, before)
                  /\ cs = [calls EXCEPT ![s] = c] \/ cs = Without(calls, {s})
    BY <1>3
  <2> DEFINE fs == <<>>
  <2>2. Orderly(fs, s, OpenUploads(c), Open(cs, s)) /\ NotFinal(fs) /\ OnlyUploads(fs)
    BY NothingSent
  <2>3. /\ out' = before \o fs
        /\ (calls' = cs /\ closed' = closed) \/ (calls' = <<>> /\ closed' # 0)
    BY <1>1, <2>1 DEF Continue
  <2> HIDE DEF fs, B
  <2> QED BY <1>1, <2>1, <2>2, <2>3, PolledStep
<1> QED BY <1>2, <1>3

\* The ports are gone.
LEMMA GoneTouches ==
  ASSUME IInv, NEW s, NEW c, NEW before, Polls(s, c, before), kept' = kept,
         Close(1001, before)
  PROVE  Touches(s)
<1>1. /\ s \in DOMAIN calls /\ CallOK(c) /\ before \o <<>> = before
  BY PollsMore
<1> DEFINE cs == Without(calls, {s})
           fs == <<>>
<1>2. Orderly(fs, s, OpenUploads(c), Open(cs, s)) /\ NotFinal(fs) /\ OnlyUploads(fs)
  BY NothingSent
<1>3. /\ out' = before \o fs
      /\ (calls' = cs /\ closed' = closed) \/ (calls' = <<>> /\ closed' # 0)
      /\ cs = [calls EXCEPT ![s] = c] \/ cs = Without(calls, {s})
  BY <1>1 DEF Close
<1> HIDE DEF fs, cs
<1> QED BY <1>1, <1>2, <1>3, PolledStep, ZenonT(30)

\* The calls after call s, whose uploads were as in c, was answered.
Leaves(cs, s, c) ==
  \/ cs = Without(calls, {s})
  \/ \E call : /\ cs = [calls EXCEPT ![s] = call] /\ CallOK(call) /\ call.settled
               /\ OpenUploads(call) \in SUBSET OpenUploads(c)

\* It leaves no more uploads open than before.
LEMMA LeftOpen ==
  ASSUME IInv, NEW s \in DOMAIN calls, NEW c, NEW cs, Leaves(cs, s, c)
  PROVE  DOMAIN calls \ {s} \subseteq DOMAIN cs /\ Open(cs, s) \in SUBSET OpenUploads(c)
<1>1. CASE cs = Without(calls, {s})
  BY <1>1 DEF Open, Without
<1>2. ASSUME NEW call, cs = [calls EXCEPT ![s] = call], OpenUploads(call) \in SUBSET OpenUploads(c)
      PROVE  DOMAIN calls \ {s} \subseteq DOMAIN cs /\ Open(cs, s) \in SUBSET OpenUploads(c)
  BY <1>2, SavedCall
<1> QED BY <1>1, <1>2 DEF Leaves

\* The provider has answered.
LEMMA RespondTouches ==
  ASSUME IInv, NEW s, NEW c, NEW before, Polls(s, c, before), ~c.settled,
         NEW cs, Leaves(cs, s, c),
         NEW o \in {"ok", "refused"}, o = "refused" => s \notin DOMAIN cs,
         NEW fs, Orderly(fs, s, OpenUploads(calls[s]), OpenUploads(c)), OnlyUploads(fs),
         NEW gs, Orderly(gs, s, OpenUploads(c), Open(cs, s)), OnlyUploads(gs),
         Respond(kept, s, c.member, c.since, o, cs, fs, gs)
  PROVE  Touches(s)
<1> DEFINE A == OpenUploads(calls[s])
           B == OpenUploads(c)
           C == Open(cs, s)
           k == kept
           m == c.member
           since == c.since
<1>1. /\ s \in DOMAIN calls /\ s \in Nat /\ since \in Nat /\ ~calls[s].settled /\ B \in SUBSET A
  BY PollsMore
<1>2. C \in SUBSET B /\ DOMAIN calls \ {s} \subseteq DOMAIN cs
  BY <1>1, LeftOpen
<1>3. Unanswered(s) /\ SameFrames(k)
  BY <1>1, ExpireSame DEF Unanswered
<1>4. /\ Orderly(fs, s, A, B) /\ Orderly(gs, s, B, C)
      /\ Respond(k, s, m, since, o, cs, fs, gs)
  OBVIOUS
<1> HIDE DEF k, m, since, A, B, C, Unanswered, Leaves
<1>5. /\ KeptTouched(s) /\ Orderly(out', s, A, C)
      /\ \A i \in DOMAIN out' : out'[i].form = "response" => out'[i].outcome = o
      /\ \/ calls' = cs /\ closed' = closed
         \/ calls' = <<>> /\ todo' = {} /\ closed' = 1008
  BY <1>1, <1>2, <1>3, <1>4, Responded, ZenonT(30)
<1>6. todo' \subseteq DOMAIN calls' /\ highest' = highest
  <2> QED BY <1>2, <1>5, TodoLeft DEF Polls
<1>7. Orderly(out', s, OpenUploads(calls[s]), Open(cs, s)) /\ (calls' = cs \/ calls' = <<>>)
  BY <1>5 DEF A, C
<1>8. \A i \in DOMAIN out' :
        out'[i].form = "response" /\ out'[i].outcome = "refused" => s \notin DOMAIN cs
  BY <1>5
<1>9. PICK call :
        \/ cs = Without(calls, {s})
        \/ /\ cs = [calls EXCEPT ![s] = call] /\ CallOK(call) /\ call.settled
           /\ OpenUploads(call) \in SUBSET OpenUploads(calls[s])
  BY <1>1 DEF Leaves, A, B
<1>10. KeptTouched(s) /\ s \in DOMAIN calls /\ ~calls[s].settled
  BY <1>1, <1>5
<1> QED BY <1>6, <1>7, <1>8, <1>9, <1>10, AnswerStep

\* The ack or the reply of a call.
LEMMA PollOutcomeTouches ==
  ASSUME IInv, NEW s, NEW c, NEW before, Polls(s, c, before), ~c.settled, PollOutcome(s, c, before)
  PROVE  Touches(s)
<1> DEFINE cs == Without(calls, {s})
           halts == InterruptFrames(s, c)
           e == <<>>
           ok == "ok"
           no == "refused"
           A == OpenUploads(calls[s])
           B == OpenUploads(c)
<1>1. /\ s \in DOMAIN calls /\ CallOK(c)
      /\ B \in SUBSET A /\ Orderly(before, s, A, B) /\ OnlyUploads(before)
  BY PollsMore
<1>2. ok \in {"ok", "refused"} /\ no \in {"ok", "refused"}
  OBVIOUS
<1>3. Leaves(cs, s, c) /\ s \notin DOMAIN cs /\ Open(cs, s) = {}
  BY DEF Leaves, Without, Open
<1>4. Orderly(e, s, A, B) /\ Orderly(e, s, B, Open(cs, s)) /\ OnlyUploads(e)
  BY NothingSent
<1>6. CASE Respond(kept, s, c.member, c.since, "refused", Without(calls, {s}), <<>>, <<>>)
  <2>1. Respond(kept, s, c.member, c.since, no, cs, e, e)
    BY <1>6
  <2> HIDE DEF e, no, cs, Leaves
  <2> QED BY <1>2, <1>3, <1>4, <2>1, RespondTouches
<1>7. CASE /\ Shape[c.member].kind = "command"
           /\ Respond(kept, s, c.member, c.since, "ok", Finished(s, Accepted(c)), before, <<>>)
  <2> DEFINE a == Accepted(c)
             fin == Finished(s, a)
  <2>1. Respond(kept, s, c.member, c.since, ok, fin, before, e)
    BY <1>7
  <2>2. CallOK(a) /\ a.settled /\ OpenUploads(a) = OpenUploads(c)
    <3>2. a.uploads = c.uploads /\ a.settled /\ a.member = c.member /\ a \in Call(c.uploads)
      BY <1>1 DEF Accepted, Call, CallOK
    <3> HIDE DEF a
    <3> QED BY <1>1, <1>7, <3>2 DEF CallOK, OpenUploads
  <2>3. fin = [calls EXCEPT ![s] = a] \/ fin = Without(calls, {s})
    BY FinishedCall
  <2> HIDE DEF fin, a
  <2>4. Leaves(fin, s, c)
    BY <2>2, <2>3 DEF Leaves
  <2>5. Orderly(e, s, B, Open(fin, s)) /\ OnlyUploads(e)
    BY NothingSent
  <2>6. ok # "refused"
    OBVIOUS
  <2> HIDE DEF e, ok, Leaves
  <2> QED BY <1>1, <1>2, <2>1, <2>4, <2>5, <2>6, RespondTouches
<1>8. CASE Respond(kept, s, c.member, c.since, "ok", Without(calls, {s}), before, InterruptFrames(s, c))
  <2>1. Respond(kept, s, c.member, c.since, ok, cs, before, halts)
    BY <1>8
  <2>2. Orderly(halts, s, B, Open(cs, s)) /\ OnlyUploads(halts)
    BY <1>3, <1>1, InterruptsInOrder
  <2> HIDE DEF halts, ok, cs, Leaves
  <2> QED BY <1>1, <1>2, <1>3, <2>1, <2>2, RespondTouches
<1>9. CASE /\ kept' = kept
           /\ \/ Continue(Without(calls, {s}), before)
              \/ Continue(Without(calls, {s}), before \o InterruptFrames(s, c))
              \/ Continue([calls EXCEPT ![s] = c], before)
  BY <1>9, PassTouches
<1>10. CASE Close(1001, <<>>) /\ kept' = kept
  <2> DEFINE g == Without(calls, {s})
             fs == <<>>
             call == calls[s]
  <2>1. OnlyUploads(fs) /\ NotFinal(fs) /\ Orderly(fs, s, OpenUploads(calls[s]), Open(g, s))
    BY NothingSent
  <2>2. out' = fs /\ calls' = <<>> /\ todo' = {}
    BY <1>10 DEF Close
  <2>3. g = Without(calls, {s}) /\ highest' = highest
    BY DEF Polls
  <2>4. CallOK(call) /\ call.settled = calls[s].settled /\ OpenUploads(call) \in SUBSET OpenUploads(calls[s])
    BY <1>1 DEF IInv, SessionOK
  <2> HIDE DEF g, fs, call
  <2> QED BY <1>1, <1>10, <2>1, <2>2, <2>3, <2>4, CallStep
<1> QED BY <1>6, <1>7, <1>8, <1>9, <1>10 DEF PollOutcome

\* One turn of Session::poll_calls.
LEMMA PollCallTouches ==
  ASSUME IInv, PollCall
  PROVE  \E s \in Nat : Touches(s)
<1> DEFINE s == CHOOSE x \in todo : \A y \in todo : x <= y
           found == calls[s]
<1>1. s \in todo
  <2>2. \E x \in todo : \A y \in todo : x <= y
    BY LeastNumber DEF PollCall, IInv, SessionOK
  <2> QED BY <2>2
<1>2. s \in DOMAIN calls /\ s \in Nat /\ CallOK(found)
  BY <1>1 DEF IInv, SessionOK
<1>3. PICK d \in Drains(found) :
        LET call == Drained(found, d)
            before == DrainFrames(s, d)
            stalled == /\ ~Streamed(call.member)
                       /\ \E k \in OpenUploads(call) : call.uploads[k].idle >= AbandonAfter
        IN  IF Gone(d)
            THEN Close(1001, before) /\ UNCHANGED <<kept, ring>>
            ELSE /\ \/ /\ stalled
                       /\ Continue(Without(calls, {s}), before \o InterruptFrames(s, call))
                       /\ UNCHANGED <<kept, ring>>
                    \/ /\ ~stalled /\ call.settled
                       /\ Continue(Finished(s, call), before)
                       /\ UNCHANGED <<kept, ring>>
                    \/ /\ ~stalled /\ ~call.settled /\ Streamed(call.member)
                       /\ PollStream(s, call, before)
                    \/ /\ ~stalled /\ ~call.settled /\ ~Streamed(call.member)
                       /\ PollOutcome(s, call, before)
                 /\ todo' = IF closed' = 0 THEN todo \ {s} ELSE {}
  BY DEF PollCall
<1> DEFINE c == Drained(found, d)
           before == DrainFrames(s, d)
<1> HIDE DEF s
<1>5. /\ CallOK(c) /\ c.settled = found.settled
      /\ OpenUploads(c) \in SUBSET OpenUploads(found)
      /\ Orderly(before, s, OpenUploads(found), OpenUploads(c)) /\ OnlyUploads(before)
  BY <1>2, DrainedOK
<1>6. todo' = IF closed' = 0 THEN todo \ {s} ELSE {}
  <2>1. CASE Gone(d)
    <3> HIDE DEF before
    <3> QED BY <1>3, <2>1 DEF Close
  <2>2. CASE ~Gone(d)
    BY <1>3, <2>2
  <2> QED BY <2>1, <2>2
<1>7. Polls(s, c, before)
  <2> HIDE DEF c, before
  <2> QED BY <1>2, <1>5, <1>6 DEF Polls, PollCall
<1>8. \/ Close(1001, before) /\ kept' = kept
      \/ Continue(Without(calls, {s}), before \o InterruptFrames(s, c)) /\ kept' = kept
      \/ Continue(Finished(s, c), before) /\ kept' = kept
      \/ ~c.settled /\ PollStream(s, c, before)
      \/ ~c.settled /\ PollOutcome(s, c, before)
  BY <1>3
<1> HIDE DEF c, before
<1>10. Touches(s)
  <2>1. CASE Close(1001, before) /\ kept' = kept
    BY <1>7, <2>1, GoneTouches
  <2>2. CASE Continue(Without(calls, {s}), before \o InterruptFrames(s, c)) /\ kept' = kept
    BY <1>7, <2>2, PassTouches
  <2>3. CASE Continue(Finished(s, c), before) /\ kept' = kept
    BY <1>7, FinishedCall, <2>3, PassTouches
  <2>4. CASE ~c.settled /\ PollStream(s, c, before)
    BY <1>7, <2>4, PollStreamTouches
  <2>5. CASE ~c.settled /\ PollOutcome(s, c, before)
    BY <1>7, <2>5, PollOutcomeTouches
  <2> QED BY <1>8, <2>1, <2>2, <2>3, <2>4, <2>5
<1> QED BY <1>2, <1>10

-----------------------------------------------------------------------------
(* The theorems. *)

\* The three facts that make IInv an invariant.
LEMMA InitInv == Init => IInv
<1> SUFFICES ASSUME Init PROVE IInv
  OBVIOUS
<1>1. /\ highest = 0 /\ calls = <<>> /\ kept = <<>> /\ todo = {}
      /\ answered = <<>> /\ over = {}
  BY DEF Init, ServerInit
<1> QED BY <1>1 DEF IInv, SessionOK, Answers, NotSettledTwice, OverIsOver

LEMMA NextTouches ==
  ASSUME IInv, Next
  PROVE  Record /\ \E s \in Nat : Touches(s)
<1>1. ASSUME NEW f \in Frames, Receive(f) PROVE Record /\ \E s \in Nat : Touches(s)
  <2>1. Record /\ todo = {}
    BY <1>1 DEF Receive, OnMessage
  <2>2. CASE Request(f)
    BY <2>1, <2>2, RequestTouches
  <2>3. CASE ReceiveChunk(f)
    BY <2>1, <2>3, ReceiveChunkTouches
  <2>4. CASE EndUpload(f)
    BY <2>1, <2>4, EndUploadTouches
  <2>5. CASE StopStream(f)
    BY <2>1, <2>5, StopStreamTouches
  <2>6. CASE Grant(f)
    BY <2>1, <2>6, GrantTouches
  <2> QED BY <1>1, <2>2, <2>3, <2>4, <2>5, <2>6 DEF Receive, OnMessage
<1>2. CASE Tick
  <2>1. CASE StartTick
    BY <1>2, <2>1, StartTickTouches DEF Tick
  <2>2. CASE PollCall
    BY <1>2, <2>2, PollCallTouches DEF Tick
  <2> QED BY <1>2, <2>1, <2>2 DEF Tick
<1>3. CASE Advance
  BY <1>3, TockTouches, ClockTouches DEF Advance
<1> QED BY <1>1, <1>2, <1>3 DEF Next

LEMMA StutterInv == IInv /\ UNCHANGED vars => IInv'
<1> SUFFICES ASSUME IInv, UNCHANGED vars PROVE IInv'
  OBVIOUS
<1>1. /\ highest' = highest /\ calls' = calls /\ kept' = kept /\ todo' = todo
      /\ answered' = answered /\ over' = over
  BY DEF vars, serverVars
<1>2. SessionOK'
  BY <1>1 DEF IInv, SessionOK
<1>3. Answers'
  BY <1>1 DEF IInv, Answers, NotSettledTwice
<1>4. OverIsOver'
  BY <1>1 DEF IInv, OverIsOver, Open
<1> QED BY <1>2, <1>3, <1>4 DEF IInv

\* What the session records is typed, an answered call has no answer left to
\* give, the response kept for a repeat is the answer that was given, and a
\* stream the client was told is over is open no more.
THEOREM SessionInvariant == Spec => []IInv
<1>1. IInv /\ [Next]_vars => IInv'
  BY NextTouches, TouchedInv, StutterInv
<1> QED BY InitInv, <1>1, PTL DEF Spec

\* Calls::settle, Session::request: each request is answered once, and a repeat
\* is told the same.
THEOREM AnsweredOnce == Spec => OneAnswer
<1> DEFINE OneStep ==
      /\ \A i, j \in DOMAIN out' :
            IsFinal(out'[i]) /\ IsFinal(out'[j]) /\ out'[i].seq = out'[j].seq => i = j
      /\ \A f \in Range(out') :
            LET again == IF answered[f.seq].form = "response" THEN answered[f.seq]
                         ELSE EndOut(f.seq, 0, 1, "interrupted")
            IN  f.seq \in DOMAIN answered /\ (IsFinal(f) \/ f.form = "chunk") => f = again
<1>1. IInv /\ [Next]_vars => [OneStep]_vars
  <2> SUFFICES ASSUME IInv, Next PROVE OneStep
    OBVIOUS
  <2>1. PICK s \in Nat : Touches(s)
    BY NextTouches
  <2> QED BY <2>1, TouchedOnce
<1> HIDE DEF OneStep
<1>2. Spec => [][OneStep]_vars
  BY SessionInvariant, <1>1, PTL DEF Spec
<1> QED BY <1>2 DEF OneAnswer, OneStep

\* Upload's end, interrupt_uploads and drain_uploads: nothing is sent for a
\* parameter stream after its end or the refusal of its call.
THEOREM EndsAreSilent == Spec => SilentAfterEnd
<1> DEFINE OneStep ==
      \A i \in DOMAIN out' :
         LET f == out'[i]
         IN  f.form \in {"credit", "end"} /\ f.stream # 0 =>
               /\ <<f.seq, f.stream>> \notin over
               /\ ~\E j \in 1..(i - 1) : /\ out'[j].form = "end"
                                         /\ out'[j].seq = f.seq /\ out'[j].stream = f.stream
<1>1. IInv /\ [Next]_vars => [OneStep]_vars
  <2> SUFFICES ASSUME IInv, Next PROVE OneStep
    OBVIOUS
  <2>1. PICK s \in Nat : Touches(s)
    BY NextTouches
  <2> QED BY <2>1, TouchedSilent
<1> HIDE DEF OneStep
<1>2. Spec => [][OneStep]_vars
  BY SessionInvariant, <1>1, PTL DEF Spec
<1> QED BY <1>2 DEF SilentAfterEnd, OneStep

\* Calls::seen: a request whose number was taken is not handed to the provider
\* again, and none is settled twice.
THEOREM PresentedOnce == Spec => NeverPresentedAgain
<1> DEFINE OneStep ==
      /\ \A s \in 1..highest : s \in DOMAIN calls' => s \in DOMAIN calls
      /\ NotSettledTwice'
<1>1. IInv /\ [Next]_vars => [OneStep]_vars
  <2> SUFFICES ASSUME IInv, Next PROVE OneStep
    OBVIOUS
  <2>1. PICK s \in Nat : Touches(s) /\ Record
    BY NextTouches
  <2>2. NotSettledTwice'
    BY <2>1, TouchedAnswers DEF Answers
  <2> QED BY <2>1, <2>2, TouchedNew
<1> HIDE DEF OneStep
<1>2. Spec => [][OneStep]_vars
  BY SessionInvariant, <1>1, PTL DEF Spec
<1> QED BY <1>2 DEF NeverPresentedAgain, OneStep

-----------------------------------------------------------------------------
(* The two ends of a connection: the accounts of their calls. *)

\* The client's record of a call.
MyCall ==
  [member : Members, live : BOOLEAN, result : {"pending", "ok", "failed"},
   timer : BOOLEAN, settled : BOOLEAN, open : BOOLEAN, closed : BOOLEAN,
   granted : Nat, sent : Nat, replyGranted : Nat, received : Nat, buffered : Nat, read : Nat]

Outcomes == {"ok", "end", "refused", "interrupted"}
\* What goes to the server, and what goes to the client.
ClientFrame ==
  [form : {"request"}, seq : Nat, member : Members, big : {FALSE}]
  \cup [form : {"chunk"}, seq : Nat, member : Members, stream : {1}, n : Nat, big : {FALSE}]
  \cup [form : {"end"}, seq : Nat, member : Members, stream : {0, 1}, n : Nat,
        outcome : {"end", "interrupted"}]
  \cup [form : {"credit"}, seq : Nat, member : Members, stream : {0}, credit : Nat]
ServerFrame ==
  [form : {"response"}, seq : Nat, outcome : {"ok", "refused"}]
  \cup [form : {"chunk"}, seq : Nat, stream : {0}, n : Nat]
  \cup [form : {"end"}, seq : Nat, stream : {0, 1}, n : Nat,
        outcome : {"end", "refused", "interrupted"}]
  \cup [form : {"credit"}, seq : Nat, stream : {1}, credit : Nat]

\* What the client's calls, and the frames under way, look like.
MineFits(c) ==
  /\ c.open => c.live /\ Uploads(c.member) /\ ~c.closed /\ c.sent <= c.granted
\* What the client sends of a call keeps to its record.
AskFits(f) ==
  /\ f.seq \in DOMAIN mine /\ f.member = mine[f.seq].member
  /\ f.form = "chunk" => Uploads(f.member)
  /\ f.form = "end" /\ f.stream = 0 => f.outcome = "interrupted"
  /\ f.form = "end" /\ f.stream = 1 =>
        /\ Uploads(f.member) /\ ~mine[f.seq].open /\ f.n = mine[f.seq].sent + 1
        /\ f.outcome = "end" => mine[f.seq].closed
\* A call is told of the streams its member has.
ToldFits(m, f) ==
  /\ f.form = "chunk" \/ (f.form = "end" /\ f.stream = 0) => Streamed(m)
  /\ f.form = "credit" \/ (f.form = "end" /\ f.stream = 1) => Uploads(m)

\* The client, and what is under way.
Typed ==
  /\ mine \in Seq(MyCall) /\ \A s \in DOMAIN mine : MineFits(mine[s])
  /\ toServer \in Seq(ClientFrame) /\ \A i \in DOMAIN toServer : AskFits(toServer[i])
  /\ toClient \in Seq(ServerFrame)
  /\ \A i \in DOMAIN toClient :
        toClient[i].seq \in 1..highest /\ ToldFits(mine[toClient[i].seq].member, toClient[i])
  /\ highest \in 0..Len(mine)
  /\ \A s \in DOMAIN mine : s > highest => mine[s].received = 0
  /\ attached \in BOOLEAN
  /\ ~attached => toClient = <<>> /\ Live = {}

\* The requests under way are new, in the order of their numbers, and each
\* goes before what is sent about its call.
Asked(f, i) == \E j \in 1..(i - 1) : toServer[j].form = "request" /\ toServer[j].seq = f.seq
RequestFirst(i) ==
  LET f == toServer[i]
  IN  IF f.form = "request"
      THEN f.seq > highest /\ \A j \in 1..(i - 1) : toServer[j].seq < f.seq
      ELSE f.seq > highest => Asked(f, i)
Requested ==
  closed = 0 =>
    /\ \A i \in DOMAIN toServer : RequestFirst(i)
    /\ \A s \in DOMAIN mine : s > highest =>
          \E j \in DOMAIN toServer : toServer[j].form = "request" /\ toServer[j].seq = s

\* The calls the session has, or is still to be asked for.
There == DOMAIN calls \cup {s \in DOMAIN mine : s > highest}
UploadOf(s) == IF s \in DOMAIN calls THEN calls[s].uploads[1] ELSE NewUpload
ReplyOf(s) == IF s \in DOMAIN calls THEN calls[s].reply ELSE NewReply

\* An upload: u at the session, c at the client.
UploadFits(u, c) ==
  /\ u.queued <= InitialCredit
  /\ u.state = "open" => u.credit + u.queued = InitialCredit
  /\ u.ended => c.closed /\ u.seqIn = c.sent + 1
  /\ u.state = "ended" => u.ended /\ u.queued = 0
\* The calls of the session, each one the client's.
SessionFits ==
  /\ DOMAIN calls \subseteq 1..highest
  /\ \A s \in DOMAIN calls :
        /\ CallOK(calls[s]) /\ calls[s].member = mine[s].member
        /\ \A k \in DOMAIN calls[s].uploads : UploadFits(calls[s].uploads[k], mine[s])
  /\ DOMAIN kept \subseteq 1..highest
  /\ todo \subseteq DOMAIN calls

\* What the session may still be sent of an upload: what the client may still
\* send, what it sent and what it is still to be granted.
UploadCounted(s) ==
  Uploads(mine[s].member) /\ UploadOf(s).state = "open" /\ ~UploadOf(s).ended =>
     /\ Under(toServer, s, 1, "chunk") <= UploadOf(s).credit
     /\ mine[s].open =>
          UploadOf(s).credit + mine[s].sent =
             mine[s].granted + Under(toServer, s, 1, "chunk") + Under(toClient, s, 1, "credit")
\* What the client granted of a reply: what it received, what the session may
\* still send, what it sent and what it is still to be told of.
ReplyCounted(s) ==
  Streamed(mine[s].member) /\ mine[s].live =>
     mine[s].replyGranted =
        mine[s].received + ReplyOf(s).credit + Under(toClient, s, 0, "chunk")
                                             + Under(toServer, s, 0, "credit")
Counted ==
  closed = 0 => \A s \in There : UploadCounted(s) /\ ReplyCounted(s)

\* What the client is sent is within what it granted; a refusal comes first.
Within ==
  \A s \in Live : Streamed(mine[s].member) =>
     mine[s].received + Under(toClient, s, 0, "chunk") <= mine[s].replyGranted
RefusedFirst ==
  \A i \in DOMAIN toClient :
     LET f == toClient[i]
     IN  f.form = "response" /\ Streamed(mine[f.seq].member) =>
           /\ f.outcome = "refused"
           /\ mine[f.seq].received = 0 /\ Under(toClient, f.seq, 0, "chunk") = 0
           /\ f.seq \notin DOMAIN calls

\* A closed session keeps no call.
ClosedEmpty == closed # 0 => DOMAIN calls = {}

\* The inductive invariant of the calls over a connection: the accounts of
\* both ends agree through what is under way, and nothing is out of turn.
CallsInv ==
  /\ Typed /\ Requested /\ SessionFits /\ Counted /\ Within /\ RefusedFirst /\ ClosedEmpty
  /\ NoViolation

-----------------------------------------------------------------------------
(* Sums over sequences. *)

\* The sums of the leading numbers.
Sums(ns, f, n) == f = [i \in 0..n |-> IF i = 0 THEN 0 ELSE f[i - 1] + ns[i]]

\* The sums exist for any number of terms.
LEMMA SumsExist ==
  ASSUME NEW ns, NEW n \in Nat
  PROVE  \E f : Sums(ns, f, n)
<1> DEFINE Bad == {m \in Nat : ~\E f : Sums(ns, f, m)}
<1> SUFFICES ASSUME Bad # {} PROVE FALSE
  OBVIOUS
<1>1. PICK m \in Bad : \A k \in Bad : m <= k
  BY LeastNumber
<1>2. CASE m = 0
  <2>1. Sums(ns, [i \in 0..0 |-> 0], 0)
    BY DEF Sums
  <2> QED BY <1>1, <1>2, <2>1
<1>3. CASE m # 0
  <2>1. m \in Nat /\ m - 1 \in Nat /\ ~(m <= m - 1)
    BY <1>3
  <2>2. PICK g : Sums(ns, g, m - 1)
    BY <1>1, <2>1
  <2> DEFINE f == [i \in 0..m |-> IF i = 0 THEN 0 ELSE g[i - 1] + ns[i]]
  <2>3. \A i \in 0..(m - 1) : f[i] = g[i]
    <3> QED BY <2>1, <2>2 DEF Sums
  <2>5. f = [i \in 0..m |-> IF i = 0 THEN 0 ELSE f[i - 1] + ns[i]]
    BY <2>3, <2>1
  <2>6. Sums(ns, f, m)
    <3> HIDE DEF f
    <3> QED BY <2>5 DEF Sums
  <2> QED BY <1>1, <2>6
<1> QED BY <1>2, <1>3

\* A total is the last of these sums.
LEMMA TotalIsSum ==
  ASSUME NEW ns, Len(ns) \in Nat
  PROVE  \E f : Sums(ns, f, Len(ns)) /\ Total(ns) = f[Len(ns)]
<1> DEFINE sum == CHOOSE f : Sums(ns, f, Len(ns))
<1>2. Total(ns) = sum[Len(ns)]
  BY DEF Total, Sums
<1> QED BY SumsExist, <1>2

\* The sums of numbers are numbers, one term after another.
LEMMA SumsGo ==
  ASSUME NEW ns \in Seq(Nat), NEW f, Sums(ns, f, Len(ns))
  PROVE  /\ f[0] = 0
         /\ \A i \in DOMAIN ns : f[i] = f[i - 1] + ns[i]
         /\ \A i \in 0..Len(ns) : f[i] \in Nat
<1>1. Len(ns) \in Nat /\ DOMAIN ns = 1..Len(ns)
  OBVIOUS
<1>2. f[0] = 0
  BY <1>1 DEF Sums
<1>3. \A i \in DOMAIN ns : f[i] = f[i - 1] + ns[i]
  <2> SUFFICES ASSUME NEW i \in DOMAIN ns PROVE f[i] = f[i - 1] + ns[i]
    OBVIOUS
  <2>1. i \in 0..Len(ns) /\ i # 0
    BY <1>1
  <2> QED BY <2>1 DEF Sums
<1>4. \A i \in 0..Len(ns) : f[i] \in Nat
  <2> DEFINE Bad == {i \in 0..Len(ns) : f[i] \notin Nat}
  <2> SUFFICES ASSUME Bad # {} PROVE FALSE
    OBVIOUS
  <2>1. Bad \in SUBSET Nat
    BY <1>1
  <2>2. PICK m \in Bad : \A k \in Bad : m <= k
    <3> HIDE DEF Bad
    <3> QED BY <2>1, LeastNumber
  <2>3. m # 0 /\ m \in 1..Len(ns) /\ m - 1 \in 0..Len(ns) /\ ~(m <= m - 1)
    BY <1>1, <1>2, <2>2
  <2>4. f[m - 1] \in Nat
    BY <2>2, <2>3
  <2>5. ns[m] \in Nat /\ f[m] = f[m - 1] + ns[m]
    BY <1>1, <1>3, <2>3, SMTT(30)
  <2> QED BY <2>2, <2>4, <2>5
<1> QED BY <1>2, <1>3, <1>4

\* The sum over two sequences is the sum of the two sums.
LEMMA TotalConcat ==
  ASSUME NEW ms \in Seq(Nat), NEW ns \in Seq(Nat)
  PROVE  /\ Total(ms) \in Nat /\ Total(ns) \in Nat
         /\ Total(ms \o ns) = Total(ms) + Total(ns)
<1> DEFINE hs == ms \o ns
           a == Len(ms)
           b == Len(ns)
<1>1. /\ hs \in Seq(Nat) /\ Len(hs) = a + b /\ a \in Nat /\ b \in Nat
      /\ DOMAIN ms = 1..a /\ DOMAIN ns = 1..b
      /\ \A i \in 1..a : hs[i] = ms[i]
      /\ \A i \in 1..b : hs[a + i] = ns[i]
  OBVIOUS
<1>2. PICK f : Sums(ms, f, a) /\ Total(ms) = f[a]
  BY <1>1, TotalIsSum
<1>3. PICK g : Sums(ns, g, b) /\ Total(ns) = g[b]
  BY <1>1, TotalIsSum
<1> HIDE DEF hs
<1>4. PICK h : Sums(hs, h, Len(hs)) /\ Total(hs) = h[Len(hs)]
  <2>1. Len(hs) \in Nat
    BY <1>1
  <2> QED BY <2>1, TotalIsSum
<1>5. /\ f[0] = 0 /\ \A i \in DOMAIN ms : f[i] = f[i - 1] + ms[i]
      /\ \A i \in 0..a : f[i] \in Nat
  BY <1>2, SumsGo
<1>6. /\ g[0] = 0 /\ \A i \in DOMAIN ns : g[i] = g[i - 1] + ns[i]
      /\ \A i \in 0..b : g[i] \in Nat
  BY <1>3, SumsGo
<1>7. /\ h[0] = 0 /\ \A i \in 1..(a + b) : h[i] = h[i - 1] + hs[i]
  <2>1. DOMAIN hs = 1..(a + b)
    BY <1>1
  <2>2. h[0] = 0 /\ \A i \in DOMAIN hs : h[i] = h[i - 1] + hs[i]
    BY <1>1, <1>4, SumsGo
  <2> QED BY <2>1, <2>2
<1> HIDE DEF a, b
<1>8. \A i \in 0..a : h[i] = f[i]
  <2> DEFINE Bad == {i \in 0..a : h[i] # f[i]}
  <2> SUFFICES ASSUME Bad # {} PROVE FALSE
    OBVIOUS
  <2>1. Bad \in SUBSET Nat
    BY <1>1
  <2>2. PICK m \in Bad : \A k \in Bad : m <= k
    <3> HIDE DEF Bad
    <3> QED BY <2>1, LeastNumber
  <2>3. m # 0 /\ m \in 1..a /\ m \in 1..(a + b) /\ m - 1 \in 0..a /\ ~(m <= m - 1)
    BY <1>1, <1>5, <1>7, <2>2
  <2>5. h[m] = h[m - 1] + hs[m] /\ f[m] = f[m - 1] + ms[m] /\ hs[m] = ms[m]
    BY <1>1, <1>5, <1>7, <2>3
  <2> QED BY <2>2, <2>3, <2>5
<1>9. \A i \in 0..b : h[a + i] = f[a] + g[i]
  <2> DEFINE Bad == {i \in 0..b : h[a + i] # f[a] + g[i]}
  <2> SUFFICES ASSUME Bad # {} PROVE FALSE
    OBVIOUS
  <2>1. Bad \in SUBSET Nat
    BY <1>1
  <2>2. PICK m \in Bad : \A k \in Bad : m <= k
    <3> HIDE DEF Bad
    <3> QED BY <2>1, LeastNumber
  <2>3. a \in 0..a /\ h[a] = f[a] /\ f[a] \in Nat
    BY <1>1, <1>5, <1>8
  <2>5. /\ m \in 1..b /\ a + m \in 1..(a + b) /\ m - 1 \in 0..b /\ ~(m <= m - 1)
        /\ (a + m) - 1 = a + (m - 1) /\ m \in 0..b
    BY <1>1, <2>2, <1>6, <2>3
  <2>6. h[a + (m - 1)] = f[a] + g[m - 1]
    BY <2>2, <2>5
  <2>7. h[a + m] = h[a + (m - 1)] + hs[a + m] /\ g[m] = g[m - 1] + ns[m] /\ hs[a + m] = ns[m]
    BY <1>1, <1>6, <1>7, <2>5
  <2>8. ns[m] \in Nat /\ g[m - 1] \in Nat
    <3>1. m \in DOMAIN ns
      BY <1>1, <2>5
    <3> QED BY <1>6, <2>5, <3>1, SMTT(30)
  <2> QED BY <2>2, <2>3, <2>6, <2>7, <2>8, SMTT(30)
<1>10. Total(hs) = h[a + b] /\ h[a + b] = f[a] + g[b]
  <2>1. b \in 0..b
    BY <1>1
  <2>2. h[a + b] = f[a] + g[b]
    BY <1>9, <2>1
  <2> QED BY <1>1, <1>4, <2>2
<1> QED BY <1>1, <1>2, <1>3, <1>5, <1>6, <1>10 DEF hs, a, b

\* The sum of nothing, and of one number.
LEMMA TotalOne ==
  ASSUME NEW n \in Nat
  PROVE  Total(<<>>) = 0 /\ Total(<<n>>) = n
<1>1. PICK f : Sums(<<>>, f, 0) /\ Total(<<>>) = f[0]
  BY TotalIsSum
<1>2. PICK g : Sums(<<n>>, g, 1) /\ Total(<<n>>) = g[1]
  <2>1. Len(<<n>>) = 1
    OBVIOUS
  <2> QED BY <2>1, TotalIsSum
<1>5. g[0] = 0 /\ g[1] = g[0] + n
  <2> DEFINE ns == <<n>>
  <2>1. ns \in Seq(Nat) /\ Sums(ns, g, Len(ns)) /\ 1 \in DOMAIN ns /\ ns[1] = n
    BY <1>2
  <2> HIDE DEF ns
  <2> QED BY <2>1, SumsGo
<1> QED BY <1>1, <1>2, <1>5 DEF Sums

\* A function on an interval from one is a sequence.
LEMMA FunctionIsSeq ==
  ASSUME NEW S, NEW n \in Nat, NEW g \in [1..n -> S]
  PROVE  g \in Seq(S) /\ Len(g) = n
OBVIOUS

\* Two sequences with the same elements are one.
LEMMA SameSeq ==
  ASSUME NEW S, NEW ms \in Seq(S), NEW ns \in Seq(S), Len(ms) = Len(ns),
         \A i \in 1..Len(ms) : ms[i] = ns[i]
  PROVE  ms = ns
OBVIOUS

\* cs is ps with bs after it.
Joins(cs, ps, bs) ==
  /\ Len(cs) = Len(ps) + Len(bs)
  /\ \A i \in 1..Len(ps) : cs[i] = ps[i]
  /\ \A i \in 1..Len(bs) : cs[Len(ps) + i] = bs[i]

LEMMA JoinsConcat ==
  ASSUME NEW ps \in Seq(Nat), NEW bs \in Seq(Nat)
  PROVE  ps \o bs \in Seq(Nat) /\ Joins(ps \o bs, ps, bs)
BY DEF Joins

\* Only one sequence is two others, joined.
LEMMA JoinsSame ==
  ASSUME NEW ps \in Seq(Nat), NEW bs \in Seq(Nat), NEW cs \in Seq(Nat), NEW ds \in Seq(Nat),
         Joins(cs, ps, bs), Joins(ds, ps, bs)
  PROVE  cs = ds
<1>1. Len(ps) \in Nat /\ Len(bs) \in Nat
  OBVIOUS
<1>2. Len(cs) = Len(ds) /\ Len(cs) = Len(ps) + Len(bs)
  BY DEF Joins
<1>3. \A i \in 1..Len(cs) : cs[i] = ds[i]
  <2> SUFFICES ASSUME NEW i \in 1..Len(cs) PROVE cs[i] = ds[i]
    OBVIOUS
  <2>0. i \in 1..(Len(ps) + Len(bs))
    BY <1>2
  <2>1. CASE i <= Len(ps)
    <3> QED BY <1>1, <2>0, <2>1 DEF Joins
  <2>2. CASE ~(i <= Len(ps))
    <3>1. i - Len(ps) \in 1..Len(bs) /\ Len(ps) + (i - Len(ps)) = i
      BY <1>1, <2>0, <2>2
    <3> QED BY <3>1 DEF Joins
  <2> QED BY <2>1, <2>2
<1> QED BY <1>2, <1>3, SameSeq

\* A sequence of equal numbers.
LEMMA TotalSame ==
  ASSUME NEW ns \in Seq(Nat), NEW c \in {0, 1}, \A i \in DOMAIN ns : ns[i] = c
  PROVE  Total(ns) = IF c = 0 THEN 0 ELSE Len(ns)
<1> DEFINE n == Len(ns)
<1>1. n \in Nat /\ DOMAIN ns = 1..n
  OBVIOUS
<1>2. PICK f : Sums(ns, f, n) /\ Total(ns) = f[n]
  BY <1>1, TotalIsSum
<1>3. f[0] = 0 /\ \A i \in DOMAIN ns : f[i] = f[i - 1] + ns[i]
  BY <1>2, SumsGo
<1> HIDE DEF n
<1> DEFINE Bad == {i \in 0..n : f[i] # IF c = 0 THEN 0 ELSE i}
<1>4. Bad = {}
  <2> SUFFICES ASSUME Bad # {} PROVE FALSE
    OBVIOUS
  <2>1. Bad \in SUBSET Nat
    BY <1>1
  <2>2. PICK m \in Bad : \A k \in Bad : m <= k
    <3> HIDE DEF Bad
    <3> QED BY <2>1, LeastNumber
  <2>3. m # 0 /\ m \in DOMAIN ns /\ m \in Nat /\ m - 1 \in 0..n /\ ~(m <= m - 1)
    BY <1>1, <1>3, <2>2
  <2>5. f[m] = f[m - 1] + c
    BY <1>3, <2>3
  <2>6. f[m] = IF c = 0 THEN 0 ELSE m
    BY <2>3, <2>2, <2>5
  <2> QED BY <2>2, <2>6
<1> QED BY <1>2, <1>4, <1>1 DEF n

-----------------------------------------------------------------------------
(* What is under way on a channel. *)

\* Frames whose credit, if they carry any, is a number.
Counts(X) == \A f \in X : f.form = "credit" => f.credit \in Nat

\* The credit of every frame is a number.
LEMMA FramesCount == Counts(ClientFrame) /\ Counts(ServerFrame)
BY DEF Counts, ClientFrame, ServerFrame

\* What each frame of a channel carries.
Amounts(chan, s, k, form) == [i \in DOMAIN chan |-> Amount(chan[i], s, k, form)]

LEMMA AmountsTyped ==
  ASSUME NEW X, Counts(X), NEW chan \in Seq(X), NEW s, NEW k, NEW form
  PROVE  /\ Amounts(chan, s, k, form) \in Seq(Nat)
         /\ Len(Amounts(chan, s, k, form)) = Len(chan)
         /\ DOMAIN Amounts(chan, s, k, form) = DOMAIN chan
         /\ \A i \in DOMAIN chan : Amounts(chan, s, k, form)[i] = Amount(chan[i], s, k, form)
<1> DEFINE ps == Amounts(chan, s, k, form)
<1>2. \A i \in DOMAIN chan : Amount(chan[i], s, k, form) \in Nat
  <2> SUFFICES ASSUME NEW i \in DOMAIN chan PROVE Amount(chan[i], s, k, form) \in Nat
    OBVIOUS
  <2> QED BY DEF Amount, Counts
<1>3. DOMAIN chan = 1..Len(chan) /\ Len(chan) \in Nat
  OBVIOUS
<1>4. ps \in [1..Len(chan) -> Nat]
  <2>1. ps = [i \in 1..Len(chan) |-> Amount(chan[i], s, k, form)]
    BY <1>3 DEF Amounts
  <2> HIDE DEF ps
  <2> QED BY <1>2, <1>3, <2>1
<1>5. ps \in Seq(Nat) /\ Len(ps) = Len(chan)
  <2> DEFINE n == Len(chan)
  <2>1. n \in Nat /\ ps \in [1..n -> Nat]
    BY <1>3, <1>4
  <2> HIDE DEF ps, n
  <2>2. ps \in Seq(Nat) /\ Len(ps) = n
    BY <2>1, FunctionIsSeq
  <2> QED BY <2>2 DEF n
<1> QED BY <1>5 DEF Amounts

LEMMA UnderIsTotal ==
  ASSUME NEW chan, NEW s, NEW k, NEW form
  PROVE  Under(chan, s, k, form) = Total(Amounts(chan, s, k, form))
BY DEF Under, Amounts

\* What is under way is a number.
LEMMA UnderNat ==
  ASSUME NEW X, Counts(X), NEW chan \in Seq(X), NEW s, NEW k, NEW form
  PROVE  Under(chan, s, k, form) \in Nat
<1> DEFINE ps == Amounts(chan, s, k, form)
<1>1. ps \in Seq(Nat)
  BY AmountsTyped
<1> HIDE DEF ps
<1>2. Total(ps) \in Nat
  BY <1>1, TotalConcat
<1> QED BY <1>2, UnderIsTotal DEF ps

\* What is under way on a channel, with more sent.
LEMMA UnderConcat ==
  ASSUME NEW X, Counts(X), NEW chan \in Seq(X), NEW fs \in Seq(X), NEW s, NEW k, NEW form
  PROVE  Under(chan \o fs, s, k, form) = Under(chan, s, k, form) + Under(fs, s, k, form)
<1> DEFINE A(c) == Amounts(c, s, k, form)
           hs == chan \o fs
<1>1. /\ hs \in Seq(X) /\ Len(hs) = Len(chan) + Len(fs) /\ Len(chan) \in Nat /\ Len(fs) \in Nat
      /\ \A i \in 1..Len(chan) : hs[i] = chan[i]
      /\ \A i \in 1..Len(fs) : hs[Len(chan) + i] = fs[i]
      /\ DOMAIN chan = 1..Len(chan) /\ DOMAIN fs = 1..Len(fs) /\ DOMAIN hs = 1..(Len(chan) + Len(fs))
  OBVIOUS
<1> HIDE DEF hs
<1>2. /\ A(chan) \in Seq(Nat) /\ Len(A(chan)) = Len(chan)
      /\ \A i \in DOMAIN chan : A(chan)[i] = Amount(chan[i], s, k, form)
  BY AmountsTyped
<1>3. /\ A(fs) \in Seq(Nat) /\ Len(A(fs)) = Len(fs)
      /\ \A i \in DOMAIN fs : A(fs)[i] = Amount(fs[i], s, k, form)
  BY AmountsTyped
<1>4. /\ A(hs) \in Seq(Nat) /\ Len(A(hs)) = Len(hs)
      /\ \A i \in DOMAIN hs : A(hs)[i] = Amount(hs[i], s, k, form)
  BY <1>1, AmountsTyped
<1> HIDE DEF A
<1>5. A(hs) = A(chan) \o A(fs)
  <2>2. \A i \in 1..Len(A(chan)) : A(hs)[i] = A(chan)[i]
    <3> SUFFICES ASSUME NEW i \in 1..Len(chan) PROVE A(hs)[i] = A(chan)[i]
      BY <1>2
    <3>1. i \in DOMAIN chan /\ i \in DOMAIN hs /\ hs[i] = chan[i]
      BY <1>1
    <3> QED BY <1>2, <1>4, <3>1
  <2>3. \A i \in 1..Len(A(fs)) : A(hs)[Len(A(chan)) + i] = A(fs)[i]
    <3> SUFFICES ASSUME NEW i \in 1..Len(fs) PROVE A(hs)[Len(chan) + i] = A(fs)[i]
      BY <1>2, <1>3
    <3>1. i \in DOMAIN fs /\ Len(chan) + i \in DOMAIN hs /\ hs[Len(chan) + i] = fs[i]
      BY <1>1
    <3> QED BY <1>3, <1>4, <3>1
  <2> DEFINE ps == A(chan)
             bs == A(fs)
             cs == A(hs)
  <2>4. /\ ps \in Seq(Nat) /\ bs \in Seq(Nat) /\ cs \in Seq(Nat)
        /\ Joins(cs, ps, bs)
    BY <1>2, <1>3, <1>4, <1>1, <2>2, <2>3 DEF Joins
  <2> HIDE DEF ps, bs, cs
  <2> QED BY <2>4, JoinsConcat, JoinsSame DEF ps, bs, cs
<1>6. Total(A(hs)) = Total(A(chan)) + Total(A(fs))
  <2> DEFINE ps == A(chan)
             bs == A(fs)
  <2>1. ps \in Seq(Nat) /\ bs \in Seq(Nat)
    BY <1>2, <1>3
  <2> HIDE DEF ps, bs
  <2>2. Total(ps \o bs) = Total(ps) + Total(bs)
    BY <2>1, TotalConcat
  <2> QED BY <1>5, <2>2 DEF ps, bs
<1> QED BY <1>6, UnderIsTotal DEF A, hs

\* Nothing, and one frame.
LEMMA UnderOne ==
  ASSUME NEW X, Counts(X), NEW f \in X, NEW s, NEW k, NEW form
  PROVE  /\ Under(<<>>, s, k, form) = 0
         /\ Under(<<f>>, s, k, form) = Amount(f, s, k, form)
         /\ Amount(f, s, k, form) \in Nat
<1>2. Amounts(<<>>, s, k, form) = <<>>
  BY DEF Amounts
<1>3. Amounts(<<f>>, s, k, form) = <<Amount(f, s, k, form)>>
  BY DEF Amounts
<1> QED BY <1>2, <1>3, UnderIsTotal, TotalOne DEF Counts, Amount

\* What is under way without the frame at the head.
LEMMA UnderTail ==
  ASSUME NEW X, Counts(X), NEW chan \in Seq(X), chan # <<>>, NEW s, NEW k, NEW form
  PROVE  /\ Under(chan, s, k, form) = Amount(Head(chan), s, k, form) + Under(Tail(chan), s, k, form)
         /\ Under(Tail(chan), s, k, form) \in Nat
         /\ Amount(Head(chan), s, k, form) \in Nat
<1>1. /\ Head(chan) \in X /\ Tail(chan) \in Seq(X) /\ <<Head(chan)>> \in Seq(X)
      /\ chan = <<Head(chan)>> \o Tail(chan)
  OBVIOUS
<1> DEFINE h == <<Head(chan)>>
           t == Tail(chan)
<1>2. h \in Seq(X) /\ t \in Seq(X) /\ chan = h \o t
  BY <1>1
<1>3. Under(h, s, k, form) = Amount(Head(chan), s, k, form) /\ Amount(Head(chan), s, k, form) \in Nat
  BY <1>1, UnderOne
<1> HIDE DEF h, t
<1>4. Under(h \o t, s, k, form) = Under(h, s, k, form) + Under(t, s, k, form)
  BY <1>2, UnderConcat
<1>5. Under(t, s, k, form) \in Nat
  BY <1>2, UnderNat
<1> QED BY <1>2, <1>3, <1>4, <1>5 DEF t

\* Frames that all count the same.
LEMMA UnderSame ==
  ASSUME NEW X, Counts(X), NEW fs \in Seq(X), NEW s, NEW k, NEW form, NEW c \in {0, 1},
         \A i \in DOMAIN fs : Amount(fs[i], s, k, form) = c
  PROVE  Under(fs, s, k, form) = IF c = 0 THEN 0 ELSE Len(fs)
<1> DEFINE ps == Amounts(fs, s, k, form)
<1>1. ps \in Seq(Nat) /\ Len(ps) = Len(fs) /\ DOMAIN ps = DOMAIN fs
      /\ \A i \in DOMAIN fs : ps[i] = Amount(fs[i], s, k, form)
  BY AmountsTyped
<1> HIDE DEF ps
<1> QED BY <1>1, TotalSame, UnderIsTotal DEF ps

-----------------------------------------------------------------------------
(* A step of the client about one call. *)

\* What the client's record of a call makes of d chunks sent, g credit of the
\* upload received, e credit of the reply granted and r chunks of it received.
Followed(c, c2, d, g, e, r) ==
  /\ c2 \in MyCall /\ c2.member = c.member /\ MineFits(c2)
  /\ c.closed => c2.closed
  /\ c2.open => c.open /\ c2.granted = c.granted + g
  /\ c2.sent = c.sent + d
  /\ ~c2.open => d = 0
  /\ c2.live => c.live /\ c2.replyGranted = c.replyGranted + e /\ c2.received = c.received + r
  /\ c2.received \in {c.received, c.received + r}

\* The frames fs that the client sends about s, of which it knows c2 then.
Asks(fs, s, c2) ==
  /\ fs \in Seq(ClientFrame)
  /\ \A i \in DOMAIN fs :
        /\ fs[i].seq = s /\ fs[i].form # "request" /\ fs[i].member = c2.member
        /\ fs[i].form = "chunk" => Uploads(c2.member)
        /\ fs[i].form = "end" /\ fs[i].stream = 0 => fs[i].outcome = "interrupted"
        /\ fs[i].form = "end" /\ fs[i].stream = 1 =>
              /\ Uploads(c2.member) /\ ~c2.open /\ fs[i].n = c2.sent + 1
              /\ fs[i].outcome = "end" => c2.closed

\* The client takes nothing, or the frame at the head, which is about s and
\* carries g credit for the upload or r chunks of the reply.
Takes(s, g, r) ==
  \/ toClient' = toClient /\ g = 0 /\ r = 0
  \/ /\ toClient # <<>> /\ toClient' = Tail(toClient) /\ Head(toClient).seq = s
     /\ g = Amount(Head(toClient), s, 1, "credit") /\ r = Amount(Head(toClient), s, 0, "chunk")

\* A frame carries nothing for another call.
LEMMA AmountOther ==
  ASSUME NEW f, NEW s, f.seq # s, NEW k, NEW form
  PROVE  Amount(f, s, k, form) = 0
BY DEF Amount

\* What the client takes is no longer under way.
LEMMA TakesCount ==
  ASSUME toClient \in Seq(ServerFrame), NEW s, NEW g, NEW r, Takes(s, g, r)
  PROVE  /\ toClient' \in Seq(ServerFrame)
         /\ \A i \in DOMAIN toClient' : \E j \in DOMAIN toClient : toClient'[i] = toClient[j]
         /\ g \in Nat /\ r \in Nat
         /\ \A t, k, form : Under(toClient, t, k, form) \in Nat /\ Under(toClient', t, k, form) \in Nat
         /\ Under(toClient, s, 1, "credit") = Under(toClient', s, 1, "credit") + g
         /\ Under(toClient, s, 0, "chunk") = Under(toClient', s, 0, "chunk") + r
         /\ \A t : t # s =>
              /\ Under(toClient, t, 1, "credit") = Under(toClient', t, 1, "credit")
              /\ Under(toClient, t, 0, "chunk") = Under(toClient', t, 0, "chunk")
<1>1. CASE toClient' = toClient /\ g = 0 /\ r = 0
  <2> QED BY <1>1, UnderNat, FramesCount
<1>2. CASE /\ toClient # <<>> /\ toClient' = Tail(toClient) /\ Head(toClient).seq = s
           /\ g = Amount(Head(toClient), s, 1, "credit") /\ r = Amount(Head(toClient), s, 0, "chunk")
  <2>1. \A t, k, form :
            /\ Under(toClient, t, k, form) = Amount(Head(toClient), t, k, form) + Under(toClient', t, k, form)
            /\ Under(toClient', t, k, form) \in Nat
            /\ Amount(Head(toClient), t, k, form) \in Nat
            /\ Under(toClient, t, k, form) \in Nat
    BY <1>2, UnderTail, UnderNat, FramesCount
  <2>2. \A t, k, form : t # s => Amount(Head(toClient), t, k, form) = 0
    BY <1>2, AmountOther
  <2>3. /\ toClient' \in Seq(ServerFrame) /\ Len(toClient) \in Nat
        /\ DOMAIN toClient = 1..Len(toClient) /\ DOMAIN toClient' = 1..(Len(toClient) - 1)
        /\ \A i \in DOMAIN toClient' : toClient'[i] = toClient[i + 1]
    BY <1>2
  <2>4. \A i \in DOMAIN toClient' : i + 1 \in DOMAIN toClient
    BY <2>3
  <2> QED BY <1>2, <2>1, <2>2, <2>3, <2>4, SMTT(30)
<1> QED BY <1>1, <1>2 DEF Takes

\* What the client sends is under way.
LEMMA AsksCount ==
  ASSUME toServer \in Seq(ClientFrame), NEW s, NEW c2, NEW fs, Asks(fs, s, c2),
         toServer' = toServer \o fs
  PROVE  /\ toServer' \in Seq(ClientFrame)
         /\ \A k, form : /\ Under(toServer', s, k, form) = Under(toServer, s, k, form) + Under(fs, s, k, form)
                         /\ Under(toServer, s, k, form) \in Nat /\ Under(fs, s, k, form) \in Nat
         /\ \A t, k, form : t # s => Under(toServer', t, k, form) = Under(toServer, t, k, form)
<1>1. fs \in Seq(ClientFrame) /\ \A i \in DOMAIN fs : fs[i].seq = s
  BY DEF Asks
<1>2. \A t, k, form : /\ Under(toServer', t, k, form) = Under(toServer, t, k, form) + Under(fs, t, k, form)
                      /\ Under(toServer, t, k, form) \in Nat /\ Under(fs, t, k, form) \in Nat
  BY <1>1, UnderConcat, UnderNat, FramesCount
<1>3. ASSUME NEW t, NEW k, NEW form, t # s PROVE Under(fs, t, k, form) = 0
  <2> QED BY <1>1, <1>3, AmountOther, UnderSame, FramesCount
<1>5. ASSUME NEW t, NEW k, NEW form, t # s PROVE Under(toServer', t, k, form) = Under(toServer, t, k, form)
  <2>2. Under(toServer', t, k, form) = Under(toServer, t, k, form) + Under(fs, t, k, form) /\ Under(toServer, t, k, form) \in Nat
    BY <1>2
  <2> QED BY <1>3, <1>5, <2>2
<1> QED BY <1>2, <1>1, <1>5

\* The client moves the record of call s along to c2 and sends fs.
Moved(s, c2, fs, d, g, e, r) ==
  /\ s \in DOMAIN mine /\ mine' = [mine EXCEPT ![s] = c2]
  /\ Followed(mine[s], c2, d, g, e, r)
  /\ Asks(fs, s, c2) /\ d = Under(fs, s, 1, "chunk") /\ e = Under(fs, s, 0, "credit")
  /\ toServer' = toServer \o fs
  /\ Takes(s, g, r)
  /\ UNCHANGED <<serverVars, attached, violated>>

\* The client's records after a step on s.
LEMMA MovedMine ==
  ASSUME Typed, NEW s, NEW c2, NEW fs, NEW d, NEW g, NEW e, NEW r, Moved(s, c2, fs, d, g, e, r)
  PROVE  /\ mine' \in Seq(MyCall) /\ DOMAIN mine' = DOMAIN mine /\ Len(mine') = Len(mine)
         /\ mine'[s] = c2
         /\ \A t \in DOMAIN mine : t # s => mine'[t] = mine[t]
         /\ \A t \in DOMAIN mine :
               /\ mine'[t] \in MyCall /\ mine[t] \in MyCall
               /\ mine'[t].member = mine[t].member /\ MineFits(mine'[t]) /\ MineFits(mine[t])
               /\ mine[t].closed => mine'[t].closed
               /\ mine'[t].open => mine[t].open
               /\ ~mine[t].open => mine'[t].sent = mine[t].sent
               /\ mine'[t].live => mine[t].live
<1>1. /\ mine \in Seq(MyCall) /\ \A t \in DOMAIN mine : MineFits(mine[t])
      /\ s \in DOMAIN mine /\ mine' = [mine EXCEPT ![s] = c2] /\ Followed(mine[s], c2, d, g, e, r)
  BY DEF Typed, Moved
<1>2. c2 \in MyCall /\ mine[s] \in MyCall
  BY <1>1 DEF Followed
<1>3. /\ mine' \in Seq(MyCall) /\ DOMAIN mine' = DOMAIN mine /\ Len(mine') = Len(mine)
      /\ mine'[s] = c2 /\ \A t \in DOMAIN mine : t # s => mine'[t] = mine[t]
  BY <1>1, <1>2
<1>4. /\ c2.member = mine[s].member /\ MineFits(c2)
      /\ mine[s].closed => c2.closed
      /\ c2.open => mine[s].open
      /\ c2.live => mine[s].live
  BY <1>1 DEF Followed
<1>5. ~mine[s].open => c2.sent = mine[s].sent
  <2> SUFFICES ASSUME ~mine[s].open PROVE c2.sent = mine[s].sent
    OBVIOUS
  <2>2. c2.sent = mine[s].sent + d /\ mine[s].sent \in Nat
    BY <1>1, <1>2 DEF Followed, MyCall
  <2> QED BY <1>1, <1>4, <2>2 DEF Followed
<1>6. ASSUME NEW t \in DOMAIN mine
      PROVE  /\ mine'[t] \in MyCall /\ mine[t] \in MyCall
             /\ mine'[t].member = mine[t].member /\ MineFits(mine'[t]) /\ MineFits(mine[t])
             /\ mine[t].closed => mine'[t].closed
             /\ mine'[t].open => mine[t].open
             /\ ~mine[t].open => mine'[t].sent = mine[t].sent
             /\ mine'[t].live => mine[t].live
  <2>1. CASE t = s
    BY <1>1, <1>2, <1>3, <1>4, <1>5, <2>1
  <2>2. CASE t # s
    <3> QED BY <1>1, <1>3, <2>2
  <2> QED BY <2>1, <2>2
<1> QED BY <1>3, <1>6

\* A sequence with another after it.
LEMMA ElementsAfter ==
  ASSUME NEW S, NEW p \in Seq(S), NEW q \in Seq(S)
  PROVE  /\ p \o q \in Seq(S)
         /\ \A i \in DOMAIN (p \o q) :
               \/ i \in DOMAIN p /\ (p \o q)[i] = p[i]
               \/ ~(i <= Len(p)) /\ i - Len(p) \in DOMAIN q /\ (p \o q)[i] = q[i - Len(p)]
<1>1. /\ p \o q \in Seq(S) /\ DOMAIN p = 1..Len(p) /\ DOMAIN q = 1..Len(q)
      /\ DOMAIN (p \o q) = 1..(Len(p) + Len(q)) /\ Len(p) \in Nat /\ Len(q) \in Nat
      /\ \A i \in DOMAIN (p \o q) : (p \o q)[i] = IF i <= Len(p) THEN p[i] ELSE q[i - Len(p)]
  OBVIOUS
<1>2. ASSUME NEW i \in DOMAIN (p \o q)
      PROVE  \/ i \in DOMAIN p /\ (p \o q)[i] = p[i]
             \/ ~(i <= Len(p)) /\ i - Len(p) \in DOMAIN q /\ (p \o q)[i] = q[i - Len(p)]
  <2>1. CASE i <= Len(p)
    <3> QED BY <1>1, <2>1
  <2>2. CASE ~(i <= Len(p))
    <3> QED BY <1>1, <2>2
  <2> QED BY <2>1, <2>2
<1> QED BY <1>1, <1>2

\* The client keeps the shape of its records and of its frames.
LEMMA MovedTyped ==
  ASSUME CallsInv, NEW s, NEW c2, NEW fs, NEW d, NEW g, NEW e, NEW r, Moved(s, c2, fs, d, g, e, r)
  PROVE  Typed'
<1>0. Typed
  BY DEF CallsInv
<1>1. /\ mine' \in Seq(MyCall) /\ DOMAIN mine' = DOMAIN mine /\ Len(mine') = Len(mine)
      /\ mine'[s] = c2 /\ \A t \in DOMAIN mine : t # s => mine'[t] = mine[t]
      /\ \A t \in DOMAIN mine :
               /\ mine'[t] \in MyCall /\ mine[t] \in MyCall
               /\ mine'[t].member = mine[t].member /\ MineFits(mine'[t]) /\ MineFits(mine[t])
               /\ mine[t].closed => mine'[t].closed
               /\ mine'[t].open => mine[t].open
               /\ ~mine[t].open => mine'[t].sent = mine[t].sent
               /\ mine'[t].live => mine[t].live
  BY <1>0, MovedMine
<1>2. /\ toServer \in Seq(ClientFrame) /\ fs \in Seq(ClientFrame) /\ toServer' = toServer \o fs
      /\ toClient \in Seq(ServerFrame) /\ Takes(s, g, r) /\ s \in DOMAIN mine
      /\ highest' = highest /\ attached' = attached
      /\ Followed(mine[s], c2, d, g, e, r)
  BY <1>0 DEF Typed, Moved, Asks, serverVars
<1>3. /\ toClient' \in Seq(ServerFrame)
      /\ \A i \in DOMAIN toClient' : \E j \in DOMAIN toClient : toClient'[i] = toClient[j]
  BY <1>2, TakesCount
<1>4. ASSUME NEW i \in DOMAIN toServer PROVE AskFits(toServer[i])'
  <2>1. toServer[i] \in ClientFrame /\ AskFits(toServer[i])
    BY <1>0, <1>2 DEF Typed
  <2> DEFINE f == toServer[i]
  <2>2. f.seq \in DOMAIN mine
    BY <2>1 DEF AskFits
  <2>3. f.seq \in DOMAIN mine' /\ mine'[f.seq].member = mine[f.seq].member
    BY <1>1, <2>2
  <2>4. CASE f.form = "end" /\ f.stream = 1
    <3>1. ~mine[f.seq].open /\ f.n = mine[f.seq].sent + 1 /\ (f.outcome = "end" => mine[f.seq].closed)
      BY <2>1, <2>4 DEF AskFits
    <3>2. mine[f.seq].closed => mine'[f.seq].closed
      BY <1>1, <2>2
    <3>3. ~mine'[f.seq].open /\ mine'[f.seq].sent = mine[f.seq].sent
      BY <1>1, <2>2, <3>1
    <3>4. toServer[i]' = toServer'[i]
      OBVIOUS
    <3>5. toServer'[i] = f
      BY <1>2
    <3> QED BY <2>1, <2>3, <2>4, <3>1, <3>2, <3>3, <3>5 DEF AskFits
  <2>5. CASE ~(f.form = "end" /\ f.stream = 1)
    <3> QED BY <2>1, <2>3, <2>5, <1>2 DEF AskFits
  <2> QED BY <2>4, <2>5
<1>5. ASSUME NEW i \in DOMAIN toServer' PROVE AskFits(toServer[i])'
  <2>2. CASE i \in DOMAIN toServer /\ toServer'[i] = toServer[i]
    BY <1>4, <2>2
  <2>3. CASE i - Len(toServer) \in DOMAIN fs /\ toServer'[i] = fs[i - Len(toServer)]
    <3> DEFINE f == fs[i - Len(toServer)]
    <3>2. toServer'[i] = f
      BY <2>3
    <3>3. s \in DOMAIN mine' /\ mine'[s] = c2
      BY <1>1, <1>2
    <3> HIDE DEF f
    <3> QED BY <2>3, <3>2, <3>3 DEF AskFits, Moved, Asks
  <2> QED BY <1>2, ElementsAfter, <2>2, <2>3
<1>6. toServer' \in Seq(ClientFrame)
  BY <1>2
<1>7. ASSUME NEW i \in DOMAIN toClient'
      PROVE  toClient'[i].seq \in 1..highest' /\ ToldFits(mine'[toClient'[i].seq].member, toClient'[i])
  <2>1. PICK j \in DOMAIN toClient : toClient'[i] = toClient[j]
    BY <1>3
  <2>2. toClient[j].seq \in 1..highest /\ ToldFits(mine[toClient[j].seq].member, toClient[j])
    BY <1>0 DEF Typed
  <2> QED BY <1>1, <1>2, <2>1, <2>2, <1>0 DEF Typed
<1>8. ASSUME NEW t \in DOMAIN mine, t > highest PROVE mine'[t].received = 0
  <2>1. mine[t].received = 0
    BY <1>0, <1>8 DEF Typed
  <2>2. CASE t # s
    BY <1>1, <2>1, <2>2
  <2>3. CASE t = s
    <3>1. toClient' = toClient /\ g = 0 /\ r = 0
      <4> SUFFICES ASSUME toClient # <<>>, Head(toClient).seq = s PROVE FALSE
        BY <1>2 DEF Takes
      <4>1. 1 \in DOMAIN toClient /\ Head(toClient) = toClient[1]
        BY <1>2
      <4>3. highest \in Nat /\ s \in Nat
        BY <1>0, <1>2 DEF Typed
      <4> QED BY <1>8, <2>3, <4>1, <1>0, <4>3 DEF Typed
    <3> QED BY <1>1, <2>1, <2>3, <3>1, <1>2 DEF Followed
  <2> QED BY <2>2, <2>3
<1>9. ~attached => toClient' = <<>> /\ Live' = {}
  <2> SUFFICES ASSUME ~attached PROVE toClient' = <<>> /\ Live' = {}
    OBVIOUS
  <2>1. toClient = <<>> /\ Live = {}
    BY <1>0 DEF Typed
  <2>3. \A t \in DOMAIN mine : ~mine'[t].live
    BY <1>1, <2>1 DEF Live
  <2> QED BY <1>1, <1>2, <2>1, <2>3 DEF Live, Takes
<1>10. highest' \in 0..Len(mine') /\ attached' \in BOOLEAN
  BY <1>0, <1>1, <1>2 DEF Typed
<1>11. \A t \in DOMAIN mine' : t > highest' => mine'[t].received = 0
  BY <1>1, <1>2, <1>8
<1>12. \A t \in DOMAIN mine' : MineFits(mine'[t])
  BY <1>1
<1> QED BY <1>1, <1>2, <1>3, <1>5, <1>6, <1>7, <1>9, <1>10, <1>11, <1>12 DEF Typed, MineFits

\* What the client sends follows its requests.
LEMMA MovedRequested ==
  ASSUME CallsInv, NEW s, NEW c2, NEW fs, NEW d, NEW g, NEW e, NEW r, Moved(s, c2, fs, d, g, e, r)
  PROVE  Requested'
<1> SUFFICES ASSUME closed = 0 PROVE Requested'
  BY DEF Requested, Moved, serverVars
<1>0. /\ \A i \in DOMAIN toServer : RequestFirst(i)
      /\ \A t \in DOMAIN mine : t > highest =>
            \E j \in DOMAIN toServer : toServer[j].form = "request" /\ toServer[j].seq = t
  BY DEF CallsInv, Requested
<1>1. /\ toServer \in Seq(ClientFrame) /\ fs \in Seq(ClientFrame) /\ toServer' = toServer \o fs
      /\ highest' = highest /\ highest \in Nat /\ s \in Nat
      /\ \A i \in DOMAIN fs : fs[i].seq = s /\ fs[i].form # "request"
      /\ DOMAIN toServer = 1..Len(toServer) /\ Len(toServer) \in Nat
  <2>2. s \in Nat /\ highest \in Nat
    BY DEF CallsInv, Typed, Moved
  <2> QED BY <2>2 DEF Moved, Asks, serverVars, CallsInv, Typed
<1>2. \A i \in DOMAIN toServer : toServer'[i] = toServer[i]
  BY <1>1
<1>4. ASSUME NEW i \in DOMAIN toServer'
      PROVE  IF toServer'[i].form = "request"
             THEN /\ toServer'[i].seq > highest'
                  /\ \A j \in 1..(i - 1) : toServer'[j].seq < toServer'[i].seq
             ELSE toServer'[i].seq > highest' =>
                     \E j \in 1..(i - 1) : toServer'[j].form = "request" /\ toServer'[j].seq = toServer'[i].seq
  <2>1. CASE i \in DOMAIN toServer
    <3>2. \A j \in 1..(i - 1) : toServer'[j] = toServer[j]
      BY <1>2, <1>1, <2>1
    <3>3. toServer'[i] = toServer[i] /\ highest' = highest
      BY <1>1, <1>2, <2>1
    <3> QED BY <1>0, <2>1, <3>2, <3>3 DEF RequestFirst, Asked
  <2>2. CASE i \notin DOMAIN toServer
    <3>1. ~(i <= Len(toServer)) /\ i - Len(toServer) \in DOMAIN fs /\ toServer'[i] = fs[i - Len(toServer)]
      BY <1>1, <2>2, ElementsAfter
    <3>3. \A j \in DOMAIN toServer : j \in 1..(i - 1)
      <4> QED BY <1>1, <3>1
    <3>4. s > highest => \E j \in 1..(i - 1) : toServer'[j].form = "request" /\ toServer'[j].seq = s
      <4> SUFFICES ASSUME s > highest
                   PROVE  \E j \in 1..(i - 1) : toServer'[j].form = "request" /\ toServer'[j].seq = s
        OBVIOUS
      <4>1. PICK j \in DOMAIN toServer : toServer[j].form = "request" /\ toServer[j].seq = s
        <5>1. ~(s <= highest)
          BY <1>1
        <5> QED BY <1>0 DEF Moved
      <4> QED BY <1>2, <3>3, <4>1
    <3> QED BY <1>1, <3>1, <3>4
  <2> QED BY <2>1, <2>2
<1>8. ASSUME NEW t \in DOMAIN mine', t > highest'
      PROVE  \E j \in DOMAIN toServer' : toServer'[j].form = "request" /\ toServer'[j].seq = t
  <2>1. PICK j \in DOMAIN toServer : toServer[j].form = "request" /\ toServer[j].seq = t
    BY <1>0, <1>1, MovedMine, <1>8 DEF CallsInv
  <2> QED BY <1>2, <1>1, <2>1
<1> QED BY <1>4, <1>8 DEF Requested, RequestFirst, Asked

\* The client leaves the session as it is.
LEMMA MovedSession ==
  ASSUME CallsInv, NEW s, NEW c2, NEW fs, NEW d, NEW g, NEW e, NEW r, Moved(s, c2, fs, d, g, e, r)
  PROVE  SessionFits' /\ ClosedEmpty' /\ NoViolation'
<1>1. Typed
  BY DEF CallsInv
<1>2. UNCHANGED <<highest, calls, kept, closed, todo, violated>>
  BY DEF Moved, serverVars
<1>3. ASSUME NEW t \in DOMAIN calls
      PROVE  /\ t \in DOMAIN mine
             /\ calls[t].member = mine'[t].member
             /\ \A k \in DOMAIN calls[t].uploads : UploadFits(calls[t].uploads[k], mine'[t])
  <2>1. t \in DOMAIN mine
    <3> QED BY <1>1 DEF CallsInv, SessionFits, Typed
  <2>2. /\ mine'[t].member = mine[t].member
        /\ mine[t].closed => mine'[t].closed
        /\ ~mine[t].open => mine'[t].sent = mine[t].sent
        /\ MineFits(mine[t])
    BY <1>1, <2>1, MovedMine
  <2>3. /\ calls[t].member = mine[t].member
        /\ \A k \in DOMAIN calls[t].uploads : UploadFits(calls[t].uploads[k], mine[t])
    BY DEF CallsInv, SessionFits
  <2>4. ASSUME NEW k \in DOMAIN calls[t].uploads PROVE UploadFits(calls[t].uploads[k], mine'[t])
    <3> DEFINE u == calls[t].uploads[k]
               c == mine[t]
               cc == mine'[t]
    <3>1. UploadFits(u, c) /\ (c.closed => cc.closed) /\ (~c.open => cc.sent = c.sent) /\ (c.open => ~c.closed)
      BY <2>2, <2>3 DEF MineFits
    <3> HIDE DEF u, c, cc
    <3>2. UploadFits(u, cc)
      BY <3>1 DEF UploadFits
    <3> QED BY <3>2 DEF u, cc
  <2> QED BY <2>1, <2>2, <2>3, <2>4
<1>4. /\ DOMAIN calls \subseteq 1..highest /\ DOMAIN kept \subseteq 1..highest /\ todo \subseteq DOMAIN calls
      /\ \A t \in DOMAIN calls : CallOK(calls[t])
  BY DEF CallsInv, SessionFits
<1>5. SessionFits'
  <2>2. SessionFits' <=>
          /\ DOMAIN calls' \subseteq 1..highest'
          /\ \A t \in DOMAIN calls' :
                /\ CallOK(calls'[t]) /\ calls'[t].member = mine'[t].member
                /\ \A k \in DOMAIN calls'[t].uploads : UploadFits(calls'[t].uploads[k], mine'[t])
          /\ DOMAIN kept' \subseteq 1..highest'
          /\ todo' \subseteq DOMAIN calls'
    BY DEF SessionFits, CallOK, Call, UploadFits
  <2> QED BY <1>2, <1>4, <1>3, <2>2
<1>6. ClosedEmpty' /\ NoViolation'
  BY <1>2 DEF CallsInv, ClosedEmpty, NoViolation
<1> QED BY <1>5, <1>6

\* The account of an upload and of a reply.
LEMMA UploadOfTyped ==
  ASSUME CallsInv, NEW t \in There, Uploads(mine[t].member)
  PROVE  UploadOf(t) \in Upload
<1>1. CASE t \in DOMAIN calls
  <2>2. /\ calls[t].uploads \in [1..Shape[calls[t].member].params -> Upload]
        /\ Shape[calls[t].member].params \in Nat /\ Shape[calls[t].member].params > 0
    BY <1>1, WsServerAssumption DEF CallOK, Call, Uploads, CallsInv, SessionFits
  <2> QED BY <1>1, <2>2 DEF UploadOf
<1>2. CASE t \notin DOMAIN calls
  <2> QED BY <1>2, WsServerAssumption DEF UploadOf, NewUpload, Upload
<1> QED BY <1>1, <1>2

LEMMA ReplyOfTyped ==
  ASSUME CallsInv, NEW t
  PROVE  ReplyOf(t) \in Reply
<1>1. CASE t \in DOMAIN calls
  <2> QED BY <1>1 DEF ReplyOf, CallOK, Call, CallsInv, SessionFits
<1>2. CASE t \notin DOMAIN calls
  BY <1>2, WsServerAssumption DEF ReplyOf, NewReply, Reply
<1> QED BY <1>1, <1>2

\* The accounts still agree when the client moves a record along.
LEMMA MovedCounts ==
  ASSUME CallsInv, NEW s, NEW c2, NEW fs, NEW d, NEW g, NEW e, NEW r, Moved(s, c2, fs, d, g, e, r)
  PROVE  Counted' /\ Within' /\ RefusedFirst'
<1>1. Typed /\ DOMAIN calls \subseteq DOMAIN mine
  <2> QED BY DEF CallsInv, SessionFits, Typed
<1>2. UNCHANGED <<highest, calls, closed>>
  BY DEF Moved, serverVars
<1>3. /\ toServer \in Seq(ClientFrame) /\ toClient \in Seq(ServerFrame)
      /\ Asks(fs, s, c2) /\ toServer' = toServer \o fs /\ Takes(s, g, r)
      /\ s \in DOMAIN mine /\ Followed(mine[s], c2, d, g, e, r)
      /\ d = Under(fs, s, 1, "chunk") /\ e = Under(fs, s, 0, "credit")
  BY <1>1 DEF Moved, Typed
<1>4. /\ DOMAIN mine' = DOMAIN mine /\ mine'[s] = c2
      /\ \A t \in DOMAIN mine : t # s => mine'[t] = mine[t]
      /\ \A t \in DOMAIN mine : mine'[t].member = mine[t].member /\ (mine'[t].live => mine[t].live)
      /\ c2 \in MyCall /\ mine[s] \in MyCall
  BY <1>1, <1>3, MovedMine DEF Followed
<1>5. /\ g \in Nat /\ r \in Nat
      /\ \A t, k, form : Under(toClient, t, k, form) \in Nat /\ Under(toClient', t, k, form) \in Nat
      /\ Under(toClient, s, 1, "credit") = Under(toClient', s, 1, "credit") + g
      /\ Under(toClient, s, 0, "chunk") = Under(toClient', s, 0, "chunk") + r
      /\ \A t : t # s =>
           /\ Under(toClient, t, 1, "credit") = Under(toClient', t, 1, "credit")
           /\ Under(toClient, t, 0, "chunk") = Under(toClient', t, 0, "chunk")
      /\ \A i \in DOMAIN toClient' : \E j \in DOMAIN toClient : toClient'[i] = toClient[j]
  BY <1>3, TakesCount
<1>6. /\ \A k, form : /\ Under(toServer', s, k, form) = Under(toServer, s, k, form) + Under(fs, s, k, form)
                      /\ Under(toServer, s, k, form) \in Nat /\ Under(fs, s, k, form) \in Nat
      /\ \A t, k, form : t # s => Under(toServer', t, k, form) = Under(toServer, t, k, form)
  BY <1>3, AsksCount, SMTT(30)
<1>7. There' = There /\ There \subseteq DOMAIN mine /\ \A t : UploadOf(t)' = UploadOf(t) /\ ReplyOf(t)' = ReplyOf(t)
  BY <1>1, <1>2, <1>4 DEF There, UploadOf, ReplyOf
<1>8. ASSUME closed = 0, NEW t \in There PROVE UploadCounted(t)'
  <2>1. UploadCounted(t) /\ t \in DOMAIN mine
    BY <1>7, <1>8 DEF CallsInv, Counted
  <2>2. CASE t # s
    <3>2. /\ Under(toServer', t, 1, "chunk") = Under(toServer, t, 1, "chunk")
          /\ Under(toClient', t, 1, "credit") = Under(toClient, t, 1, "credit")
      BY <1>5, <1>6, <2>2
    <3>3. UploadOf(t)' = UploadOf(t)
      BY <1>7
    <3> QED BY <2>1, <1>4, <2>2, <3>2, <3>3 DEF UploadCounted
  <2>3. CASE t = s
    <3> DEFINE u == UploadOf(s)
               c == mine[s]
               K == Under(toServer, s, 1, "chunk")
               KK == Under(toServer', s, 1, "chunk")
               C == Under(toClient, s, 1, "credit")
               CC == Under(toClient', s, 1, "credit")
    <3> SUFFICES ASSUME Uploads(c.member), u.state = "open", ~u.ended
                 PROVE  KK <= u.credit /\ (c2.open => u.credit + c2.sent = c2.granted + KK + CC)
      <4> QED BY <2>3, <1>4, <1>7, <1>3 DEF UploadCounted
    <3>1. K <= u.credit /\ (c.open => u.credit + c.sent = c.granted + K + C)
      BY <2>1, <2>3 DEF UploadCounted
    <3>2. KK = K + d /\ K \in Nat /\ d \in Nat /\ C = CC + g /\ CC \in Nat /\ g \in Nat
      BY <1>3, <1>5, <1>6
    <3>3. /\ c2.open => c.open /\ c2.granted = c.granted + g
          /\ c2.sent = c.sent + d
          /\ ~c2.open => d = 0
          /\ c2.open => c2.sent <= c2.granted
      BY <1>3 DEF Followed, MineFits
    <3>4. c.sent \in Nat /\ c.granted \in Nat /\ c2.sent \in Nat /\ c2.granted \in Nat
      BY <1>4 DEF MyCall
    <3>5. u.credit \in Nat
      BY <1>8, <2>1, <2>3, UploadOfTyped DEF Upload
    <3> HIDE DEF u, c, K, KK, C, CC
    <3>6. CASE ~c2.open
      BY <3>1, <3>2, <3>3, <3>4, <3>5, <3>6
    <3>7. CASE c2.open
      BY <3>1, <3>2, <3>3, <3>4, <3>5, <3>7
    <3> QED BY <3>6, <3>7
  <2> QED BY <2>2, <2>3
<1>9. ASSUME closed = 0, NEW t \in There PROVE ReplyCounted(t)'
  <2>1. ReplyCounted(t) /\ t \in DOMAIN mine
    BY <1>7, <1>9 DEF CallsInv, Counted
  <2>2. CASE t # s
    <3>2. /\ Under(toServer', t, 0, "credit") = Under(toServer, t, 0, "credit")
          /\ Under(toClient', t, 0, "chunk") = Under(toClient, t, 0, "chunk")
      BY <1>5, <1>6, <2>2
    <3>3. ReplyOf(t)' = ReplyOf(t)
      BY <1>7
    <3> QED BY <2>1, <1>4, <2>2, <3>2, <3>3 DEF ReplyCounted
  <2>3. CASE t = s
    <3> DEFINE p == ReplyOf(s)
               c == mine[s]
               K == Under(toServer, s, 0, "credit")
               KK == Under(toServer', s, 0, "credit")
               C == Under(toClient, s, 0, "chunk")
               CC == Under(toClient', s, 0, "chunk")
    <3> SUFFICES ASSUME Streamed(c.member), c2.live
                 PROVE  c2.replyGranted = c2.received + p.credit + CC + KK
      <4> QED BY <2>3, <1>4, <1>7, <1>3 DEF ReplyCounted
    <3>3. c.live /\ c2.replyGranted = c.replyGranted + e /\ c2.received = c.received + r
      BY <1>3 DEF Followed
    <3>1. c.replyGranted = c.received + p.credit + C + K
      BY <2>1, <2>3, <3>3 DEF ReplyCounted
    <3>2. KK = K + e /\ K \in Nat /\ e \in Nat /\ C = CC + r /\ CC \in Nat /\ r \in Nat
      BY <1>3, <1>5, <1>6
    <3>4. c.received \in Nat /\ c.replyGranted \in Nat
      BY <1>4 DEF MyCall
    <3>5. p.credit \in Nat
      BY ReplyOfTyped DEF Reply
    <3> HIDE DEF p, c, K, KK, C, CC
    <3> QED BY <3>1, <3>2, <3>3, <3>4, <3>5
  <2> QED BY <2>2, <2>3
<1>10. Counted'
  BY <1>2, <1>7, <1>8, <1>9 DEF Counted
<1>11. Within'
  <2> SUFFICES ASSUME NEW t \in DOMAIN mine, mine'[t].live, Streamed(mine'[t].member)
               PROVE  mine'[t].received + Under(toClient', t, 0, "chunk") <= mine'[t].replyGranted
    BY <1>4 DEF Within, Live
  <2>2. mine[t].received + Under(toClient, t, 0, "chunk") <= mine[t].replyGranted
    BY <1>4 DEF CallsInv, Within, Live
  <2>3. CASE t # s
    BY <1>4, <1>5, <2>2, <2>3
  <2>4. CASE t = s
    <3> DEFINE c == mine[s]
               C == Under(toClient, s, 0, "chunk")
               CC == Under(toClient', s, 0, "chunk")
    <3>1. c2.live /\ c2.replyGranted = c.replyGranted + e /\ c2.received = c.received + r
      BY <1>3, <1>4, <2>4 DEF Followed
    <3>2. C = CC + r /\ CC \in Nat /\ r \in Nat /\ e \in Nat /\ c.received + C <= c.replyGranted
      BY <1>3, <1>5, <1>6, <2>2, <2>4
    <3>3. c.received \in Nat /\ c.replyGranted \in Nat
      BY <1>4 DEF MyCall
    <3> HIDE DEF c, C, CC
    <3>4. c2.received + CC <= c2.replyGranted
      BY <3>1, <3>2, <3>3
    <3> QED BY <1>4, <2>4, <3>4 DEF CC
  <2> QED BY <2>3, <2>4
<1>12. RefusedFirst'
  <2> SUFFICES ASSUME NEW i \in DOMAIN toClient', toClient'[i].form = "response",
                      Streamed(mine'[toClient'[i].seq].member)
               PROVE  /\ toClient'[i].outcome = "refused"
                      /\ mine'[toClient'[i].seq].received = 0
                      /\ Under(toClient', toClient'[i].seq, 0, "chunk") = 0
                      /\ toClient'[i].seq \notin DOMAIN calls'
    BY DEF RefusedFirst
  <2>1. PICK j \in DOMAIN toClient : toClient'[i] = toClient[j]
    BY <1>5
  <2> DEFINE t == toClient[j].seq
  <2>2. t \in DOMAIN mine
    <3> QED BY <1>1 DEF Typed
  <2>4. /\ toClient[j].outcome = "refused" /\ mine[t].received = 0
        /\ Under(toClient, t, 0, "chunk") = 0 /\ t \notin DOMAIN calls
    BY <1>4, <2>1, <2>2 DEF CallsInv, RefusedFirst
  <2>5. mine'[t].received = 0 /\ Under(toClient', t, 0, "chunk") = 0
    <3>1. CASE t # s
      BY <1>4, <1>5, <2>2, <2>4, <3>1
    <3>2. CASE t = s
      <4>2. c2.received \in {mine[s].received, mine[s].received + r}
        BY <1>3 DEF Followed
      <4> QED BY <1>4, <2>4, <3>2, <1>5, <4>2
    <3> QED BY <3>1, <3>2
  <2> QED BY <1>2, <2>1, <2>4, <2>5
<1> QED BY <1>10, <1>11, <1>12

LEMMA MovedInv ==
  ASSUME CallsInv, NEW s, NEW c2, NEW fs, NEW d, NEW g, NEW e, NEW r, Moved(s, c2, fs, d, g, e, r)
  PROVE  CallsInv'
BY MovedTyped, MovedRequested, MovedSession, MovedCounts DEF CallsInv

\* A step of the client on a call of its that moves its record along.
LEMMA UpdateMoves ==
  ASSUME CallsInv, NEW s \in Live, NEW c2, NEW fs, NEW d, NEW e, Update(s, c2, fs),
         Followed(mine[s], c2, d, 0, e, 0), Asks(fs, s, c2),
         d = Under(fs, s, 1, "chunk"), e = Under(fs, s, 0, "credit")
  PROVE  CallsInv'
<1>2. Takes(s, 0, 0)
  BY DEF Update, Takes
<1>3. Moved(s, c2, fs, d, 0, e, 0)
  BY <1>2 DEF Update, Moved, Live
<1> QED BY <1>3, MovedInv

\* A call that leaves the client's table.
LEMMA ForgetFollows ==
  ASSUME NEW c \in MyCall, MineFits(c), NEW c1 \in MyCall, c1.member = c.member,
         c.closed => c1.closed, c1.sent = c.sent, c1.received = c.received,
         NEW res \in {"ok", "failed"}, NEW g, NEW e, NEW r
  PROVE  /\ Followed(c, Forgotten(c1, res), 0, g, e, r)
         /\ Forgotten(c1, res).member = c.member /\ ~Forgotten(c1, res).open
         /\ Forgotten(c1, res).sent = c.sent /\ Forgotten(c1, res).closed = c1.closed
<1> DEFINE c2 == Forgotten(c1, res)
<1>1. /\ c2 \in MyCall /\ c2.member = c.member /\ c2.closed = c1.closed /\ c2.sent = c.sent
      /\ c2.received = c.received /\ ~c2.open /\ ~c2.live
  BY DEF MyCall, Forgotten
<1> HIDE DEF c2
<1>3. Followed(c, c2, 0, g, e, r)
  BY <1>1 DEF Followed, MineFits, MyCall
<1> QED BY <1>1, <1>3 DEF c2

\* Ends count for nothing.
LEMMA EndsCount ==
  ASSUME NEW fs \in Seq(ClientFrame), \A i \in DOMAIN fs : fs[i].form = "end", NEW s
  PROVE  Under(fs, s, 1, "chunk") = 0 /\ Under(fs, s, 0, "credit") = 0
<1> QED BY UnderSame, FramesCount DEF Amount

\* The end of an upload, and the stop of a reply stream.
LEMMA EndsAsked ==
  ASSUME Typed, NEW s \in DOMAIN mine, NEW o \in {"end", "interrupted"}, NEW c2, c2.member = mine[s].member,
         ~c2.open, c2.sent = mine[s].sent, o = "end" => c2.closed, Uploads(mine[s].member)
  PROVE  Asks(<<EndIn(s, 1, mine[s].sent + 1, o)>>, s, c2)
<1>1. mine[s] \in MyCall /\ s \in Nat
  BY DEF Typed
<1>0. mine[s].member \in Members /\ mine[s].sent + 1 \in Nat
  BY <1>1 DEF MyCall
<1>2. EndIn(s, 1, mine[s].sent + 1, o) \in ClientFrame
  BY <1>0, <1>1 DEF EndIn, ClientFrame
<1> DEFINE f == EndIn(s, 1, mine[s].sent + 1, o)
<1>3. f.seq = s /\ f.form = "end" /\ f.member = mine[s].member /\ f.stream = 1 /\ f.n = mine[s].sent + 1 /\ f.outcome = o
  BY DEF EndIn
<1> HIDE DEF f
<1>4. <<f>> \in Seq(ClientFrame) /\ DOMAIN <<f>> = {1} /\ <<f>>[1] = f
  BY <1>2 DEF f
<1>5. Asks(<<f>>, s, c2)
  BY <1>3, <1>4 DEF Asks
<1> QED BY <1>5 DEF f

LEMMA StopAsked ==
  ASSUME Typed, NEW s \in DOMAIN mine, NEW c2, c2.member = mine[s].member
  PROVE  Asks(<<Stop(s)>>, s, c2)
<1>1. mine[s] \in MyCall /\ s \in Nat
  BY DEF Typed
<1>2. Stop(s) \in ClientFrame
  BY <1>1 DEF Stop, EndIn, ClientFrame, MyCall
<1> DEFINE f == Stop(s)
<1>3. f.seq = s /\ f.form = "end" /\ f.member = mine[s].member /\ f.stream = 0 /\ f.outcome = "interrupted"
  BY DEF Stop, EndIn
<1> HIDE DEF f
<1>4. <<f>> \in Seq(ClientFrame) /\ DOMAIN <<f>> = {1} /\ <<f>>[1] = f
  BY <1>2 DEF f
<1>5. Asks(<<f>>, s, c2)
  BY <1>3, <1>4 DEF Asks
<1> QED BY <1>5 DEF f

LEMMA NoneAsked ==
  ASSUME NEW s, NEW c2
  PROVE  Asks(<<>>, s, c2)
BY DEF Asks

LEMMA AsksJoin ==
  ASSUME NEW s, NEW c2, NEW fs, NEW gs, Asks(fs, s, c2), Asks(gs, s, c2)
  PROVE  Asks(fs \o gs, s, c2)
<1> DEFINE hs == fs \o gs
<1>2. /\ hs \in Seq(ClientFrame)
      /\ \A i \in DOMAIN hs : (i \in DOMAIN fs /\ hs[i] = fs[i]) \/ (i - Len(fs) \in DOMAIN gs /\ hs[i] = gs[i - Len(fs)])
  BY ElementsAfter DEF Asks
<1> HIDE DEF hs
<1> QED BY <1>2 DEF hs, Asks

\* A step that forgets the call, or leaves its accounts alone, and sends ends.
LEMMA EndsMove ==
  ASSUME CallsInv, NEW s \in Live, NEW c2, NEW fs, Update(s, c2, fs),
         Followed(mine[s], c2, 0, 0, 0, 0), Asks(fs, s, c2), \A i \in DOMAIN fs : fs[i].form = "end"
  PROVE  CallsInv'
<1>2. Under(fs, s, 1, "chunk") = 0 /\ Under(fs, s, 0, "credit") = 0
  BY EndsCount DEF Asks
<1> QED BY <1>2, UpdateMoves

LEMMA LiveTyped ==
  ASSUME CallsInv, NEW s \in Live
  PROVE  /\ Typed /\ s \in DOMAIN mine /\ s \in Nat /\ mine[s] \in MyCall /\ MineFits(mine[s])
         /\ mine[s].live
BY DEF CallsInv, Typed, Live

-----------------------------------------------------------------------------
(* The operations of the caller. *)

\* The client writes a chunk.
LEMMA WriteInv ==
  ASSUME CallsInv, NEW s \in Live, Write(s)
  PROVE  CallsInv'
<1> DEFINE c == mine[s]
           c2 == [c EXCEPT !.sent = @ + 1]
           f == ChunkIn(s, c.sent + 1)
<1>1. /\ c \in MyCall /\ MineFits(c) /\ c.open /\ c.sent < c.granted /\ s \in Nat /\ c.live
      /\ Update(s, c2, <<f>>)
  BY LiveTyped DEF Write
<1>2. /\ c2 \in MyCall /\ c2.member = c.member /\ c2.sent = c.sent + 1 /\ c2.open /\ c2.granted = c.granted
      /\ c2.closed = c.closed /\ c2.live /\ c2.replyGranted = c.replyGranted /\ c2.received = c.received
      /\ c.sent \in Nat /\ c.granted \in Nat /\ c.replyGranted \in Nat /\ c.received \in Nat
  BY <1>1 DEF MyCall
<1>3. Uploads(c.member) /\ ~c.closed
  BY <1>1 DEF MineFits
<1>4. f \in ClientFrame /\ f.form = "chunk" /\ f.seq = s /\ f.member = c.member /\ f.stream = 1
  BY <1>1, <1>2 DEF ChunkIn, ClientFrame, MyCall
<1> HIDE DEF f, c2
<1>6. Under(<<f>>, s, 1, "chunk") = 1 /\ Under(<<f>>, s, 0, "credit") = 0
  BY <1>4, UnderOne, FramesCount DEF Amount
<1>7. Asks(<<f>>, s, c2)
  <2> QED BY <1>2, <1>3, <1>4 DEF Asks
<1> QED BY <1>1, <1>6, <1>7, <1>2, <1>3, UpdateMoves DEF Followed, MineFits

\* The client writes a chunk over the bound of a frame, and gives the call up.
LEMMA WriteTooLongInv ==
  ASSUME CallsInv, NEW s \in Live, WriteTooLong(s)
  PROVE  CallsInv'
<1> DEFINE c == mine[s]
           c2 == Forgotten(c, "failed")
           f == EndIn(s, 1, c.sent + 1, "interrupted")
           gs == IF Streamed(c.member) THEN <<Stop(s)>> ELSE <<>>
<1>1. /\ c \in MyCall /\ MineFits(c) /\ c.open /\ Typed /\ s \in DOMAIN mine
      /\ Update(s, c2, <<f>> \o gs)
  BY LiveTyped DEF WriteTooLong
<1>2. Followed(c, c2, 0, 0, 0, 0) /\ c2.member = c.member /\ ~c2.open /\ c2.sent = c.sent
  BY <1>1, ForgetFollows
<1> HIDE DEF c2
<1>4. Asks(<<f>>, s, c2)
  BY <1>1, <1>2, EndsAsked DEF MineFits
<1>5. Asks(gs, s, c2)
  BY <1>1, <1>2, StopAsked, NoneAsked
<1>6. \A i \in DOMAIN (<<f>> \o gs) : (<<f>> \o gs)[i].form = "end"
  BY DEF EndIn, Stop
<1> HIDE DEF f, gs
<1>7. Asks(<<f>> \o gs, s, c2)
  BY <1>4, <1>5, AsksJoin
<1> QED BY <1>1, <1>2, <1>6, <1>7, EndsMove

\* The client closes its upload.
LEMMA CloseUploadInv ==
  ASSUME CallsInv, NEW s \in Live, CloseUpload(s)
  PROVE  CallsInv'
<1> DEFINE old == mine[s]
           c == [old EXCEPT !.open = FALSE, !.closed = TRUE]
           m == old.member
           c2 == IF Streamed(m) THEN c
                 ELSE IF IsQuery(m) THEN [c EXCEPT !.timer = TRUE]
                 ELSE IF c.settled THEN Forgotten(c, "ok") ELSE c
           f == EndIn(s, 1, old.sent + 1, "end")
<1>1. /\ old \in MyCall /\ MineFits(old) /\ old.open /\ Typed /\ s \in DOMAIN mine /\ old.live
      /\ Update(s, c2, <<f>>)
  BY LiveTyped DEF CloseUpload
<1>2. /\ c \in MyCall /\ c.member = m /\ c.sent = old.sent /\ c.received = old.received /\ c.closed /\ ~c.open
      /\ c.live = old.live /\ c.replyGranted = old.replyGranted
      /\ old.sent \in Nat /\ old.replyGranted \in Nat /\ old.received \in Nat
  BY <1>1 DEF MyCall
<1> HIDE DEF c
<1>3. Followed(old, c2, 0, 0, 0, 0) /\ c2.member = m /\ ~c2.open /\ c2.sent = old.sent /\ c2.closed
  <2>1. CASE c2 = Forgotten(c, "ok")
    <3> HIDE DEF c2
    <3> QED BY <1>2, <2>1, <1>1, ForgetFollows
  <2>2. CASE c2 = c \/ c2 = [c EXCEPT !.timer = TRUE]
    <3>1. /\ c2 \in MyCall /\ c2.member = m /\ c2.sent = old.sent /\ c2.received = old.received /\ c2.closed
          /\ ~c2.open /\ c2.live = old.live /\ c2.replyGranted = old.replyGranted
      <4> HIDE DEF c2
      <4> QED BY <1>2, <2>2 DEF MyCall
    <3> HIDE DEF c2
    <3> QED BY <3>1, <1>1, <1>2 DEF Followed, MineFits
  <2> QED BY <2>1, <2>2
<1> HIDE DEF c2
<1>5. Asks(<<f>>, s, c2)
  BY <1>1, <1>3, EndsAsked DEF MineFits
<1> QED BY <1>1, <1>3, <1>5, EndsMove DEF EndIn

\* Sequences of one or two elements.
LEMMA ShortSeqs ==
  ASSUME NEW x, NEW y
  PROVE  <<x>> \o <<y>> = <<x, y>> /\ <<x>> \o <<>> = <<x>> /\ <<>> \o <<x>> = <<x>>
<1>1. <<x>> \o <<y>> = <<x, y>>
  <2> DEFINE S == {x, y}
             seq1 == <<x>>
             bs == <<y>>
             cs == seq1 \o bs
             ds == <<x, y>>
  <2>1. seq1 \in Seq(S) /\ bs \in Seq(S) /\ Len(seq1) = 1 /\ Len(bs) = 1 /\ seq1[1] = x /\ bs[1] = y
    OBVIOUS
  <2>2. ds \in Seq(S) /\ Len(ds) = 2 /\ ds[1] = x /\ ds[2] = y
    OBVIOUS
  <2> HIDE DEF seq1, bs, ds, S
  <2>3. cs \in Seq(S) /\ Len(cs) = 2 /\ cs[1] = x /\ cs[2] = y
    <3>1. cs \in Seq(S) /\ Len(cs) = Len(seq1) + Len(bs)
          /\ \A i \in 1..(Len(seq1) + Len(bs)) : cs[i] = IF i <= Len(seq1) THEN seq1[i] ELSE bs[i - Len(seq1)]
      BY <2>1, ConcatProperties
    <3> QED BY <2>1, <3>1
  <2> HIDE DEF cs
  <2>5. cs = ds
    BY <2>2, <2>3, SameSeq
  <2> QED BY <2>5 DEF cs, ds, seq1, bs
<1>3. <<x>> \o <<>> = <<x>> /\ <<>> \o <<x>> = <<x>>
  OBVIOUS
<1> QED BY <1>1, <1>3

\* The client aborts its upload.
LEMMA AbortUploadInv ==
  ASSUME CallsInv, NEW s \in Live, AbortUpload(s)
  PROVE  CallsInv'
<1> DEFINE old == mine[s]
           c == [old EXCEPT !.open = FALSE]
           m == old.member
           f == EndIn(s, 1, old.sent + 1, "interrupted")
           c2 == IF Streamed(m) \/ IsQuery(m) \/ c.settled THEN Forgotten(c, "failed") ELSE c
           gs == IF Streamed(m) THEN <<Stop(s)>> ELSE <<>>
<1>1. /\ old \in MyCall /\ MineFits(old) /\ old.open /\ Typed /\ s \in DOMAIN mine
  BY LiveTyped DEF AbortUpload
<1>u. Update(s, c2, <<f>> \o gs)
  <2>1. IF Streamed(m) THEN Update(s, Forgotten(c, "failed"), <<f, Stop(s)>>)
        ELSE Update(s, IF IsQuery(m) \/ c.settled THEN Forgotten(c, "failed") ELSE c, <<f>>)
    BY DEF AbortUpload
  <2>2. <<f>> \o <<Stop(s)>> = <<f, Stop(s)>> /\ <<f>> \o <<>> = <<f>>
    <3> HIDE DEF f
    <3> QED BY ShortSeqs
  <2>3. CASE Streamed(m)
    <3> QED BY <2>1, <2>2, <2>3
  <2>4. CASE ~Streamed(m)
    <3>1. c2 = (IF IsQuery(m) \/ c.settled THEN Forgotten(c, "failed") ELSE c) /\ gs = <<>>
      BY <2>4
    <3>2. Update(s, IF IsQuery(m) \/ c.settled THEN Forgotten(c, "failed") ELSE c, <<f>>)
      BY <2>1, <2>4
    <3> HIDE DEF c2, gs, c, f
    <3> QED BY <2>2, <3>1, <3>2
  <2> QED BY <2>3, <2>4
<1>2. /\ c \in MyCall /\ c.member = m /\ c.sent = old.sent /\ c.received = old.received /\ c.closed = old.closed /\ ~c.open
      /\ c.live = old.live /\ c.replyGranted = old.replyGranted
      /\ old.sent \in Nat /\ old.replyGranted \in Nat /\ old.received \in Nat
  BY <1>1 DEF MyCall
<1> HIDE DEF c
<1>3. Followed(old, c2, 0, 0, 0, 0) /\ c2.member = m /\ ~c2.open /\ c2.sent = old.sent
  <2>1. CASE c2 = Forgotten(c, "failed")
    <3> HIDE DEF c2
    <3> QED BY <1>2, <2>1, <1>1, ForgetFollows
  <2>2. CASE c2 = c
    <3> HIDE DEF c2
    <3>1. /\ c2 \in MyCall /\ c2.member = m /\ c2.sent = old.sent /\ c2.received = old.received /\ c2.closed = old.closed
          /\ ~c2.open /\ c2.live = old.live /\ c2.replyGranted = old.replyGranted
      BY <1>2, <2>2
    <3> QED BY <3>1, <1>1, <1>2 DEF Followed, MineFits
  <2> QED BY <2>1, <2>2
<1> HIDE DEF c2
<1>5. Asks(<<f>>, s, c2)
  BY <1>1, <1>3, EndsAsked DEF MineFits
<1>6. Asks(gs, s, c2)
  BY <1>1, <1>3, StopAsked, NoneAsked
<1>7. \A i \in DOMAIN (<<f>> \o gs) : (<<f>> \o gs)[i].form = "end"
  BY DEF EndIn, Stop
<1> HIDE DEF f, gs
<1>8. Asks(<<f>> \o gs, s, c2)
  BY <1>5, <1>6, AsksJoin
<1> QED BY <1>u, <1>3, <1>7, <1>8, EndsMove

\* The client reads a chunk of the reply.
LEMMA ReadInv ==
  ASSUME CallsInv, NEW s \in Live, Read(s)
  PROVE  CallsInv'
<1> DEFINE c == mine[s]
           c2 == [c EXCEPT !.buffered = @ - 1, !.read = @ + 1]
<1>1. /\ c \in MyCall /\ MineFits(c) /\ c.buffered > 0 /\ Update(s, c2, <<>>)
  BY LiveTyped DEF Read
<1>2. /\ c.buffered \in Nat /\ c.read \in Nat /\ c.sent \in Nat /\ c.granted \in Nat
      /\ c.replyGranted \in Nat /\ c.received \in Nat
  BY <1>1 DEF MyCall
<1>3. c.buffered - 1 \in Nat /\ c.read + 1 \in Nat
  BY <1>1, <1>2
<1>4. /\ c2 \in MyCall /\ c2.member = c.member /\ c2.sent = c.sent /\ c2.granted = c.granted
      /\ c2.received = c.received /\ c2.closed = c.closed /\ c2.open = c.open /\ c2.live = c.live
      /\ c2.replyGranted = c.replyGranted
  BY <1>1, <1>3 DEF MyCall
<1> HIDE DEF c2
<1>6. Asks(<<>>, s, c2)
  BY NoneAsked
<1> QED BY <1>1, <1>2, <1>4, <1>6, EndsMove DEF Followed, MineFits

\* The client cancels a call.
LEMMA CancelInv ==
  ASSUME CallsInv, NEW s \in Live, Cancel(s)
  PROVE  CallsInv'
<1> DEFINE c == mine[s]
           c2 == Forgotten(c, "failed")
<1>1. c \in MyCall /\ MineFits(c) /\ Typed /\ s \in DOMAIN mine /\ Update(s, c2, <<Stop(s)>>)
  BY LiveTyped DEF Cancel
<1>2. Followed(c, c2, 0, 0, 0, 0) /\ c2.member = c.member
  BY <1>1, ForgetFollows
<1> HIDE DEF c2
<1>4. \A i \in DOMAIN <<Stop(s)>> : <<Stop(s)>>[i].form = "end"
  BY DEF EndIn, Stop
<1> QED BY <1>1, <1>2, StopAsked, <1>4, EndsMove

\* A call of the client times out.
LEMMA TimeoutInv ==
  ASSUME CallsInv, NEW s \in Live, Timeout(s)
  PROVE  CallsInv'
<1> DEFINE c == mine[s]
           c2 == Forgotten(c, "failed")
           fs == IF Streamed(c.member) THEN <<Stop(s)>> ELSE <<>>
<1>1. c \in MyCall /\ MineFits(c) /\ Typed /\ s \in DOMAIN mine /\ Update(s, c2, fs)
  BY LiveTyped DEF Timeout
<1>2. Followed(c, c2, 0, 0, 0, 0) /\ c2.member = c.member
  BY <1>1, ForgetFollows
<1> HIDE DEF c2
<1>3. Asks(fs, s, c2)
  BY <1>1, <1>2, StopAsked, NoneAsked
<1>4. \A i \in DOMAIN fs : fs[i].form = "end"
  BY DEF EndIn, Stop
<1> HIDE DEF fs
<1> QED BY <1>1, <1>2, <1>3, <1>4, EndsMove

\* The client grants credit for the reply.
LEMMA PullInv ==
  ASSUME CallsInv, NEW s \in Live, Pull(s)
  PROVE  CallsInv'
<1> DEFINE c == mine[s]
           room == (InitialCredit - c.buffered) - (c.replyGranted - c.received)
           c2 == [c EXCEPT !.replyGranted = @ + room]
           f == CreditIn(s, room)
<1>1. /\ c \in MyCall /\ MineFits(c) /\ room > 0 /\ Update(s, c2, <<f>>) /\ s \in Nat
  BY LiveTyped DEF Pull
<1>2. /\ c.buffered \in Nat /\ c.sent \in Nat /\ c.granted \in Nat /\ c.replyGranted \in Nat /\ c.received \in Nat
      /\ InitialCredit \in Nat /\ c.member \in Members
  BY <1>1, WsServerAssumption DEF MyCall
<1>3. room \in Nat
  BY <1>1, <1>2
<1> HIDE DEF room
<1>5. /\ c2 \in MyCall /\ c2.member = c.member /\ c2.sent = c.sent /\ c2.granted = c.granted
      /\ c2.received = c.received /\ c2.closed = c.closed /\ c2.open = c.open /\ c2.live = c.live
      /\ c2.replyGranted = c.replyGranted + room
  BY <1>1, <1>2, <1>3 DEF MyCall
<1>6. f \in ClientFrame /\ f.form = "credit" /\ f.seq = s /\ f.member = c.member /\ f.stream = 0 /\ f.credit = room
  BY <1>1, <1>2, <1>3 DEF CreditIn, ClientFrame
<1> HIDE DEF f, c2
<1>8. Under(<<f>>, s, 1, "chunk") = 0 /\ Under(<<f>>, s, 0, "credit") = room
  BY <1>6, UnderOne, FramesCount DEF Amount
<1>9. Asks(<<f>>, s, c2)
  <2> QED BY <1>5, <1>6 DEF Asks
<1>10. Followed(c, c2, 0, 0, room, 0)
  BY <1>1, <1>2, <1>3, <1>5 DEF Followed, MineFits
<1> QED BY <1>1, <1>8, <1>9, <1>10, UpdateMoves

-----------------------------------------------------------------------------
(* The client receives. *)

\* The frame at the head, about a call of the client.
LEMMA HeadTold ==
  ASSUME CallsInv, toClient # <<>>
  PROVE  LET f == Head(toClient) IN
         /\ f \in ServerFrame /\ f.seq \in DOMAIN mine /\ ToldFits(mine[f.seq].member, f)
         /\ Under(toClient, f.seq, 0, "chunk") >= Amount(f, f.seq, 0, "chunk")
         /\ Under(toClient, f.seq, 0, "chunk") \in Nat
         /\ f.form = "response" /\ Streamed(mine[f.seq].member) =>
               f.outcome = "refused" /\ mine[f.seq].received = 0
<1>1. /\ toClient \in Seq(ServerFrame) /\ highest \in 0..Len(mine) /\ DOMAIN mine = 1..Len(mine) /\ Len(mine) \in Nat
      /\ \A i \in DOMAIN toClient :
            toClient[i].seq \in 1..highest /\ ToldFits(mine[toClient[i].seq].member, toClient[i])
      /\ RefusedFirst
  BY DEF CallsInv, Typed
<1>2. 1 \in DOMAIN toClient /\ Head(toClient) = toClient[1] /\ toClient[1] \in ServerFrame
  BY <1>1
<1> DEFINE f == Head(toClient)
           s == f.seq
           n == Under(toClient, s, 0, "chunk")
           a == Amount(f, s, 0, "chunk")
           b == Under(Tail(toClient), s, 0, "chunk")
<1>4. n = a + b /\ a \in Nat /\ b \in Nat
  BY <1>1, UnderTail, FramesCount
<1>5. f.form = "response" /\ Streamed(mine[s].member) => f.outcome = "refused" /\ mine[s].received = 0
  BY <1>1, <1>2 DEF RefusedFirst
<1>6. n >= a /\ n \in Nat
  <2> HIDE DEF n, a, b
  <2> QED BY <1>4
<1> QED BY <1>1, <1>2, <1>5, <1>6

\* What the client does on a frame about a call in its table.
Handles(r, c, f) ==
  /\ ~r.unexpected
  /\ Followed(c, r.call, 0, Amount(f, f.seq, 1, "credit"), 0, Amount(f, f.seq, 0, "chunk"))
  /\ r.send \in {<<>>, <<Stop(f.seq)>>}

\* A call that is forgotten has taken its last frame.
LEMMA Fails ==
  ASSUME NEW c \in MyCall, MineFits(c), NEW f, NEW res \in {"ok", "failed"}, NEW fs \in {<<>>, <<Stop(f.seq)>>}
  PROVE  Handles(Step(Forgotten(c, res), fs), c, f)
<1>2. /\ Step(Forgotten(c, res), fs).unexpected = FALSE /\ Step(Forgotten(c, res), fs).send = fs
      /\ Step(Forgotten(c, res), fs).call = Forgotten(c, res)
  BY DEF Step
<1> QED BY ForgetFollows, <1>2 DEF Handles

\* A response.
LEMMA OnResponseHandles ==
  ASSUME NEW c \in MyCall, MineFits(c), NEW f \in ServerFrame, f.form = "response",
         Streamed(c.member) => f.outcome = "refused" /\ c.received = 0
  PROVE  Handles(OnResponse(c, f), c, f)
<1> DEFINE done(res) == Step(Forgotten(c, res), <<>>)
           c2 == [c EXCEPT !.timer = FALSE, !.settled = TRUE, !.result = "ok"]
<1>2. \/ OnResponse(c, f) = done("ok") \/ OnResponse(c, f) = done("failed")
      \/ OnResponse(c, f) = Step(c2, <<>>) /\ c.open
  BY DEF OnResponse
<1>3. ASSUME c.open PROVE Handles(Step(c2, <<>>), c, f)
  <2>1. /\ c2 \in MyCall /\ c2.member = c.member /\ c2.sent = c.sent /\ c2.granted = c.granted
        /\ c2.received = c.received /\ c2.closed = c.closed /\ c2.open = c.open /\ c2.live = c.live
        /\ c2.replyGranted = c.replyGranted
        /\ c.sent \in Nat /\ c.granted \in Nat /\ c.received \in Nat /\ c.replyGranted \in Nat
    BY DEF MyCall
  <2>3. Step(c2, <<>>).unexpected = FALSE /\ Step(c2, <<>>).call = c2 /\ Step(c2, <<>>).send = <<>>
    BY DEF Step
  <2> HIDE DEF c2
  <2>4. Followed(c, c2, 0, 0, 0, 0)
    BY <1>3, <2>1 DEF Followed, MineFits
  <2> QED BY <2>3, <2>4 DEF Handles, Amount
<1> QED BY Fails, <1>2, <1>3

\* A frame about the upload.
LEMMA OnUploadHandles ==
  ASSUME NEW c \in MyCall, MineFits(c), NEW f \in ServerFrame, f.form \in {"credit", "end"}
  PROVE  Handles(OnUploadFrame(c, f), c, f)
<1>1. CASE f.form = "end"
  <2> QED BY <1>1, Fails DEF OnUploadFrame
<1>2. CASE f.form = "credit"
  <2> DEFINE c2 == [c EXCEPT !.granted = @ + f.credit]
  <2>1. f.credit \in Nat /\ f.stream = 1
    BY <1>2 DEF ServerFrame
  <2>2. /\ c.sent \in Nat /\ c.granted \in Nat /\ c.received \in Nat /\ c.replyGranted \in Nat
    BY DEF MyCall
  <2>4. /\ c2 \in MyCall /\ c2.member = c.member /\ c2.sent = c.sent /\ c2.granted = c.granted + f.credit
        /\ c2.received = c.received /\ c2.closed = c.closed /\ c2.open = c.open /\ c2.live = c.live
        /\ c2.replyGranted = c.replyGranted
    BY <2>1, <2>2 DEF MyCall
  <2>6. OnUploadFrame(c, f) = Step(c2, <<>>)
    BY <1>2 DEF OnUploadFrame
  <2>7. Step(c2, <<>>).unexpected = FALSE /\ Step(c2, <<>>).call = c2 /\ Step(c2, <<>>).send = <<>>
    BY DEF Step
  <2> HIDE DEF c2
  <2>8. Followed(c, c2, 0, f.credit, 0, 0)
    BY <2>1, <2>2, <2>4 DEF Followed, MineFits
  <2> QED BY <1>2, <2>1, <2>6, <2>7, <2>8 DEF Handles, Amount
<1> QED BY <1>1, <1>2

\* A frame of the reply.
LEMMA OnReplyHandles ==
  ASSUME NEW c \in MyCall, MineFits(c), NEW f \in ServerFrame, f.form \in {"chunk", "end"}, f.stream = 0,
         f.form = "chunk" => c.received + 1 <= c.replyGranted
  PROVE  Handles(OnReplyFrame(c, f), c, f)
<1>0. c.sent \in Nat /\ c.granted \in Nat /\ c.received \in Nat /\ c.replyGranted \in Nat /\ c.buffered \in Nat
  BY DEF MyCall
<1>1. CASE f.n # c.received + 1 \/ f.form = "end"
  <2> QED BY <1>1, Fails DEF OnReplyFrame
<1>2. CASE f.n = c.received + 1 /\ f.form = "chunk"
  <2> DEFINE c2 == [c EXCEPT !.received = @ + 1, !.buffered = @ + 1, !.timer = FALSE]
  <2>2. OnReplyFrame(c, f) = Step(c2, <<>>)
    BY <1>2, <1>0 DEF OnReplyFrame
  <2>3. c.received + 1 \in Nat /\ c.buffered + 1 \in Nat
    BY <1>0
  <2>4. /\ c2 \in MyCall /\ c2.member = c.member /\ c2.sent = c.sent /\ c2.granted = c.granted
        /\ c2.received = c.received + 1 /\ c2.closed = c.closed /\ c2.open = c.open /\ c2.live = c.live
        /\ c2.replyGranted = c.replyGranted
    BY <2>3 DEF MyCall
  <2>6. Step(c2, <<>>).unexpected = FALSE /\ Step(c2, <<>>).call = c2 /\ Step(c2, <<>>).send = <<>>
    BY DEF Step
  <2> HIDE DEF c2
  <2>7. Followed(c, c2, 0, 0, 0, 1)
    BY <1>0, <2>4 DEF Followed, MineFits
  <2> QED BY <2>2, <1>2, <2>6, <2>7 DEF Handles, Amount
<1> QED BY <1>1, <1>2

\* The frame at the head, by the client's record of its call.
LEMMA OnFrameHandles ==
  ASSUME CallsInv, toClient # <<>>, Head(toClient).seq \in Live
  PROVE  Handles(OnFrame(mine[Head(toClient).seq], Head(toClient)), mine[Head(toClient).seq], Head(toClient))
<1> DEFINE f == Head(toClient)
           s == f.seq
           c == mine[s]
<1>1. /\ c \in MyCall /\ MineFits(c) /\ s \in Live
  BY LiveTyped
<1>2. /\ f \in ServerFrame /\ ToldFits(c.member, f)
      /\ Under(toClient, s, 0, "chunk") >= Amount(f, s, 0, "chunk") /\ Under(toClient, s, 0, "chunk") \in Nat
      /\ f.form = "response" /\ Streamed(c.member) => f.outcome = "refused" /\ c.received = 0
  BY HeadTold
<1>3. Streamed(c.member) => c.received + Under(toClient, s, 0, "chunk") <= c.replyGranted
  BY <1>1 DEF CallsInv, Within
<1> HIDE DEF f, c
<1>4. CASE f.form = "response"
  <2> QED BY <1>1, <1>2, <1>4, OnResponseHandles DEF f, c, OnFrame
<1>5. CASE f.form = "credit" \/ (f.form = "end" /\ f.stream = 1)
  <2>1. Uploads(c.member) /\ f.stream = 1 /\ f.form \in {"credit", "end"}
    BY <1>2, <1>5 DEF ToldFits, ServerFrame
  <2> QED BY <1>1, <1>2, <2>1, OnUploadHandles DEF f, c, OnFrame
<1>6. CASE f.form = "chunk" \/ (f.form = "end" /\ f.stream = 0)
  <2>1. Streamed(c.member) /\ f.stream = 0 /\ f.form \in {"chunk", "end"}
    BY <1>2, <1>6 DEF ToldFits, ServerFrame
  <2>3. f.form = "chunk" => c.received + 1 <= c.replyGranted
    <3> SUFFICES ASSUME f.form = "chunk" PROVE c.received + 1 <= c.replyGranted
      OBVIOUS
    <3>1. Amount(f, s, 0, "chunk") = 1
      BY <2>1 DEF Amount
    <3> DEFINE n == Under(toClient, s, 0, "chunk")
    <3>2. n >= 1 /\ n \in Nat /\ c.received + n <= c.replyGranted
      BY <1>2, <1>3, <2>1, <3>1
    <3> HIDE DEF n
    <3> QED BY <3>2, <1>1 DEF MyCall
  <2>4. Handles(OnReplyFrame(c, f), c, f)
    BY <1>1, <1>2, <2>1, <2>3, OnReplyHandles
  <2> QED BY <2>1, <2>4 DEF f, c, OnFrame
<1> QED BY <1>4, <1>5, <1>6, <1>2 DEF ServerFrame

\* Nothing is under way on an empty channel.
LEMMA NoneCount ==
  ASSUME NEW s, NEW k, NEW form
  PROVE  Under(<<>>, s, k, form) = 0
<1> DEFINE none == <<>>
<1>1. none \in Seq(ClientFrame) /\ DOMAIN none = {}
  OBVIOUS
<1> HIDE DEF none
<1>3. Under(none, s, k, form) = 0
  BY <1>1, UnderSame, FramesCount
<1> QED BY <1>3 DEF none

\* The client takes the next frame.
LEMMA ClientReceiveInv ==
  ASSUME CallsInv, ClientReceive
  PROVE  CallsInv'
<1> DEFINE f == Head(toClient)
           s == f.seq
           c == mine[s]
           r == OnFrame(c, f)
<1>1. toClient # <<>> /\ UNCHANGED serverVars
  BY DEF ClientReceive
<1>2. /\ f \in ServerFrame /\ s \in DOMAIN mine /\ Typed
  BY <1>1, HeadTold DEF CallsInv
<1>3. c \in MyCall /\ MineFits(c) /\ mine \in Seq(MyCall) /\ toServer \in Seq(ClientFrame)
  BY <1>2 DEF Typed
<1> DEFINE g == Amount(f, s, 1, "credit")
           n == Amount(f, s, 0, "chunk")
<1>4. CASE s \notin Live
  <2>1. toClient' = Tail(toClient) /\ UNCHANGED <<mine, toServer, attached, violated>>
    BY <1>4 DEF ClientReceive
  <2>2. ~c.live
    BY <1>2, <1>4 DEF Live
  <2>3. c.sent \in Nat
    BY <1>3 DEF MyCall
  <2>4. Followed(c, c, 0, g, 0, n)
    <3> HIDE DEF c, g, n
    <3> QED BY <1>3, <2>2, <2>3 DEF Followed, MineFits
  <2>5. Takes(s, g, n)
    BY <1>1, <2>1 DEF Takes
  <2>6. mine' = [mine EXCEPT ![s] = c] /\ toServer' = toServer \o <<>>
    BY <1>2, <1>3, <2>1
  <2>7. Under(<<>>, s, 1, "chunk") = 0 /\ Under(<<>>, s, 0, "credit") = 0
    BY NoneCount
  <2>8. Asks(<<>>, s, c)
    BY NoneAsked
  <2> HIDE DEF f, c, g, n
  <2>9. Moved(s, c, <<>>, 0, g, 0, n)
    BY <1>1, <1>2, <2>1, <2>4, <2>5, <2>6, <2>7, <2>8 DEF c, Moved
  <2> QED BY <2>9, MovedInv
<1>5. CASE s \in Live
  <2>1. Handles(r, c, f)
    BY <1>1, <1>5, OnFrameHandles
  <2>2. /\ toClient' = Tail(toClient) /\ mine' = [mine EXCEPT ![s] = r.call]
        /\ toServer' = toServer \o r.send /\ UNCHANGED <<attached, violated>>
    BY <1>5, <2>1 DEF ClientReceive, Handles
  <2>3. Followed(c, r.call, 0, g, 0, n) /\ r.send \in {<<>>, <<Stop(s)>>}
    BY <2>1 DEF Handles
  <2> DEFINE c2 == r.call
             fs == r.send
  <2> HIDE DEF r, f
  <2>5. Takes(s, g, n)
    BY <1>1, <2>2 DEF Takes, f
  <2>6. Asks(<<>>, s, c2) /\ Asks(<<Stop(s)>>, s, c2)
    BY <1>2, <2>3, NoneAsked, StopAsked DEF Followed
  <2>7. Asks(fs, s, c2) /\ fs \in Seq(ClientFrame)
    BY <2>3, <2>6, ZenonT(30) DEF Asks
  <2>9. \A i \in DOMAIN fs : fs[i].form = "end"
    BY <2>3 DEF EndIn, Stop
  <2>10. Under(fs, s, 1, "chunk") = 0 /\ Under(fs, s, 0, "credit") = 0
    BY <2>7, <2>9, EndsCount
  <2> HIDE DEF c2, fs, g, n
  <2>11. Moved(s, c2, fs, 0, g, 0, n)
    BY <1>1, <1>2, <2>2, <2>3, <2>5, <2>7, <2>10 DEF Moved, c2, fs
  <2> QED BY <2>11, MovedInv
<1> QED BY <1>4, <1>5

-----------------------------------------------------------------------------
(* The connection ends. *)

\* The records of the ended session.
LEMMA DownMine ==
  ASSUME mine \in Seq(MyCall), \A s \in DOMAIN mine : MineFits(mine[s])
  PROVE  /\ Down(mine) \in Seq(MyCall) /\ Len(Down(mine)) = Len(mine) /\ DOMAIN Down(mine) = DOMAIN mine
         /\ \A s \in DOMAIN mine :
               /\ MineFits(Down(mine)[s]) /\ ~Down(mine)[s].live /\ ~Down(mine)[s].open
               /\ Down(mine)[s].member = mine[s].member /\ Down(mine)[s].closed = mine[s].closed
               /\ Down(mine)[s].sent = mine[s].sent /\ Down(mine)[s].received = mine[s].received
<1>1. DOMAIN mine = 1..Len(mine) /\ Len(mine) \in Nat
  OBVIOUS
<1>2. ASSUME NEW s \in DOMAIN mine
      PROVE  LET c == Down(mine)[s] IN
             /\ c \in MyCall /\ MineFits(c) /\ ~c.live /\ ~c.open /\ c.member = mine[s].member
             /\ c.closed = mine[s].closed /\ c.sent = mine[s].sent /\ c.received = mine[s].received
  <2> DEFINE c == mine[s]
  <2>1. c \in MyCall /\ MineFits(c)
    OBVIOUS
  <2> HIDE DEF c
  <2>3. LET d == Forgotten(c, "failed") IN
           /\ d \in MyCall /\ ~d.live /\ ~d.open /\ d.member = c.member
           /\ d.closed = c.closed /\ d.sent = c.sent /\ d.received = c.received
    BY <2>1 DEF Forgotten, MyCall
  <2> QED BY <2>1, <2>3 DEF MineFits, c, Down
<1> DEFINE dn == Down(mine)
<1> HIDE DEF dn
<1>5. dn \in [1..Len(mine) -> MyCall]
  BY <1>1, <1>2 DEF dn, Down
<1>6. dn \in Seq(MyCall) /\ Len(dn) = Len(mine)
  BY <1>1, <1>5, FunctionIsSeq
<1> QED BY <1>1, <1>2, <1>6 DEF dn, Down

\* The client's session is over: its calls are, and what it was told is lost.
LEMMA DownInv ==
  ASSUME CallsInv, attached' = FALSE, mine' = Down(mine), toClient' = <<>>,
         UNCHANGED <<serverVars, toServer, violated>>
  PROVE  CallsInv'
<1>1. Typed /\ SessionFits /\ Requested /\ Counted /\ ClosedEmpty /\ NoViolation
  BY DEF CallsInv
<1>2. UNCHANGED <<highest, calls, kept, closed, todo>>
  BY DEF serverVars
<1>3. /\ mine' \in Seq(MyCall) /\ Len(mine') = Len(mine) /\ DOMAIN mine' = DOMAIN mine
      /\ \A s \in DOMAIN mine :
            /\ MineFits(mine'[s]) /\ ~mine'[s].live /\ ~mine'[s].open
            /\ mine'[s].member = mine[s].member /\ mine'[s].closed = mine[s].closed
            /\ mine'[s].sent = mine[s].sent /\ mine'[s].received = mine[s].received
  BY <1>1, DownMine DEF Typed
<1>4. Live' = {}
  BY <1>3 DEF Live
<1>5. Typed'
  <2>1. \A f : AskFits(f) => AskFits(f)'
    BY <1>3 DEF AskFits
  <2>2. \A i \in DOMAIN toServer : AskFits(toServer[i])
    BY <1>1 DEF Typed
  <2>3. DOMAIN toClient' = {} /\ toClient' \in Seq(ServerFrame)
    OBVIOUS
  <2> QED BY <1>1, <1>2, <1>3, <1>4, <2>1, <2>2, <2>3 DEF Typed
<1>6. Requested'
  BY <1>1, <1>2, <1>3 DEF Requested, RequestFirst, Asked
<1>7. SessionFits'
  <2>1. DOMAIN calls \subseteq DOMAIN mine
    <3> QED BY <1>1 DEF SessionFits, Typed
  <2>2. ASSUME NEW s \in DOMAIN calls
        PROVE  /\ CallOK(calls[s]) /\ calls[s].member = mine'[s].member
               /\ \A k \in DOMAIN calls[s].uploads : UploadFits(calls[s].uploads[k], mine'[s])
    <3>2. mine'[s].closed = mine[s].closed /\ mine'[s].sent = mine[s].sent /\ mine'[s].member = mine[s].member
      BY <1>3, <2>1
    <3> QED BY <1>1, <3>2 DEF UploadFits, SessionFits
  <2> QED BY <1>1, <1>2, <2>2 DEF SessionFits, CallOK, Call, UploadFits
<1>8. Counted'
  <2>1. There' = There /\ There \subseteq DOMAIN mine /\ \A t : UploadOf(t)' = UploadOf(t)
    <3> QED BY <1>2, <1>3, <1>1 DEF There, UploadOf, SessionFits, Typed
  <2>2. ASSUME closed = 0, NEW t \in There PROVE UploadCounted(t)' /\ ReplyCounted(t)'
    <3>1. UploadCounted(t) /\ t \in DOMAIN mine
      BY <1>1, <2>1, <2>2 DEF Counted
    <3>3. Under(toServer', t, 1, "chunk") = Under(toServer, t, 1, "chunk")
      OBVIOUS
    <3> QED BY <2>1, <3>1, <1>3, <3>3 DEF UploadCounted, ReplyCounted
  <2> QED BY <1>2, <2>1, <2>2 DEF Counted
<1>9. Within' /\ RefusedFirst'
  <2> QED BY <1>4 DEF Within, RefusedFirst
<1>10. ClosedEmpty' /\ NoViolation'
  BY <1>1, <1>2 DEF ClosedEmpty, NoViolation
<1> QED BY <1>5, <1>6, <1>7, <1>8, <1>9, <1>10 DEF CallsInv

\* What the invariant is about stays as it is.
LEMMA StaysInv ==
  ASSUME CallsInv, UNCHANGED <<serverVars, mine, toServer, toClient, attached, violated>>
  PROVE  CallsInv'
<1>1. UNCHANGED <<highest, calls, kept, closed, todo>>
  BY DEF serverVars
<1>2. Typed'
  <2> QED BY <1>1 DEF CallsInv, Typed, Live, AskFits
<1>3. Requested'
  BY <1>1 DEF CallsInv, Requested, RequestFirst, Asked
<1>4. SessionFits'
  BY <1>1 DEF CallsInv, SessionFits, CallOK, Call, UploadFits
<1>5. Counted'
  <2>2. \A t : (UploadCounted(t)' <=> UploadCounted(t)) /\ (ReplyCounted(t)' <=> ReplyCounted(t))
    BY <1>1 DEF UploadCounted, ReplyCounted, UploadOf, ReplyOf
  <2> QED BY <1>1, <2>2 DEF CallsInv, Counted, There
<1>6. Within' /\ RefusedFirst'
  BY <1>1 DEF CallsInv, Within, RefusedFirst, Live
<1>7. ClosedEmpty' /\ NoViolation'
  BY <1>1 DEF CallsInv, ClosedEmpty, NoViolation
<1> QED BY <1>2, <1>3, <1>4, <1>5, <1>6, <1>7 DEF CallsInv

\* The link is lost, the client closes its session, or sees it ended.
LEMMA EndsInv ==
  ASSUME CallsInv, Lose \/ CloseSession \/ ClientEnds
  PROVE  CallsInv'
<1>1. CASE Lose
  BY <1>1, StaysInv DEF Lose
<1>2. CASE CloseSession \/ ClientEnds
  BY <1>2, DownInv DEF CloseSession, ClientEnds
<1> QED BY <1>1, <1>2

\* The server sees the session ended.
LEMMA ServerEndsInv ==
  ASSUME CallsInv, ServerEnds
  PROVE  CallsInv'
<1>1. Typed /\ SessionFits /\ Within /\ RefusedFirst /\ NoViolation
  BY DEF CallsInv
<1>2. /\ closed' = 1001 /\ DOMAIN calls' = {} /\ todo' = {} /\ toServer' = <<>>
      /\ UNCHANGED <<highest, kept, mine, toClient, attached, violated>>
  BY DEF ServerEnds, Close
<1>3. Typed'
  <2> QED BY <1>1, <1>2 DEF Typed, Live
<1>4. Requested' /\ Counted' /\ ClosedEmpty' /\ NoViolation'
  BY <1>1, <1>2 DEF Requested, Counted, ClosedEmpty, NoViolation
<1>5. SessionFits'
  BY <1>1, <1>2 DEF SessionFits
<1>6. Within' /\ RefusedFirst'
  BY <1>1, <1>2 DEF Within, RefusedFirst, Live
<1> QED BY <1>3, <1>4, <1>5, <1>6 DEF CallsInv

-----------------------------------------------------------------------------
(* A call starts. *)

\* The call the client opens next.
LEMMA StartShape ==
  ASSUME CallsInv, NEW m \in Members, Start(m)
  PROVE  LET s == Len(mine) + 1
             f == [form |-> "request", seq |-> s, member |-> m, big |-> FALSE]
         IN  /\ s \in Nat /\ s \notin DOMAIN mine /\ s > highest
             /\ mine' \in Seq(MyCall) /\ DOMAIN mine' = DOMAIN mine \cup {s} /\ Len(mine') = s
             /\ mine'[s] = ClientCall(m) /\ MineFits(ClientCall(m))
             /\ \A t \in DOMAIN mine : t # s /\ mine'[t] = mine[t]
             /\ f \in ClientFrame /\ toServer' = Append(toServer, f)
             /\ attached /\ UNCHANGED <<serverVars, toClient, attached, violated>>
<1> DEFINE s == Len(mine) + 1
           f == [form |-> "request", seq |-> s, member |-> m, big |-> FALSE]
<1>1. mine \in Seq(MyCall) /\ DOMAIN mine = 1..Len(mine) /\ Len(mine) \in Nat /\ highest \in 0..Len(mine)
  BY DEF CallsInv, Typed
<1>2. Cardinality(DOMAIN mine) = Len(mine)
  <2> DEFINE n == Len(mine)
  <2>1. n \in Int /\ 1 \in Int /\ n \in Nat /\ DOMAIN mine = 1..n
    BY <1>1
  <2> HIDE DEF n
  <2>3. Cardinality(1..n) = n
    BY <2>1, FS_Interval
  <2> QED BY <2>1, <2>3 DEF n
<1>3. /\ mine' = [x \in 1..s |-> IF x = s THEN ClientCall(m) ELSE mine[x]]
      /\ toServer' = Append(toServer, f)
      /\ attached /\ UNCHANGED <<serverVars, toClient, attached, violated>>
  BY <1>2 DEF Start
<1>4. InitialCredit \in Nat
  BY WsServerAssumption
<1>5. ClientCall(m) \in MyCall
  <2> QED BY <1>4 DEF ClientCall, MyCall, Uploads, IsQuery
<1>6. MineFits(ClientCall(m))
  BY <1>4 DEF ClientCall, MineFits
<1>7. s \in Nat /\ s \notin DOMAIN mine /\ s > highest /\ DOMAIN mine \cup {s} = 1..s /\ s \in 1..s
      /\ \A t \in DOMAIN mine : t # s /\ t \in 1..s
  BY <1>1
<1>8. f \in ClientFrame
  BY <1>7 DEF ClientFrame
<1> HIDE DEF s, f
<1>9. mine' \in [1..s -> MyCall] /\ DOMAIN mine' = 1..s /\ mine'[s] = ClientCall(m)
      /\ \A t \in DOMAIN mine : mine'[t] = mine[t]
  <2> QED BY <1>3, <1>5, <1>7, <1>1
<1>10. mine' \in Seq(MyCall) /\ Len(mine') = s
  BY <1>7, <1>9, FunctionIsSeq
<1> QED BY <1>3, <1>6, <1>7, <1>8, <1>9, <1>10 DEF s, f

\* Nothing is under way about a number the client has not used.
LEMMA NothingUnder ==
  ASSUME Typed, NEW s, s \notin DOMAIN mine, NEW k, NEW form
  PROVE  Under(toServer, s, k, form) = 0 /\ Under(toClient, s, k, form) = 0
<1>1. /\ toServer \in Seq(ClientFrame) /\ toClient \in Seq(ServerFrame)
      /\ DOMAIN mine = 1..Len(mine) /\ highest \in 0..Len(mine) /\ Len(mine) \in Nat
  BY DEF Typed
<1>3. \A i \in DOMAIN toClient : toClient[i].seq # s
  <2> QED BY <1>1 DEF Typed
<1>4. /\ \A i \in DOMAIN toServer : Amount(toServer[i], s, k, form) = 0
      /\ \A i \in DOMAIN toClient : Amount(toClient[i], s, k, form) = 0
  BY <1>3, AmountOther, SMTT(30) DEF Typed, AskFits
<1> QED BY <1>1, <1>4, UnderSame, FramesCount

\* The client starts a call.
LEMMA StartInv ==
  ASSUME CallsInv, NEW m \in Members, Start(m)
  PROVE  CallsInv'
<1> DEFINE s_ == Len(mine) + 1
           f_ == [form |-> "request", seq |-> s_, member |-> m, big |-> FALSE]
<1>s. PICK s, f : s = s_ /\ f = f_
  OBVIOUS
<1>1. /\ s \in Nat /\ s \notin DOMAIN mine /\ s > highest
      /\ mine' \in Seq(MyCall) /\ DOMAIN mine' = DOMAIN mine \cup {s} /\ Len(mine') = s
      /\ mine'[s] = ClientCall(m) /\ MineFits(ClientCall(m))
      /\ \A t \in DOMAIN mine : t # s /\ mine'[t] = mine[t]
      /\ f \in ClientFrame /\ toServer' = Append(toServer, f)
      /\ attached /\ UNCHANGED <<serverVars, toClient, attached, violated>>
  BY <1>s, StartShape
<1>f. f.form = "request" /\ f.seq = s /\ f.member = m
  BY <1>s
<1> HIDE DEF s_, f_
<1>2. Typed /\ SessionFits /\ Requested /\ Counted /\ Within /\ RefusedFirst /\ ClosedEmpty /\ NoViolation
  BY DEF CallsInv
<1>3. UNCHANGED <<highest, calls, kept, closed, todo>>
  BY <1>1 DEF serverVars
<1>4. /\ mine \in Seq(MyCall) /\ DOMAIN mine = 1..Len(mine) /\ Len(mine) \in Nat /\ highest \in 0..Len(mine)
      /\ toServer \in Seq(ClientFrame) /\ toClient \in Seq(ServerFrame)
      /\ DOMAIN calls \subseteq DOMAIN mine
      /\ \A i \in DOMAIN toServer : AskFits(toServer[i])
      /\ \A i \in DOMAIN toClient :
            /\ toClient[i].seq \in DOMAIN mine /\ toClient[i].seq \in 1..highest
            /\ ToldFits(mine[toClient[i].seq].member, toClient[i])
  <2>1. /\ mine \in Seq(MyCall) /\ DOMAIN mine = 1..Len(mine) /\ Len(mine) \in Nat /\ highest \in 0..Len(mine)
        /\ toServer \in Seq(ClientFrame) /\ toClient \in Seq(ServerFrame)
        /\ DOMAIN calls \subseteq 1..highest
        /\ \A i \in DOMAIN toServer : AskFits(toServer[i])
        /\ \A i \in DOMAIN toClient :
              toClient[i].seq \in 1..highest /\ ToldFits(mine[toClient[i].seq].member, toClient[i])
    BY <1>2 DEF SessionFits, Typed
  <2> QED BY <2>1
<1>5. /\ mine'[s].member = m /\ mine'[s].received = 0 /\ mine'[s].sent = 0
      /\ mine'[s].granted = InitialCredit /\ mine'[s].replyGranted = InitialCredit
  BY <1>1 DEF ClientCall
<1>6. /\ toServer' \in Seq(ClientFrame) /\ Len(toServer') = Len(toServer) + 1 /\ Len(toServer) \in Nat
      /\ DOMAIN toServer = 1..Len(toServer) /\ DOMAIN toServer' = 1..(Len(toServer) + 1)
      /\ toServer'[Len(toServer) + 1] = f /\ \A i \in DOMAIN toServer : toServer'[i] = toServer[i]
  BY <1>1, <1>4
<1>u. Len(mine) = s - 1 /\ Len(mine) + 1 = s
  BY <1>4, <1>s DEF s_
<1>7. \A t, k, form : form \in {"chunk", "credit"} => Under(toServer', t, k, form) = Under(toServer, t, k, form)
  <2> SUFFICES ASSUME NEW t, NEW k, NEW form \in {"chunk", "credit"}
               PROVE  Under(toServer', t, k, form) = Under(toServer, t, k, form)
    OBVIOUS
  <2>1. toServer' = toServer \o <<f>> /\ <<f>> \in Seq(ClientFrame)
    BY <1>1, <1>4
  <2>3. Under(<<f>>, t, k, form) = 0
    BY <1>1, <1>f, UnderOne, FramesCount DEF Amount
  <2> DEFINE fs == <<f>>
  <2> HIDE DEF fs
  <2>5. Under(toServer \o fs, t, k, form) = Under(toServer, t, k, form) + Under(fs, t, k, form)
    <3>1. fs \in Seq(ClientFrame) /\ Counts(ClientFrame)
      BY <2>1, FramesCount DEF fs
    <3> QED BY <1>4, <3>1, UnderConcat
  <2> QED BY <2>1, <2>3, <1>4, UnderNat, FramesCount, <2>5 DEF fs
<1>8. Typed'
  <2>2. AskFits(f)'
    BY <1>1, <1>5, <1>f DEF AskFits
  <2>3. \A i \in DOMAIN toServer' : AskFits(toServer[i])'
    <3> SUFFICES ASSUME NEW i \in DOMAIN toServer' PROVE AskFits(toServer[i])'
      OBVIOUS
    <3>1. CASE i \in DOMAIN toServer
      <4>1. toServer'[i] = toServer[i] /\ AskFits(toServer[i])
        BY <1>4, <1>6, <3>1
      <4> QED BY <1>1, <4>1 DEF AskFits
    <3>2. CASE i \notin DOMAIN toServer
      <4> QED BY <2>2, <1>6, <3>2 DEF AskFits
    <3> QED BY <3>1, <3>2
  <2>4. \A t \in DOMAIN mine' : MineFits(mine'[t]) /\ (t > highest => mine'[t].received = 0)
    BY <1>1, <1>2, <1>5 DEF Typed
  <2>5. \A i \in DOMAIN toClient : ToldFits(mine'[toClient[i].seq].member, toClient[i])
    BY <1>1, <1>4
  <2>6. highest \in 0..Len(mine')
    BY <1>1, <1>4, <1>u
  <2>7. attached \in BOOLEAN
    BY <1>2 DEF Typed
  <2> QED BY <1>1, <1>3, <1>4, <1>6, <2>3, <2>4, <2>5, <2>6, <2>7 DEF Typed
<1>9. Requested'
  <2> SUFFICES ASSUME closed = 0 PROVE Requested'
    BY <1>3 DEF Requested
  <2>1. /\ \A i \in DOMAIN toServer : RequestFirst(i)
        /\ \A t \in DOMAIN mine : t > highest =>
              \E j \in DOMAIN toServer : toServer[j].form = "request" /\ toServer[j].seq = t
    BY <1>2 DEF Requested
  <2>2. ASSUME NEW i \in DOMAIN toServer' PROVE RequestFirst(i)'
    <3>1. CASE i \in DOMAIN toServer
      <4>1. /\ toServer'[i] = toServer[i] /\ \A j \in 1..(i - 1) : toServer'[j] = toServer[j]
            /\ RequestFirst(i)
        <5> QED BY <1>6, <2>1, <3>1
      <4> QED BY <1>3, <4>1 DEF RequestFirst, Asked
    <3>2. CASE i \notin DOMAIN toServer
      <4>1. i = Len(toServer) + 1 /\ toServer'[i] = f
        BY <1>6, <3>2
      <4>2. ASSUME NEW j \in 1..(i - 1) PROVE toServer'[j].seq < s
        <5>2. toServer'[j] = toServer[j] /\ toServer[j].seq \in DOMAIN mine
          BY <1>4, <1>6, <4>1 DEF AskFits
        <5> QED BY <1>4, <1>u, <5>2
      <4> QED BY <1>1, <1>3, <1>f, <4>1, <4>2 DEF RequestFirst
    <3> QED BY <3>1, <3>2
  <2>3. ASSUME NEW t \in DOMAIN mine', t > highest
        PROVE  \E j \in DOMAIN toServer' : toServer'[j].form = "request" /\ toServer'[j].seq = t
    <3>1. CASE t = s
      <4> QED BY <1>6, <1>f, <3>1
    <3>2. CASE t # s
      <4>1. PICK j \in DOMAIN toServer : toServer[j].form = "request" /\ toServer[j].seq = t
        BY <1>1, <2>1, <2>3, <3>2
      <4> QED BY <4>1, <1>6
    <3> QED BY <3>1, <3>2
  <2> QED BY <1>3, <2>2, <2>3 DEF Requested
<1>10. SessionFits'
  <2>1. ASSUME NEW t \in DOMAIN calls
        PROVE  /\ CallOK(calls[t]) /\ calls[t].member = mine'[t].member
               /\ \A k \in DOMAIN calls[t].uploads : UploadFits(calls[t].uploads[k], mine'[t])
    <3>2. mine'[t] = mine[t]
      BY <1>1, <1>4
    <3> QED BY <1>2, <3>2 DEF SessionFits
  <2> QED BY <1>2, <1>3, <2>1 DEF SessionFits, CallOK, Call, UploadFits
<1>11. Counted'
  <2> SUFFICES ASSUME closed = 0, NEW t \in There' PROVE UploadCounted(t)' /\ ReplyCounted(t)'
    BY <1>3 DEF Counted
  <2>1. UploadOf(t)' = UploadOf(t) /\ ReplyOf(t)' = ReplyOf(t)
    BY <1>3 DEF UploadOf, ReplyOf
  <2>2. CASE t = s
    <3>1. t \notin DOMAIN mine /\ t \notin DOMAIN calls
      BY <1>1, <1>4, <2>2
    <3>2. /\ Under(toServer', t, 1, "chunk") = 0 /\ Under(toServer', t, 0, "credit") = 0
          /\ Under(toClient', t, 1, "credit") = 0 /\ Under(toClient', t, 0, "chunk") = 0
      BY <1>1, <1>2, <1>7, <3>1, NothingUnder
    <3>3. UploadOf(t).credit = InitialCredit /\ ReplyOf(t).credit = InitialCredit /\ InitialCredit \in Nat
      BY <3>1, WsServerAssumption DEF UploadOf, ReplyOf, NewUpload, NewReply
    <3> QED BY <1>5, <2>1, <2>2, <3>2, <3>3 DEF UploadCounted, ReplyCounted
  <2>3. CASE t # s
    <3>2. mine'[t] = mine[t] /\ UploadCounted(t) /\ ReplyCounted(t)
      BY <1>1, <1>2, <1>3, <1>4, <2>3 DEF Counted, There
    <3> QED BY <2>1, <3>2, <1>1, <1>7 DEF UploadCounted, ReplyCounted
  <2> QED BY <2>2, <2>3
<1>12. Within'
  <2> SUFFICES ASSUME NEW t \in Live', Streamed(mine'[t].member)
               PROVE  mine'[t].received + Under(toClient, t, 0, "chunk") <= mine'[t].replyGranted
    BY <1>1 DEF Within
  <2>1. CASE t = s
    <3> QED BY <1>5, <2>1, <1>1, <1>2, NothingUnder, WsServerAssumption
  <2>2. CASE t # s
    <3> QED BY <1>2, <1>1, <2>2 DEF Within, Live
  <2> QED BY <2>1, <2>2
<1>13. RefusedFirst'
  <2> QED BY <1>1, <1>2, <1>3, <1>4 DEF RefusedFirst
<1>14. ClosedEmpty' /\ NoViolation'
  BY <1>1, <1>2, <1>3 DEF ClosedEmpty, NoViolation
<1> QED BY <1>8, <1>9, <1>10, <1>11, <1>12, <1>13, <1>14 DEF CallsInv

-----------------------------------------------------------------------------
(* A step of the session, in the accounts of every call. *)

\* What a step of the session makes of the accounts of call t, when it takes
\* the frames h from the client and sends the frames fs.
UploadServed(t, h, fs) ==
  Uploads(mine[t].member) /\ UploadOf(t)'.state = "open" /\ ~UploadOf(t)'.ended =>
    /\ UploadOf(t).state = "open" /\ ~UploadOf(t).ended
    /\ UploadOf(t)'.credit + Under(h, t, 1, "chunk") = UploadOf(t).credit + Under(fs, t, 1, "credit")
ReplyServed(t, h, fs) ==
  Streamed(mine[t].member) =>
    ReplyOf(t)'.credit + Under(fs, t, 0, "chunk") = ReplyOf(t).credit + Under(h, t, 0, "credit")
ChunksServed(t, fs) ==
  Streamed(mine[t].member) =>
    IF t \in DOMAIN calls THEN Under(fs, t, 0, "chunk") <= ReplyOf(t).credit
    ELSE Under(fs, t, 0, "chunk") = 0
FrameServed(f) ==
  /\ f.seq \in 1..highest' /\ f.seq \in DOMAIN mine /\ ToldFits(mine[f.seq].member, f)
  /\ f.form = "response" /\ Streamed(mine[f.seq].member) =>
        f.outcome = "refused" /\ f.seq > highest /\ f.seq \notin DOMAIN calls'

\* The frames taken: none, one about an older call, or the next request.
Taken(h) ==
  \/ h = <<>> /\ toServer' = toServer /\ highest' = highest
  \/ /\ toServer # <<>> /\ toServer' = Tail(toServer) /\ h = <<Head(toServer)>>
     /\ IF Head(toServer).form = "request" THEN highest' = Head(toServer).seq ELSE highest' = highest

\* The step of the session, in the accounts of every call.
Served(h, fs) ==
  /\ closed = 0 /\ closed' # 1002 /\ (closed' # 0 => DOMAIN calls' = {})
  /\ UNCHANGED <<mine, attached, violated>>
  /\ Taken(h)
  /\ fs \in Seq(ServerFrame) /\ (\A i \in DOMAIN fs : FrameServed(fs[i]))
  /\ toClient' = (IF attached THEN toClient \o fs ELSE <<>>)
  /\ SessionFits'
  /\ \A t \in DOMAIN calls' : t \in DOMAIN calls \/ t > highest
  /\ closed' = 0 => \A t \in There' : UploadServed(t, h, fs) /\ ReplyServed(t, h, fs)
  /\ \A t \in DOMAIN mine : ChunksServed(t, fs)

\* The channel to the session before and after.
LEMMA TakenCounts ==
  ASSUME CallsInv, NEW h, Taken(h)
  PROVE  /\ toServer \in Seq(ClientFrame) /\ toServer' \in Seq(ClientFrame) /\ h \in Seq(ClientFrame)
         /\ \A t, k, form :
               /\ Under(toServer, t, k, form) = Under(h, t, k, form) + Under(toServer', t, k, form)
               /\ Under(h, t, k, form) \in Nat /\ Under(toServer', t, k, form) \in Nat
         /\ \A i \in DOMAIN toServer' : AskFits(toServer'[i])
<1>1. toServer \in Seq(ClientFrame) /\ \A i \in DOMAIN toServer : AskFits(toServer[i])
  BY DEF CallsInv, Typed
<1>2. CASE h = <<>> /\ toServer' = toServer
  <2>2. \A t, k, form : Under(toServer, t, k, form) \in Nat
    BY <1>1, UnderNat, FramesCount
  <2> QED BY <1>1, <1>2, NoneCount, <2>2
<1>3. CASE toServer # <<>> /\ toServer' = Tail(toServer) /\ h = <<Head(toServer)>>
  <2>1. Head(toServer) \in ClientFrame /\ Tail(toServer) \in Seq(ClientFrame) /\ h \in Seq(ClientFrame)
    BY <1>1, <1>3
  <2>2. \A t, k, form :
           /\ Under(toServer, t, k, form) = Amount(Head(toServer), t, k, form) + Under(Tail(toServer), t, k, form)
           /\ Under(Tail(toServer), t, k, form) \in Nat
    BY <1>1, <1>3, UnderTail, FramesCount
  <2>3. \A t, k, form : /\ Under(<<Head(toServer)>>, t, k, form) = Amount(Head(toServer), t, k, form)
                        /\ Amount(Head(toServer), t, k, form) \in Nat
    BY <2>1, UnderOne, FramesCount
  <2>4. ASSUME NEW i \in DOMAIN toServer' PROVE AskFits(toServer'[i])
    <3> QED BY <1>1, <1>3
  <2> QED BY <1>1, <1>3, <2>1, <2>2, <2>3, <2>4
<1> QED BY <1>2, <1>3 DEF Taken

LEMMA TakenHighest ==
  ASSUME CallsInv, NEW h, Taken(h)
  PROVE  /\ highest' \in 0..Len(mine) /\ highest \in Nat /\ highest' \in Nat
         /\ closed = 0 => highest <= highest'
<1>1. /\ mine \in Seq(MyCall) /\ DOMAIN mine = 1..Len(mine) /\ highest \in 0..Len(mine) /\ Len(mine) \in Nat
      /\ toServer \in Seq(ClientFrame) /\ \A i \in DOMAIN toServer : AskFits(toServer[i])
  BY DEF CallsInv, Typed
<1>2. CASE highest' = highest
  BY <1>1, <1>2
<1>3. CASE toServer # <<>> /\ Head(toServer).form = "request" /\ highest' = Head(toServer).seq
  <2>1. 1 \in DOMAIN toServer /\ Head(toServer) = toServer[1]
    BY <1>1, <1>3
  <2>3. closed = 0 => highest < highest'
    BY <1>3, <2>1 DEF CallsInv, Requested, RequestFirst
  <2> QED BY <1>1, <1>3, <2>1, <2>3 DEF AskFits
<1> QED BY <1>2, <1>3 DEF Taken

\* What is left under way still follows its requests.
LEMMA TakenRequested ==
  ASSUME CallsInv, NEW h, Taken(h), closed = 0, mine' = mine
  PROVE  Requested'
<1>1. /\ \A i \in DOMAIN toServer : RequestFirst(i)
      /\ \A t \in DOMAIN mine : t > highest =>
            \E j \in DOMAIN toServer : toServer[j].form = "request" /\ toServer[j].seq = t
  BY DEF CallsInv, Requested
<1>2. CASE h = <<>> /\ toServer' = toServer /\ highest' = highest
  BY <1>1, <1>2 DEF Requested, RequestFirst, Asked
<1>3. CASE toServer # <<>> /\ toServer' = Tail(toServer)
  <2>1. toServer \in Seq(ClientFrame) /\ highest \in Nat /\ highest' \in Nat /\ highest <= highest'
        /\ DOMAIN mine = 1..Len(mine) /\ Len(mine) \in Nat
    BY TakenHighest DEF CallsInv, Typed
  <2>2. /\ 1 \in DOMAIN toServer /\ Head(toServer) = toServer[1]
        /\ DOMAIN toServer = 1..Len(toServer) /\ Len(toServer) \in Nat
        /\ DOMAIN toServer' = 1..(Len(toServer) - 1)
        /\ \A i \in DOMAIN toServer' : toServer'[i] = toServer[i + 1] /\ i + 1 \in DOMAIN toServer
    BY <1>3, <2>1
  <2>3. \A i \in DOMAIN toServer : toServer[i].seq \in Nat
    <3> QED BY <2>1 DEF CallsInv, Typed, AskFits
  <2>4. \/ toServer[1].form # "request" /\ highest' = highest
        \/ toServer[1].form = "request" /\ highest' = toServer[1].seq
    <3>1. toServer' # toServer
      BY <2>2
    <3> QED BY <2>2, <3>1 DEF Taken
  \* a request for a number above the highest is not the one taken
  <2>5. ASSUME NEW j \in DOMAIN toServer, toServer[j].form = "request", toServer[j].seq > highest'
        PROVE  j - 1 \in DOMAIN toServer' /\ toServer'[j - 1] = toServer[j] /\ j # 1
    <3>1. j # 1
      BY <2>3, <2>4, <2>5
    <3> QED BY <2>2, <3>1
  <2>6. ASSUME NEW i \in DOMAIN toServer' PROVE RequestFirst(i)'
    <3> DEFINE f == toServer[i + 1]
    <3>1. /\ toServer'[i] = f /\ i + 1 \in DOMAIN toServer /\ RequestFirst(i + 1) /\ i \in Nat
      BY <1>1, <2>2
    <3>2. CASE f.form = "request"
      <4>1. f.seq > highest /\ \A j \in 1..((i + 1) - 1) : toServer[j].seq < f.seq
        BY <3>1, <3>2 DEF RequestFirst
      <4>3. f.seq > highest'
        BY <2>4, <4>1, <3>1, <2>2
      <4>4. ASSUME NEW j \in 1..(i - 1) PROVE toServer'[j].seq < f.seq
        <5> QED BY <2>2, <4>1, <3>1
      <4> QED BY <3>1, <3>2, <4>3, <4>4 DEF RequestFirst
    <3>3. CASE f.form # "request"
      <4> SUFFICES ASSUME f.seq > highest'
                   PROVE  \E j \in 1..(i - 1) : toServer'[j].form = "request" /\ toServer'[j].seq = f.seq
        BY <3>1, <3>3 DEF RequestFirst, Asked
      <4>2. PICK j \in 1..((i + 1) - 1) : toServer[j].form = "request" /\ toServer[j].seq = f.seq
        BY <3>1, <3>3, <2>1, <2>3 DEF RequestFirst, Asked
      <4>4. j - 1 \in DOMAIN toServer' /\ toServer'[j - 1] = toServer[j] /\ j # 1
        BY <2>5, <4>2, <2>2, <3>1
      <4> QED BY <4>2, <4>4, <3>1
    <3> QED BY <3>2, <3>3
  <2>7. ASSUME NEW t \in DOMAIN mine, t > highest'
        PROVE  \E j \in DOMAIN toServer' : toServer'[j].form = "request" /\ toServer'[j].seq = t
    <3>2. PICK j \in DOMAIN toServer : toServer[j].form = "request" /\ toServer[j].seq = t
      BY <1>1, <2>1, <2>7
    <3> QED BY <3>2, <2>5, <2>7
  <2> QED BY <2>6, <2>7 DEF Requested
<1> QED BY <1>2, <1>3 DEF Taken

\* The parts of a call in flight.
LEMMA CallParts ==
  ASSUME NEW call, CallOK(call)
  PROVE  /\ call \in Call(call.uploads)
         /\ call.reply \in Reply /\ call.member \in Members /\ Shape[call.member].params \in {0, 1}
         /\ DOMAIN call.uploads = 1..Shape[call.member].params
         /\ \A k \in DOMAIN call.uploads : k = 1 /\ call.uploads[k] \in Upload
         /\ Uploads(call.member) <=> 1 \in DOMAIN call.uploads
         /\ call.uploads \in [1..Shape[call.member].params -> Upload]
<1>1. /\ call \in Call(call.uploads) /\ call.uploads \in [1..Shape[call.member].params -> Upload]
  BY DEF CallOK
<1>2. call.reply \in Reply /\ call.member \in Members
  BY <1>1 DEF Call
<1>4. DOMAIN call.uploads = 1..Shape[call.member].params
  BY <1>1
<1> DEFINE p == Shape[call.member].params
<1>5. p \in {0, 1}
  BY <1>2, WsServerAssumption, WsCallsAssumption
<1>7. Uploads(call.member) <=> p > 0
  BY DEF Uploads
<1>8. p > 0 <=> 1 \in 1..p
  BY <1>5
<1> QED BY <1>1, <1>2, <1>4, <1>5, <1>7, <1>8

\* The accounts after a step that keeps the calls in shape.
LEMMA AccountsAfter ==
  ASSUME SessionFits', mine' = mine, NEW t, Uploads(mine[t].member) \/ TRUE
  PROVE  /\ ReplyOf(t)'.credit \in Nat
         /\ Uploads(mine[t].member) => UploadOf(t)'.credit \in Nat
<1>1. CASE t \in DOMAIN calls'
  <2>1. CallOK(calls'[t]) /\ calls'[t].member = mine[t].member
    BY <1>1 DEF SessionFits, CallOK, Call
  <2>2. PICK call : call = calls'[t]
    OBVIOUS
  <2>4. /\ call.reply.credit \in Nat
        /\ Uploads(call.member) => call.uploads[1].credit \in Nat
    BY <2>1, <2>2, CallParts DEF Reply, Upload
  <2> QED BY <1>1, <2>1, <2>2, <2>4 DEF ReplyOf, UploadOf
<1>2. CASE t \notin DOMAIN calls'
  BY <1>2, WsServerAssumption DEF ReplyOf, UploadOf, NewReply, NewUpload
<1> QED BY <1>1, <1>2

\* The channel to the client before and after.
LEMMA SentCounts ==
  ASSUME CallsInv, NEW fs \in Seq(ServerFrame), toClient' = (IF attached THEN toClient \o fs ELSE <<>>)
  PROVE  /\ toClient \in Seq(ServerFrame) /\ toClient' \in Seq(ServerFrame)
         /\ \A t, k, form :
               /\ Under(toClient, t, k, form) \in Nat /\ Under(fs, t, k, form) \in Nat
               /\ attached => Under(toClient', t, k, form) = Under(toClient, t, k, form) + Under(fs, t, k, form)
         /\ \A i \in DOMAIN toClient' :
               \/ \E j \in DOMAIN toClient : toClient'[i] = toClient[j]
               \/ \E j \in DOMAIN fs : toClient'[i] = fs[j]
         /\ ~attached => toClient' = <<>> /\ toClient = <<>>
<1>1. toClient \in Seq(ServerFrame) /\ (~attached => toClient = <<>>)
  BY DEF CallsInv, Typed
<1>2. \A t, k, form : /\ Under(toClient, t, k, form) \in Nat /\ Under(fs, t, k, form) \in Nat
                      /\ Under(toClient \o fs, t, k, form) = Under(toClient, t, k, form) + Under(fs, t, k, form)
  BY <1>1, UnderNat, UnderConcat, FramesCount
<1>4. CASE attached
  BY <1>1, <1>2, ElementsAfter, <1>4
<1>5. CASE ~attached
  <2> QED BY <1>1, <1>2, <1>5
<1> QED BY <1>4, <1>5

\* The accounts still agree when the session serves.
LEMMA ServedCounted ==
  ASSUME CallsInv, NEW h, NEW fs, Served(h, fs)
  PROVE  Counted' /\ Within'
<1>1. /\ mine' = mine /\ closed = 0 /\ SessionFits' /\ attached' = attached
      /\ toClient' = (IF attached THEN toClient \o fs ELSE <<>>) /\ fs \in Seq(ServerFrame)
      /\ \A t \in DOMAIN calls' : t \in DOMAIN calls \/ t > highest
      /\ closed' = 0 => \A t \in There' : UploadServed(t, h, fs) /\ ReplyServed(t, h, fs)
      /\ \A t \in DOMAIN mine : ChunksServed(t, fs)
      /\ Taken(h)
  BY DEF Served
<1>2. /\ \A t, k, form :
            /\ Under(toServer, t, k, form) = Under(h, t, k, form) + Under(toServer', t, k, form)
            /\ Under(h, t, k, form) \in Nat /\ Under(toServer', t, k, form) \in Nat
  BY <1>1, TakenCounts
<1>3. /\ \A t, k, form :
            /\ Under(toClient, t, k, form) \in Nat /\ Under(fs, t, k, form) \in Nat
            /\ attached => Under(toClient', t, k, form) = Under(toClient, t, k, form) + Under(fs, t, k, form)
      /\ ~attached => toClient' = <<>>
  BY <1>1, SentCounts
<1>4. /\ highest' \in 0..Len(mine) /\ highest \in Nat /\ highest' \in Nat /\ highest <= highest'
  BY <1>1, TakenHighest
<1>5. /\ \A t \in DOMAIN mine : mine[t] \in MyCall /\ MineFits(mine[t])
      /\ DOMAIN mine = 1..Len(mine) /\ Len(mine) \in Nat
      /\ ~attached => \A t \in DOMAIN mine : ~mine[t].live
      /\ \A t \in There : UploadCounted(t) /\ ReplyCounted(t)
      /\ Within
  BY <1>1 DEF CallsInv, Typed, Live, Counted
<1>6. ASSUME NEW t \in There' PROVE t \in There /\ t \in DOMAIN mine
  <2>1. CASE t \in DOMAIN calls'
    <3>2. t \in DOMAIN mine
      BY <1>4, <1>5, <1>1, <2>1 DEF SessionFits
    <3> QED BY <1>1, <2>1, <3>2 DEF There
  <2>2. CASE t \in DOMAIN mine /\ t > highest'
    <3> QED BY <2>2, <1>4, <1>5 DEF There
  <2> QED BY <1>1, <2>1, <2>2 DEF There
<1>7. ASSUME closed' = 0, NEW t \in There' PROVE UploadCounted(t)'
  <2> DEFINE c == mine[t]
             u == UploadOf(t)
             uu == UploadOf(t)'
             K == Under(toServer, t, 1, "chunk")
             KK == Under(toServer', t, 1, "chunk")
             C == Under(toClient, t, 1, "credit")
             CC == Under(toClient', t, 1, "credit")
             a == Under(h, t, 1, "chunk")
             b == Under(fs, t, 1, "credit")
  <2>1. SUFFICES ASSUME Uploads(c.member), uu.state = "open", ~uu.ended
                 PROVE  KK <= uu.credit /\ (c.open => uu.credit + c.sent = c.granted + KK + CC)
    BY <1>1 DEF UploadCounted
  <2>2. u.state = "open" /\ ~u.ended /\ uu.credit + a = u.credit + b
    BY <1>1, <1>7, <2>1 DEF UploadServed
  <2>3. t \in DOMAIN mine /\ K <= u.credit /\ (c.open => u.credit + c.sent = c.granted + K + C)
    BY <1>5, <1>6, <1>7, <2>1, <2>2 DEF UploadCounted
  <2>4. u.credit \in Nat /\ uu.credit \in Nat
    BY <1>1, <1>6, <1>7, <2>1, AccountsAfter, UploadOfTyped DEF Upload
  <2>5. K = a + KK /\ a \in Nat /\ KK \in Nat /\ C \in Nat /\ b \in Nat /\ (c.open => CC = C + b)
    <3> QED BY <1>2, <1>3, <1>5, <2>3 DEF MineFits
  <2>6. c.sent \in Nat /\ c.granted \in Nat
    BY <1>5, <2>3 DEF MyCall
  <2> HIDE DEF c, u, uu, K, KK, C, CC, a, b
  <2>8. c.open => uu.credit + c.sent = c.granted + KK + CC
    BY <2>2, <2>3, <2>4, <2>5, <2>6
  <2> QED BY <2>2, <2>3, <2>4, <2>5, <2>8
<1>8. ASSUME closed' = 0, NEW t \in There' PROVE ReplyCounted(t)'
  <2> DEFINE c == mine[t]
             p == ReplyOf(t)
             pp == ReplyOf(t)'
             K == Under(toServer, t, 0, "credit")
             KK == Under(toServer', t, 0, "credit")
             C == Under(toClient, t, 0, "chunk")
             CC == Under(toClient', t, 0, "chunk")
             a == Under(h, t, 0, "credit")
             b == Under(fs, t, 0, "chunk")
  <2>1. SUFFICES ASSUME Streamed(c.member), c.live
                 PROVE  c.replyGranted = c.received + pp.credit + CC + KK
    BY <1>1 DEF ReplyCounted
  <2>2. pp.credit + b = p.credit + a
    BY <1>1, <1>8, <2>1 DEF ReplyServed
  <2>3. t \in DOMAIN mine /\ c.replyGranted = c.received + p.credit + C + K
    BY <1>5, <1>6, <1>8, <2>1 DEF ReplyCounted
  <2>4. p.credit \in Nat /\ pp.credit \in Nat
    BY <1>1, AccountsAfter, ReplyOfTyped DEF Reply
  <2>5. K = a + KK /\ a \in Nat /\ KK \in Nat /\ C \in Nat /\ b \in Nat /\ CC = C + b
    <3>1. attached
      BY <1>5, <2>1, <2>3
    <3> QED BY <1>2, <1>3, <3>1
  <2>6. c.replyGranted \in Nat /\ c.received \in Nat
    BY <1>5, <2>3 DEF MyCall
  <2> HIDE DEF c, p, pp, K, KK, C, CC, a, b
  <2>7. p.credit + C + K = pp.credit + CC + KK
    BY <2>2, <2>4, <2>5
  <2>8. CC \in Nat /\ K \in Nat
    BY <2>5
  <2>9. c.received + p.credit + C + K = c.received + (p.credit + C + K)
    BY <2>4, <2>5, <2>6, <2>8
  <2>10. c.received + pp.credit + CC + KK = c.received + (pp.credit + CC + KK)
    BY <2>4, <2>5, <2>6, <2>8
  <2> QED BY <2>3, <2>7, <2>9, <2>10
<1>9. Within'
  <2> SUFFICES ASSUME NEW t \in DOMAIN mine, mine[t].live, Streamed(mine[t].member)
               PROVE  mine[t].received + Under(toClient', t, 0, "chunk") <= mine[t].replyGranted
    BY <1>1 DEF Within, Live
  <2> DEFINE c == mine[t]
             p == ReplyOf(t)
             K == Under(toServer, t, 0, "credit")
             C == Under(toClient, t, 0, "chunk")
             CC == Under(toClient', t, 0, "chunk")
             b == Under(fs, t, 0, "chunk")
  <2>1. attached /\ c.received + C <= c.replyGranted
    BY <1>5 DEF Within, Live
  <2>2. CC = C + b /\ C \in Nat /\ b \in Nat /\ K \in Nat
    <3> QED BY <1>3, <2>1, <1>2
  <2>3. IF t \in DOMAIN calls THEN b <= p.credit ELSE b = 0
    BY <1>1 DEF ChunksServed
  <2>4. t \in DOMAIN calls => c.replyGranted = c.received + p.credit + C + K
    BY <1>5 DEF ReplyCounted, There
  <2>5. c.replyGranted \in Nat /\ c.received \in Nat /\ p.credit \in Nat
    BY <1>5, ReplyOfTyped DEF MyCall, Reply
  <2> HIDE DEF c, p, K, C, CC, b
  <2>6. c.received + CC <= c.replyGranted
    <3>1. CASE t \in DOMAIN calls
      BY <2>2, <2>3, <2>4, <2>5, <3>1
    <3>2. CASE t \notin DOMAIN calls
      BY <2>1, <2>2, <2>3, <2>5, <3>2
    <3> QED BY <3>1, <3>2
  <2> QED BY <2>6 DEF c, CC
<1>10. Counted'
  BY <1>7, <1>8 DEF Counted
<1> QED BY <1>9, <1>10

LEMMA ServedInv ==
  ASSUME CallsInv, NEW h, NEW fs, Served(h, fs)
  PROVE  CallsInv'
<1>1. /\ closed = 0 /\ closed' # 1002 /\ (closed' # 0 => DOMAIN calls' = {})
      /\ UNCHANGED <<mine, attached, violated>>
      /\ Taken(h) /\ SessionFits'
      /\ fs \in Seq(ServerFrame) /\ (\A i \in DOMAIN fs : FrameServed(fs[i]))
      /\ toClient' = (IF attached THEN toClient \o fs ELSE <<>>)
      /\ \A t \in DOMAIN calls' : t \in DOMAIN calls \/ t > highest
      /\ \A t \in DOMAIN mine : ChunksServed(t, fs)
  BY DEF Served
<1>2. /\ toServer' \in Seq(ClientFrame) /\ \A i \in DOMAIN toServer' : AskFits(toServer'[i])
  BY <1>1, TakenCounts
<1>3. /\ toClient \in Seq(ServerFrame) /\ toClient' \in Seq(ServerFrame)
      /\ \A t, k, form :
            /\ Under(toClient, t, k, form) \in Nat /\ Under(fs, t, k, form) \in Nat
            /\ attached => Under(toClient', t, k, form) = Under(toClient, t, k, form) + Under(fs, t, k, form)
      /\ \A i \in DOMAIN toClient' :
            \/ \E j \in DOMAIN toClient : toClient'[i] = toClient[j]
            \/ \E j \in DOMAIN fs : toClient'[i] = fs[j]
      /\ ~attached => toClient' = <<>> /\ toClient = <<>>
  BY <1>1, SentCounts
<1>4. highest' \in 0..Len(mine) /\ highest \in Nat /\ highest' \in Nat /\ highest <= highest'
  BY <1>1, TakenHighest
<1>5. /\ mine \in Seq(MyCall) /\ DOMAIN mine = 1..Len(mine) /\ Len(mine) \in Nat
      /\ \A s \in DOMAIN mine : MineFits(mine[s]) /\ (s > highest => mine[s].received = 0)
      /\ \A i \in DOMAIN toClient :
            toClient[i].seq \in 1..highest /\ ToldFits(mine[toClient[i].seq].member, toClient[i])
      /\ attached \in BOOLEAN /\ (~attached => Live = {})
  BY DEF CallsInv, Typed
<1>6. Typed'
  <2>2. \A i \in DOMAIN toServer' : AskFits(toServer[i])'
    BY <1>2, <1>1 DEF AskFits
  <2>3. \A i \in DOMAIN toClient' :
           toClient'[i].seq \in 1..highest' /\ ToldFits(mine[toClient'[i].seq].member, toClient'[i])
    <3>1. 1..highest \subseteq 1..highest'
      BY <1>4
    <3> QED BY <1>1, <1>3, <1>5, <3>1 DEF FrameServed
  <2>4. \A s \in DOMAIN mine : s > highest' => mine[s].received = 0
    BY <1>4, <1>5
  <2> QED BY <1>1, <1>2, <1>3, <1>4, <1>5, <2>2, <2>3, <2>4, SMTT(30) DEF Typed, Live
<1>7. Requested'
  BY <1>1, TakenRequested
<1>8. Counted' /\ Within'
  BY ServedCounted
<1>9. RefusedFirst'
  <2> SUFFICES ASSUME NEW i \in DOMAIN toClient', toClient'[i].form = "response",
                      Streamed(mine[toClient'[i].seq].member)
               PROVE  /\ toClient'[i].outcome = "refused"
                      /\ mine[toClient'[i].seq].received = 0
                      /\ Under(toClient', toClient'[i].seq, 0, "chunk") = 0
                      /\ toClient'[i].seq \notin DOMAIN calls'
    BY <1>1 DEF RefusedFirst
  <2>0. attached
    <3> QED BY <1>3
  <2>1. CASE \E j \in DOMAIN toClient : toClient'[i] = toClient[j]
    <3>1. PICK j \in DOMAIN toClient : toClient'[i] = toClient[j]
      BY <2>1
    <3>2. PICK t : t = toClient[j].seq
      OBVIOUS
    <3>3. /\ toClient[j].outcome = "refused" /\ mine[t].received = 0 /\ Under(toClient, t, 0, "chunk") = 0
          /\ t \notin DOMAIN calls
      BY <3>1, <3>2 DEF CallsInv, RefusedFirst
    <3>4. t \in DOMAIN mine /\ t <= highest /\ t \in Nat
      <4> QED BY <1>4, <1>5, <3>2
    <3>5. t \notin DOMAIN calls'
      BY <1>1, <1>4, <3>3, <3>4
    <3>6. Under(fs, t, 0, "chunk") = 0
      BY <1>1, <3>1, <3>2, <3>3, <3>4 DEF ChunksServed
    <3>7. Under(toClient', t, 0, "chunk") = 0
      BY <1>3, <2>0, <3>3, <3>6
    <3> QED BY <3>1, <3>2, <3>3, <3>5, <3>7
  <2>2. CASE \E j \in DOMAIN fs : toClient'[i] = fs[j]
    <3>1. PICK j \in DOMAIN fs : toClient'[i] = fs[j]
      BY <2>2
    <3>2. PICK t : t = fs[j].seq
      OBVIOUS
    <3>3. fs[j].outcome = "refused" /\ t > highest /\ t \notin DOMAIN calls' /\ t \in DOMAIN mine
      BY <1>1, <3>1, <3>2 DEF FrameServed
    <3>5. t \notin DOMAIN calls
      <4> QED BY <1>4, <1>5, <3>3 DEF CallsInv, SessionFits
    <3>6. Under(fs, t, 0, "chunk") = 0
      BY <1>1, <3>1, <3>2, <3>3, <3>5 DEF ChunksServed
    <3>7. Under(toClient, t, 0, "chunk") = 0
      <4>2. \A m \in DOMAIN toClient : Amount(toClient[m], t, 0, "chunk") = 0
        BY <1>4, <1>5, <3>3, AmountOther
      <4> QED BY <1>3, <4>2, UnderSame, FramesCount
    <3>8. Under(toClient', t, 0, "chunk") = 0
      BY <1>3, <2>0, <3>6, <3>7
    <3> QED BY <3>1, <3>2, <3>3, <1>5, <3>8
  <2> QED BY <1>3, <2>1, <2>2
<1>10. ClosedEmpty' /\ NoViolation'
  BY <1>1 DEF CallsInv, ClosedEmpty, NoViolation
<1> QED BY <1>1, <1>6, <1>7, <1>8, <1>9, <1>10 DEF CallsInv

\* A sequence of at most one sequence.
LEMMA FlattenShort ==
  ASSUME NEW ss, DOMAIN ss = {} \/ DOMAIN ss = {1}, ss = [k \in DOMAIN ss |-> ss[k]]
  PROVE  FlattenSeq(ss) = IF 1 \in DOMAIN ss THEN ss[1] ELSE <<>>
<1>1. CASE DOMAIN ss = {}
  <2> QED BY <1>1 DEF FlattenSeq
<1>2. CASE DOMAIN ss = {1}
  <2>1. ss = [k \in 1..1 |-> ss[1]] /\ Len(ss) = 1
    <3> QED BY <1>2
  <2> DEFINE good(f) == f = [i \in 1..Len(ss) |-> IF i = 1 THEN ss[i] ELSE f[i - 1] \o ss[i]]
             g == CHOOSE f : good(f)
  <2>3. good(g)
    BY <2>1
  <2>5. g[1] = ss[1]
    <3> HIDE DEF g
    <3> QED BY <2>1, <2>3
  <2> QED BY <1>2, <2>1, <2>5 DEF FlattenSeq
<1> QED BY <1>1, <1>2

-----------------------------------------------------------------------------
(* A step of the session about one call. *)

UploadServes(u, u2, a, b) ==
  u2.state = "open" /\ ~u2.ended =>
    u.state = "open" /\ ~u.ended /\ u2.credit + a = u.credit + b
\* Call s, before and after the session takes h and sends fs about it.
CallServed(s, call, call2, h, fs) ==
  /\ CallOK(call2) /\ call2.member = call.member
  /\ \A k \in DOMAIN call2.uploads : UploadFits(call2.uploads[k], mine[s])
  /\ Uploads(call.member) =>
       UploadServes(call.uploads[1], call2.uploads[1], Under(h, s, 1, "chunk"), Under(fs, s, 1, "credit"))
  /\ Streamed(call.member) =>
       call2.reply.credit + Under(fs, s, 0, "chunk") = call.reply.credit + Under(h, s, 0, "credit")
\* The calls after a step about call s: it is served, or gone, or all are.
Became(s, h, fs) ==
  \/ closed' \in {1001, 1008} /\ calls' = <<>> /\ todo' = {}
  \/ closed' = 0 /\ calls' = Without(calls, {s}) /\ todo' \subseteq todo \ {s}
  \/ closed' = 0 /\ todo' \subseteq todo
     /\ \E call2 : calls' = [calls EXCEPT ![s] = call2] /\ CallServed(s, calls[s], call2, h, fs)
  \/ closed' = 0 /\ todo' \subseteq todo /\ calls' = calls /\ CallServed(s, calls[s], calls[s], h, fs)
\* A frame the session may send about a call of member m.
FrameAbout(s, m, f) ==
  f.seq = s /\ ToldFits(m, f) /\ (f.form = "response" => ~Streamed(m))
FramesAbout(s, m, fs) ==
  fs \in Seq(ServerFrame) /\ \A i \in DOMAIN fs : FrameAbout(s, m, fs[i])
Sends(fs) ==
  /\ toClient' = (IF attached THEN toClient \o fs ELSE <<>>)
  /\ UNCHANGED <<mine, attached, violated>>

\* The calls after a step about s.
LEMMA BecameCalls ==
  ASSUME CallsInv, NEW s \in DOMAIN calls, NEW h, NEW fs, Became(s, h, fs),
         DOMAIN kept' \subseteq DOMAIN kept \cup {s}, highest' = highest, mine' = mine
  PROVE  /\ SessionFits'
         /\ closed' # 1002 /\ (closed' # 0 => DOMAIN calls' = {})
         /\ \A t \in DOMAIN calls' : t \in DOMAIN calls /\ (t # s => calls'[t] = calls[t])
         /\ s \in DOMAIN calls' => CallServed(s, calls[s], calls'[s], h, fs)
<1>1. /\ DOMAIN calls \subseteq 1..highest
      /\ \A t \in DOMAIN calls :
            /\ CallOK(calls[t]) /\ calls[t].member = mine[t].member
            /\ \A k \in DOMAIN calls[t].uploads : UploadFits(calls[t].uploads[k], mine[t])
      /\ DOMAIN kept \subseteq 1..highest
      /\ todo \subseteq DOMAIN calls
  BY DEF CallsInv, SessionFits
<1>2. /\ \A t \in DOMAIN calls' : t \in DOMAIN calls /\ (t # s => calls'[t] = calls[t])
      /\ s \in DOMAIN calls' => CallServed(s, calls[s], calls'[s], h, fs)
      /\ todo' \subseteq DOMAIN calls'
      /\ closed' # 1002 /\ (closed' # 0 => DOMAIN calls' = {})
  <2>1. CASE closed' \in {1001, 1008} /\ calls' = <<>> /\ todo' = {}
    <3> QED BY <2>1
  <2>2. CASE closed' = 0 /\ calls' = Without(calls, {s}) /\ todo' \subseteq todo \ {s}
    <3>1. DOMAIN calls' = DOMAIN calls \ {s} /\ \A t \in DOMAIN calls \ {s} : calls'[t] = calls[t]
      BY <2>2 DEF Without
    <3>2. s \notin DOMAIN calls' /\ todo' \subseteq DOMAIN calls' /\ closed' = 0
      BY <1>1, <2>2, <3>1
    <3>3. \A t \in DOMAIN calls' : t \in DOMAIN calls /\ (t # s => calls'[t] = calls[t])
      BY <3>1
    <3> QED BY <3>2, <3>3
  <2>3. CASE closed' = 0 /\ todo' \subseteq todo
             /\ \E call2 : calls' = [calls EXCEPT ![s] = call2] /\ CallServed(s, calls[s], call2, h, fs)
    <3>1. PICK call2 : calls' = [calls EXCEPT ![s] = call2] /\ CallServed(s, calls[s], call2, h, fs)
      BY <2>3
    <3>2. DOMAIN calls' = DOMAIN calls /\ calls'[s] = call2 /\ \A t \in DOMAIN calls : t # s => calls'[t] = calls[t]
      BY <3>1
    <3>3. CallServed(s, calls[s], calls'[s], h, fs)
      BY <3>1, <3>2, Zenon
    <3>4. todo' \subseteq DOMAIN calls' /\ closed' = 0
      BY <1>1, <2>3, <3>2
    <3>5. \A t \in DOMAIN calls' : t \in DOMAIN calls /\ (t # s => calls'[t] = calls[t])
      BY <3>2
    <3>6. closed' # 1002 /\ (closed' # 0 => DOMAIN calls' = {})
      BY <3>4
    <3> QED BY <3>3, <3>4, <3>5, <3>6, Zenon
  <2>4. CASE closed' = 0 /\ todo' \subseteq todo /\ calls' = calls /\ CallServed(s, calls[s], calls[s], h, fs)
    <3>1. CallServed(s, calls[s], calls'[s], h, fs)
      BY <2>4, Zenon
    <3>2. \A t \in DOMAIN calls' : t \in DOMAIN calls /\ (t # s => calls'[t] = calls[t])
      BY <2>4
    <3>3. todo' \subseteq DOMAIN calls' /\ closed' # 1002 /\ (closed' # 0 => DOMAIN calls' = {})
      BY <1>1, <2>4
    <3> QED BY <3>1, <3>2, <3>3, Zenon
  <2> QED BY <2>1, <2>2, <2>3, <2>4 DEF Became
<1>3. ASSUME NEW t \in DOMAIN calls'
      PROVE  /\ CallOK(calls'[t]) /\ calls'[t].member = mine'[t].member
             /\ \A k \in DOMAIN calls'[t].uploads : UploadFits(calls'[t].uploads[k], mine'[t])
  <2>1. CASE t # s
    BY <1>1, <1>2, <2>1
  <2>2. CASE t = s
    <3>2. /\ CallOK(calls'[s]) /\ calls'[s].member = calls[s].member
          /\ \A k \in DOMAIN calls'[s].uploads : UploadFits(calls'[s].uploads[k], mine[s])
      BY <1>2, <2>2 DEF CallServed
    <3> QED BY <1>1, <2>2, <3>2
  <2> QED BY <2>1, <2>2
<1>4. SessionFits'
  <2> QED BY <1>1, <1>2, <1>3 DEF SessionFits, CallOK, Call, UploadFits
<1> QED BY <1>2, <1>4

\* Frames about s count for s only.
LEMMA AboutCounts ==
  ASSUME NEW s, NEW m, NEW fs, FramesAbout(s, m, fs), NEW t, t # s, NEW k, NEW form
  PROVE  Under(fs, t, k, form) = 0
<1>1. fs \in Seq(ServerFrame) /\ \A i \in DOMAIN fs : fs[i].seq # t
  BY DEF FramesAbout, FrameAbout
<1> QED BY <1>1, AmountOther, UnderSame, FramesCount

\* A step about one call serves every call.
LEMMA OneCallServed ==
  ASSUME CallsInv, closed = 0, NEW s \in DOMAIN calls, NEW h, NEW fs, Taken(h), highest' = highest,
         \A i \in DOMAIN h : h[i].seq = s, FramesAbout(s, mine[s].member, fs), Sends(fs),
         Streamed(mine[s].member) => Under(fs, s, 0, "chunk") <= calls[s].reply.credit,
         DOMAIN kept' \subseteq DOMAIN kept \cup {s}, Became(s, h, fs)
  PROVE  CallsInv'
<1>1. /\ SessionFits'
      /\ closed' # 1002 /\ (closed' # 0 => DOMAIN calls' = {})
      /\ \A t \in DOMAIN calls' : t \in DOMAIN calls /\ (t # s => calls'[t] = calls[t])
      /\ s \in DOMAIN calls' => CallServed(s, calls[s], calls'[s], h, fs)
  BY BecameCalls DEF Sends
<1>2. /\ DOMAIN calls \subseteq 1..highest /\ highest \in 0..Len(mine) /\ DOMAIN mine = 1..Len(mine) /\ Len(mine) \in Nat
      /\ calls[s].member = mine[s].member
  BY DEF CallsInv, SessionFits, Typed
<1>4. \A i \in DOMAIN fs : FrameServed(fs[i])
  BY <1>2 DEF FramesAbout, FrameAbout, FrameServed
<1>5. ASSUME NEW t, t # s, NEW k, NEW form PROVE Under(h, t, k, form) = 0 /\ Under(fs, t, k, form) = 0
  <2>2. \A i \in DOMAIN h : Amount(h[i], t, k, form) = 0
    BY <1>5, AmountOther
  <2>3. Under(h, t, k, form) = 0
    BY TakenCounts, <2>2, UnderSame, FramesCount
  <2> QED BY <1>5, <2>3, AboutCounts
<1>6. \A t \in DOMAIN mine : ChunksServed(t, fs)
  BY <1>5, ReplyOfTyped DEF ChunksServed, ReplyOf, Reply
<1>7. ASSUME closed' = 0, NEW t \in There' PROVE UploadServed(t, h, fs) /\ ReplyServed(t, h, fs)
  <2>1. CASE t = s
    <3>1. s \in DOMAIN calls'
      <4> QED BY <1>7, <2>1, <1>2 DEF There
    <3>3. /\ UploadOf(s) = calls[s].uploads[1] /\ UploadOf(s)' = calls'[s].uploads[1]
          /\ ReplyOf(s) = calls[s].reply /\ ReplyOf(s)' = calls'[s].reply
      BY <3>1 DEF UploadOf, ReplyOf
    <3> QED BY <1>2, <2>1, <1>1, <3>1, <3>3 DEF CallServed, UploadServes, UploadServed, ReplyServed
  <2>2. CASE t # s
    <3>1. UploadOf(t)' = UploadOf(t) /\ ReplyOf(t)' = ReplyOf(t)
      <4>1. CASE t \in DOMAIN calls'
        BY <1>1, <2>2, <4>1 DEF UploadOf, ReplyOf
      <4>2. CASE t \notin DOMAIN calls'
        <5>2. t \notin DOMAIN calls
          BY <1>2, <1>7, <4>2 DEF There, Sends
        <5> QED BY <4>2, <5>2 DEF UploadOf, ReplyOf
      <4> QED BY <4>1, <4>2
    <3> QED BY <3>1, <1>5, <2>2 DEF UploadServed, ReplyServed
  <2> QED BY <2>1, <2>2
<1> QED BY <1>1, <1>4, <1>6, <1>7, ServedInv DEF Served, Sends, FramesAbout

\* A call in flight, at both ends.
LEMMA CallAt ==
  ASSUME CallsInv, NEW s \in DOMAIN calls
  PROVE  /\ CallOK(calls[s]) /\ calls[s].member = mine[s].member
         /\ \A k \in DOMAIN calls[s].uploads : UploadFits(calls[s].uploads[k], mine[s])
         /\ s \in DOMAIN mine /\ s \in Nat /\ mine[s] \in MyCall /\ MineFits(mine[s]) /\ s <= highest /\ highest \in Nat
<1>1. /\ DOMAIN calls \subseteq 1..highest /\ highest \in 0..Len(mine) /\ DOMAIN mine = 1..Len(mine) /\ Len(mine) \in Nat
      /\ CallOK(calls[s]) /\ calls[s].member = mine[s].member
      /\ \A k \in DOMAIN calls[s].uploads : UploadFits(calls[s].uploads[k], mine[s])
      /\ mine \in Seq(MyCall) /\ \A t \in DOMAIN mine : MineFits(mine[t])
  BY DEF CallsInv, SessionFits, Typed
<1> QED BY <1>1

-----------------------------------------------------------------------------
(* Frames about one call that carry no chunk. *)

Quiet(s, m, fs) == FramesAbout(s, m, fs) /\ \A i \in DOMAIN fs : fs[i].form # "chunk"

LEMMA QuietCounts ==
  ASSUME NEW s, NEW m, NEW fs, Quiet(s, m, fs)
  PROVE  Under(fs, s, 0, "chunk") = 0
<1> QED BY UnderSame, FramesCount DEF Quiet, FramesAbout, Amount

LEMMA NoneAbout ==
  ASSUME NEW s, NEW m
  PROVE  Quiet(s, m, <<>>)
BY DEF Quiet, FramesAbout

LEMMA OneAbout ==
  ASSUME NEW s, NEW m, NEW f \in ServerFrame, FrameAbout(s, m, f)
  PROVE  FramesAbout(s, m, <<f>>) /\ (f.form # "chunk" => Quiet(s, m, <<f>>))
<1> QED BY DEF Quiet, FramesAbout

LEMMA JoinAbout ==
  ASSUME NEW s, NEW m, NEW fs, NEW gs, FramesAbout(s, m, fs), FramesAbout(s, m, gs)
  PROVE  /\ FramesAbout(s, m, fs \o gs)
         /\ Quiet(s, m, fs) /\ Quiet(s, m, gs) => Quiet(s, m, fs \o gs)
         /\ \A k, form : /\ Under(fs \o gs, s, k, form) = Under(fs, s, k, form) + Under(gs, s, k, form)
                         /\ Under(fs, s, k, form) \in Nat /\ Under(gs, s, k, form) \in Nat
<1>1. fs \in Seq(ServerFrame) /\ gs \in Seq(ServerFrame)
  BY DEF FramesAbout
<1> DEFINE hs == fs \o gs
<1>2. /\ hs \in Seq(ServerFrame)
      /\ \A i \in DOMAIN hs : (i \in DOMAIN fs /\ hs[i] = fs[i]) \/ (i - Len(fs) \in DOMAIN gs /\ hs[i] = gs[i - Len(fs)])
  BY <1>1, ElementsAfter
<1> HIDE DEF hs
<1>4. FramesAbout(s, m, hs)
  BY <1>2 DEF FramesAbout
<1>5. Quiet(s, m, fs) /\ Quiet(s, m, gs) => Quiet(s, m, hs)
  BY <1>2, <1>4 DEF Quiet
<1> QED BY <1>1, UnderConcat, UnderNat, FramesCount, <1>4, <1>5 DEF hs

-----------------------------------------------------------------------------
(* Draining. *)

\* An upload whose handler takes what it holds is granted as much.
LEMMA DrainedUpload ==
  ASSUME NEW u \in Upload, NEW c, UploadFits(u, c), NEW d \in DrainResults(u)
  PROVE  /\ d.upload \in Upload /\ UploadFits(d.upload, c)
         /\ UploadServes(u, d.upload, 0, d.taken)
         /\ d.taken \in Nat /\ d.upload.ended = u.ended
<1>1. CASE u.state # "open"
  <2> QED BY <1>1 DEF UploadServes, DrainResults
<1>2. CASE u.state = "open"
  <2>1. PICK e \in DrainFates(u) : d = [upload |-> AfterDrain(u, e[1], e[2]), taken |-> e[1], fate |-> e[2]]
    BY <1>2 DEF DrainResults
  <2> DEFINE t == e[1]
             fate == e[2]
             v == AfterDrain(u, t, fate)
  <2>2. /\ t \in 0..u.queued /\ fate \in {"none", "ended", "refused", "detached"}
        /\ fate = "ended" => u.ended /\ t = u.queued
    BY <2>1 DEF DrainFates
  <2>3. /\ u.queued \in Nat /\ u.credit \in Nat /\ u.seqIn \in Nat /\ u.idle \in Nat /\ u.ended \in BOOLEAN
        /\ u.queued <= InitialCredit /\ u.credit + u.queued = InitialCredit /\ InitialCredit \in Nat
        /\ (u.ended => c.closed /\ u.seqIn = c.sent + 1)
    BY <1>2, WsServerAssumption DEF Upload, UploadFits
  <2>4. d.upload = v /\ d.taken = t
    BY <2>1
  <2> HIDE DEF t, fate
  <2>5. t \in Nat /\ t <= u.queued /\ u.queued - t \in Nat /\ u.credit + t \in Nat
    BY <2>2, <2>3
  <2>6. /\ v.ended = u.ended /\ v.seqIn = u.seqIn /\ v.credit = u.credit + t
        /\ v.queued = (IF fate \in {"refused", "detached"} THEN 0 ELSE u.queued - t)
        /\ v.state = (IF fate = "none" THEN "open" ELSE IF fate = "ended" THEN "ended" ELSE "stopped")
    BY <2>2 DEF AfterDrain, Upload
  <2>7. v \in Upload
    <3>1. /\ v.state \in {"open", "ended", "stopped"} /\ v.queued \in Nat /\ v.credit \in Nat
      BY <2>5, <2>6
    <3>2. v = [u EXCEPT !.state = v.state, !.queued = v.queued, !.credit = v.credit, !.idle = v.idle]
      BY DEF AfterDrain, Upload
    <3>3. v.idle \in Nat
      BY <2>3 DEF AfterDrain, Upload
    <3> HIDE DEF v
    <3> QED BY <3>1, <3>2, <3>3 DEF Upload
  <2> HIDE DEF v
  <2>8. UploadFits(v, c)
    <3>2. v.state = "open" => v.credit + v.queued = InitialCredit
      BY <2>3, <2>5, <2>6
    <3>3. v.state = "ended" => v.ended /\ v.queued = 0
      BY <2>2, <2>3, <2>5, <2>6
    <3> QED BY <2>3, <2>6, <2>5, <3>2, <3>3 DEF UploadFits
  <2>9. UploadServes(u, v, 0, t)
    BY <1>2, <2>3, <2>5, <2>6 DEF UploadServes
  <2> QED BY <2>4, <2>5, <2>6, <2>7, <2>8, <2>9
<1> QED BY <1>1, <1>2

LEMMA DrainedCall ==
  ASSUME NEW call, CallOK(call), NEW c, \A k \in DOMAIN call.uploads : UploadFits(call.uploads[k], c),
         NEW d \in Drains(call)
  PROVE  LET call2 == Drained(call, d) IN
         /\ CallOK(call2) /\ call2.member = call.member /\ call2.reply = call.reply
         /\ call2.settled = call.settled
         /\ DOMAIN d = DOMAIN call.uploads /\ DOMAIN call2.uploads = DOMAIN call.uploads
         /\ \A k \in DOMAIN call2.uploads :
               /\ UploadFits(call2.uploads[k], c) /\ d[k].upload = call2.uploads[k] /\ d[k].taken \in Nat
               /\ UploadServes(call.uploads[k], call2.uploads[k], 0, d[k].taken)
<1> DEFINE call2 == Drained(call, d)
           ups == [k \in DOMAIN d |-> d[k].upload]
<1>1. /\ call \in Call(call.uploads) /\ DOMAIN call.uploads = 1..Shape[call.member].params
      /\ \A k \in DOMAIN call.uploads : call.uploads[k] \in Upload
      /\ call.settled => Shape[call.member].kind = "command"
  BY CallParts DEF CallOK
<1>2. DOMAIN d = DOMAIN call.uploads /\ \A k \in DOMAIN call.uploads : d[k] \in DrainResults(call.uploads[k])
  BY DEF Drains
<1>3. ASSUME NEW k \in DOMAIN call.uploads
      PROVE  /\ d[k].upload \in Upload /\ UploadFits(d[k].upload, c) /\ d[k].taken \in Nat
             /\ UploadServes(call.uploads[k], d[k].upload, 0, d[k].taken)
  BY <1>1, <1>2, DrainedUpload
<1>4. ups \in [1..Shape[call.member].params -> Upload] /\ DOMAIN ups = DOMAIN call.uploads
      /\ \A k \in DOMAIN call.uploads : ups[k] = d[k].upload
  BY <1>1, <1>2, <1>3
<1> HIDE DEF ups
<1>5. call2 = [call EXCEPT !.uploads = ups]
  BY DEF Drained, ups
<1>6. /\ call2.uploads = ups /\ call2.member = call.member /\ call2.reply = call.reply /\ call2.settled = call.settled
      /\ call2 \in Call(ups)
  <2> HIDE DEF call2
  <2> QED BY <1>1, <1>5 DEF Call
<1> HIDE DEF call2
<1> QED BY <1>2, <1>3, <1>4, <1>6, <1>1 DEF call2, CallOK

\* What a call sends as it drains: credit and ends.
LEMMA DrainQuiet ==
  ASSUME NEW call, CallOK(call), NEW c, \A k \in DOMAIN call.uploads : UploadFits(call.uploads[k], c),
         NEW d \in Drains(call), NEW s \in Nat
  PROVE  /\ Quiet(s, call.member, DrainFrames(s, d))
         /\ Uploads(call.member) =>
              UploadServes(call.uploads[1], Drained(call, d).uploads[1], 0,
                           Under(DrainFrames(s, d), s, 1, "credit"))
<1>1. /\ DOMAIN call.uploads = {} \/ DOMAIN call.uploads = {1}
      /\ Uploads(call.member) <=> 1 \in DOMAIN call.uploads
  <2>2. 1..0 = {} /\ 1..1 = {1}
    OBVIOUS
  <2> QED BY CallParts, <2>2
<1> DEFINE call2 == Drained(call, d)
<1>2. /\ DOMAIN d = DOMAIN call.uploads /\ DOMAIN call2.uploads = DOMAIN call.uploads
      /\ \A k \in DOMAIN call2.uploads :
               /\ d[k].upload = call2.uploads[k] /\ d[k].taken \in Nat
               /\ UploadServes(call.uploads[k], call2.uploads[k], 0, d[k].taken)
  BY DrainedCall
<1> HIDE DEF call2
<1> DEFINE g(k) == (IF d[k].taken > 0 /\ ~d[k].upload.ended
                    THEN <<CreditOut(s, k, d[k].taken)>> ELSE <<>>)
                   \o (IF d[k].fate = "refused" THEN <<EndOut(s, k, 1, "refused")>> ELSE <<>>)
           ss == [k \in DOMAIN d |-> IF \E j \in 1..(k - 1) : d[j].fate = "detached" THEN <<>> ELSE g(k)]
<1>3. DrainFrames(s, d) = FlattenSeq(ss) /\ DOMAIN ss = DOMAIN d /\ ss = [k \in DOMAIN ss |-> ss[k]]
  BY DEF DrainFrames
<1>4. CASE DOMAIN d = {}
  <2>1. FlattenSeq(ss) = <<>>
    <3> HIDE DEF ss
    <3> QED BY <1>3, <1>4, FlattenShort
  <2> QED BY <1>1, <1>2, <1>3, <1>4, <2>1, NoneAbout
<1>5. CASE DOMAIN d = {1}
  <2>1. FlattenSeq(ss) = ss[1]
    <3> HIDE DEF ss
    <3> QED BY <1>3, <1>5, FlattenShort
  <2>2. ss[1] = g(1)
    <3> QED BY <1>5
  <2>3. Uploads(call.member) /\ d[1].taken \in Nat
        /\ UploadServes(call.uploads[1], call2.uploads[1], 0, d[1].taken) /\ d[1].upload = call2.uploads[1]
    BY <1>1, <1>2, <1>5
  <2> DEFINE f == CreditOut(s, 1, d[1].taken)
             e == EndOut(s, 1, 1, "refused")
             fs == IF d[1].taken > 0 /\ ~d[1].upload.ended THEN <<f>> ELSE <<>>
             es == IF d[1].fate = "refused" THEN <<e>> ELSE <<>>
  <2>4. f \in ServerFrame /\ FrameAbout(s, call.member, f) /\ f.form = "credit" /\ Amount(f, s, 1, "credit") = d[1].taken
    BY <2>3 DEF CreditOut, ServerFrame, FrameAbout, ToldFits, Amount
  <2>5. e \in ServerFrame /\ FrameAbout(s, call.member, e) /\ e.form = "end" /\ Amount(e, s, 1, "credit") = 0
    BY <2>3 DEF EndOut, ServerFrame, FrameAbout, ToldFits, Amount
  <2> HIDE DEF f, e, ss
  <2>6. DrainFrames(s, d) = fs \o es
    BY <1>3, <2>1, <2>2 DEF f, e
  <2>9. Quiet(s, call.member, fs) /\ Quiet(s, call.member, es)
    BY <2>4, <2>5, OneAbout, NoneAbout
  <2>10. /\ Under(es, s, 1, "credit") = 0
         /\ Under(fs, s, 1, "credit") = IF d[1].taken > 0 /\ ~d[1].upload.ended THEN d[1].taken ELSE 0
    BY <2>4, <2>5, UnderOne, FramesCount, NoneCount
  <2> HIDE DEF fs, es
  <2>11. Quiet(s, call.member, fs \o es)
         /\ Under(fs \o es, s, 1, "credit") = Under(fs, s, 1, "credit") + Under(es, s, 1, "credit")
    <3> DEFINE m == call.member
    <3> HIDE DEF m
    <3>1. FramesAbout(s, m, fs) /\ FramesAbout(s, m, es) /\ Quiet(s, m, fs) /\ Quiet(s, m, es)
      BY <2>9 DEF Quiet, m
    <3>2. /\ Quiet(s, m, fs) /\ Quiet(s, m, es) => Quiet(s, m, fs \o es)
          /\ \A k, form : /\ Under(fs \o es, s, k, form) = Under(fs, s, k, form) + Under(es, s, k, form)
                          /\ Under(fs, s, k, form) \in Nat /\ Under(es, s, k, form) \in Nat
      BY <3>1, JoinAbout
    <3> QED BY <3>1, <3>2 DEF m
  <2>12. UploadServes(call.uploads[1], call2.uploads[1], 0, Under(fs \o es, s, 1, "credit"))
    <3> SUFFICES ASSUME call2.uploads[1].state = "open", ~call2.uploads[1].ended
                 PROVE  /\ call.uploads[1].state = "open" /\ ~call.uploads[1].ended
                        /\ call2.uploads[1].credit + 0 = call.uploads[1].credit + Under(fs \o es, s, 1, "credit")
      BY DEF UploadServes
    <3>2. Under(fs \o es, s, 1, "credit") = d[1].taken
      BY <2>3, <2>10, <2>11
    <3> QED BY <2>3, <3>2 DEF UploadServes
  <2> QED BY <2>6, <2>11, <2>12 DEF call2
<1> QED BY <1>1, <1>2, <1>4, <1>5

\* The ends of the uploads of a call that is answered.
LEMMA InterruptQuiet ==
  ASSUME NEW call, CallOK(call), NEW s \in Nat
  PROVE  Quiet(s, call.member, InterruptFrames(s, call))
<1>1. /\ DOMAIN call.uploads = {} \/ DOMAIN call.uploads = {1}
      /\ Uploads(call.member) <=> 1 \in DOMAIN call.uploads
  <2>2. 1..0 = {} /\ 1..1 = {1}
    OBVIOUS
  <2> QED BY CallParts, <2>2
<1> DEFINE ss == [k \in DOMAIN call.uploads |->
                    IF k \in OpenUploads(call) THEN <<EndOut(s, k, 1, "interrupted")>> ELSE <<>>]
<1>2. /\ InterruptFrames(s, call) = FlattenSeq(ss) /\ DOMAIN ss = DOMAIN call.uploads
      /\ ss = [k \in DOMAIN ss |-> ss[k]]
  BY DEF InterruptFrames
<1>3. FlattenSeq(ss) = IF 1 \in DOMAIN ss THEN ss[1] ELSE <<>>
  <2> HIDE DEF ss
  <2> QED BY <1>1, <1>2, FlattenShort
<1> DEFINE e == EndOut(s, 1, 1, "interrupted")
<1>4. CASE 1 \in DOMAIN call.uploads
  <2>1. e \in ServerFrame /\ FrameAbout(s, call.member, e) /\ e.form = "end"
    BY <1>1, <1>4 DEF EndOut, ServerFrame, FrameAbout, ToldFits
  <2>2. ss[1] = <<e>> \/ ss[1] = <<>>
    BY <1>4
  <2> HIDE DEF e, ss
  <2>3. Quiet(s, call.member, <<e>>) /\ Quiet(s, call.member, <<>>)
    BY <2>1, OneAbout, NoneAbout
  <2> QED BY <1>2, <1>3, <1>4, <2>2, <2>3
<1>5. CASE 1 \notin DOMAIN call.uploads
  BY <1>2, <1>3, <1>5, NoneAbout
<1> QED BY <1>4, <1>5

\* A response is kept, and the session goes on or closes with 1008.
LEMMA ConcludeParts ==
  ASSUME NEW k, NEW s, NEW m, NEW since, NEW f, NEW cs, NEW fs, ConcludeWith(k, s, m, since, f, cs, fs)
  PROVE  /\ DOMAIN kept' \subseteq DOMAIN k \cup {s} /\ out' = fs
         /\ \/ closed' = 1008 /\ calls' = <<>> /\ todo' = {}
            \/ calls' = cs /\ closed' = closed
<1>2. DOMAIN Settle(k, s, m, since, f).kept \subseteq DOMAIN k \cup {s}
  <2> DEFINE bounded == m \in Members /\ Shape[m].bounded
             entry == [frame |-> f, bounded |-> bounded,
                       left |-> IF bounded /\ since <= Bound THEN Bound - since ELSE -1]
             ring1 == IF bounded THEN ring ELSE Append(ring, s)
             all == [x \in DOMAIN k \cup {s} |-> IF x = s THEN entry ELSE k[x]]
  <2>1. Settle(k, s, m, since, f).kept = all \/ Settle(k, s, m, since, f).kept = Without(all, {Head(ring1)})
    BY DEF Settle
  <2>2. DOMAIN all = DOMAIN k \cup {s}
    OBVIOUS
  <2> HIDE DEF all
  <2>3. DOMAIN Without(all, {Head(ring1)}) \subseteq DOMAIN all
    BY DEF Without
  <2> QED BY <2>1, <2>2, <2>3
<1> QED BY <1>2 DEF ConcludeWith, Close, Continue

LEMMA FinishedBecomes ==
  ASSUME NEW s, NEW call2
  PROVE  Finished(s, call2) \in {Without(calls, {s}), [calls EXCEPT ![s] = call2]}
BY DEF Finished

-----------------------------------------------------------------------------
(* The session receives. *)

\* The next message of the client.
LEMMA HeadAsked ==
  ASSUME CallsInv, closed = 0, toServer # <<>>
  PROVE  LET f == Head(toServer) IN
         /\ f \in ClientFrame /\ AskFits(f) /\ f.seq \in DOMAIN mine /\ f.seq \in Nat /\ highest \in Nat
         /\ IF f.form = "request" THEN f.seq > highest ELSE f.seq <= highest
         /\ \A t, k, form : Under(<<f>>, t, k, form) = Amount(f, t, k, form)
         /\ \A t : Amount(f, t, 1, "chunk") <= Under(toServer, t, 1, "chunk") /\ Under(toServer, t, 1, "chunk") \in Nat
<1> DEFINE f == Head(toServer)
<1>1. /\ toServer \in Seq(ClientFrame) /\ \A i \in DOMAIN toServer : AskFits(toServer[i])
      /\ DOMAIN mine = 1..Len(mine) /\ Len(mine) \in Nat /\ highest \in 0..Len(mine)
  BY DEF CallsInv, Typed
<1>2. 1 \in DOMAIN toServer /\ f = toServer[1] /\ f \in ClientFrame
  BY <1>1
<1>3. AskFits(f) /\ f.seq \in DOMAIN mine /\ f.seq \in Nat /\ highest \in Nat
  BY <1>1, <1>2 DEF AskFits
<1>5. IF f.form = "request" THEN f.seq > highest ELSE f.seq <= highest
  <2>2. ~Asked(f, 1)
    BY DEF Asked
  <2> QED BY <1>2, <1>3, <2>2 DEF RequestFirst, CallsInv, Requested
<1>6. ASSUME NEW t, NEW k, NEW form
      PROVE  Under(<<f>>, t, k, form) = Amount(f, t, k, form)
  BY <1>2, UnderOne, FramesCount
<1>7. ASSUME NEW t
      PROVE  Amount(f, t, 1, "chunk") <= Under(toServer, t, 1, "chunk") /\ Under(toServer, t, 1, "chunk") \in Nat
  <2> DEFINE a == Amount(f, t, 1, "chunk")
             b == Under(Tail(toServer), t, 1, "chunk")
             n == Under(toServer, t, 1, "chunk")
  <2>1. n = a + b /\ a \in Nat /\ b \in Nat
    BY <1>1, UnderTail, FramesCount
  <2> HIDE DEF a, b, n
  <2>2. a <= n /\ n \in Nat
    BY <2>1
  <2> QED BY <2>2 DEF a, n
<1> QED BY <1>2, <1>3, <1>5, <1>6, <1>7

\* A call with another record of its upload.
LEMMA ReplaceUpload ==
  ASSUME NEW call, CallOK(call), Uploads(call.member), NEW c, NEW v \in Upload, UploadFits(v, c),
         NEW a \in Nat, NEW b \in Nat
  PROVE  LET call2 == [call EXCEPT !.uploads[1] = v, !.age = a, !.since = b] IN
         /\ CallOK(call2) /\ call2.member = call.member /\ call2.reply = call.reply
         /\ call2.settled = call.settled
         /\ \A k \in DOMAIN call2.uploads : UploadFits(call2.uploads[k], c)
         /\ call2.uploads[1] = v
<1> DEFINE ups == [call.uploads EXCEPT ![1] = v]
           call2 == [call EXCEPT !.uploads[1] = v, !.age = a, !.since = b]
           call3 == [call EXCEPT !.uploads = ups, !.age = a, !.since = b]
<1>1. /\ call \in Call(call.uploads) /\ 1 \in DOMAIN call.uploads
      /\ call.uploads \in [1..Shape[call.member].params -> Upload]
      /\ \A k \in DOMAIN call.uploads : k = 1
      /\ call.settled => Shape[call.member].kind = "command"
  BY CallParts DEF CallOK
<1>2. ups \in [1..Shape[call.member].params -> Upload] /\ ups[1] = v /\ DOMAIN ups = DOMAIN call.uploads
  BY <1>1
<1>3. call2 = call3
  BY <1>1 DEF Call
<1> HIDE DEF ups, call2
<1>4. /\ call3 \in Call(ups) /\ call3.uploads = ups /\ call3.member = call.member /\ call3.reply = call.reply
      /\ call3.settled = call.settled
  BY <1>1 DEF Call
<1> HIDE DEF call3
<1>5. CallOK(call3)
  BY <1>1, <1>2, <1>4 DEF CallOK
<1>6. \A k \in DOMAIN ups : UploadFits(ups[k], c)
  BY <1>1, <1>2
<1> QED BY <1>2, <1>3, <1>4, <1>5, <1>6 DEF call2

LEMMA UploadServesOn ==
  ASSUME NEW u \in Upload, NEW u1 \in Upload, NEW u2 \in Upload, NEW a \in Nat, NEW b \in Nat,
         UploadServes(u, u1, a, 0), UploadServes(u1, u2, 0, b)
  PROVE  UploadServes(u, u2, a, b)
BY DEF UploadServes, Upload

\* A call drained: what CallServed needs to know of it.
LEMMA DrainServed ==
  ASSUME CallsInv, NEW s \in DOMAIN calls, NEW h, NEW call1, CallOK(call1), call1.member = calls[s].member,
         \A k \in DOMAIN call1.uploads : UploadFits(call1.uploads[k], mine[s]),
         call1.reply = calls[s].reply,
         Under(h, s, 1, "chunk") \in Nat, Under(h, s, 0, "credit") = 0,
         Uploads(call1.member) => UploadServes(calls[s].uploads[1], call1.uploads[1], Under(h, s, 1, "chunk"), 0),
         NEW d \in Drains(call1)
  PROVE  /\ CallServed(s, calls[s], Drained(call1, d), h, DrainFrames(s, d))
         /\ Quiet(s, mine[s].member, DrainFrames(s, d))
<1> DEFINE call2 == Drained(call1, d)
           fs == DrainFrames(s, d)
<1>1. /\ CallOK(calls[s]) /\ calls[s].member = mine[s].member /\ s \in Nat
  BY CallAt
<1>2. /\ CallOK(call2) /\ call2.member = call1.member /\ call2.reply = call1.reply
      /\ \A k \in DOMAIN call2.uploads : UploadFits(call2.uploads[k], mine[s])
  BY DrainedCall
<1>3. /\ Quiet(s, call1.member, fs)
      /\ Uploads(call1.member) => UploadServes(call1.uploads[1], call2.uploads[1], 0, Under(fs, s, 1, "credit"))
  BY <1>1, DrainQuiet
<1>4. Under(fs, s, 0, "chunk") = 0 /\ Under(fs, s, 1, "credit") \in Nat
  <2> QED BY <1>3, QuietCounts, UnderNat, FramesCount DEF Quiet, FramesAbout
<1> HIDE DEF call2, fs
<1>5. Uploads(call1.member) =>
        UploadServes(calls[s].uploads[1], call2.uploads[1], Under(h, s, 1, "chunk"), Under(fs, s, 1, "credit"))
  <2> SUFFICES ASSUME Uploads(call1.member)
               PROVE  UploadServes(calls[s].uploads[1], call2.uploads[1], Under(h, s, 1, "chunk"), Under(fs, s, 1, "credit"))
    OBVIOUS
  <2> QED BY <1>3, <1>4, <1>1, <1>2, CallParts, UploadServesOn
<1> QED BY <1>1, <1>2, <1>3, <1>4, <1>5, CallParts DEF CallServed, call2, fs, Reply

\* A call drains after a frame, and goes on or is done.
LEMMA DrainAndFinishInv ==
  ASSUME CallsInv, closed = 0, todo = {}, NEW s \in DOMAIN calls, NEW h, Taken(h), highest' = highest,
         \A i \in DOMAIN h : h[i].seq = s,
         NEW call1, CallOK(call1), call1.member = calls[s].member,
         \A k \in DOMAIN call1.uploads : UploadFits(call1.uploads[k], mine[s]),
         call1.reply = calls[s].reply,
         Under(h, s, 1, "chunk") \in Nat, Under(h, s, 0, "credit") = 0,
         Uploads(call1.member) => UploadServes(calls[s].uploads[1], call1.uploads[1], Under(h, s, 1, "chunk"), 0),
         DrainAndFinish(s, call1), Sends(out')
  PROVE  CallsInv'
<1>1. PICK d \in Drains(call1) :
         /\ IF Gone(d) THEN Close(1001, DrainFrames(s, d))
            ELSE /\ Continue(Finished(s, Drained(call1, d)), DrainFrames(s, d))
                 /\ UNCHANGED todo
         /\ UNCHANGED <<highest, kept, ring>>
  BY DEF DrainAndFinish
<1> DEFINE call2 == Drained(call1, d)
           fs == DrainFrames(s, d)
<1>2. CallServed(s, calls[s], call2, h, fs) /\ Quiet(s, mine[s].member, fs)
  BY DrainServed
<1>3. out' = fs /\ kept' = kept
      /\ \/ closed' = 1001 /\ calls' = <<>> /\ todo' = {}
         \/ closed' = 0 /\ calls' = Finished(s, call2) /\ todo' = todo
  BY <1>1 DEF Close, Continue
<1> HIDE DEF call2, fs
<1>4. Became(s, h, fs)
  <2>1. CASE closed' = 1001 /\ calls' = <<>> /\ todo' = {}
    BY <2>1 DEF Became
  <2>2. CASE closed' = 0 /\ calls' = Finished(s, call2) /\ todo' = todo
    <3> QED BY <1>2, <2>2, FinishedBecomes DEF Became
  <2> QED BY <1>3, <2>1, <2>2
<1>5. FramesAbout(s, mine[s].member, fs) /\ Under(fs, s, 0, "chunk") = 0
  BY <1>2, QuietCounts DEF Quiet
<1>6. calls[s].reply.credit \in Nat
  BY CallAt, CallParts DEF Reply
<1> QED BY <1>3, <1>4, <1>5, <1>6, OneCallServed DEF Sends

LEMMA ReplaceOnly ==
  ASSUME NEW call, CallOK(call), Uploads(call.member), NEW c, NEW v \in Upload, UploadFits(v, c), NEW k, k = 1
  PROVE  LET call2 == [call EXCEPT !.uploads[k] = v] IN
         /\ CallOK(call2) /\ call2.member = call.member /\ call2.reply = call.reply
         /\ call2.settled = call.settled
         /\ \A i \in DOMAIN call2.uploads : UploadFits(call2.uploads[i], c)
         /\ call2.uploads[1] = v
<1> DEFINE ups == [call.uploads EXCEPT ![1] = v]
           call2 == [call EXCEPT !.uploads[k] = v]
           call3 == [call EXCEPT !.uploads = ups]
<1>1. /\ call \in Call(call.uploads) /\ 1 \in DOMAIN call.uploads
      /\ call.uploads \in [1..Shape[call.member].params -> Upload]
      /\ \A i \in DOMAIN call.uploads : i = 1
      /\ call.settled => Shape[call.member].kind = "command"
  BY CallParts DEF CallOK
<1>2. ups \in [1..Shape[call.member].params -> Upload] /\ ups[1] = v /\ DOMAIN ups = DOMAIN call.uploads
  BY <1>1
<1>3. call2 = call3
  BY <1>1 DEF Call
<1> HIDE DEF ups, call2
<1>4. /\ call3 \in Call(ups) /\ call3.uploads = ups /\ call3.member = call.member /\ call3.reply = call.reply
      /\ call3.settled = call.settled
  BY <1>1 DEF Call
<1> HIDE DEF call3
<1>5. CallOK(call3)
  BY <1>1, <1>2, <1>4 DEF CallOK
<1>6. \A i \in DOMAIN ups : UploadFits(ups[i], c)
  BY <1>1, <1>2
<1> QED BY <1>2, <1>3, <1>4, <1>5, <1>6 DEF call2

\* The session takes the message f.
Receives(f) ==
  /\ toServer # <<>> /\ f = Head(toServer) /\ toServer' = Tail(toServer)
  /\ closed = 0 /\ todo = {} /\ Sends(out')

LEMMA ReceivesTaken ==
  ASSUME NEW f, Receives(f), f.form # "request", highest' = highest
  PROVE  Taken(<<f>>) /\ \A i \in DOMAIN <<f>> : <<f>>[i].seq = f.seq
<1>2. DOMAIN <<f>> = {1} /\ <<f>>[1] = f
  OBVIOUS
<1> QED BY <1>2 DEF Receives, Taken

\* A message that the session takes no notice of.
LEMMA IgnoredInv ==
  ASSUME CallsInv, NEW f, Receives(f), f.form # "request", calls' = calls, out' = <<>>, closed' = closed,
         UNCHANGED <<highest, kept, todo>>,
         f.seq \in DOMAIN calls =>
           /\ Uploads(mine[f.seq].member) => Amount(f, f.seq, 1, "chunk") = 0
                \/ calls[f.seq].uploads[1].state # "open" \/ calls[f.seq].uploads[1].ended
           /\ Streamed(mine[f.seq].member) => Amount(f, f.seq, 0, "credit") = 0
  PROVE  CallsInv'
<1> DEFINE s == f.seq
<1>1. Taken(<<f>>) /\ (\A i \in DOMAIN <<f>> : <<f>>[i].seq = s) /\ Sends(<<>>) /\ closed = 0
  BY ReceivesTaken DEF Receives
<1>2. /\ s \in DOMAIN mine /\ s \in Nat /\ s <= highest /\ highest \in Nat
      /\ \A t, k, form : Under(<<f>>, t, k, form) = Amount(f, t, k, form)
  BY HeadAsked DEF Receives
<1>3. \A t, k, form : Under(<<>>, t, k, form) = 0
  BY NoneCount
<1>4. CASE s \in DOMAIN calls
  <2>1. /\ CallOK(calls[s]) /\ calls[s].member = mine[s].member
        /\ \A k \in DOMAIN calls[s].uploads : UploadFits(calls[s].uploads[k], mine[s])
    BY <1>4, CallAt
  <2>2. calls[s].reply.credit \in Nat /\ (Uploads(calls[s].member) => calls[s].uploads[1].credit \in Nat)
    BY <2>1, CallParts DEF Reply, Upload
  <2>5. closed' = 0 /\ todo' \subseteq todo
    BY <1>1
  <2>6. Became(s, <<f>>, <<>>)
    BY <1>2, <1>3, <1>4, <2>1, <2>2, <2>5 DEF Became, CallServed, UploadServes
  <2> DEFINE h == <<f>>
             fs == <<>>
  <2>8. DOMAIN kept' \subseteq DOMAIN kept \cup {s} /\ Under(fs, s, 0, "chunk") <= calls[s].reply.credit
    BY <1>3, <2>2
  <2> HIDE DEF h, fs, s
  <2> QED BY <1>1, <1>4, <2>6, NoneAbout, <2>8, OneCallServed DEF h, fs, s, Quiet
<1>5. CASE s \notin DOMAIN calls
  <2>1. SessionFits'
    BY DEF CallsInv, SessionFits, CallOK, Call, UploadFits, Sends, Receives
  <2>3. ASSUME NEW t \in There'
        PROVE  UploadServed(t, <<f>>, <<>>) /\ ReplyServed(t, <<f>>, <<>>)
    <3>1. t # s
      <4> QED BY <2>3, <1>2, <1>5 DEF There
    <3>3. \A k, form : Under(<<f>>, t, k, form) = 0
      BY <1>2, <3>1, AmountOther
    <3> QED BY <1>3, <3>3 DEF UploadServed, ReplyServed, UploadOf, ReplyOf
  <2>4. \A t \in DOMAIN mine : ChunksServed(t, <<>>)
    BY <1>3, ReplyOfTyped DEF ChunksServed, Reply
  <2>5. <<>> \in Seq(ServerFrame) /\ DOMAIN <<>> = {}
    OBVIOUS
  <2>6. Served(<<f>>, <<>>)
    BY <1>1, <2>1, <2>3, <2>4, <2>5 DEF Served, Receives, Sends
  <2> QED BY <2>6, ServedInv
<1> QED BY <1>4, <1>5

\* A call leaves the table, or its upload is stopped.
LEMMA DroppedInv ==
  ASSUME CallsInv, closed = 0, NEW s \in DOMAIN calls, NEW h, Taken(h), highest' = highest,
         \A i \in DOMAIN h : h[i].seq = s, NEW fs, FramesAbout(s, mine[s].member, fs), Sends(fs),
         Streamed(mine[s].member) => Under(fs, s, 0, "chunk") <= calls[s].reply.credit,
         DOMAIN kept' \subseteq DOMAIN kept \cup {s},
         \/ closed' \in {1001, 1008} /\ calls' = <<>> /\ todo' = {}
         \/ closed' = 0 /\ calls' = Without(calls, {s}) /\ todo' \subseteq todo \ {s}
  PROVE  CallsInv'
<1>1. Became(s, h, fs)
  BY DEF Became
<1> QED BY <1>1, OneCallServed

\* The session stops an upload.
LEMMA StoppedInv ==
  ASSUME CallsInv, NEW f, Receives(f), f.form \in {"chunk", "end"}, f.seq \in DOMAIN calls, f.stream = 1,
         Uploads(mine[f.seq].member), NEW fs \in {<<>>, <<EndOut(f.seq, 1, 1, "interrupted")>>},
         NEW k, k = 1,
         Continue(Finished(f.seq, [calls[f.seq] EXCEPT !.uploads[k] = Stopped(calls[f.seq].uploads[k])]), fs),
         UNCHANGED <<highest, kept, ring, todo>>
  PROVE  CallsInv'
<1> DEFINE s == f.seq
           call == calls[s]
           u == call.uploads[1]
           v == Stopped(u)
           call2 == [call EXCEPT !.uploads[k] = v]
<1>1. Taken(<<f>>) /\ (\A i \in DOMAIN <<f>> : <<f>>[i].seq = s) /\ closed = 0 /\ todo = {}
  BY ReceivesTaken DEF Receives
<1>2. /\ CallOK(call) /\ call.member = mine[s].member /\ s \in Nat
      /\ \A i \in DOMAIN call.uploads : UploadFits(call.uploads[i], mine[s])
  BY CallAt
<1>3. u \in Upload /\ UploadFits(u, mine[s]) /\ call.reply.credit \in Nat
  BY <1>2, CallParts DEF Reply
<1>4. v \in Upload /\ UploadFits(v, mine[s]) /\ v.state = "stopped"
  <2>1. /\ v = [u EXCEPT !.state = "stopped", !.queued = 0] /\ u \in Upload
    BY <1>3 DEF Stopped
  <2> HIDE DEF u, v
  <2>2. v \in Upload /\ v.state = "stopped" /\ v.queued = 0 /\ v.ended = u.ended /\ v.seqIn = u.seqIn
    BY <2>1 DEF Upload
  <2>4. UploadFits(v, mine[s])
    BY <1>3, <2>2, WsServerAssumption DEF UploadFits
  <2> QED BY <2>2, <2>4
<1>6. calls' = Finished(s, call2) /\ out' = fs /\ closed' = 0
  BY <1>1 DEF Continue
<1> HIDE DEF u, v
<1>7. /\ CallOK(call2) /\ call2.member = call.member /\ call2.reply = call.reply
      /\ \A i \in DOMAIN call2.uploads : UploadFits(call2.uploads[i], mine[s])
      /\ call2.uploads[1] = v
  BY <1>2, <1>4, ReplaceOnly
<1>8. /\ \A t, i, form : Under(<<f>>, t, i, form) = Amount(f, t, i, form)
      /\ Amount(f, s, 0, "credit") = 0
  BY HeadAsked DEF Receives, Amount
<1>9. Quiet(s, mine[s].member, fs)
  <2> DEFINE e == EndOut(s, 1, 1, "interrupted")
  <2>1. e \in ServerFrame /\ e.form # "chunk" /\ FrameAbout(s, mine[s].member, e)
    BY <1>2 DEF EndOut, ServerFrame, FrameAbout, ToldFits
  <2> HIDE DEF e
  <2>2. Quiet(s, mine[s].member, <<e>>) /\ Quiet(s, mine[s].member, <<>>)
    BY <2>1, OneAbout, NoneAbout
  <2> QED BY <2>2 DEF e
<1>10. FramesAbout(s, mine[s].member, fs) /\ Under(fs, s, 0, "chunk") = 0 /\ Sends(fs)
  BY <1>6, <1>9, QuietCounts DEF Quiet, Sends, Receives
<1> DEFINE h == <<f>>
<1> HIDE DEF call2
<1>11. CallServed(s, call, call2, h, fs)
  BY <1>3, <1>4, <1>7, <1>8, <1>10 DEF CallServed, UploadServes
<1>12. Became(s, h, fs)
  <2>1. todo' = {} /\ todo' \subseteq todo /\ todo' \subseteq todo \ {s}
    BY <1>1
  <2> QED BY FinishedBecomes, <1>6, <1>11, <2>1 DEF Became
<1>14. Taken(h) /\ (\A i \in DOMAIN h : h[i].seq = s) /\ DOMAIN kept' \subseteq DOMAIN kept \cup {s}
  BY <1>1
<1> HIDE DEF h
<1> QED BY <1>1, <1>10, <1>12, <1>3, <1>14, OneCallServed

\* A chunk or an end at the head, about a call in flight.
LEMMA HeadNamed ==
  ASSUME CallsInv, NEW f, Receives(f), f.seq \in DOMAIN calls, f.form \in {"chunk", "end"}, f.stream = 1
  PROVE  /\ Named(f) /\ Uploads(mine[f.seq].member) /\ f.stream \in DOMAIN calls[f.seq].uploads
         /\ calls[f.seq].uploads[f.stream] \in Upload
         /\ UploadFits(calls[f.seq].uploads[f.stream], mine[f.seq])
         /\ f.n \in Nat /\ (f.form = "chunk" => ~f.big)
<1>1. f \in ClientFrame /\ AskFits(f)
  BY HeadAsked DEF Receives
<1>2. CallOK(calls[f.seq]) /\ calls[f.seq].member = mine[f.seq].member
      /\ \A k \in DOMAIN calls[f.seq].uploads : UploadFits(calls[f.seq].uploads[k], mine[f.seq])
  BY CallAt
<1>3. Uploads(f.member) /\ f.member = mine[f.seq].member
  BY <1>1 DEF AskFits
<1>5. f.n \in Nat /\ (f.form = "chunk" => ~f.big)
  BY <1>1 DEF ClientFrame
<1> QED BY <1>2, <1>3, CallParts, <1>5 DEF Named

\* A chunk queued.
LEMMA QueuedUpload ==
  ASSUME NEW u \in Upload, NEW n \in Nat, u.credit > 0, u.state = "open", ~u.ended
  PROVE  LET v == [u EXCEPT !.seqIn = n, !.credit = @ - 1, !.queued = @ + 1, !.idle = 0] IN
         /\ v \in Upload /\ v.state = "open" /\ ~v.ended /\ v.credit = u.credit - 1 /\ v.queued = u.queued + 1
         /\ u.credit \in Nat /\ u.queued \in Nat
<1>1. u.credit \in Nat /\ u.queued \in Nat /\ u.credit - 1 \in Nat /\ u.queued + 1 \in Nat
  BY DEF Upload
<1>2. PICK a, b : a = u.credit - 1 /\ b = u.queued + 1 /\ a \in Nat /\ b \in Nat
  BY <1>1
<1>4. LET v == [u EXCEPT !.seqIn = n, !.credit = a, !.queued = b, !.idle = 0] IN
      /\ v \in Upload /\ v.state = "open" /\ v.ended = u.ended /\ v.credit = a /\ v.queued = b
  BY <1>2 DEF Upload
<1> QED BY <1>1, <1>2, <1>4

\* The session receives a chunk.
LEMMA ReceiveChunkInv ==
  ASSUME CallsInv, NEW f, Receives(f), ReceiveChunk(f)
  PROVE  CallsInv'
<1> DEFINE s == f.seq
           u == calls[s].uploads[f.stream]
<1>1. /\ f.form = "chunk" /\ f.stream = 1 /\ closed = 0 /\ todo = {}
      /\ f \in ClientFrame /\ s \in DOMAIN mine /\ Uploads(f.member) /\ f.member = mine[s].member
      /\ \A t, i, form : Under(<<f>>, t, i, form) = Amount(f, t, i, form)
      /\ Amount(f, s, 1, "chunk") <= Under(toServer, s, 1, "chunk") /\ Under(toServer, s, 1, "chunk") \in Nat
  <2>1. f \in ClientFrame /\ f.form = "chunk" /\ AskFits(f)
    BY HeadAsked DEF Receives, ReceiveChunk
  <2>2. f.stream = 1
    BY <2>1 DEF ClientFrame
  <2> QED BY <2>1, <2>2, HeadAsked DEF Receives, AskFits
<1>2. Amount(f, s, 1, "chunk") = 1 /\ \A t : Amount(f, t, 0, "credit") = 0
  BY <1>1 DEF Amount
<1>3. CASE s \notin DOMAIN calls
  <2>1. Ignore
    BY <1>1, <1>3 DEF ReceiveChunk, Named
  <2> QED BY <1>1, <1>3, <2>1, IgnoredInv DEF Ignore, Continue
<1>4. CASE s \in DOMAIN calls
  <2>1. /\ Named(f) /\ Uploads(mine[s].member) /\ f.stream \in DOMAIN calls[s].uploads
        /\ u \in Upload /\ UploadFits(u, mine[s]) /\ f.n \in Nat /\ ~f.big
    BY <1>1, <1>4, HeadNamed
  <2>2. CASE (u.state # "open" \/ u.ended) /\ Ignore
    BY <1>1, <1>2, <2>2, IgnoredInv DEF Ignore, Continue
  <2>3. ~(u.state = "open" /\ ~u.ended /\ u.credit = 0)
    <3>1. s \in There /\ UploadOf(s) = u
      BY <1>1, <1>4 DEF There, UploadOf
    <3> QED BY <1>1, <1>2, <2>1, <3>1 DEF UploadCounted, CallsInv, Counted
  <2>4. CASE /\ f.n # u.seqIn + 1
             /\ Continue(Finished(s, [calls[s] EXCEPT !.uploads[f.stream] = Stopped(u)]),
                         <<EndOut(s, f.stream, 1, "interrupted")>>)
             /\ UNCHANGED <<highest, kept, ring, todo>>
    <3> DEFINE fs == <<EndOut(s, 1, 1, "interrupted")>>
    <3>1. fs \in {<<>>, <<EndOut(s, 1, 1, "interrupted")>>}
      OBVIOUS
    <3>2. Continue(Finished(s, [calls[s] EXCEPT !.uploads[f.stream] = Stopped(calls[s].uploads[f.stream])]), fs)
      BY <1>1, <2>4
    <3>3. UNCHANGED <<highest, kept, ring, todo>>
      BY <2>4
    <3> HIDE DEF fs, u
    <3> QED BY <1>1, <1>4, <2>1, <3>1, <3>2, <3>3, StoppedInv
  <2>5. CASE /\ u.state = "open" /\ ~u.ended /\ u.credit > 0
             /\ f.n = u.seqIn + 1
             /\ DrainAndFinish(s, [calls[s] EXCEPT !.uploads[f.stream] =
                     [u EXCEPT !.seqIn = f.n, !.credit = @ - 1, !.queued = @ + 1, !.idle = 0]])
    <3> DEFINE v == [u EXCEPT !.seqIn = f.n, !.credit = @ - 1, !.queued = @ + 1, !.idle = 0]
               call1 == [calls[s] EXCEPT !.uploads[f.stream] = v]
    <3>1. /\ v \in Upload /\ v.state = "open" /\ ~v.ended /\ v.credit = u.credit - 1 /\ v.queued = u.queued + 1
          /\ u.credit \in Nat /\ u.queued \in Nat
      <4> HIDE DEF u
      <4> QED BY <2>1, <2>5, QueuedUpload
    <3>2. UploadFits(v, mine[s])
      <4> HIDE DEF u, v
      <4> QED BY <2>1, <2>5, <3>1, WsServerAssumption DEF UploadFits
    <3>3. UploadServes(u, v, 1, 0)
      <4> HIDE DEF u, v
      <4> QED BY <2>5, <3>1 DEF UploadServes
    <3> HIDE DEF v
    <3>4. CallOK(calls[s]) /\ calls[s].member = mine[s].member
      BY <1>4, CallAt
    <3>5. /\ CallOK(call1) /\ call1.member = calls[s].member /\ call1.reply = calls[s].reply
          /\ \A k \in DOMAIN call1.uploads : UploadFits(call1.uploads[k], mine[s])
          /\ call1.uploads[1] = v
      BY <1>1, <2>1, <3>1, <3>2, <3>4, ReplaceOnly
    <3> DEFINE h == <<f>>
    <3>6. /\ Taken(h) /\ highest' = highest /\ (\A i \in DOMAIN h : h[i].seq = s) /\ Sends(out')
      <4> QED BY <1>1, <2>5, ReceivesTaken DEF Receives, DrainAndFinish
    <3>7. Under(h, s, 1, "chunk") = 1 /\ Under(h, s, 0, "credit") = 0
      BY <1>1, <1>2
    <3>8. DrainAndFinish(s, call1)
      BY <2>5 DEF v
    <3>9. UploadServes(calls[s].uploads[1], call1.uploads[1], Under(h, s, 1, "chunk"), 0)
      BY <1>1, <3>3, <3>5, <3>7
    <3>10. 1 \in Nat
      OBVIOUS
    <3> HIDE DEF h, call1, u
    <3> QED BY <1>1, <1>4, <3>5, <3>6, <3>7, <3>8, <3>9, <3>10, DrainAndFinishInv
  <2> QED BY <1>1, <1>4, <2>1, <2>2, <2>3, <2>4, <2>5 DEF ReceiveChunk
<1> QED BY <1>3, <1>4

\* An upload that its client has ended.
LEMMA WholeUpload ==
  ASSUME NEW u \in Upload, NEW n \in Nat, u.state = "open", NEW c, UploadFits(u, c), c.closed, n = c.sent + 1
  PROVE  LET v == [u EXCEPT !.seqIn = n, !.ended = TRUE, !.idle = 0] IN
         /\ v \in Upload /\ v.ended /\ UploadFits(v, c)
<1> DEFINE v == [u EXCEPT !.seqIn = n, !.ended = TRUE, !.idle = 0]
<1>1. v \in Upload /\ v.ended /\ v.seqIn = n /\ v.state = "open" /\ v.credit = u.credit /\ v.queued = u.queued
  BY DEF Upload
<1> HIDE DEF v
<1> QED BY <1>1 DEF v, UploadFits

Replaced(call, v, a, b) == [call EXCEPT !.uploads[1] = v, !.age = a, !.since = b]
LEMMA ReplaceUploadBy ==
  ASSUME NEW call, CallOK(call), Uploads(call.member), NEW c, NEW v \in Upload, UploadFits(v, c),
         NEW a \in Nat, NEW b \in Nat, NEW call1, call1 = Replaced(call, v, a, b)
  PROVE  /\ CallOK(call1) /\ call1.member = call.member /\ call1.reply = call.reply
         /\ \A k \in DOMAIN call1.uploads : UploadFits(call1.uploads[k], c)
         /\ call1.uploads[1] = v
<1> DEFINE ups == [call.uploads EXCEPT ![1] = v]
           call3 == [call EXCEPT !.uploads = ups, !.age = a, !.since = b]
<1>1. /\ call \in Call(call.uploads) /\ 1 \in DOMAIN call.uploads
      /\ call.uploads \in [1..Shape[call.member].params -> Upload]
      /\ \A k \in DOMAIN call.uploads : k = 1
      /\ call.settled => Shape[call.member].kind = "command"
  BY CallParts DEF CallOK
<1>2. ups \in [1..Shape[call.member].params -> Upload] /\ ups[1] = v /\ DOMAIN ups = DOMAIN call.uploads
  BY <1>1
<1>3. call1 = call3
  BY <1>1 DEF Call, Replaced
<1> HIDE DEF ups
<1>4. /\ call3 \in Call(ups) /\ call3.uploads = ups /\ call3.member = call.member /\ call3.reply = call.reply
      /\ call3.settled = call.settled
  BY <1>1 DEF Call
<1> HIDE DEF call3
<1>5. CallOK(call3)
  BY <1>1, <1>2, <1>4 DEF CallOK
<1>6. \A k \in DOMAIN ups : UploadFits(ups[k], c)
  BY <1>1, <1>2
<1> QED BY <1>2, <1>3, <1>4, <1>5, <1>6

\* The session receives the end of an upload.
LEMMA EndUploadInv ==
  ASSUME CallsInv, NEW f, Receives(f), EndUpload(f)
  PROVE  CallsInv'
<1> DEFINE s == f.seq
           u == calls[s].uploads[f.stream]
           plain == Shape[calls[s].member].kind = "query" /\ ~Shape[calls[s].member].reply
           Accepting == Named(f) /\ f.stream \in DOMAIN calls[s].uploads /\ u.state = "open" /\ ~u.ended
           Ended(lag) == [calls[s] EXCEPT !.uploads[f.stream] = [u EXCEPT !.seqIn = f.n, !.ended = TRUE, !.idle = 0],
                                          !.age = IF plain THEN 0 ELSE @,
                                          !.since = IF plain /\ Shape[calls[s].member].bounded THEN lag ELSE @]
<1>1. /\ f.form = "end" /\ f.stream = 1 /\ closed = 0 /\ todo = {}
      /\ f \in ClientFrame /\ s \in DOMAIN mine /\ Uploads(f.member) /\ f.member = mine[s].member
      /\ f.outcome \in {"end", "interrupted"} /\ f.n = mine[s].sent + 1
      /\ f.outcome = "end" => mine[s].closed
      /\ \A t, i, form : Under(<<f>>, t, i, form) = Amount(f, t, i, form)
  <2>1. f \in ClientFrame /\ f.form = "end" /\ AskFits(f) /\ f.stream # 0
    BY HeadAsked DEF Receives, EndUpload
  <2>2. f.stream = 1 /\ f.outcome \in {"end", "interrupted"}
    BY <2>1 DEF ClientFrame
  <2> QED BY <2>1, <2>2, HeadAsked DEF Receives, AskFits
<1>2. \A t, k : Amount(f, t, k, "chunk") = 0 /\ Amount(f, t, k, "credit") = 0
  BY <1>1 DEF Amount
<1>3. CASE ~Accepting /\ Ignore
  BY <1>1, <1>2, <1>3, IgnoredInv DEF Ignore, Continue
<1>4. CASE Accepting
  <2>1. /\ s \in DOMAIN calls
        /\ Named(f) /\ Uploads(mine[s].member) /\ f.stream \in DOMAIN calls[s].uploads
        /\ u \in Upload /\ UploadFits(u, mine[s]) /\ f.n \in Nat /\ u.state = "open"
    BY <1>1, <1>4, HeadNamed DEF Named
  <2>2. CASE /\ Continue(Finished(s, [calls[s] EXCEPT !.uploads[f.stream] = Stopped(u)]),
                         IF f.n # u.seqIn + 1
                         THEN <<EndOut(s, f.stream, 1, "interrupted")>> ELSE <<>>)
             /\ UNCHANGED <<highest, kept, ring, todo>>
    <3>1. PICK fs : fs = IF f.n # u.seqIn + 1 THEN <<EndOut(s, 1, 1, "interrupted")>> ELSE <<>>
      OBVIOUS
    <3>3. Continue(Finished(s, [calls[s] EXCEPT !.uploads[f.stream] = Stopped(calls[s].uploads[f.stream])]), fs)
      BY <1>1, <2>2, <3>1
    <3>4. UNCHANGED <<highest, kept, ring, todo>>
      BY <2>2
    <3> HIDE DEF u
    <3> QED BY <1>1, <2>1, <3>1, <3>3, <3>4, StoppedInv
  <2>3. CASE f.outcome = "end" /\ \E lag \in Lags : DrainAndFinish(s, Ended(lag))
    <3>1. PICK lag \in Lags : DrainAndFinish(s, Ended(lag))
      BY <2>3
    <3> DEFINE v == [u EXCEPT !.seqIn = f.n, !.ended = TRUE, !.idle = 0]
    <3>2. v \in Upload /\ v.ended /\ UploadFits(v, mine[s])
      <4> HIDE DEF u
      <4> QED BY <1>1, <2>1, <2>3, WholeUpload
    <3> HIDE DEF v
    <3>3. CallOK(calls[s]) /\ calls[s].member = mine[s].member
          /\ calls[s].age \in Nat /\ calls[s].since \in Nat /\ lag \in Nat
      <4>1. CallOK(calls[s]) /\ calls[s].member = mine[s].member
        BY <2>1, CallAt
      <4> QED BY <4>1, WsServerAssumption DEF CallOK, Call
    <3>4. PICK a, b : /\ a = (IF plain THEN 0 ELSE calls[s].age)
                      /\ b = (IF plain /\ Shape[calls[s].member].bounded THEN lag ELSE calls[s].since)
      OBVIOUS
    <3> DEFINE call1 == [calls[s] EXCEPT !.uploads[1] = v, !.age = a, !.since = b]
    <3>6. DrainAndFinish(s, call1)
      BY <1>1, <3>1, <3>4 DEF v
    <3>7. /\ CallOK(call1) /\ call1.member = calls[s].member /\ call1.reply = calls[s].reply
          /\ \A k \in DOMAIN call1.uploads : UploadFits(call1.uploads[k], mine[s])
          /\ call1.uploads[1] = v
      <4>1. PICK call0, c0 : call0 = calls[s] /\ c0 = mine[s]
        OBVIOUS
      <4>2. CallOK(call0) /\ Uploads(call0.member) /\ v \in Upload /\ UploadFits(v, c0)
        BY <2>1, <3>2, <3>3, <4>1
      <4>3. call1 = Replaced(call0, v, a, b)
        BY <4>1 DEF Replaced
      <4>5. PICK w, x : w = v /\ x = call1
        OBVIOUS
      <4>6. /\ CallOK(call0) /\ Uploads(call0.member) /\ w \in Upload /\ UploadFits(w, c0)
            /\ a \in Nat /\ b \in Nat /\ x = Replaced(call0, w, a, b)
        BY <3>3, <3>4, <4>2, <4>3, <4>5
      <4> HIDE DEF call1
      <4>4. /\ CallOK(call1) /\ call1.member = call0.member /\ call1.reply = call0.reply
            /\ \A k \in DOMAIN call1.uploads : UploadFits(call1.uploads[k], c0)
            /\ call1.uploads[1] = v
        BY <4>5, <4>6, ReplaceUploadBy
      <4> QED BY <4>1, <4>4
    <3> DEFINE h == <<f>>
    <3>8. /\ Taken(h) /\ highest' = highest /\ (\A i \in DOMAIN h : h[i].seq = s) /\ Sends(out')
      <4> QED BY <1>1, <3>1, ReceivesTaken DEF Receives, DrainAndFinish
    <3>9. Under(h, s, 1, "chunk") = 0 /\ Under(h, s, 0, "credit") = 0 /\ Under(h, s, 1, "chunk") \in Nat
      BY <1>1, <1>2
    <3>10. UploadServes(calls[s].uploads[1], call1.uploads[1], Under(h, s, 1, "chunk"), 0)
      BY <3>2, <3>7 DEF UploadServes
    <3> HIDE DEF h, call1, u
    <3> QED BY <1>1, <2>1, <3>6, <3>7, <3>8, <3>9, <3>10, DrainAndFinishInv
  <2> QED BY <1>1, <1>4, <2>2, <2>3 DEF EndUpload
<1> QED BY <1>1, <1>3, <1>4 DEF EndUpload

\* The session is told to stop a call.
LEMMA StopStreamInv ==
  ASSUME CallsInv, NEW f, Receives(f), StopStream(f)
  PROVE  CallsInv'
<1> DEFINE s == f.seq
<1>1. /\ f.form = "end" /\ f.stream = 0 /\ closed = 0 /\ todo = {}
      /\ f \in ClientFrame /\ s \in DOMAIN mine /\ f.member = mine[s].member /\ f.outcome = "interrupted"
      /\ \A t, i, form : Under(<<f>>, t, i, form) = Amount(f, t, i, form)
  BY HeadAsked DEF Receives, AskFits, StopStream
<1>3. CASE Ignore
  BY <1>1, <1>3, IgnoredInv DEF Ignore, Continue, Amount
<1>4. CASE /\ Named(f)
           /\ KeepStreamEnd(kept, s, calls[s].member, calls[s].since, Without(calls, {s}),
                            InterruptFrames(s, calls[s]))
           /\ UNCHANGED <<highest, todo>>
  <2>1. s \in DOMAIN calls
    BY <1>4 DEF Named
  <2>2. CallOK(calls[s]) /\ calls[s].member = mine[s].member /\ s \in Nat
    BY <2>1, CallAt
  <2>3. PICK fs : fs = InterruptFrames(s, calls[s])
    OBVIOUS
  <2>5. /\ DOMAIN kept' \subseteq DOMAIN kept \cup {s} /\ out' = fs
        /\ \/ closed' = 1008 /\ calls' = <<>> /\ todo' = {}
           \/ calls' = Without(calls, {s}) /\ closed' = closed
    BY <1>4, <2>3, ConcludeParts DEF KeepStreamEnd
  <2>6. FramesAbout(s, mine[s].member, fs) /\ Under(fs, s, 0, "chunk") = 0 /\ Sends(fs)
    BY <2>2, <2>3, InterruptQuiet, <2>5, QuietCounts DEF Quiet, Receives
  <2>9. \/ closed' \in {1001, 1008} /\ calls' = <<>> /\ todo' = {}
        \/ closed' = 0 /\ calls' = Without(calls, {s}) /\ todo' \subseteq todo \ {s}
    BY <1>1, <1>4, <2>5
  <2> DEFINE h == <<f>>
  <2>10. Taken(h) /\ highest' = highest /\ (\A i \in DOMAIN h : h[i].seq = s)
    BY <1>1, <1>4, ReceivesTaken DEF Receives
  <2>11. Streamed(mine[s].member) => Under(fs, s, 0, "chunk") <= calls[s].reply.credit
    BY <2>6, <2>2, CallParts DEF Reply
  <2>12. closed = 0 /\ DOMAIN kept' \subseteq DOMAIN kept \cup {s}
    BY <1>1, <2>5
  <2> HIDE DEF h, s
  <2> QED BY <2>1, <2>6, <2>9, <2>10, <2>11, <2>12, DroppedInv
<1> QED BY <1>1, <1>3, <1>4 DEF StopStream

LEMMA GrantedCall ==
  ASSUME NEW call, CallOK(call), NEW n \in Nat, NEW call2, call2 = [call EXCEPT !.reply = Granted(@, n)]
  PROVE  /\ CallOK(call2) /\ call2.member = call.member /\ call2.uploads = call.uploads
         /\ call2.reply.credit = call.reply.credit + n /\ call.reply.credit \in Nat
<1>1. call \in Call(call.uploads) /\ call.reply \in Reply
  BY CallParts
<1>2. PICK r : r = Granted(call.reply, n)
  OBVIOUS
<1>3. r \in Reply /\ r.credit = call.reply.credit + n /\ call.reply.credit \in Nat
  <2>1. call.reply.credit \in Nat /\ call.reply.credit + n \in Nat
    BY <1>1 DEF Reply
  <2>2. PICK a : a = call.reply.credit + n
    OBVIOUS
  <2>4. r \in Reply /\ r.credit = a
    BY <1>1, <2>1, <2>2, <1>2 DEF Reply, Granted
  <2> QED BY <2>1, <2>2, <2>4
<1>5. /\ call2 \in Call(call.uploads) /\ call2.uploads = call.uploads /\ call2.member = call.member
      /\ call2.settled = call.settled /\ call2.reply = r
  BY <1>1, <1>3, <1>2 DEF Call
<1> QED BY <1>3, <1>5 DEF CallOK

\* The session is granted credit for a reply.
LEMMA GrantInv ==
  ASSUME CallsInv, NEW f, Receives(f), Grant(f)
  PROVE  CallsInv'
<1> DEFINE s == f.seq
<1>1. /\ f.form = "credit" /\ f.stream = 0 /\ f.credit \in Nat /\ closed = 0 /\ todo = {} /\ f \in ClientFrame
      /\ s \in DOMAIN mine /\ f.member = mine[s].member
      /\ \A t, i, form : Under(<<f>>, t, i, form) = Amount(f, t, i, form)
  <2>1. f \in ClientFrame /\ f.form = "credit" /\ AskFits(f)
    BY HeadAsked DEF Receives, Grant
  <2>2. f.stream = 0 /\ f.credit \in Nat
    BY <2>1 DEF ClientFrame
  <2> QED BY <2>1, <2>2, HeadAsked DEF Receives, AskFits
<1>2. /\ \A t, k : Amount(f, t, k, "chunk") = 0
      /\ Amount(f, s, 0, "credit") = f.credit
  BY <1>1 DEF Amount
<1>3. /\ out' = <<>> /\ closed' = closed /\ UNCHANGED <<highest, kept, todo>>
      /\ calls' = IF Named(f) /\ f.stream = 0 /\ Streamed(f.member)
                  THEN [calls EXCEPT ![s].reply = Granted(@, f.credit)] ELSE calls
  BY DEF Grant, Continue
<1>4. CASE ~(Named(f) /\ Streamed(f.member))
  <2>2. s \in DOMAIN calls => ~Streamed(mine[s].member)
    BY <1>1, <1>4, CallAt DEF Named
  <2> QED BY <1>1, <1>2, <1>3, <1>4, <2>2, IgnoredInv
<1>5. CASE Named(f) /\ Streamed(f.member)
  <2>1. s \in DOMAIN calls
    BY <1>5 DEF Named
  <2>2. /\ CallOK(calls[s]) /\ calls[s].member = mine[s].member
        /\ \A k \in DOMAIN calls[s].uploads : UploadFits(calls[s].uploads[k], mine[s])
    BY <2>1, CallAt
  <2>3. PICK call2 : call2 = [calls[s] EXCEPT !.reply = Granted(@, f.credit)]
    OBVIOUS
  <2>5. /\ CallOK(call2) /\ call2.member = calls[s].member /\ call2.uploads = calls[s].uploads
        /\ call2.reply.credit = calls[s].reply.credit + f.credit /\ calls[s].reply.credit \in Nat
    <3>1. PICK call, n : call = calls[s] /\ n = f.credit
      OBVIOUS
    <3>2. CallOK(call) /\ n \in Nat /\ call2 = [call EXCEPT !.reply = Granted(@, n)]
      BY <1>1, <2>2, <2>3, <3>1
    <3>3. /\ CallOK(call2) /\ call2.member = call.member /\ call2.uploads = call.uploads
          /\ call2.reply.credit = call.reply.credit + n /\ call.reply.credit \in Nat
      BY <3>2, GrantedCall
    <3> QED BY <3>1, <3>3
  <2> DEFINE h == <<f>>
             fs == <<>>
  <2>7. Under(h, s, 1, "chunk") = 0 /\ Under(h, s, 0, "credit") = f.credit
        /\ Under(fs, s, 1, "credit") = 0 /\ Under(fs, s, 0, "chunk") = 0
    BY <1>1, <1>2, NoneCount
  <2>8. Taken(h) /\ highest' = highest /\ (\A i \in DOMAIN h : h[i].seq = s) /\ Sends(fs)
    BY <1>1, <1>3, ReceivesTaken DEF Receives
  <2>9. FramesAbout(s, mine[s].member, fs)
    BY NoneAbout DEF Quiet
  <2> HIDE DEF h, fs
  <2>10. CallServed(s, calls[s], call2, h, fs)
    BY <1>1, <2>2, <2>5, CallParts, <2>7 DEF CallServed, UploadServes, Upload
  <2>11. Became(s, h, fs)
    BY <1>1, <1>3, <1>5, <2>1, <2>3, <2>10 DEF Became
  <2>12. Streamed(mine[s].member) => Under(fs, s, 0, "chunk") <= calls[s].reply.credit
    BY <2>5, <2>7
  <2>13. closed = 0 /\ DOMAIN kept' \subseteq DOMAIN kept \cup {s}
    BY <1>1, <1>3
  <2> HIDE DEF s
  <2> QED BY <2>1, <2>8, <2>9, <2>11, <2>12, <2>13, OneCallServed
<1> QED BY <1>4, <1>5

Opened(s, m, lag) == [x \in DOMAIN calls \cup {s} |-> IF x = s THEN NewCall(m, lag) ELSE calls[x]]

\* A new call.
LEMMA NewCallFits ==
  ASSUME NEW m \in Members, NEW lag \in Lags, NEW c
  PROVE  LET call == NewCall(m, lag) IN
         /\ CallOK(call) /\ call.member = m /\ call.reply = NewReply
         /\ \A k \in DOMAIN call.uploads : call.uploads[k] = NewUpload /\ UploadFits(call.uploads[k], c)
         /\ Uploads(m) => call.uploads[1] = NewUpload
<1>1. InitialCredit \in Nat /\ lag \in Nat /\ Shape[m].params \in Nat
  BY WsServerAssumption
<1>2. NewUpload \in Upload /\ UploadFits(NewUpload, c)
  BY <1>1 DEF NewUpload, Upload, UploadFits
<1>4. PICK n : n = IF Shape[m].bounded THEN lag ELSE 0
  OBVIOUS
<1> DEFINE ups == [k \in 1..Shape[m].params |-> NewUpload]
           call == [member |-> m, settled |-> FALSE, age |-> 0, since |-> n, uploads |-> ups, reply |-> NewReply]
<1>5. ups \in [1..Shape[m].params -> Upload] /\ DOMAIN ups = 1..Shape[m].params /\ \A k \in DOMAIN ups : ups[k] = NewUpload
  BY <1>2
<1>7. NewCall(m, lag) = call /\ n \in Nat
  BY <1>1, <1>4 DEF NewCall
<1> HIDE DEF ups
<1>8. call \in Call(ups) /\ call.uploads = ups /\ call.member = m /\ call.reply = NewReply /\ ~call.settled
  BY <1>1, <1>7 DEF Call, NewReply, Reply
<1> HIDE DEF call
<1>9. CallOK(call)
  BY <1>5, <1>8 DEF CallOK
<1> QED BY <1>2, <1>5, <1>1, <1>7, <1>8, <1>9 DEF Uploads

LEMMA RequestServed ==
  ASSUME CallsInv, NEW f, Receives(f), f.form = "request", highest' = f.seq,
         NEW fs \in Seq(ServerFrame), \A i \in DOMAIN fs : FrameServed(fs[i]), out' = fs,
         \A t : Under(fs, t, 0, "chunk") = 0 /\ Under(fs, t, 1, "credit") = 0,
         DOMAIN kept' \subseteq DOMAIN kept \cup {f.seq}, todo' = {},
         \/ closed' \in {1001, 1008} /\ calls' = <<>>
         \/ closed' = 0 /\ calls' = calls
         \/ closed' = 0 /\ \E lag \in Lags : calls' = Opened(f.seq, f.member, lag)
  PROVE  CallsInv'
<1> DEFINE s == f.seq
           h == <<f>>
<1>1. /\ f \in ClientFrame /\ s \in DOMAIN mine /\ f.member = mine[s].member /\ s > highest /\ highest \in Nat /\ s \in Nat
      /\ \A t, i, form : Under(h, t, i, form) = Amount(f, t, i, form)
      /\ closed = 0 /\ todo = {} /\ toServer # <<>> /\ f = Head(toServer) /\ toServer' = Tail(toServer)
      /\ toClient' = (IF attached THEN toClient \o fs ELSE <<>>)
      /\ UNCHANGED <<mine, attached, violated>>
  BY HeadAsked DEF Receives, AskFits, Sends
<1>2. \A t, k : Amount(f, t, k, "chunk") = 0 /\ Amount(f, t, k, "credit") = 0
  BY DEF Amount
<1>4. /\ DOMAIN calls \subseteq 1..highest /\ DOMAIN kept \subseteq 1..highest
      /\ \A t \in DOMAIN calls :
            /\ CallOK(calls[t]) /\ calls[t].member = mine[t].member
            /\ \A k \in DOMAIN calls[t].uploads : UploadFits(calls[t].uploads[k], mine[t])
  BY DEF CallsInv, SessionFits
<1>5. s \notin DOMAIN calls
  BY <1>1, <1>4
<1>6. mine[s].member \in Members
  <2>2. mine[s] \in MyCall
    BY <1>1 DEF CallsInv, Typed
  <2> QED BY <2>2 DEF MyCall
<1>7. /\ DOMAIN calls' \subseteq DOMAIN calls \cup {s}
      /\ \A t \in DOMAIN calls' : t # s => t \in DOMAIN calls /\ calls'[t] = calls[t]
      /\ s \in DOMAIN calls' =>
            /\ CallOK(calls'[s]) /\ calls'[s].member = mine[s].member /\ calls'[s].reply = NewReply
            /\ \A k \in DOMAIN calls'[s].uploads : UploadFits(calls'[s].uploads[k], mine[s])
            /\ Uploads(mine[s].member) => calls'[s].uploads[1] = NewUpload
      /\ closed' = 0 => \A t \in DOMAIN calls : t \in DOMAIN calls'
  <2>1. CASE closed' \in {1001, 1008} /\ calls' = <<>>
    <3> QED BY <2>1
  <2>2. CASE closed' = 0 /\ calls' = calls
    BY <1>5, <2>2
  <2>3. CASE closed' = 0 /\ \E lag \in Lags : calls' = Opened(s, f.member, lag)
    <3>1. PICK lag \in Lags : calls' = Opened(s, f.member, lag)
      BY <2>3
    <3>2. PICK call : call = NewCall(f.member, lag)
      OBVIOUS
    <3>3. /\ DOMAIN calls' = DOMAIN calls \cup {s} /\ calls'[s] = call
          /\ \A t \in DOMAIN calls : t # s => calls'[t] = calls[t]
      BY <1>5, <3>1, <3>2 DEF Opened
    <3>4. /\ CallOK(call) /\ call.member = f.member /\ call.reply = NewReply
          /\ \A k \in DOMAIN call.uploads : UploadFits(call.uploads[k], mine[s])
          /\ Uploads(f.member) => call.uploads[1] = NewUpload
      BY <1>1, <1>6, <3>2, NewCallFits, ZenonT(30)
    <3> QED BY <1>1, <3>3, <3>4
  <2> QED BY <2>1, <2>2, <2>3
<1>8. SessionFits'
  <2>1. DOMAIN calls' \subseteq 1..highest' /\ DOMAIN kept' \subseteq 1..highest' /\ todo' \subseteq DOMAIN calls'
    BY <1>1, <1>4, <1>7
  <2>2. ASSUME NEW t \in DOMAIN calls'
        PROVE  /\ CallOK(calls'[t]) /\ calls'[t].member = mine'[t].member
               /\ \A k \in DOMAIN calls'[t].uploads : UploadFits(calls'[t].uploads[k], mine'[t])
    <3>1. CASE t = s
      BY <1>1, <1>7, <2>2, <3>1
    <3>2. CASE t # s
      BY <1>1, <1>4, <1>7, <2>2, <3>2
    <3> QED BY <3>1, <3>2
  <2> QED BY <2>1, <2>2 DEF SessionFits, CallOK, Call, UploadFits
<1>9. \A t \in DOMAIN calls' : t \in DOMAIN calls \/ t > highest
  BY <1>1, <1>7
<1>10. ASSUME closed' = 0, NEW t \in There'
       PROVE  UploadServed(t, h, fs) /\ ReplyServed(t, h, fs)
  <2>1. t \in There
    <3>1. CASE t \in DOMAIN calls'
      BY <1>1, <1>7, <3>1 DEF There
    <3>2. CASE t \notin DOMAIN calls'
      <4>1. t \in DOMAIN mine /\ t > s
        BY <1>1, <1>10, <3>2 DEF There
      <4> QED BY <1>1, <4>1 DEF There, CallsInv, Typed
    <3> QED BY <3>1, <3>2
  <2>2. /\ ReplyOf(t)' = ReplyOf(t)
        /\ Uploads(mine[t].member) => UploadOf(t)' = UploadOf(t)
    <3>1. CASE t = s
      BY <1>5, <1>7, <3>1 DEF UploadOf, ReplyOf
    <3>2. CASE t # s /\ t \in DOMAIN calls
      BY <1>7, <1>10, <3>2 DEF UploadOf, ReplyOf
    <3>3. CASE t # s /\ t \notin DOMAIN calls
      BY <1>7, <3>3 DEF UploadOf, ReplyOf
    <3> QED BY <3>1, <3>2, <3>3
  <2>3. ReplyOf(t).credit \in Nat /\ (Uploads(mine[t].member) => UploadOf(t).credit \in Nat)
    BY <2>1, UploadOfTyped, ReplyOfTyped DEF Upload, Reply
  <2> QED BY <1>1, <1>2, <2>2, <2>3 DEF UploadServed, ReplyServed
<1>11. \A t \in DOMAIN mine : ChunksServed(t, fs)
  BY ReplyOfTyped DEF ChunksServed, Reply
<1>12. closed' # 1002 /\ (closed' # 0 => DOMAIN calls' = {})
  OBVIOUS
<1>13. Served(h, fs)
  BY <1>1, <1>8, <1>9, <1>10, <1>11, <1>12 DEF Served, Taken
<1> HIDE DEF h
<1> QED BY <1>13, ServedInv

\* The refusals of a request.
Refusal(f, e) ==
  e = Response(f.seq, "refused") \/ (e = EndOut(f.seq, 0, 1, "refused") /\ Streamed(f.member))
Refuses(f, lag) ==
  \E e, g : Refusal(f, e) /\ ConcludeWith(Expire, f.seq, f.member, lag, g, calls, <<e>>)

\* The refusal of a request, in the form its member takes.
LEMMA RefusalFits ==
  ASSUME CallsInv, NEW f, Receives(f), f.form = "request", highest' = f.seq, f.seq \notin DOMAIN calls',
         NEW e, Refusal(f, e)
  PROVE  /\ <<e>> \in Seq(ServerFrame) /\ \A i \in DOMAIN <<e>> : FrameServed(<<e>>[i])
         /\ \A t : Under(<<e>>, t, 0, "chunk") = 0 /\ Under(<<e>>, t, 1, "credit") = 0
<1>1. f.seq \in DOMAIN mine /\ f.member = mine[f.seq].member /\ f.seq > highest /\ highest \in Nat /\ f.seq \in Nat
  BY HeadAsked DEF Receives, AskFits
<1>2. /\ e \in ServerFrame /\ e.form \in {"response", "end"} /\ e.seq = f.seq
      /\ e.form = "response" => e.outcome = "refused"
      /\ e.form = "end" => e.stream = 0 /\ Streamed(f.member)
  <2>1. CASE e = Response(f.seq, "refused")
    BY <1>1, <2>1 DEF Response, ServerFrame
  <2>2. CASE e = EndOut(f.seq, 0, 1, "refused") /\ Streamed(f.member)
    BY <1>1, <2>2 DEF EndOut, ServerFrame
  <2> QED BY <2>1, <2>2 DEF Refusal
<1>4. \A t, k : Amount(e, t, k, "chunk") = 0 /\ Amount(e, t, k, "credit") = 0
  BY <1>2 DEF Amount
<1>5. \A t, k, form : Under(<<e>>, t, k, form) = Amount(e, t, k, form)
  BY <1>2, UnderOne, FramesCount
<1>6. <<e>> \in Seq(ServerFrame) /\ DOMAIN <<e>> = {1} /\ <<e>>[1] = e
  BY <1>2
<1> QED BY <1>1, <1>2, <1>4, <1>5, <1>6 DEF FrameServed, ToldFits

LEMMA RefusesEither ==
  ASSUME NEW f, NEW lag
  PROVE  /\ Respond(Expire, f.seq, f.member, lag, "refused", calls, <<>>, <<>>) => Refuses(f, lag)
         /\ Streamed(f.member) =>
              (KeepStreamEnd(Expire, f.seq, f.member, lag, calls, <<EndOut(f.seq, 0, 1, "refused")>>) => Refuses(f, lag))
<1>1. ASSUME Respond(Expire, f.seq, f.member, lag, "refused", calls, <<>>, <<>>)
      PROVE  Refuses(f, lag)
  <2>1. PICK e : e = Response(f.seq, "refused")
    OBVIOUS
  <2>3. ConcludeWith(Expire, f.seq, f.member, lag, e, calls, <<e>>)
    BY <1>1, <2>1, ShortSeqs DEF Respond
  <2> QED BY <2>1, <2>3 DEF Refuses, Refusal
<1>2. ASSUME Streamed(f.member), KeepStreamEnd(Expire, f.seq, f.member, lag, calls, <<EndOut(f.seq, 0, 1, "refused")>>)
      PROVE  Refuses(f, lag)
  <2>1. PICK e : e = EndOut(f.seq, 0, 1, "refused")
    OBVIOUS
  <2>2. PICK g : g = EndOut(f.seq, 0, 1, "interrupted")
    OBVIOUS
  <2> QED BY <1>2, <2>1, <2>2 DEF Refuses, Refusal, KeepStreamEnd
<1> QED BY <1>1, <1>2

\* The session receives a request.
LEMMA RequestInv ==
  ASSUME CallsInv, NEW f, Receives(f), Request(f)
  PROVE  CallsInv'
<1> DEFINE s == f.seq
           m == f.member
<1>1. /\ f.form = "request" /\ s > highest /\ highest \in Nat /\ s \in Nat /\ closed = 0 /\ todo = {}
      /\ DOMAIN Expire \subseteq DOMAIN kept
  <2> QED BY HeadAsked DEF Receives, Expire, Without, Request
<1>3. ~(Seen(s, Expire) = "settled") /\ ~(Seen(s, Expire) \in {"in flight", "older"})
  BY <1>1 DEF Seen
<1>4. /\ highest' = s /\ UNCHANGED todo
      /\ \E lag \in Lags :
            \/ Respond(Expire, s, m, lag, "refused", calls, <<>>, <<>>)
            \/ Streamed(m) /\ KeepStreamEnd(Expire, s, m, lag, calls, <<EndOut(s, 0, 1, "refused")>>)
            \/ kept' = Expire /\ Continue(Opened(s, m, lag), <<>>)
            \/ kept' = Expire /\ Close(1001, <<>>)
  <2> DEFINE R(lag) == Respond(Expire, s, m, lag, "refused", calls, <<>>, <<>>)
             K(lag) == KeepStreamEnd(Expire, s, m, lag, calls, <<EndOut(s, 0, 1, "refused")>>)
             C(lag) == Continue(Opened(s, m, lag), <<>>)
             B == kept' = Expire
             Z == Close(1001, <<>>)
             A == m \in Members /\ (NeedsStreams(m) => CarriesStreams)
  <2>1. /\ highest' = s /\ UNCHANGED todo
        /\ \E lag \in Lags :
              \/ ~A /\ R(lag)
              \/ A /\ IF Streamed(m) THEN K(lag) ELSE R(lag)
              \/ A /\ ~f.big /\ B /\ C(lag) /\ UNCHANGED ring
              \/ A /\ ~f.big /\ B /\ Z /\ UNCHANGED ring
    BY <1>3, ZenonT(30) DEF Request, Opened
  <2> HIDE DEF R, K, C, B, Z, A
  <2> QED BY <2>1 DEF R, K, C, B, Z
<1>5. PICK lag \in Lags :
            \/ Refuses(f, lag)
            \/ kept' = Expire /\ Continue(Opened(s, m, lag), <<>>)
            \/ kept' = Expire /\ Close(1001, <<>>)
  BY <1>4, RefusesEither
<1>6. CASE Refuses(f, lag)
  <2>1. PICK e, g : Refusal(f, e) /\ ConcludeWith(Expire, s, m, lag, g, calls, <<e>>)
    BY <1>6 DEF Refuses
  <2>2. PICK fs : fs = <<e>>
    OBVIOUS
  <2>3. /\ DOMAIN kept' \subseteq DOMAIN Expire \cup {s} /\ out' = fs
        /\ \/ closed' = 1008 /\ calls' = <<>> /\ todo' = {}
           \/ calls' = calls /\ closed' = closed
    BY <2>1, <2>2, ConcludeParts
  <2>4. s \notin DOMAIN calls'
    <3>1. DOMAIN <<>> = {}
      OBVIOUS
    <3> QED BY <1>1, <2>3, <3>1 DEF CallsInv, SessionFits
  <2>5. /\ fs \in Seq(ServerFrame) /\ (\A i \in DOMAIN fs : FrameServed(fs[i]))
        /\ \A t : Under(fs, t, 0, "chunk") = 0 /\ Under(fs, t, 1, "credit") = 0
    BY <1>1, <1>4, <2>1, <2>2, <2>4, RefusalFits
  <2>7. \/ closed' \in {1001, 1008} /\ calls' = <<>>
        \/ closed' = 0 /\ calls' = calls
    BY <1>1, <2>3
  <2> QED BY <1>1, <1>4, <2>3, <2>5, <2>7, RequestServed
<1>7. CASE kept' = Expire /\ (Continue(Opened(s, m, lag), <<>>) \/ Close(1001, <<>>))
  <2> DEFINE fs == <<>>
  <2>1. /\ fs \in Seq(ServerFrame) /\ (\A i \in DOMAIN fs : FrameServed(fs[i]))
        /\ \A t : Under(fs, t, 0, "chunk") = 0 /\ Under(fs, t, 1, "credit") = 0
    BY NoneCount
  <2>2. out' = fs /\ todo' = {} /\ DOMAIN kept' \subseteq DOMAIN kept \cup {s}
    BY <1>1, <1>4, <1>7 DEF Continue, Close
  <2>3. \/ closed' \in {1001, 1008} /\ calls' = <<>>
        \/ closed' = 0 /\ \E l \in Lags : calls' = Opened(s, m, l)
    BY <1>1, <1>7 DEF Continue, Close
  <2> HIDE DEF fs
  <2> QED BY <1>1, <1>4, <2>1, <2>2, <2>3, RequestServed
<1> QED BY <1>5, <1>6, <1>7

\* The session receives the next message.
LEMMA ServerReceiveInv ==
  ASSUME CallsInv, ServerReceive
  PROVE  CallsInv'
<1>1. PICK f : f = Head(toServer)
  OBVIOUS
<1>2. Receives(f)
  BY <1>1 DEF ServerReceive, OnMessage, ServerSends, Receives, Sends
<1>3. Request(f) \/ ReceiveChunk(f) \/ EndUpload(f) \/ StopStream(f) \/ Grant(f)
  BY <1>1 DEF ServerReceive, OnMessage
<1> QED BY <1>2, <1>3, RequestInv, ReceiveChunkInv, EndUploadInv, StopStreamInv, GrantInv

-----------------------------------------------------------------------------
(* The session's clock. *)

\* What a step that sends nothing leaves of a call.
SameAccounts(call, call2, c) ==
  /\ CallOK(call2) /\ call2.member = call.member /\ call2.reply.credit = call.reply.credit
  /\ DOMAIN call2.uploads = DOMAIN call.uploads
  /\ \A k \in DOMAIN call2.uploads :
        /\ UploadFits(call2.uploads[k], c)
        /\ call2.uploads[k].state = call.uploads[k].state /\ call2.uploads[k].ended = call.uploads[k].ended
        /\ call2.uploads[k].credit = call.uploads[k].credit

\* A step that sends nothing keeps the accounts.
LEMMA SilentInv ==
  ASSUME CallsInv, closed = 0, closed' = 0, UNCHANGED <<highest, mine, toServer, attached, violated>>,
         toClient' = (IF attached THEN toClient \o <<>> ELSE <<>>),
         DOMAIN calls' = DOMAIN calls, DOMAIN kept' \subseteq DOMAIN kept, todo' \subseteq DOMAIN calls,
         \A t \in DOMAIN calls : SameAccounts(calls[t], calls'[t], mine[t])
  PROVE  CallsInv'
<1> DEFINE h == <<>>
           fs == <<>>
<1>1. /\ \A t, k, form : Under(h, t, k, form) = 0 /\ Under(fs, t, k, form) = 0
  BY NoneCount
<1>3. SessionFits'
  <2>2. \A t \in DOMAIN calls' :
           /\ CallOK(calls'[t]) /\ calls'[t].member = mine'[t].member
           /\ \A k \in DOMAIN calls'[t].uploads : UploadFits(calls'[t].uploads[k], mine'[t])
    BY CallAt DEF SameAccounts
  <2> QED BY <2>2 DEF SessionFits, CallOK, Call, UploadFits, CallsInv
<1>4. ASSUME NEW t \in There'
      PROVE  UploadServed(t, h, fs) /\ ReplyServed(t, h, fs)
  <2>2. ReplyOf(t).credit \in Nat /\ (Uploads(mine[t].member) => UploadOf(t).credit \in Nat)
    BY <1>4, UploadOfTyped, ReplyOfTyped DEF Upload, Reply, There
  <2>3. CASE t \notin DOMAIN calls
    <3> QED BY <1>1, <2>2, <2>3 DEF UploadServed, ReplyServed, UploadOf, ReplyOf
  <2>4. CASE t \in DOMAIN calls
    <3>1. SameAccounts(calls[t], calls'[t], mine[t]) /\ CallOK(calls[t]) /\ calls[t].member = mine[t].member
      BY <2>4, CallAt
    <3>3. /\ UploadOf(t)' = calls'[t].uploads[1] /\ ReplyOf(t)' = calls'[t].reply
          /\ UploadOf(t) = calls[t].uploads[1] /\ ReplyOf(t) = calls[t].reply
      BY <2>4 DEF UploadOf, ReplyOf
    <3>4. /\ ReplyOf(t)'.credit = ReplyOf(t).credit
          /\ Uploads(mine[t].member) =>
                /\ UploadOf(t)'.state = UploadOf(t).state /\ UploadOf(t)'.ended = UploadOf(t).ended
                /\ UploadOf(t)'.credit = UploadOf(t).credit
      BY <3>1, CallParts, <3>3 DEF SameAccounts
    <3> QED BY <1>1, <2>2, <3>4 DEF UploadServed, ReplyServed
  <2> QED BY <2>3, <2>4
<1>5. \A t \in DOMAIN mine : ChunksServed(t, fs)
  BY <1>1, ReplyOfTyped DEF ChunksServed, Reply
<1>6. Served(h, fs)
  BY <1>3, <1>4, <1>5 DEF Served, Taken
<1> HIDE DEF h, fs
<1> QED BY <1>6, ServedInv

\* A call whose accounts are left alone.
LEMMA SameIsSame ==
  ASSUME CallsInv, NEW t \in DOMAIN calls
  PROVE  SameAccounts(calls[t], calls[t], mine[t])
  BY CallAt DEF SameAccounts

LEMMA OlderNat ==
  ASSUME NEW age \in Nat, NEW max \in Nat
  PROVE  Older(age, max) \in Nat
  BY DEF Older

\* Time passes over a call.
LEMMA AgedSame ==
  ASSUME NEW call, CallOK(call), NEW c, \A k \in DOMAIN call.uploads : UploadFits(call.uploads[k], c)
  PROVE  SameAccounts(call, AgedCall(call), c)
<1>1. /\ call \in Call(call.uploads) /\ call.reply \in Reply
      /\ call.uploads \in [1..Shape[call.member].params -> Upload]
      /\ AbandonAfter \in Nat
  BY CallParts, WsServerAssumption
<1>2. PICK a, r, ups :
        /\ a = Older(call.age, AbandonAfter) /\ r = Waited(call.reply)
        /\ ups = [k \in DOMAIN call.uploads |-> Waited(call.uploads[k])]
  OBVIOUS
<1>4. r \in Reply /\ r.credit = call.reply.credit
  <2>1. PICK i : i = Older(call.reply.idle, AbandonAfter)
    OBVIOUS
  <2>3. r = [call.reply EXCEPT !.idle = i]
    BY <1>2, <2>1 DEF Waited
  <2> QED BY <1>1, <2>1, OlderNat, <2>3 DEF Reply
<1>5. ASSUME NEW u \in Upload, UploadFits(u, c)
      PROVE  /\ Waited(u) \in Upload /\ UploadFits(Waited(u), c) /\ Waited(u).state = u.state
             /\ Waited(u).ended = u.ended /\ Waited(u).credit = u.credit
  <2>1. PICK i, v : i = Older(u.idle, AbandonAfter) /\ v = Waited(u)
    OBVIOUS
  <2>3. v = [u EXCEPT !.idle = i]
    BY <2>1 DEF Waited
  <2>4. /\ v \in Upload /\ v.state = u.state /\ v.ended = u.ended /\ v.credit = u.credit
        /\ v.queued = u.queued /\ v.seqIn = u.seqIn
    BY <1>1, <2>1, OlderNat, <2>3 DEF Upload
  <2> QED BY <2>1, <2>4, <1>5 DEF UploadFits
<1>6. /\ ups \in [1..Shape[call.member].params -> Upload] /\ DOMAIN ups = DOMAIN call.uploads
      /\ \A k \in DOMAIN ups :
            /\ UploadFits(ups[k], c) /\ ups[k].state = call.uploads[k].state
            /\ ups[k].ended = call.uploads[k].ended /\ ups[k].credit = call.uploads[k].credit
  BY <1>1, <1>2, <1>5
<1>7. PICK call2 : call2 = AgedCall(call)
  OBVIOUS
<1>8. call2 = [call EXCEPT !.age = a, !.uploads = ups, !.reply = r]
  BY <1>2, <1>7 DEF AgedCall
<1>9. /\ call2 \in Call(ups) /\ call2.uploads = ups /\ call2.member = call.member /\ call2.reply = r
      /\ call2.settled = call.settled
  BY <1>1, <1>2, OlderNat, <1>4, <1>8 DEF Call
<1>11. SameAccounts(call, call2, c)
  BY <1>4, <1>6, <1>9 DEF SameAccounts, CallOK
<1> QED BY <1>7, <1>11

LEMMA SinceSame ==
  ASSUME NEW call, CallOK(call), NEW c, \A k \in DOMAIN call.uploads : UploadFits(call.uploads[k], c)
  PROVE  SameAccounts(call, [call EXCEPT !.since = Older(@, Bound + 1)], c)
<1>1. call \in Call(call.uploads) /\ call.settled => Shape[call.member].kind = "command"
  BY CallParts DEF CallOK
<1>2. PICK a, call2 : a = Older(call.since, Bound + 1) /\ call2 = [call EXCEPT !.since = Older(@, Bound + 1)]
  OBVIOUS
<1>3. a \in Nat
  <2> QED BY <1>2, CallParts, WsServerAssumption, OlderNat DEF Call
<1>5. /\ call2 \in Call(call.uploads) /\ call2.uploads = call.uploads /\ call2.member = call.member
      /\ call2.reply = call.reply /\ call2.settled = call.settled
  BY <1>3, <1>2, CallParts DEF Call
<1>7. SameAccounts(call, call2, c)
  BY <1>5 DEF SameAccounts, CallOK
<1> QED BY <1>2, <1>7

\* The channel to the client when nothing is sent.
LEMMA SentNothing ==
  ASSUME CallsInv
  PROVE  toClient = (IF attached THEN toClient \o <<>> ELSE <<>>)
  BY DEF CallsInv, Typed

\* The session's clock and its backend's.
LEMMA ClocksInv ==
  ASSUME CallsInv, Age \/ BackendClock
  PROVE  CallsInv'
<1>1. UNCHANGED clientVars /\ toClient' = (IF attached THEN toClient \o <<>> ELSE <<>>)
  BY SentNothing DEF Age, BackendClock, clientVars
<1>2. CASE Tock
  <2>1. /\ closed = 0 /\ closed' = 0 /\ DOMAIN calls' = DOMAIN calls /\ highest' = highest /\ kept' = kept
        /\ todo' \subseteq DOMAIN calls
        /\ \A t \in DOMAIN calls : calls'[t] = AgedCall(calls[t])
    BY <1>2 DEF Tock
  <2> QED BY <1>1, <2>1, CallAt, AgedSame, SilentInv DEF clientVars
<1>3. CASE Clock
  <2>1. /\ closed = 0 /\ closed' = 0 /\ DOMAIN calls' = DOMAIN calls /\ highest' = highest /\ DOMAIN kept' = DOMAIN kept
        /\ todo' \subseteq DOMAIN calls
        /\ \A t \in DOMAIN calls :
              calls'[t] = IF Shape[calls[t].member].bounded
                          THEN [calls[t] EXCEPT !.since = Older(@, Bound + 1)] ELSE calls[t]
    BY <1>3 DEF Clock, CallsInv, SessionFits
  <2>2. ASSUME NEW t \in DOMAIN calls
        PROVE  SameAccounts(calls[t], calls'[t], mine[t])
    <3>2. SameAccounts(calls[t], [calls[t] EXCEPT !.since = Older(@, Bound + 1)], mine[t])
      BY CallAt, SinceSame
    <3> QED BY <2>1, SameIsSame, <3>2
  <2> QED BY <1>1, <2>1, <2>2, SilentInv DEF clientVars
<1> QED BY <1>2, <1>3 DEF Age, BackendClock

\* The tick starts.
LEMMA StartTickInv ==
  ASSUME CallsInv, StartTick, ServerSends, UNCHANGED <<mine, toServer, link, attached, violated>>
  PROVE  CallsInv'
<1>1. /\ closed = 0 /\ closed' = 0 /\ calls' = calls /\ highest' = highest
      /\ DOMAIN kept' \subseteq DOMAIN kept /\ todo' \subseteq DOMAIN calls /\ out' = <<>>
  BY DEF StartTick, Expire, Without
<1> QED BY <1>1, SameIsSame, SilentInv DEF ServerSends

-----------------------------------------------------------------------------
(* The turns of the tick. *)

\* A turn of the tick on call s.
PollsOn(s) ==
  /\ s \in DOMAIN calls /\ closed = 0 /\ toServer' = toServer /\ highest' = highest /\ Sends(out')
  /\ todo' = IF closed' = 0 THEN todo \ {s} ELSE {}

LEMMA PollsInv ==
  ASSUME CallsInv, NEW s, PollsOn(s), NEW fs, fs = out', FramesAbout(s, mine[s].member, fs),
         Streamed(mine[s].member) => Under(fs, s, 0, "chunk") <= calls[s].reply.credit,
         DOMAIN kept' \subseteq DOMAIN kept \cup {s},
         \/ closed' \in {1001, 1008} /\ calls' = <<>>
         \/ closed' = 0 /\ calls' = Without(calls, {s})
         \/ closed' = 0 /\ \E call2 : calls' = [calls EXCEPT ![s] = call2] /\ CallServed(s, calls[s], call2, <<>>, fs)
  PROVE  CallsInv'
<1> DEFINE h == <<>>
<1>1. Taken(h) /\ highest' = highest /\ (\A i \in DOMAIN h : h[i].seq = s) /\ closed = 0 /\ s \in DOMAIN calls
  BY DEF PollsOn, Taken
<1>2. Sends(fs)
  BY DEF PollsOn
<1>3. Became(s, h, fs)
  <2>1. CASE closed' \in {1001, 1008} /\ calls' = <<>>
    <3> QED BY <2>1 DEF Became, PollsOn
  <2>2. CASE closed' = 0
    <3> QED BY <2>2 DEF Became, PollsOn
  <2> QED BY <2>1, <2>2
<1> HIDE DEF h
<1> QED BY <1>1, <1>2, <1>3, OneCallServed

\* The frames and the call of one turn, the uploads drained.
Turned(s, call, before) ==
  /\ CallOK(call) /\ call.member = mine[s].member /\ call.reply = calls[s].reply
  /\ CallServed(s, calls[s], call, <<>>, before)
  /\ Quiet(s, mine[s].member, before)

LEMMA TurnedAt ==
  ASSUME CallsInv, NEW s \in DOMAIN calls, NEW d \in Drains(calls[s])
  PROVE  Turned(s, Drained(calls[s], d), DrainFrames(s, d))
<1> DEFINE h == <<>>
<1>1. PICK call1 : call1 = calls[s]
  OBVIOUS
<1>2. /\ CallOK(call1) /\ call1.member = calls[s].member /\ call1.reply = calls[s].reply
      /\ \A k \in DOMAIN call1.uploads : UploadFits(call1.uploads[k], mine[s])
      /\ calls[s].member = mine[s].member
  BY <1>1, CallAt
<1>3. Under(h, s, 1, "chunk") = 0 /\ Under(h, s, 1, "chunk") \in Nat /\ Under(h, s, 0, "credit") = 0
  BY NoneCount
<1>5. Uploads(call1.member) => UploadServes(calls[s].uploads[1], call1.uploads[1], Under(h, s, 1, "chunk"), 0)
  BY <1>1, <1>3, <1>2, CallParts DEF UploadServes, Upload
<1>6. d \in Drains(call1)
  BY <1>1
<1> HIDE DEF h
<1>7. /\ CallServed(s, calls[s], Drained(call1, d), h, DrainFrames(s, d))
      /\ Quiet(s, mine[s].member, DrainFrames(s, d))
  BY <1>2, <1>3, <1>5, <1>6, DrainServed
<1> QED BY <1>1, <1>2, <1>7, <1>6, DrainedCall DEF Turned, h

\* Quiet frames, after them the ends of the call's uploads.
LEMMA TurnedQuiet ==
  ASSUME CallsInv, NEW s \in DOMAIN calls, NEW call, NEW before, Turned(s, call, before)
  PROVE  /\ Quiet(s, mine[s].member, before \o InterruptFrames(s, call))
         /\ Quiet(s, mine[s].member, InterruptFrames(s, call))
         /\ s \in Nat /\ calls[s].reply \in Reply
<1>1. s \in Nat /\ CallOK(call) /\ call.member = mine[s].member
  BY CallAt DEF Turned
<1>3. calls[s].reply \in Reply
  BY CallAt, CallParts
<1> QED BY <1>1, InterruptQuiet, <1>3, JoinAbout DEF Turned, Quiet

\* A turn that sends no chunk.
LEMMA QuietPollsInv ==
  ASSUME CallsInv, NEW s, PollsOn(s), NEW fs, fs = out', Quiet(s, mine[s].member, fs),
         DOMAIN kept' \subseteq DOMAIN kept \cup {s},
         \/ closed' \in {1001, 1008} /\ calls' = <<>>
         \/ closed' = 0 /\ calls' = Without(calls, {s})
         \/ closed' = 0 /\ \E call2 : calls' = [calls EXCEPT ![s] = call2] /\ CallServed(s, calls[s], call2, <<>>, fs)
  PROVE  CallsInv'
<1>1. FramesAbout(s, mine[s].member, fs) /\ Under(fs, s, 0, "chunk") = 0
  BY QuietCounts DEF Quiet
<1>3. Streamed(mine[s].member) => Under(fs, s, 0, "chunk") <= calls[s].reply.credit
  BY <1>1, CallAt, CallParts DEF PollsOn, Reply
<1> QED BY <1>1, <1>3, PollsInv, ZenonT(60)

LEMMA JoinQuiet ==
  ASSUME NEW s, NEW m, NEW fs, NEW gs, Quiet(s, m, fs), Quiet(s, m, gs)
  PROVE  /\ Quiet(s, m, fs \o gs)
         /\ \A k, form : /\ Under(fs \o gs, s, k, form) = Under(fs, s, k, form) + Under(gs, s, k, form)
                         /\ Under(fs, s, k, form) \in Nat /\ Under(gs, s, k, form) \in Nat
<1> QED BY JoinAbout DEF Quiet

LEMMA AcceptedServed ==
  ASSUME NEW s, NEW call0, NEW call, NEW h, NEW fs, CallServed(s, call0, call, h, fs), Shape[call.member].kind = "command",
         NEW gs, \A k : Under(gs, s, k, "credit") = Under(fs, s, k, "credit"), Under(gs, s, 0, "chunk") = Under(fs, s, 0, "chunk")
  PROVE  CallServed(s, call0, Accepted(call), h, gs)
<1>1. CallOK(call) /\ call \in Call(call.uploads)
  BY CallParts DEF CallServed
<1>2. PICK call2 : call2 = Accepted(call)
  OBVIOUS
<1>3. call2 \in Call(call.uploads) /\ call2.uploads = call.uploads /\ call2.member = call.member /\ call2.reply = call.reply
  BY <1>1, <1>2 DEF Call, Accepted
<1>5. CallServed(s, call0, call2, h, gs)
  BY <1>3, <1>1 DEF CallServed, CallOK
<1> QED BY <1>2, <1>5

\* Frames with a response between them.
AnsweredWith(s, o, fs, gs) == fs \o <<Response(s, o)>> \o gs

\* The response that ends the turn of a call with a plain answer.
LEMMA RespondQuiet ==
  ASSUME CallsInv, NEW s \in DOMAIN calls, ~Streamed(mine[s].member), NEW o \in {"ok", "refused"},
         NEW fs, NEW gs, Quiet(s, mine[s].member, fs), Quiet(s, mine[s].member, gs)
  PROVE  /\ Quiet(s, mine[s].member, AnsweredWith(s, o, fs, gs))
         /\ \A k : \A form \in {"chunk", "credit"} :
               Under(AnsweredWith(s, o, fs, gs), s, k, form) = Under(fs, s, k, form) + Under(gs, s, k, form)
<1>1. PICK e, m : e = Response(s, o) /\ m = mine[s].member
  OBVIOUS
<1>16. Quiet(s, m, fs) /\ Quiet(s, m, gs) /\ ~Streamed(m)
  BY <1>1
<1>3. e \in ServerFrame /\ e.form = "response" /\ e.seq = s
  BY <1>1, CallAt DEF Response, ServerFrame
<1>5. Quiet(s, m, <<e>>)
  BY <1>3, <1>16, OneAbout DEF FrameAbout, ToldFits
<1>6. \A k : \A form \in {"chunk", "credit"} : Under(<<e>>, s, k, form) = 0
  <2>2. \A k, form : Under(<<e>>, s, k, form) = Amount(e, s, k, form)
    BY <1>3, UnderOne, FramesCount
  <2> QED BY <1>3, <2>2 DEF Amount
<1>14. PICK one : one = <<e>>
  OBVIOUS
<1>17. Quiet(s, m, one)
  BY <1>5, <1>14
<1>7. /\ Quiet(s, m, fs \o one)
      /\ \A k, form : /\ Under(fs \o one, s, k, form) = Under(fs, s, k, form) + Under(one, s, k, form)
                      /\ Under(fs, s, k, form) \in Nat
  BY <1>16, <1>17, JoinQuiet
<1>15. PICK two : two = fs \o one
  OBVIOUS
<1>8. Quiet(s, m, two)
  BY <1>7, <1>15
<1>18. Quiet(s, m, gs)
  BY <1>16
<1>10. /\ Quiet(s, m, two \o gs)
       /\ \A k, form : /\ Under(two \o gs, s, k, form) = Under(two, s, k, form) + Under(gs, s, k, form)
                       /\ Under(two, s, k, form) \in Nat /\ Under(gs, s, k, form) \in Nat
  BY <1>8, <1>18, JoinQuiet
<1>12. \A k : \A form \in {"chunk", "credit"} : Under(two, s, k, form) = Under(fs, s, k, form)
  BY <1>7, <1>6, <1>14, <1>15
<1> QED BY <1>1, <1>10, <1>12, <1>14, <1>15 DEF AnsweredWith

\* A response kept and sent, after which the call is gone or goes on.
LEMMA RespondInv ==
  ASSUME CallsInv, NEW s, PollsOn(s), ~Streamed(mine[s].member), NEW o \in {"ok", "refused"},
         NEW fs, NEW gs, Quiet(s, mine[s].member, fs), Quiet(s, mine[s].member, gs),
         NEW since, NEW m, NEW cs, Respond(kept, s, m, since, o, cs, fs, gs),
         \/ cs = Without(calls, {s})
         \/ \E call2 : /\ cs = [calls EXCEPT ![s] = call2]
                       /\ CallServed(s, calls[s], call2, <<>>, AnsweredWith(s, o, fs, gs))
  PROVE  CallsInv'
<1>1. PICK e, all : e = Response(s, o) /\ all = AnsweredWith(s, o, fs, gs)
  OBVIOUS
<1>2. ConcludeWith(kept, s, m, since, e, cs, all)
  BY <1>1 DEF Respond, AnsweredWith
<1>3. /\ DOMAIN kept' \subseteq DOMAIN kept \cup {s} /\ out' = all
      /\ \/ closed' = 1008 /\ calls' = <<>> /\ todo' = {}
         \/ calls' = cs /\ closed' = closed
  BY <1>2, ConcludeParts
<1>5. \/ closed' \in {1001, 1008} /\ calls' = <<>>
      \/ closed' = 0 /\ calls' = Without(calls, {s})
      \/ closed' = 0 /\ \E call2 : calls' = [calls EXCEPT ![s] = call2] /\ CallServed(s, calls[s], call2, <<>>, all)
  BY <1>1, <1>3 DEF PollsOn
<1> QED BY <1>3, <1>1, RespondQuiet, <1>5, QuietPollsInv DEF PollsOn

\* A call with a plain answer takes its turn.
LEMMA PollOutcomeInv ==
  ASSUME CallsInv, NEW s, PollsOn(s), ~Streamed(mine[s].member), NEW call, NEW before, Turned(s, call, before),
         PollOutcome(s, call, before)
  PROVE  CallsInv'
<1>1. s \in DOMAIN calls /\ closed = 0
  BY DEF PollsOn
<1>2. PICK ends : ends = InterruptFrames(s, call)
  OBVIOUS
<1>3. /\ Quiet(s, mine[s].member, before) /\ Quiet(s, mine[s].member, ends) /\ Quiet(s, mine[s].member, before \o ends)
      /\ Quiet(s, mine[s].member, <<>>)
  BY <1>1, <1>2, TurnedQuiet, NoneAbout DEF Turned
<1>4. CallServed(s, calls[s], call, <<>>, before)
  BY DEF Turned
<1>5. ASSUME NEW fs, Continue(Without(calls, {s}), fs), kept' = kept, Quiet(s, mine[s].member, fs)
      PROVE  CallsInv'
  <2> QED BY <1>5, <1>1, QuietPollsInv DEF Continue
<1>6. CASE Continue(Without(calls, {s}), before) /\ kept' = kept
  BY <1>3, <1>5, <1>6
<1>7. CASE Continue(Without(calls, {s}), before \o InterruptFrames(s, call)) /\ kept' = kept
  BY <1>2, <1>3, <1>5, <1>7
<1>8. CASE Continue([calls EXCEPT ![s] = call], before) /\ kept' = kept
  <2> QED BY <1>3, <1>4, <1>1, <1>8, QuietPollsInv DEF Continue
<1>9. CASE Respond(kept, s, call.member, call.since, "refused", Without(calls, {s}), <<>>, <<>>)
  BY <1>3, <1>9, RespondInv
<1>10. CASE /\ Shape[call.member].kind = "command"
            /\ Respond(kept, s, call.member, call.since, "ok", Finished(s, Accepted(call)), before, <<>>)
  <2>1. PICK cs : cs = Finished(s, Accepted(call))
    OBVIOUS
  <2>2. PICK none, all : none = <<>> /\ all = AnsweredWith(s, "ok", before, none)
    OBVIOUS
  <2>3. \A k : \A form \in {"chunk", "credit"} :
           Under(all, s, k, form) = Under(before, s, k, form) + Under(none, s, k, form)
    <3>2. PICK o \in {"ok", "refused"} : o = "ok"
      OBVIOUS
    <3>3. s \in DOMAIN calls /\ ~Streamed(mine[s].member) /\ Quiet(s, mine[s].member, before)
      BY <1>1, <1>3
    <3>4. /\ Quiet(s, mine[s].member, AnsweredWith(s, o, before, none))
          /\ \A k : \A form \in {"chunk", "credit"} :
               Under(AnsweredWith(s, o, before, none), s, k, form)
                 = Under(before, s, k, form) + Under(none, s, k, form)
      BY <1>3, <2>2, <3>3, RespondQuiet
    <3> QED BY <2>2, <3>2, <3>4
  <2>5. \A k, form : Under(before, s, k, form) \in Nat
    BY <1>3, JoinAbout DEF Quiet
  <2>6. \A k : \A form \in {"chunk", "credit"} : Under(all, s, k, form) = Under(before, s, k, form)
    BY <2>3, <2>2, NoneCount, <2>5
  <2>8. cs \in {Without(calls, {s}), [calls EXCEPT ![s] = Accepted(call)]}
    BY <2>1, FinishedBecomes
  <2>9. \/ cs = Without(calls, {s})
        \/ \E call2 : /\ cs = [calls EXCEPT ![s] = call2]
                      /\ CallServed(s, calls[s], call2, <<>>, AnsweredWith(s, "ok", before, <<>>))
    BY <2>2, <1>4, <1>10, <2>6, AcceptedServed, <2>8
  <2> QED BY <1>3, <2>9, <1>10, <2>1, RespondInv
<1>11. CASE Respond(kept, s, call.member, call.since, "ok", Without(calls, {s}), before, InterruptFrames(s, call))
  <2> QED BY <1>3, <1>2, <1>11, RespondInv
<1>12. CASE Close(1001, <<>>) /\ kept' = kept
  <2> QED BY <1>3, <1>12, QuietPollsInv DEF Close
<1> QED BY <1>6, <1>7, <1>8, <1>9, <1>10, <1>11, <1>12, ZenonT(30) DEF PollOutcome

\* The chunks of one turn.
Chunks(s, r, n) == [i \in 1..n |-> ChunkOut(s, r.seqOut + i)]

LEMMA ChunksAbout ==
  ASSUME NEW s \in Nat, NEW m, Streamed(m), NEW r \in Reply, NEW n \in Nat
  PROVE  /\ FramesAbout(s, m, Chunks(s, r, n))
         /\ Under(Chunks(s, r, n), s, 0, "chunk") = n /\ Under(Chunks(s, r, n), s, 1, "credit") = 0
<1>1. PICK fs : fs = Chunks(s, r, n)
  OBVIOUS
<1>2. fs \in [1..n -> ServerFrame]
  <2>1. ASSUME NEW i \in 1..n
        PROVE  ChunkOut(s, r.seqOut + i) \in ServerFrame
    <3> QED BY DEF ChunkOut, ServerFrame, Reply
  <2> QED BY <1>1, <2>1 DEF Chunks
<1>3. fs \in Seq(ServerFrame) /\ Len(fs) = n /\ DOMAIN fs = 1..n
  BY <1>2, FunctionIsSeq
<1>4. \A i \in DOMAIN fs : fs[i].form = "chunk" /\ fs[i].seq = s /\ fs[i].stream = 0
  BY <1>1, <1>3 DEF Chunks, ChunkOut
<1>6. \A i \in DOMAIN fs : Amount(fs[i], s, 0, "chunk") = 1 /\ Amount(fs[i], s, 1, "credit") = 0
  BY <1>4 DEF Amount
<1>7. Under(fs, s, 0, "chunk") = n
  <2>1. PICK c \in {0, 1} : c = 1
    OBVIOUS
  <2>3. Under(fs, s, 0, "chunk") = IF c = 0 THEN 0 ELSE Len(fs)
    BY <1>3, <1>6, <2>1, UnderSame, FramesCount
  <2> QED BY <1>3, <2>1, <2>3
<1>8. Under(fs, s, 1, "credit") = 0
  <2>1. PICK c \in {0, 1} : c = 0
    OBVIOUS
  <2>3. Under(fs, s, 1, "credit") = IF c = 0 THEN 0 ELSE Len(fs)
    BY <1>3, <1>6, <2>1, UnderSame, FramesCount
  <2> QED BY <2>1, <2>3
<1> QED BY <1>1, <1>3, <1>4, <1>7, <1>8 DEF FramesAbout, FrameAbout, ToldFits

\* What the pulls of one turn take of a reply stream's credit.
LEMMA PulledReply ==
  ASSUME NEW r \in Reply, NEW p \in Pulls(r)
  PROVE  /\ p.sent \in Nat /\ p.sent <= r.credit /\ r.credit \in Nat
         /\ p.fate \in {"pending", "end", "refused", "interrupted", "detached"}
         /\ Pulled(r, p) \in Reply /\ Pulled(r, p).credit = r.credit - p.sent
<1>1. r.credit \in Nat /\ r.seqOut \in Nat /\ ChunksPerTick \in Nat
  BY WsServerAssumption DEF Reply
<1>2. PICK limit : limit = IF r.credit < ChunksPerTick THEN r.credit ELSE ChunksPerTick
  OBVIOUS
<1>3. limit \in Nat /\ limit <= r.credit
  BY <1>1, <1>2
<1>4. /\ p.sent \in Nat /\ p.sent <= r.credit /\ p.held \in BOOLEAN
      /\ p.fate \in {"pending", "end", "refused", "interrupted", "detached"}
  <2>1. CASE r.held /\ r.credit = 0
    <3>1. p = [sent |-> 0, held |-> TRUE, fate |-> "pending"]
      BY <2>1 DEF Pulls
    <3> QED BY <1>1, <3>1
  <2>2. CASE ~(r.held /\ r.credit = 0)
    <3>1. PICK first : first = IF r.held THEN 1 ELSE 0
      OBVIOUS
    <3>4. p.sent \in first..limit /\ p.held \in BOOLEAN
          /\ p.fate \in {"pending", "end", "refused", "interrupted", "detached"}
      BY <1>2, <2>2, <3>1 DEF Pulls
    <3>5. p.sent \in Nat /\ p.sent <= limit
      BY <1>3, <3>1, <3>4
    <3> QED BY <1>1, <1>3, <3>4, <3>5
  <2> QED BY <2>1, <2>2
<1>5. PICK n, a, i, r2 :
        /\ n = r.seqOut + p.sent /\ a = r.credit - p.sent /\ i = (IF p.sent > 0 THEN 0 ELSE r.idle)
        /\ r2 = Pulled(r, p)
  OBVIOUS
<1>6. n \in Nat /\ a \in Nat /\ i \in Nat
  <2> QED BY <1>1, <1>4, <1>5 DEF Reply
<1>8. r2 \in Reply /\ r2.credit = a
  BY <1>4, <1>6, <1>5 DEF Reply, Pulled
<1> QED BY <1>1, <1>4, <1>5, <1>8

\* The call after its turn.
LEMMA PulledCall ==
  ASSUME NEW call, CallOK(call), NEW r \in Reply
  PROVE  LET call2 == [call EXCEPT !.reply = r] IN
         /\ CallOK(call2) /\ call2.member = call.member /\ call2.uploads = call.uploads /\ call2.reply = r
<1>2. PICK call2 : call2 = [call EXCEPT !.reply = r]
  OBVIOUS
<1>3. /\ call2 \in Call(call.uploads) /\ call2.uploads = call.uploads /\ call2.member = call.member
      /\ call2.settled = call.settled /\ call2.reply = r
  BY CallParts, <1>2 DEF Call
<1> QED BY <1>2, <1>3 DEF CallOK

\* A call with a streamed reply takes its turn.
LEMMA PollStreamInv ==
  ASSUME CallsInv, NEW s, PollsOn(s), Streamed(mine[s].member), NEW call, NEW before, Turned(s, call, before),
         PollStream(s, call, before)
  PROVE  CallsInv'
<1>1. s \in DOMAIN calls /\ closed = 0 /\ s \in Nat
  BY CallAt DEF PollsOn
<1>2. PICK p \in Pulls(call.reply) :
        LET r == Pulled(call.reply, p)
            after == [call EXCEPT !.reply = r]
            sent == before \o Chunks(s, call.reply, p.sent)
            fate == IF p.fate = "pending" /\ StreamIdle(after) THEN "interrupted" ELSE p.fate
        IN  CASE fate = "detached" -> Close(1001, sent) /\ UNCHANGED <<kept, ring>>
              [] fate = "pending"  -> Continue([calls EXCEPT ![s] = after], sent) /\ UNCHANGED <<kept, ring>>
              [] OTHER ->
                   KeepStreamEnd(kept, s, call.member, call.since, Without(calls, {s}),
                       sent \o <<EndOut(s, 0, r.seqOut + 1, fate)>> \o InterruptFrames(s, call))
  BY DEF PollStream, Chunks
<1>3. /\ CallOK(call) /\ call.member = mine[s].member /\ call.reply = calls[s].reply /\ call.reply \in Reply
      /\ CallServed(s, calls[s], call, <<>>, before) /\ Quiet(s, mine[s].member, before)
  BY CallParts DEF Turned
<1>4. PICK r, after, cs, fate :
        /\ r = Pulled(call.reply, p) /\ after = [call EXCEPT !.reply = r]
        /\ cs = Chunks(s, call.reply, p.sent)
        /\ fate = (IF p.fate = "pending" /\ StreamIdle(after) THEN "interrupted" ELSE p.fate)
  OBVIOUS
<1>5. PICK sent : sent = before \o cs
  OBVIOUS
<1>6. /\ p.sent \in Nat /\ p.sent <= call.reply.credit /\ call.reply.credit \in Nat
      /\ r \in Reply /\ r.credit = call.reply.credit - p.sent
      /\ fate \in {"pending", "end", "refused", "interrupted", "detached"}
  <2> QED BY <1>4, <1>3, PulledReply
<1>8. /\ FramesAbout(s, mine[s].member, cs)
      /\ Under(cs, s, 0, "chunk") = p.sent /\ Under(cs, s, 1, "credit") = 0
  BY <1>1, <1>3, <1>4, <1>6, ChunksAbout
<1>9. FramesAbout(s, mine[s].member, before) /\ Under(before, s, 0, "chunk") = 0
  BY <1>3, QuietCounts DEF Quiet
<1>10. /\ FramesAbout(s, mine[s].member, sent)
       /\ \A k, form : /\ Under(sent, s, k, form) = Under(before, s, k, form) + Under(cs, s, k, form)
                       /\ Under(before, s, k, form) \in Nat /\ Under(cs, s, k, form) \in Nat
  <2>1. PICK m : m = mine[s].member
    OBVIOUS
  <2>3. /\ FramesAbout(s, m, before \o cs)
        /\ \A k, form : /\ Under(before \o cs, s, k, form) = Under(before, s, k, form) + Under(cs, s, k, form)
                        /\ Under(before, s, k, form) \in Nat /\ Under(cs, s, k, form) \in Nat
    BY <1>8, <1>9, <2>1, JoinAbout
  <2> QED BY <1>5, <2>1, <2>3
<1>11. Under(sent, s, 0, "chunk") = p.sent /\ Under(sent, s, 1, "credit") = Under(before, s, 1, "credit")
  BY <1>8, <1>9, <1>10
<1>12. Streamed(mine[s].member) => Under(sent, s, 0, "chunk") <= calls[s].reply.credit
  BY <1>3, <1>6, <1>11
<1>13. CASE fate = "detached"
  <2>1. Close(1001, sent) /\ kept' = kept
    BY <1>2, <1>4, <1>5, <1>13
  <2>2. sent = out' /\ closed' = 1001 /\ calls' = <<>> /\ DOMAIN kept' \subseteq DOMAIN kept \cup {s}
    BY <2>1 DEF Close
  <2> QED BY <1>10, <1>12, <2>2, PollsInv
<1>14. CASE fate = "pending"
  <2>1. Continue([calls EXCEPT ![s] = after], sent) /\ kept' = kept
    BY <1>2, <1>4, <1>5, <1>14
  <2>2. sent = out' /\ closed' = 0 /\ calls' = [calls EXCEPT ![s] = after] /\ DOMAIN kept' \subseteq DOMAIN kept \cup {s}
    BY <1>1, <2>1 DEF Continue
  <2>3. CallServed(s, calls[s], after, <<>>, sent)
    <3>1. Under(<<>>, s, 0, "credit") = 0
      BY NoneCount
    <3> QED BY <1>3, <1>6, <1>4, PulledCall, <1>11, <3>1 DEF CallServed
  <2> QED BY <1>10, <1>12, <2>2, <2>3, PollsInv
<1>15. CASE fate \in {"end", "refused", "interrupted"}
  <2>1. PICK e, ends, all : e = EndOut(s, 0, r.seqOut + 1, fate) /\ ends = InterruptFrames(s, call)
                            /\ all = sent \o <<e>> \o ends
    OBVIOUS
  <2>2. KeepStreamEnd(kept, s, call.member, call.since, Without(calls, {s}), all)
    BY <1>2, <1>4, <1>5, <1>15, <2>1
  <2>3. /\ DOMAIN kept' \subseteq DOMAIN kept \cup {s} /\ out' = all
        /\ \/ closed' = 1008 /\ calls' = <<>> /\ todo' = {}
           \/ calls' = Without(calls, {s}) /\ closed' = closed
    BY <2>2, ConcludeParts DEF KeepStreamEnd
  <2>4. PICK m : m = mine[s].member
    OBVIOUS
  <2>5. e \in ServerFrame /\ e.form = "end" /\ e.seq = s /\ e.stream = 0
    <3> QED BY <1>1, <1>15, <2>1, <1>6 DEF EndOut, ServerFrame, Reply
  <2>6. PICK one, two : one = <<e>> /\ two = sent \o one
    OBVIOUS
  <2>7. Quiet(s, m, one)
    <3> QED BY <2>5, <2>6, <2>4, OneAbout DEF FrameAbout, ToldFits
  <2>8. FramesAbout(s, m, one) /\ Under(one, s, 0, "chunk") = 0
    BY <2>7, QuietCounts DEF Quiet
  <2>10. /\ FramesAbout(s, m, sent \o one)
         /\ \A k, form : /\ Under(sent \o one, s, k, form) = Under(sent, s, k, form) + Under(one, s, k, form)
                         /\ Under(sent, s, k, form) \in Nat /\ Under(one, s, k, form) \in Nat
    BY <2>8, <1>10, <2>4, JoinAbout
  <2>11. FramesAbout(s, m, two) /\ Under(two, s, 0, "chunk") = p.sent
    BY <1>6, <1>11, <2>6, <2>8, <2>10
  <2>13. FramesAbout(s, m, ends) /\ Under(ends, s, 0, "chunk") = 0
    BY <1>1, <2>1, <2>4, TurnedQuiet, QuietCounts DEF Quiet
  <2>15. /\ FramesAbout(s, m, two \o ends)
         /\ \A k, form : /\ Under(two \o ends, s, k, form) = Under(two, s, k, form) + Under(ends, s, k, form)
                         /\ Under(two, s, k, form) \in Nat /\ Under(ends, s, k, form) \in Nat
    BY <2>13, <2>11, JoinAbout
  <2>16. all = two \o ends
    BY <2>1, <2>6
  <2>17. FramesAbout(s, mine[s].member, all) /\ Under(all, s, 0, "chunk") = p.sent
    BY <1>6, <2>4, <2>11, <2>13, <2>15, <2>16
  <2>18. Streamed(mine[s].member) => Under(all, s, 0, "chunk") <= calls[s].reply.credit
    BY <1>3, <1>6, <2>17
  <2>19. \/ closed' \in {1001, 1008} /\ calls' = <<>>
         \/ closed' = 0 /\ calls' = Without(calls, {s})
    BY <1>1, <2>3
  <2> QED BY <2>3, <2>17, <2>18, <2>19, PollsInv
<1> QED BY <1>6, <1>13, <1>14, <1>15

\* The turn of call s.
PollOf(s) ==
  \E d \in Drains(calls[s]) :
    LET call == Drained(calls[s], d)
        before == DrainFrames(s, d)
        stalled == /\ ~Streamed(call.member)
                   /\ \E k \in OpenUploads(call) : call.uploads[k].idle >= AbandonAfter
    IN  IF Gone(d)
        THEN Close(1001, before) /\ UNCHANGED <<kept, ring>>
        ELSE /\ \/ /\ stalled
                   /\ Continue(Without(calls, {s}), before \o InterruptFrames(s, call))
                   /\ UNCHANGED <<kept, ring>>
                \/ /\ ~stalled /\ call.settled
                   /\ Continue(Finished(s, call), before)
                   /\ UNCHANGED <<kept, ring>>
                \/ /\ ~stalled /\ ~call.settled /\ Streamed(call.member)
                   /\ PollStream(s, call, before)
                \/ /\ ~stalled /\ ~call.settled /\ ~Streamed(call.member)
                   /\ PollOutcome(s, call, before)
             /\ todo' = IF closed' = 0 THEN todo \ {s} ELSE {}

LEMMA PollCallTurns ==
  ASSUME PollCall
  PROVE  PollOf(CHOOSE x \in todo : \A y \in todo : x <= y)
  BY DEF PollCall, PollOf

\* The session polls the next call.
LEMMA PollCallInv ==
  ASSUME CallsInv, PollCall, ServerSends, UNCHANGED <<mine, toServer, link, attached, violated>>
  PROVE  CallsInv'
<1>1. PICK s : s = CHOOSE x \in todo : \A y \in todo : x <= y
  OBVIOUS
<1>2. closed = 0 /\ todo # {} /\ highest' = highest
  BY DEF PollCall
<1>3. s \in todo /\ s \in DOMAIN calls
  <2>1. todo \subseteq DOMAIN calls /\ DOMAIN calls \subseteq 1..highest /\ highest \in Nat
    BY DEF CallsInv, Typed, SessionFits
  <2>3. \E x \in todo : \A y \in todo : x <= y
    BY <1>2, <2>1, LeastNumber
  <2> QED BY <1>1, <2>1, <2>3
<1>4. PICK d \in Drains(calls[s]) :
        LET call == Drained(calls[s], d)
            before == DrainFrames(s, d)
            stalled == /\ ~Streamed(call.member)
                       /\ \E k \in OpenUploads(call) : call.uploads[k].idle >= AbandonAfter
        IN  IF Gone(d)
            THEN Close(1001, before) /\ UNCHANGED <<kept, ring>>
            ELSE /\ \/ /\ stalled
                       /\ Continue(Without(calls, {s}), before \o InterruptFrames(s, call))
                       /\ UNCHANGED <<kept, ring>>
                    \/ /\ ~stalled /\ call.settled
                       /\ Continue(Finished(s, call), before)
                       /\ UNCHANGED <<kept, ring>>
                    \/ /\ ~stalled /\ ~call.settled /\ Streamed(call.member)
                       /\ PollStream(s, call, before)
                    \/ /\ ~stalled /\ ~call.settled /\ ~Streamed(call.member)
                       /\ PollOutcome(s, call, before)
                 /\ todo' = IF closed' = 0 THEN todo \ {s} ELSE {}
  <2>1. PollOf(s)
    BY <1>1, PollCallTurns
  <2> QED BY <2>1 DEF PollOf
<1>5. PICK call, before : call = Drained(calls[s], d) /\ before = DrainFrames(s, d)
  OBVIOUS
<1>6. Turned(s, call, before)
  BY <1>3, <1>5, TurnedAt
<1>8. /\ call.member = mine[s].member /\ Quiet(s, mine[s].member, before)
      /\ CallServed(s, calls[s], call, <<>>, before)
  BY <1>6 DEF Turned
<1>9. \/ Close(1001, before) /\ kept' = kept
      \/ /\ todo' = IF closed' = 0 THEN todo \ {s} ELSE {}
         /\ \/ Continue(Without(calls, {s}), before \o InterruptFrames(s, call)) /\ kept' = kept
            \/ Continue(Finished(s, call), before) /\ kept' = kept
            \/ Streamed(call.member) /\ PollStream(s, call, before)
            \/ ~Streamed(call.member) /\ PollOutcome(s, call, before)
  BY <1>4, <1>5
<1>10. ASSUME todo' = IF closed' = 0 THEN todo \ {s} ELSE {}
       PROVE  PollsOn(s)
  BY <1>2, <1>3, <1>10 DEF PollsOn, ServerSends, Sends
<1>11. CASE Close(1001, before) /\ kept' = kept
  <2>1. before = out' /\ closed' = 1001 /\ calls' = <<>> /\ todo' = {} /\ DOMAIN kept' \subseteq DOMAIN kept \cup {s}
    BY <1>11 DEF Close
  <2> QED BY <1>8, <2>1, <1>10, QuietPollsInv
<1>12. CASE todo' = IF closed' = 0 THEN todo \ {s} ELSE {}
  <2>1. PollsOn(s)
    BY <1>10, <1>12
  <2>2. CASE Continue(Without(calls, {s}), before \o InterruptFrames(s, call)) /\ kept' = kept
    <3>1. PICK fs : fs = before \o InterruptFrames(s, call)
      OBVIOUS
    <3>3. Quiet(s, mine[s].member, fs)
      BY <1>3, <1>6, <3>1, TurnedQuiet
    <3> QED BY <2>1, <1>2, <2>2, <3>1, <3>3, QuietPollsInv DEF Continue
  <2>3. CASE Continue(Finished(s, call), before) /\ kept' = kept
    <3>1. before = out' /\ closed' = 0 /\ calls' = Finished(s, call) /\ DOMAIN kept' \subseteq DOMAIN kept \cup {s}
      BY <1>2, <2>3 DEF Continue
    <3> QED BY <1>8, <2>1, <3>1, FinishedBecomes, QuietPollsInv
  <2>4. CASE Streamed(call.member) /\ PollStream(s, call, before)
    BY <1>6, <1>8, <2>1, <2>4, PollStreamInv
  <2>5. CASE ~Streamed(call.member) /\ PollOutcome(s, call, before)
    BY <1>6, <1>8, <2>1, <2>5, PollOutcomeInv
  <2> QED BY <1>9, <1>11, <2>2, <2>3, <2>4, <2>5
<1> QED BY <1>9, <1>11, <1>12

-----------------------------------------------------------------------------
(* The calls over a connection. *)

\* The invariant holds at first.
LEMMA CallsInitInv == CallsInit => CallsInv
<1> SUFFICES ASSUME CallsInit PROVE CallsInv
  OBVIOUS
<1>1. /\ highest = 0 /\ calls = <<>> /\ kept = <<>> /\ closed = 0 /\ todo = {} /\ mine = <<>>
      /\ toServer = <<>> /\ toClient = <<>> /\ attached = TRUE /\ violated = FALSE
  BY DEF CallsInit, ServerInit
<1>2. /\ mine \in Seq(MyCall) /\ toServer \in Seq(ClientFrame) /\ toClient \in Seq(ServerFrame)
      /\ DOMAIN mine = {} /\ DOMAIN toServer = {} /\ DOMAIN toClient = {} /\ DOMAIN calls = {} /\ DOMAIN kept = {}
      /\ Len(mine) = 0
  BY <1>1
<1>3. There = {} /\ Live = {}
  BY <1>2 DEF There, Live
<1> QED BY <1>1, <1>2, <1>3 DEF CallsInv, Typed, Requested, SessionFits, Counted, Within, RefusedFirst,
                                ClosedEmpty, NoViolation

\* Every step of the client and of the session keeps the invariant.
LEMMA CallsNextInv == CallsInv /\ [CallsNext]_callsVars => CallsInv'
<1> SUFFICES ASSUME CallsInv, [CallsNext]_callsVars PROVE CallsInv'
  OBVIOUS
<1>1. CASE User
  <2>1. CASE \E m \in Members : Start(m)
    BY <2>1, StartInv
  <2>2. ASSUME NEW s \in Live, \/ Write(s) \/ WriteTooLong(s) \/ CloseUpload(s) \/ AbortUpload(s)
                               \/ Read(s) \/ Cancel(s)
        PROVE  CallsInv'
    BY <2>2, WriteInv, WriteTooLongInv, CloseUploadInv, AbortUploadInv, ReadInv, CancelInv
  <2> QED BY <1>1, <2>1, <2>2 DEF User
<1>2. CASE \E s \in Live : Pull(s) \/ Timeout(s)
  BY <1>2, PullInv, TimeoutInv
<1>3. CASE ClientReceive
  BY <1>3, ClientReceiveInv
<1>4. CASE ServerReceive
  BY <1>4, ServerReceiveInv
<1>5. CASE TickCalls
  BY <1>5, StartTickInv, PollCallInv DEF TickCalls
<1>6. CASE Age \/ BackendClock
  BY <1>6, ClocksInv
<1>7. CASE Lose \/ CloseSession \/ ClientEnds
  BY <1>7, EndsInv
<1>8. CASE ServerEnds
  BY <1>8, ServerEndsInv
<1>9. CASE UNCHANGED callsVars
  BY <1>9, StaysInv DEF callsVars, clientVars
<1> QED BY <1>1, <1>2, <1>3, <1>4, <1>5, <1>6, <1>7, <1>8, <1>9 DEF CallsNext

\* A live call whose upload is open at both ends is one the session counts.
LEMMA CallsInvMeans == CallsInv => NoViolation /\ CreditConserved /\ UploadsWhole
<1> SUFFICES ASSUME CallsInv PROVE NoViolation /\ CreditConserved /\ UploadsWhole
  OBVIOUS
<1>1. NoViolation
  BY DEF CallsInv
<1>2. CreditConserved
  <2> SUFFICES ASSUME closed = 0, NEW s \in Live \cap DOMAIN calls
               PROVE  /\ mine[s].open /\ calls[s].uploads[1].state = "open" =>
                           calls[s].uploads[1].credit =
                             (mine[s].granted - mine[s].sent) + Under(toServer, s, 1, "chunk")
                                                  + Under(toClient, s, 1, "credit")
                      /\ Streamed(mine[s].member) =>
                           mine[s].replyGranted - mine[s].received =
                             calls[s].reply.credit + Under(toClient, s, 0, "chunk")
                                                   + Under(toServer, s, 0, "credit")
    BY DEF CreditConserved
  <2>1. UploadCounted(s) /\ ReplyCounted(s) /\ s \in There /\ s \in DOMAIN calls
    BY DEF CallsInv, Counted, There
  <2>2. UploadOf(s) = calls[s].uploads[1] /\ ReplyOf(s) = calls[s].reply
    BY <2>1 DEF UploadOf, ReplyOf
  <2>3. /\ CallOK(calls[s]) /\ calls[s].member = mine[s].member /\ mine[s] \in MyCall /\ MineFits(mine[s])
        /\ mine[s].live
        /\ \A k \in DOMAIN calls[s].uploads : UploadFits(calls[s].uploads[k], mine[s])
    BY <2>1, CallAt DEF Live
  <2>4. \A k, form : Under(toServer, s, k, form) \in Nat /\ Under(toClient, s, k, form) \in Nat
    BY UnderNat, FramesCount DEF CallsInv, Typed
  <2>5. mine[s].granted \in Nat /\ mine[s].sent \in Nat /\ mine[s].replyGranted \in Nat /\ mine[s].received \in Nat
    BY <2>3 DEF MyCall
  <2>6. ASSUME mine[s].open, calls[s].uploads[1].state = "open"
        PROVE  calls[s].uploads[1].credit =
                 (mine[s].granted - mine[s].sent) + Under(toServer, s, 1, "chunk") + Under(toClient, s, 1, "credit")
    <3>1. Uploads(mine[s].member) /\ ~mine[s].closed
      BY <2>3, <2>6 DEF MineFits
    <3>2. 1 \in DOMAIN calls[s].uploads /\ calls[s].uploads[1] \in Upload
      BY <2>3, <3>1, CallParts
    <3>4. calls[s].uploads[1].credit + mine[s].sent =
            mine[s].granted + Under(toServer, s, 1, "chunk") + Under(toClient, s, 1, "credit")
      BY <2>1, <2>2, <2>6, <3>1, <2>3, <3>2 DEF UploadCounted, UploadFits
    <3>6. PICK a, b, g, n, x : /\ a = Under(toServer, s, 1, "chunk") /\ b = Under(toClient, s, 1, "credit")
                               /\ g = mine[s].granted /\ n = mine[s].sent /\ x = calls[s].uploads[1].credit
      OBVIOUS
    <3>7. a \in Nat /\ b \in Nat /\ g \in Nat /\ n \in Nat /\ x \in Nat /\ x + n = g + a + b
      BY <2>4, <2>5, <3>4, <3>2, <3>6 DEF Upload
    <3>8. x = (g - n) + a + b
      BY <3>7
    <3> QED BY <3>6, <3>8
  <2>7. ASSUME Streamed(mine[s].member)
        PROVE  mine[s].replyGranted - mine[s].received =
                 calls[s].reply.credit + Under(toClient, s, 0, "chunk") + Under(toServer, s, 0, "credit")
    <3>1. mine[s].replyGranted = mine[s].received + calls[s].reply.credit + Under(toClient, s, 0, "chunk")
                                    + Under(toServer, s, 0, "credit")
      BY <2>1, <2>2, <2>3, <2>7 DEF ReplyCounted
    <3>2. calls[s].reply.credit \in Nat
      BY <2>3, CallParts DEF Reply
    <3> QED BY <2>4, <2>5, <3>1, <3>2
  <2> QED BY <2>6, <2>7
<1>3. UploadsWhole
  BY DEF UploadsWhole, CallsInv, SessionFits, UploadFits
<1> QED BY <1>1, <1>2, <1>3

\* The invariant holds of every client (calls.ts, duplex.ts) and every session
\* (session.rs), whatever the members, the limits and the bounds of a run.
THEOREM CallsInvariant == CallsSpec => []CallsInv
<1>1. CallsInit => CallsInv
  BY CallsInitInv
<1>2. CallsInv /\ [CallsNext]_callsVars => CallsInv'
  BY CallsNextInv
<1> QED BY <1>1, <1>2, PTL DEF CallsSpec

\* Neither end of a connection ever sees the other break the protocol: the
\* session closes with no protocol violation (1002), and the client's handlers
\* are sent nothing they do not expect.
THEOREM CallsNeverViolate == CallsSpec => []NoViolation
  BY CallsInvariant, CallsInvMeans, PTL

\* No credit is lost or made up: on every stream of a call that both ends
\* hold, what the sender may still send is what the receiver granted, less what
\* is under way.
THEOREM CallsConserveCredit == CallsSpec => []CreditConserved
  BY CallsInvariant, CallsInvMeans, PTL

\* A handler that is told an upload ended has received every chunk its client
\* wrote, and its client closed it.
THEOREM CallsUploadsWhole == CallsSpec => []UploadsWhole
  BY CallsInvariant, CallsInvMeans, PTL

=============================================================================
