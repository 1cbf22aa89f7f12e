-------------------------- MODULE WsProvidedProofs --------------------------
(***************************************************************************)
(* What the connection carries besides calls, for any number of claims,    *)
(* signals and clients and any capacity: the claims and the requests of a  *)
(* provided port keep to each other however long the connection lives; and *)
(* the subscriptions of the client keep to those of the session.           *)
(***************************************************************************)
EXTENDS WsProvided, WsSignals, SequenceTheorems, FiniteSetTheorems,
        WellFoundedInduction, TLAPS

Waiting == [claim : Nat, shape : {"good", "refused", "short"}]
Frame == [seq : Nat, claim : Nat]

\* A claim arrives once, is taken from the queue once, and only claims taken
\* are pending.
QueueClaims == {queue[i].claim : i \in DOMAIN queue}
ClaimsOnce ==
    /\ \A i, j \in DOMAIN queue : queue[i].claim = queue[j].claim => i = j
    /\ QueueClaims \cap (claimed \cup settled) = {}
    /\ \A s \in DOMAIN pending : pending[s].claim \in claimed \cup settled
    /\ IsFiniteSet(Arrived) /\ Arrived = 1..Cardinality(Arrived)

PortTypeOK ==
    /\ attached \in BOOLEAN
    /\ queue \in Seq(Waiting)
    /\ claimed \in SUBSET Nat /\ settled \in SUBSET Nat
    /\ next \in Nat
    /\ \A s \in DOMAIN pending :
          /\ s \in Nat /\ s <= next
          /\ pending[s] \in [claim : Nat, due : BOOLEAN]

\* What the port and the session hold.
PortInv ==
    /\ PortTypeOK
    /\ NoClaimLost
    /\ attached => ClaimsOnce
    /\ ~attached => claimed = {}

\* A frame carries a seq the session has given out, and the claim it is
\* pending for, if it still is.
Known(f, p, n) == f.seq <= n /\ (f.seq \in DOMAIN p => p[f.seq].claim = f.claim)
AllKnown(q, p, n) == \A i \in DOMAIN q : Known(q[i], p, n)
CallsKnown(a, p, n) == \A s \in DOMAIN a : Known([seq |-> s, claim |-> a[s]], p, n)

FrameTypeOK ==
    /\ next \in Nat /\ highest \in Nat
    /\ toProvider \in Seq(Frame) /\ toSession \in Seq(Frame)
    /\ \A s \in DOMAIN active : s \in Nat /\ active[s] \in Nat

\* What the connection and the provider hold.
FrameInv ==
    /\ FrameTypeOK
    /\ AllKnown(toProvider, pending, next)
    /\ AllKnown(toSession, pending, next)
    /\ CallsKnown(active, pending, next)
    /\ highest <= next
    /\ RequestsAreNew

HandlersActive == running \subseteq DOMAIN active

IInv == PortInv /\ FrameInv /\ HandlersActive

-----------------------------------------------------------------------------
\* A sequence with an element more, ...
LEMMA Appended ==
    ASSUME NEW S, NEW q \in Seq(S), NEW e \in S
    PROVE  /\ Append(q, e) \in Seq(S)
           /\ DOMAIN q = 1..Len(q) /\ Len(q) \in Nat
           /\ DOMAIN Append(q, e) = 1..(Len(q) + 1)
           /\ \A i \in DOMAIN q : Append(q, e)[i] = q[i]
           /\ Append(q, e)[Len(q) + 1] = e
BY AppendProperties, LenProperties

\* ... and with its first one gone.
LEMMA FirstGone ==
    ASSUME NEW S, NEW q \in Seq(S), q # <<>>
    PROVE  /\ Tail(q) \in Seq(S) /\ Head(q) \in S
           /\ Head(q) = q[1] /\ 1 \in DOMAIN q
           /\ \A i \in DOMAIN Tail(q) :
                 i \in Nat /\ i >= 1 /\ i + 1 \in DOMAIN q /\ Tail(q)[i] = q[i + 1]
           /\ \A i \in DOMAIN q : i # 1 => i - 1 \in DOMAIN Tail(q)
           /\ DOMAIN q = 1..Len(q) /\ Len(q) \in Nat
<1>1. Tail(q) \in Seq(S) /\ Head(q) \in S /\ Len(Tail(q)) = Len(q) - 1
      /\ \A i \in 1..Len(Tail(q)) : Tail(q)[i] = q[i + 1]
  BY HeadTailProperties
<1>3. Head(q) = q[1]
  OBVIOUS
<1> QED BY <1>1, EmptySeq, LenProperties, <1>3

\* No claim is in two of the sets a claim passes through, and each passes
\* from one to the next: nothing arrives twice.
LEMMA SettleInv ==
    ASSUME PortInv, NEW these, PortSettles(these),
           UNCHANGED <<attached, queue, next>>,
           \A s \in DOMAIN pending' : s \in DOMAIN pending /\ pending'[s] = pending[s],
           \A s \in DOMAIN pending : attached /\ pending[s].claim \notin these => s \in DOMAIN pending'
    PROVE  PortInv'
<1>1. /\ settled' = settled \cup (these \cap claimed) /\ claimed' = claimed \ these
      /\ attached' = attached /\ queue' = queue /\ next' = next
  BY DEF PortSettles
<1>2. PortTypeOK'
  BY <1>1 DEF PortInv, PortTypeOK
<1>3. claimed' \cup settled' = claimed \cup settled
  BY <1>1
<1>4. Arrived' = Arrived
  BY <1>1, <1>3 DEF Arrived
<1>5. ASSUME attached PROVE ClaimsOnce'
  <2>1. \A s \in DOMAIN pending' : pending'[s].claim \in claimed' \cup settled'
    BY <1>3, <1>5 DEF PortInv, ClaimsOnce
  <2>2. QueueClaims' = QueueClaims /\ QueueClaims \cap (claimed' \cup settled') = {}
    BY <1>1, <1>3, <1>5 DEF PortInv, ClaimsOnce, QueueClaims
  <2> QED BY <1>1, <1>4, <1>5, <2>1, <2>2 DEF PortInv, ClaimsOnce
<1>6. NoClaimLost'
  <2>1. ASSUME NEW c \in claimed' PROVE c \in ClaimsOf(DOMAIN pending)'
    <3>1. c \in claimed /\ c \notin these /\ attached
      BY <1>1 DEF PortInv
    <3>2. PICK s \in DOMAIN pending : pending[s].claim = c
      BY <3>1 DEF PortInv, NoClaimLost, ClaimsOf
    <3> QED BY <3>1, <3>2 DEF ClaimsOf
  <2> QED BY <2>1 DEF NoClaimLost, PortInv
<1> QED BY <1>1, <1>2, <1>5, <1>6 DEF PortInv

\* No request is given a seq a frame may still carry, and no call under way
\* gives up its own.
PendingKept ==
    /\ next <= next'
    /\ \A s \in DOMAIN pending' :
          s <= next => s \in DOMAIN pending /\ pending'[s].claim = pending[s].claim

-----------------------------------------------------------------------------
(* The steps of the port. *)

LEMMA ArrivePort ==
    ASSUME PortInv, Arrive
    PROVE  PortInv'
<1>1. PICK c \in Claims, shape \in {"good", "refused", "short"} :
        /\ attached /\ c = Cardinality(Arrived) + 1
        /\ queue' = Append(queue, [claim |-> c, shape |-> shape])
        /\ UNCHANGED <<attached, claimed, settled, pending, next>>
  BY DEF Arrive, providedVars
<1>2. ClaimsOnce /\ PortTypeOK /\ NoClaimLost /\ attached
  BY <1>1 DEF PortInv
<1> DEFINE k == Cardinality(Arrived)
           new == [claim |-> c, shape |-> shape]
<1>3. k \in Nat /\ c = k + 1 /\ Arrived = 1..k
  BY <1>1, <1>2, FS_CardinalityType DEF ClaimsOnce
<1>4. c \in Nat /\ c \notin Arrived /\ new \in Waiting
  BY <1>3 DEF Waiting
<1>5. /\ queue' \in Seq(Waiting)
      /\ DOMAIN queue = 1..Len(queue) /\ Len(queue) \in Nat
      /\ DOMAIN queue' = 1..(Len(queue) + 1)
      /\ \A i \in DOMAIN queue : queue'[i] = queue[i]
      /\ queue'[Len(queue) + 1] = new
  <2> HIDE DEF new
  <2> QED BY <1>4, <1>1, <1>2, Appended DEF PortTypeOK, new
<1>6. \A i \in DOMAIN queue' : \/ i \in DOMAIN queue /\ queue'[i].claim = queue[i].claim
                               \/ i = Len(queue) + 1 /\ queue'[i].claim = c
  BY <1>5
<1>7. QueueClaims' = QueueClaims \cup {c}
  <2>2. \A x \in QueueClaims : x \in QueueClaims'
    BY <1>5 DEF QueueClaims
  <2>3. c \in QueueClaims'
    BY <1>5 DEF QueueClaims
  <2> QED BY <1>6, <2>2, <2>3 DEF QueueClaims
<1>8. Arrived' = Arrived \cup {c} /\ Arrived = settled \cup claimed \cup QueueClaims
  BY <1>1, <1>7 DEF Arrived, QueueClaims
<1>9. Arrived' = 1..(k + 1)
  <2> HIDE DEF k
  <2> QED BY <1>3, <1>8
<1>10. IsFiniteSet(Arrived') /\ Cardinality(Arrived') = k + 1
  <2> HIDE DEF k
  <2> QED BY <1>3, <1>9, FS_Interval
<1>11. \A i, j \in DOMAIN queue' : queue'[i].claim = queue'[j].claim => i = j
  <2> QED BY <1>2, <1>6, <1>4, <1>8 DEF ClaimsOnce, QueueClaims
<1>12. ClaimsOnce'
  <2>1. QueueClaims' \cap (claimed' \cup settled') = {}
    BY <1>1, <1>2, <1>4, <1>7, <1>8 DEF ClaimsOnce
  <2> HIDE DEF k
  <2> QED BY <1>9, <1>10, <1>11, <2>1, <1>1, <1>2 DEF ClaimsOnce
<1>13. PortTypeOK' /\ NoClaimLost'
  BY <1>1, <1>2, <1>5 DEF PortTypeOK, NoClaimLost, ClaimsOf
<1> QED BY <1>1, <1>12, <1>13 DEF PortInv

LEMMA WithdrawPort ==
    ASSUME PortInv, Withdraw
    PROVE  PortInv'
<1>1. PICK c \in claimed :
        /\ claimed' = claimed \ {c} /\ settled' = settled \cup {c}
        /\ UNCHANGED <<attached, queue, pending, next>>
  BY DEF Withdraw, providedVars
<1>2. attached /\ ClaimsOnce /\ PortTypeOK /\ NoClaimLost
  BY <1>1 DEF PortInv, PortTypeOK
<1>3. PortTypeOK' /\ NoClaimLost'
  BY <1>1, <1>2 DEF PortTypeOK, NoClaimLost, ClaimsOf
<1>4. claimed' \cup settled' = claimed \cup settled /\ Arrived' = Arrived
  BY <1>1 DEF Arrived
<1>5. ClaimsOnce'
  BY <1>1, <1>2, <1>4 DEF ClaimsOnce, QueueClaims
<1> QED BY <1>1, <1>2, <1>3, <1>5 DEF PortInv

LEMMA DetachPort ==
    ASSUME PortInv, Detach
    PROVE  PortInv'
BY EmptySeq DEF PortInv, Detach, PortTypeOK, NoClaimLost, ClaimsOf, providedVars

LEMMA PassPort ==
    ASSUME PortInv, Pass
    PROVE  PortInv' /\ DOMAIN pending' = DOMAIN pending
           /\ \A s \in DOMAIN pending : pending'[s].claim = pending[s].claim
<1>1. PICK d \in DOMAIN pending : pending' = [pending EXCEPT ![d].due = TRUE]
  BY DEF Pass
<1>2. UNCHANGED <<attached, queue, claimed, settled, next>>
  BY DEF Pass, portVars
<1>3. DOMAIN pending' = DOMAIN pending
      /\ \A s \in DOMAIN pending :
            pending'[s].claim = pending[s].claim /\ pending'[s] \in [claim : Nat, due : BOOLEAN]
  BY <1>1 DEF PortInv, PortTypeOK
<1>4. PortTypeOK' /\ NoClaimLost'
  BY <1>2, <1>3 DEF PortInv, PortTypeOK, NoClaimLost, ClaimsOf
<1> QED BY <1>2, <1>3, <1>4 DEF PortInv, ClaimsOnce, QueueClaims, Arrived

(* The steps of the session. *)

\* A claim leaves the queue, for the port's table or for good.
LEMMA FromQueue ==
    ASSUME PortInv, attached, queue # <<>>
    PROVE  /\ Head(queue).claim \in Nat
           /\ Tail(queue) \in Seq(Waiting)
           /\ Head(queue).claim \notin claimed \cup settled
           /\ \A s \in DOMAIN pending : pending[s].claim # Head(queue).claim
<1>1. ClaimsOnce /\ queue \in Seq(Waiting)
  BY DEF PortInv, PortTypeOK
<1>2. Tail(queue) \in Seq(Waiting) /\ Head(queue) \in Waiting /\ Head(queue) = queue[1] /\ 1 \in DOMAIN queue
  BY <1>1, FirstGone
<1> QED BY <1>1, <1>2 DEF ClaimsOnce, Waiting, QueueClaims

LEMMA TakenOnce ==
    ASSUME PortInv, attached, queue # <<>>, queue' = Tail(queue),
           claimed' \cup settled' = claimed \cup settled \cup {Head(queue).claim},
           \A s \in DOMAIN pending' : pending'[s].claim \in claimed' \cup settled'
    PROVE  ClaimsOnce'
<1> DEFINE c == Head(queue).claim
           rest == Tail(queue)
<1>1. ClaimsOnce /\ queue \in Seq(Waiting)
  BY DEF PortInv, PortTypeOK
<1>2. /\ c = queue[1].claim /\ 1 \in DOMAIN queue
      /\ \A i \in DOMAIN rest :
            i \in Nat /\ i >= 1 /\ i + 1 \in DOMAIN queue /\ rest[i] = queue[i + 1]
      /\ \A i \in DOMAIN queue : i # 1 => i - 1 \in DOMAIN rest
      /\ \A i \in DOMAIN queue : i \in Nat
  BY <1>1, FirstGone
<1>3. QueueClaims = {c} \cup {rest[i].claim : i \in DOMAIN rest}
  <2>2. ASSUME NEW i \in DOMAIN queue, i # 1
        PROVE  queue[i].claim \in {rest[j].claim : j \in DOMAIN rest}
    <3> QED BY <1>2, <2>2
  <2> HIDE DEF rest
  <2> QED BY <1>2, <2>2 DEF QueueClaims
<1>4. \A i \in DOMAIN rest : rest[i].claim # c
  BY <1>1, <1>2 DEF ClaimsOnce
<1>6. QueueClaims' = {rest[i].claim : i \in DOMAIN rest}
  BY DEF QueueClaims
<1> HIDE DEF c, rest
<1>7. QueueClaims' \cap (claimed' \cup settled') = {}
  BY <1>1, <1>3, <1>4, <1>6 DEF ClaimsOnce, c
<1>9. Arrived' = Arrived
  BY <1>3, <1>6 DEF c, Arrived, QueueClaims
<1> QED BY <1>1, <1>2, <1>7, <1>9 DEF ClaimsOnce, rest

LEMMA StartTickPort ==
    ASSUME PortInv, StartTick
    PROVE  PortInv' /\ PendingKept
<1>1. PortSettles(ClaimsOf(Due)) /\ pending' = Settled(pending, Due)
      /\ UNCHANGED <<attached, queue, next>>
  BY DEF StartTick
<1>2. \A s \in DOMAIN pending' : s \in DOMAIN pending /\ pending'[s] = pending[s]
  BY <1>1 DEF Settled, Restricted
<1>4. PortInv'
  BY <1>1, <1>2, SettleInv DEF Settled, Restricted, ClaimsOf
<1> QED BY <1>1, <1>2, <1>4 DEF PendingKept, PortInv, PortTypeOK

LEMMA OnResponsePort ==
    ASSUME PortInv, OnResponse
    PROVE  PortInv' /\ PendingKept
<1> DEFINE over == Due \cup ({Head(toSession).seq} \cap DOMAIN pending)
<1>1. PortSettles(ClaimsOf(over)) /\ pending' = Settled(pending, over)
      /\ UNCHANGED <<attached, queue, next>>
  BY DEF OnResponse
<1> HIDE DEF over
<1>2. \A s \in DOMAIN pending' : s \in DOMAIN pending /\ pending'[s] = pending[s]
  BY <1>1 DEF Settled, Restricted
<1>4. PortInv'
  BY <1>1, <1>2, SettleInv DEF Settled, Restricted, ClaimsOf
<1> QED BY <1>1, <1>2, <1>4 DEF PendingKept, PortInv, PortTypeOK

LEMMA OverPort ==
    ASSUME PortInv, Over
    PROVE  PortInv' /\ PendingKept
<1> DEFINE these == ClaimsOf(DOMAIN pending) \cup ({short} \ {0})
<1>1. PortSettles(these) /\ pending' = <<>> /\ UNCHANGED <<attached, queue, next>>
  BY DEF Over
<1>2. \A s \in DOMAIN pending : pending[s].claim \in these
  BY DEF ClaimsOf
<1> HIDE DEF these
<1>3. DOMAIN pending' = {}
  BY <1>1
<1>4. PortInv'
  BY <1>1, <1>2, <1>3, SettleInv
<1> QED BY <1>1, <1>3, <1>4 DEF PendingKept, PortInv, PortTypeOK

\* A claim becomes pending under the seq after the last.
LEMMA MadePending ==
    ASSUME PortInv, NEW c \in Nat, \A s \in DOMAIN pending : pending[s].claim # c,
           next' = NextSeq,
           pending' = [x \in DOMAIN pending \cup {NextSeq} |->
                          IF x = NextSeq THEN [claim |-> c, due |-> FALSE] ELSE pending[x]]
    PROVE  /\ PendingKept
           /\ next' \in Nat
           /\ \A s \in DOMAIN pending' :
                 s \in Nat /\ s <= next' /\ pending'[s] \in [claim : Nat, due : BOOLEAN]
           /\ NextSeq \in DOMAIN pending' /\ pending'[NextSeq].claim = c
           /\ \A s \in DOMAIN pending : s \in DOMAIN pending' /\ pending'[s] = pending[s]
           /\ \A s \in DOMAIN pending' : s \in DOMAIN pending \/ s = NextSeq
           /\ \A s, t \in DOMAIN pending' : pending'[s].claim = pending'[t].claim => s = t
<1> DEFINE n == NextSeq
<1>1. n = next + 1 /\ next \in Nat /\ \A s \in DOMAIN pending : s \in Nat /\ s <= next
  BY DEF PortInv, PortTypeOK, NextSeq
<1> HIDE DEF n
<1>3. /\ DOMAIN pending' = DOMAIN pending \cup {n}
      /\ pending'[n] = [claim |-> c, due |-> FALSE]
      /\ \A s \in DOMAIN pending : pending'[s] = pending[s]
  BY <1>1 DEF n
<1>4. PendingKept
  BY <1>1, <1>3 DEF PendingKept, n
<1>5. \A s \in DOMAIN pending' :
        s \in Nat /\ s <= next' /\ pending'[s] \in [claim : Nat, due : BOOLEAN]
  BY <1>1, <1>3 DEF PortInv, PortTypeOK, n
<1>6. \A s, t \in DOMAIN pending' : pending'[s].claim = pending'[t].claim => s = t
  BY <1>3 DEF PortInv, NoClaimLost
<1> QED BY <1>1, <1>3, <1>4, <1>5, <1>6 DEF n

LEMMA TakeGoodPort ==
    ASSUME PortInv, TakeGood
    PROVE  PortInv' /\ PendingKept
<1> DEFINE c == Head(queue).claim
<1>1. /\ attached /\ queue # <<>> /\ queue' = Tail(queue)
      /\ next' = NextSeq
      /\ pending' = [x \in DOMAIN pending \cup {NextSeq} |->
                        IF x = NextSeq THEN [claim |-> c, due |-> FALSE] ELSE pending[x]]
      /\ claimed' = claimed \cup {c} /\ settled' = settled /\ attached' = attached
  BY DEF TakeGood
<1>2. /\ c \in Nat /\ Tail(queue) \in Seq(Waiting)
      /\ \A s \in DOMAIN pending : pending[s].claim # c
  BY <1>1, FromQueue
<1>3. NoClaimLost /\ ClaimsOnce /\ PortTypeOK
  BY <1>1 DEF PortInv
<1> HIDE DEF c
<1>4. /\ PendingKept /\ next' \in Nat
      /\ \A s \in DOMAIN pending' :
            s \in Nat /\ s <= next' /\ pending'[s] \in [claim : Nat, due : BOOLEAN]
      /\ NextSeq \in DOMAIN pending' /\ pending'[NextSeq].claim = c
      /\ \A s \in DOMAIN pending : s \in DOMAIN pending' /\ pending'[s] = pending[s]
      /\ \A s \in DOMAIN pending' : s \in DOMAIN pending \/ s = NextSeq
      /\ \A s, t \in DOMAIN pending' : pending'[s].claim = pending'[t].claim => s = t
  BY <1>1, <1>2, MadePending
<1>5. PortTypeOK'
  BY <1>1, <1>2, <1>3, <1>4 DEF PortTypeOK
<1>6. NoClaimLost'
  <2>1. ASSUME NEW x \in claimed' PROVE x \in ClaimsOf(DOMAIN pending)'
    <3>1. CASE x = c
      BY <1>4, <3>1 DEF ClaimsOf
    <3>2. CASE x # c
      <4>1. PICK s \in DOMAIN pending : pending[s].claim = x
        BY <1>1, <1>3, <3>2 DEF NoClaimLost, ClaimsOf
      <4> QED BY <1>4, <4>1 DEF ClaimsOf
    <3> QED BY <3>1, <3>2
  <2> QED BY <1>4, <2>1 DEF NoClaimLost
<1>7. ClaimsOnce'
  <2>2. claimed' \cup settled' = claimed \cup settled \cup {c}
    BY <1>1
  <2> QED BY <1>1, <1>3, <1>4, <2>2, TakenOnce DEF c, ClaimsOnce
<1> QED BY <1>1, <1>4, <1>5, <1>6, <1>7 DEF PortInv

LEMMA TakeRefusedPort ==
    ASSUME PortInv, TakeRefused
    PROVE  PortInv' /\ PendingKept
<1> DEFINE c == Head(queue).claim
<1>1. attached /\ queue # <<>>
  BY DEF TakeRefused
<1>2. /\ c \in Nat /\ Tail(queue) \in Seq(Waiting) /\ c \notin claimed \cup settled
      /\ \A s \in DOMAIN pending : pending[s].claim # c
  BY <1>1, FromQueue
<1>3. NoClaimLost /\ ClaimsOnce /\ PortTypeOK
  BY <1>1 DEF PortInv
<1>4. CASE /\ settled' = settled \cup {c} /\ queue' = Tail(queue)
           /\ UNCHANGED <<attached, claimed, pending, next, phase>>
  <2>1. PortTypeOK' /\ NoClaimLost' /\ PendingKept
    <3> HIDE DEF c
    <3>1. PortTypeOK'
      BY <1>2, <1>3, <1>4 DEF PortTypeOK
    <3>2. NoClaimLost'
      BY <1>2, <1>3, <1>4 DEF NoClaimLost, ClaimsOf
    <3>3. PendingKept
      BY <1>2, <1>3, <1>4 DEF PendingKept, PortTypeOK
    <3> QED BY <3>1, <3>2, <3>3
  <2>3. claimed' \cup settled' = claimed \cup settled \cup {c}
    BY <1>4
  <2>4. ClaimsOnce'
    BY <1>1, <1>4, <1>3, <2>3, TakenOnce DEF ClaimsOnce
  <2> QED BY <1>1, <1>4, <2>1, <2>4 DEF PortInv
<1>5. CASE /\ attached' = FALSE /\ queue' = <<>> /\ claimed' = {}
           /\ pending' = [x \in DOMAIN pending \cup {NextSeq} |->
                             IF x = NextSeq THEN [claim |-> c, due |-> FALSE] ELSE pending[x]]
           /\ next' = NextSeq /\ UNCHANGED settled
  <2> HIDE DEF c
  <2>1. /\ PendingKept /\ next' \in Nat
        /\ \A s \in DOMAIN pending' :
              s \in Nat /\ s <= next' /\ pending'[s] \in [claim : Nat, due : BOOLEAN]
        /\ \A s, t \in DOMAIN pending' : pending'[s].claim = pending'[t].claim => s = t
    BY <1>2, <1>5, MadePending
  <2>2. PortTypeOK' /\ NoClaimLost'
    BY <1>3, <1>5, <2>1, EmptySeq DEF PortTypeOK, NoClaimLost
  <2> QED BY <1>5, <2>1, <2>2 DEF PortInv
<1> QED BY <1>4, <1>5 DEF TakeRefused

LEMMA TakeShortPort ==
    ASSUME PortInv, TakeShort
    PROVE  PortInv' /\ PendingKept
<1> DEFINE c == Head(queue).claim
<1>1. attached /\ queue # <<>> /\ UNCHANGED <<pending, next>>
  BY DEF TakeShort
<1>2. c \in Nat /\ Tail(queue) \in Seq(Waiting)
  BY <1>1, FromQueue
<1>3. NoClaimLost /\ ClaimsOnce /\ PortTypeOK
  BY <1>1 DEF PortInv
<1>4. CASE settled' = settled \cup {c} /\ queue' = Tail(queue) /\ UNCHANGED <<attached, claimed, phase>>
  <2>1. PortTypeOK' /\ NoClaimLost' /\ PendingKept
    <3> HIDE DEF c
    <3>1. PortTypeOK'
      BY <1>1, <1>2, <1>3, <1>4 DEF PortTypeOK
    <3>2. NoClaimLost'
      BY <1>1, <1>2, <1>3, <1>4 DEF NoClaimLost, ClaimsOf
    <3>3. PendingKept
      BY <1>1, <1>2, <1>3, <1>4 DEF PendingKept, PortTypeOK
    <3> QED BY <3>1, <3>2, <3>3
  <2>3. claimed' \cup settled' = claimed \cup settled \cup {c}
    BY <1>4
  <2>4. ClaimsOnce'
    BY <1>1, <1>4, <1>3, <2>3, TakenOnce DEF ClaimsOnce
  <2> QED BY <1>1, <1>4, <2>1, <2>4 DEF PortInv
<1>5. CASE attached' = FALSE /\ queue' = <<>> /\ claimed' = {} /\ UNCHANGED settled
  <2>1. PortTypeOK' /\ NoClaimLost' /\ PendingKept
    <3> HIDE DEF c
    <3>1. PortTypeOK'
      BY <1>1, <1>3, <1>5, EmptySeq DEF PortTypeOK
    <3>2. NoClaimLost'
      BY <1>1, <1>3, <1>5, EmptySeq DEF NoClaimLost, ClaimsOf
    <3>3. PendingKept
      BY <1>1, <1>3, <1>5, EmptySeq DEF PendingKept, PortTypeOK
    <3> QED BY <3>1, <3>2, <3>3
  <2> QED BY <1>5, <2>1 DEF PortInv
<1> QED BY <1>4, <1>5 DEF TakeShort

-----------------------------------------------------------------------------
(* What is under way. *)

LEMMA FramesStay ==
    ASSUME PendingKept, next \in Nat, next' \in Nat
    PROVE  \A f \in Frame : Known(f, pending, next) => Known(f, pending', next')
BY DEF Known, Frame, PendingKept

LEMMA QueueStays ==
    ASSUME PendingKept, next \in Nat, next' \in Nat,
           NEW q \in Seq(Frame), AllKnown(q, pending, next)
    PROVE  AllKnown(q, pending', next')
<1> QED BY ElementOfSeq, LenProperties, FramesStay DEF AllKnown

LEMMA CallsStay ==
    ASSUME PendingKept, next \in Nat, next' \in Nat,
           \A s \in DOMAIN active : s \in Nat /\ active[s] \in Nat,
           CallsKnown(active, pending, next)
    PROVE  CallsKnown(active, pending', next')
<1> QED BY FramesStay DEF CallsKnown, Frame

\* Taking the first frame, and adding one.
LEMMA KnownFirst ==
    ASSUME NEW q \in Seq(Frame), q # <<>>, NEW p, NEW n, AllKnown(q, p, n)
    PROVE  Known(Head(q), p, n) /\ Head(q) \in Frame
           /\ AllKnown(Tail(q), p, n) /\ Tail(q) \in Seq(Frame)
<1> QED BY FirstGone DEF AllKnown

LEMMA KnownLast ==
    ASSUME NEW q \in Seq(Frame), NEW f \in Frame, NEW p, NEW n, AllKnown(q, p, n), Known(f, p, n)
    PROVE  AllKnown(Append(q, f), p, n) /\ Append(q, f) \in Seq(Frame)
<1>1. /\ Append(q, f) \in Seq(Frame)
      /\ DOMAIN q = 1..Len(q) /\ Len(q) \in Nat
      /\ DOMAIN Append(q, f) = 1..(Len(q) + 1)
      /\ \A i \in DOMAIN q : Append(q, f)[i] = q[i]
      /\ Append(q, f)[Len(q) + 1] = f
  BY Appended
<1>3. \A i \in DOMAIN Append(q, f) : Known(Append(q, f)[i], p, n)
  BY <1>1 DEF AllKnown
<1> QED BY <1>1, <1>3 DEF AllKnown

LEMMA KnownNone ==
    ASSUME NEW p, NEW n
    PROVE  AllKnown(<<>>, p, n) /\ <<>> \in Seq(Frame)
BY EmptySeq DEF AllKnown

\* A step of the server that sends no request, and takes at most a response.
LEMMA FramesKept ==
    ASSUME PortInv, PortInv', FrameInv, PendingKept,
           UNCHANGED <<toProvider, active, highest>>,
           \/ toSession' = toSession
           \/ toSession' = <<>>
           \/ toSession # <<>> /\ toSession' = Tail(toSession)
    PROVE  FrameInv'
<1>1. FrameTypeOK /\ RequestsAreNew /\ highest <= next /\ next <= next' /\ next \in Nat /\ next' \in Nat
  BY DEF FrameInv, PendingKept, PortInv, PortTypeOK
<1>2. toSession' \in Seq(Frame) /\ AllKnown(toSession', pending, next)
  BY <1>1, KnownFirst, KnownNone DEF FrameTypeOK, FrameInv
<1>3. FrameTypeOK'
  BY <1>1, <1>2 DEF FrameTypeOK
<1>4. AllKnown(toSession', pending', next')
  BY <1>1, <1>2, QueueStays
<1>5. AllKnown(toProvider', pending', next')
  BY <1>1, QueueStays DEF FrameInv, FrameTypeOK
<1>6. CallsKnown(active', pending', next')
  BY <1>1, CallsStay DEF FrameInv, FrameTypeOK
<1>7. RequestsAreNew'
  BY <1>1 DEF RequestsAreNew, IsRepeat
<1> QED BY <1>3, <1>4, <1>5, <1>6, <1>7, <1>1 DEF FrameInv, FrameTypeOK

\* A request goes out behind the others, with a seq none of them has.
LEMMA TakeGoodFrames ==
    ASSUME PortInv, FrameInv, TakeGood
    PROVE  FrameInv'
<1> DEFINE c == Head(queue).claim
           f == [seq |-> next', claim |-> c]
<1>1. /\ attached /\ queue # <<>>
      /\ next' = next + 1
      /\ pending' = [x \in DOMAIN pending \cup {next + 1} |->
                        IF x = next + 1 THEN [claim |-> c, due |-> FALSE] ELSE pending[x]]
      /\ toProvider' = Append(toProvider, f)
      /\ UNCHANGED <<toSession, active, highest>>
  BY DEF TakeGood, NextSeq, providerVars
<1>2. PortInv' /\ PendingKept
  BY TakeGoodPort
<1>4. /\ next \in Nat /\ next' \in Nat /\ highest \in Nat /\ highest <= next
      /\ toProvider \in Seq(Frame) /\ toSession \in Seq(Frame)
      /\ \A s \in DOMAIN active : s \in Nat /\ active[s] \in Nat
      /\ RequestsAreNew
  BY <1>2 DEF FrameInv, FrameTypeOK, PortInv, PortTypeOK
<1>5. f \in Frame /\ f.seq = next + 1
  BY <1>1, FromQueue, <1>4 DEF Frame
<1>6. Known(f, pending', next')
  BY <1>1, <1>4 DEF Known
<1> HIDE DEF f
<1>7. /\ AllKnown(toProvider, pending', next')
      /\ AllKnown(toSession, pending', next')
      /\ CallsKnown(active, pending', next')
  BY <1>2, <1>4, QueueStays, CallsStay DEF FrameInv
<1>8. AllKnown(toProvider', pending', next') /\ toProvider' \in Seq(Frame)
  BY <1>1, <1>4, <1>5, <1>6, <1>7, KnownLast
<1>9. RequestsAreNew'
  <2>1. /\ DOMAIN toProvider = 1..Len(toProvider) /\ Len(toProvider) \in Nat
        /\ DOMAIN toProvider' = 1..(Len(toProvider) + 1)
        /\ \A i \in DOMAIN toProvider : toProvider'[i] = toProvider[i]
        /\ toProvider'[Len(toProvider) + 1] = f
    BY <1>1, <1>4, <1>5, Appended
  <2>2. \A i \in DOMAIN toProvider : toProvider[i].seq \in Nat /\ toProvider[i].seq <= next
    <3>1. \A i \in DOMAIN toProvider : toProvider[i] \in Frame
      BY <1>4, ElementOfSeq, LenProperties
    <3> QED BY <3>1 DEF FrameInv, AllKnown, Known, Frame
  <2>3. \A i \in DOMAIN toProvider :
           toProvider[i].seq > highest /\ \A j \in 1..(i - 1) : toProvider[j].seq < toProvider[i].seq
    BY <1>4, <2>2 DEF RequestsAreNew, IsRepeat
  <2>4. ASSUME NEW i \in DOMAIN toProvider'
        PROVE  ~(toProvider'[i].seq <= highest) /\ \A j \in 1..(i - 1) : toProvider'[j].seq < toProvider'[i].seq
    <3>1. CASE i \in DOMAIN toProvider
      BY <1>4, <2>1, <2>2, <2>3, <3>1, SMTT(30)
    <3>2. CASE i = Len(toProvider) + 1
      <4>2. \A j \in 1..(i - 1) : toProvider'[j].seq <= next
        BY <2>1, <2>2, <3>2
      <4>3. \A j \in 1..(i - 1) : toProvider'[j].seq \in Nat
        BY <2>1, <2>2, <3>2
      <4> QED BY <1>4, <1>5, <2>1, <3>2, <4>2, <4>3
    <3> QED BY <2>1, <3>1, <3>2
  <2> QED BY <1>1, <2>4 DEF RequestsAreNew, IsRepeat
<1> QED BY <1>1, <1>4, <1>7, <1>8, <1>9 DEF FrameInv, FrameTypeOK

\* The provider takes the first request: it is new, and the rest are after it.
LEMMA FirstRequest ==
    ASSUME PortInv, FrameInv, toProvider # <<>>
    PROVE  /\ ~IsRepeat(Head(toProvider))
           /\ Head(toProvider) \in Frame /\ Known(Head(toProvider), pending, next)
           /\ Tail(toProvider) \in Seq(Frame) /\ AllKnown(Tail(toProvider), pending, next)
           /\ \A i \in DOMAIN Tail(toProvider) :
                 /\ Head(toProvider).seq < Tail(toProvider)[i].seq
                 /\ ~(Tail(toProvider)[i].seq <= highest)
                 /\ \A j \in 1..(i - 1) : Tail(toProvider)[j].seq < Tail(toProvider)[i].seq
<1> DEFINE q == toProvider
           t == Tail(toProvider)
<1>1. q \in Seq(Frame) /\ q # <<>> /\ RequestsAreNew /\ AllKnown(q, pending, next)
  BY DEF FrameInv, FrameTypeOK
<1>2. /\ t \in Seq(Frame) /\ Head(q) \in Frame /\ Head(q) = q[1] /\ 1 \in DOMAIN q
      /\ \A i \in DOMAIN t : i \in Nat /\ i >= 1 /\ i + 1 \in DOMAIN q /\ t[i] = q[i + 1]
      /\ DOMAIN q = 1..Len(q) /\ Len(q) \in Nat
  <2> HIDE DEF q
  <2> QED BY <1>1, FirstGone DEF q
<1>3. DOMAIN t = 1..Len(t) /\ Len(t) \in Nat
  <2> HIDE DEF t
  <2> QED BY <1>2, LenProperties
<1>5. \A i \in DOMAIN q : ~(q[i].seq <= highest) /\ \A j \in 1..(i - 1) : q[j].seq < q[i].seq
  BY <1>1 DEF RequestsAreNew, IsRepeat
<1> HIDE DEF q, t
<1>6. ASSUME NEW i \in DOMAIN t
      PROVE  /\ Head(q).seq < t[i].seq
             /\ ~(t[i].seq <= highest)
             /\ \A j \in 1..(i - 1) : t[j].seq < t[i].seq
  <2>1. i \in Nat /\ i >= 1 /\ i + 1 \in DOMAIN q /\ t[i] = q[i + 1]
    BY <1>2
  <2>2. \A j \in 1..((i + 1) - 1) : q[j].seq < q[i + 1].seq
    BY <1>5, <2>1
  <2>4. \A j \in 1..(i - 1) : j \in DOMAIN t /\ j + 1 \in 1..((i + 1) - 1)
    BY <1>3, <2>1
  <2>6. \A j \in 1..(i - 1) : t[j].seq < t[i].seq
    BY <2>1, <2>2, <2>4, <1>2
  <2> QED BY <1>2, <1>5, <2>1, <2>2, <2>6
<1> QED BY <1>2, <1>1, KnownFirst, <1>5, <1>6 DEF q, t, IsRepeat

\* Steps of the provider and the network.
LEMMA DispatchFrames ==
    ASSUME PortInv, FrameInv, Dispatch
    PROVE  FrameInv'
<1> DEFINE f == Head(toProvider)
           rest == Tail(toProvider)
<1>1. /\ toProvider # <<>> /\ toProvider' = rest
      /\ UNCHANGED <<pending, next>>
  BY DEF Dispatch, providedVars
<1>2. /\ ~IsRepeat(f)
      /\ f \in Frame /\ Known(f, pending, next)
      /\ rest \in Seq(Frame) /\ AllKnown(rest, pending, next)
      /\ \A i \in DOMAIN rest :
            /\ f.seq < rest[i].seq
            /\ ~(rest[i].seq <= highest)
            /\ \A j \in 1..(i - 1) : rest[j].seq < rest[i].seq
  BY <1>1, FirstRequest
<1>3. Taken(f)
  BY <1>2 DEF Dispatch
<1> HIDE DEF f, rest
<1>4. /\ next \in Nat /\ highest \in Nat /\ highest <= next
      /\ toSession \in Seq(Frame) /\ AllKnown(toSession, pending, next)
      /\ \A s \in DOMAIN active : s \in Nat /\ active[s] \in Nat
      /\ CallsKnown(active, pending, next)
  BY DEF FrameInv, FrameTypeOK
<1>5. highest' = highest \/ highest' = f.seq
  BY <1>3 DEF Taken
<1>6. /\ f.seq \in Nat /\ f.claim \in Nat /\ f.seq <= next /\ f = [seq |-> f.seq, claim |-> f.claim]
  BY <1>2 DEF Frame, Known
<1>7. highest' \in Nat /\ highest' <= next'
  BY <1>1, <1>4, <1>5, <1>6
<1>9. toSession' \in Seq(Frame) /\ AllKnown(toSession', pending, next)
  BY <1>2, <1>4, <1>3, KnownLast DEF Taken, Answered, SendToServer
<1>11. \A s \in DOMAIN active' :
          \/ s = f.seq /\ active'[s] = f.claim
          \/ s \in DOMAIN active /\ active'[s] = active[s]
  BY <1>3 DEF Taken
<1>12. /\ \A s \in DOMAIN active' : s \in Nat /\ active'[s] \in Nat
       /\ CallsKnown(active', pending, next)
  <2>2. \A s \in DOMAIN active' : Known([seq |-> s, claim |-> active'[s]], pending, next)
    BY <1>2, <1>4, <1>6, <1>11 DEF CallsKnown
  <2> QED BY <1>4, <1>6, <1>11, <2>2 DEF CallsKnown
<1>13. RequestsAreNew'
  <2>1. \A i \in DOMAIN rest : rest[i] \in Frame
    BY <1>2, ElementOfSeq, LenProperties
  <2>2. \A i \in DOMAIN rest : rest[i].seq \in Nat
    BY <2>1 DEF Frame
  <2> QED BY <1>1, <1>2, <1>4, <1>5, <1>6, <2>2 DEF RequestsAreNew, IsRepeat
<1> QED BY <1>1, <1>2, <1>4, <1>7, <1>9, <1>12, <1>13 DEF FrameInv, FrameTypeOK

LEMMA HandlerReturnsFrames ==
    ASSUME PortInv, FrameInv, HandlersActive, HandlerReturns
    PROVE  FrameInv'
<1>1. PICK s \in running, answers \in BOOLEAN :
        /\ active' = Minus(active, s)
        /\ IF answers THEN Answered([seq |-> s, claim |-> active[s]]) ELSE UNCHANGED <<kept, toSession>>
  BY DEF HandlerReturns
<1>2. UNCHANGED <<pending, next, toProvider, highest>>
  BY DEF HandlerReturns, providedVars
<1> DEFINE f == [seq |-> s, claim |-> active[s]]
<1>3. /\ FrameTypeOK /\ CallsKnown(active, pending, next) /\ s \in DOMAIN active
      /\ toSession \in Seq(Frame) /\ AllKnown(toSession, pending, next)
  BY DEF FrameInv, FrameTypeOK, HandlersActive
<1>4. f \in Frame /\ Known(f, pending, next)
  BY <1>3 DEF FrameTypeOK, Frame, CallsKnown
<1>5. toSession' = toSession \/ toSession' = Append(toSession, f)
  BY <1>1 DEF Answered, SendToServer
<1> HIDE DEF f
<1>6. toSession' \in Seq(Frame) /\ AllKnown(toSession', pending, next)
  BY <1>3, <1>4, <1>5, KnownLast
<1>7. \A t \in DOMAIN active' : t \in DOMAIN active /\ active'[t] = active[t]
  BY <1>1 DEF Minus, Restricted
<1>8. FrameTypeOK'
  BY <1>2, <1>3, <1>6, <1>7 DEF FrameTypeOK
<1>10. RequestsAreNew'
  BY <1>2 DEF FrameInv, RequestsAreNew, IsRepeat
<1> QED BY <1>2, <1>6, <1>8, <1>3, <1>7, <1>10 DEF FrameInv, CallsKnown

LEMMA ProviderEndsFrames ==
    ASSUME PortInv, FrameInv, ProviderEnds
    PROVE  FrameInv'
<1>1. /\ active' = <<>> /\ toProvider' = <<>>
      /\ UNCHANGED <<pending, next, toSession, highest>>
  BY DEF ProviderEnds, providedVars
<1>2. DOMAIN active' = {} /\ DOMAIN toProvider' = {}
  BY <1>1
<1>4. toProvider' \in Seq(Frame) /\ AllKnown(toProvider', pending', next')
  BY <1>1, KnownNone
<1> QED BY <1>1, <1>2, <1>4 DEF FrameInv, FrameTypeOK, CallsKnown, RequestsAreNew

-----------------------------------------------------------------------------
LEMMA InitInv == Init => IInv
<1> SUFFICES ASSUME Init PROVE IInv
  OBVIOUS
<1>1. /\ queue = <<>> /\ pending = <<>> /\ toProvider = <<>> /\ toSession = <<>> /\ active = <<>>
      /\ attached = TRUE /\ claimed = {} /\ settled = {} /\ next = 0 /\ highest = 0 /\ running = {}
  BY DEF Init
<1>2. DOMAIN queue = {} /\ DOMAIN pending = {} /\ DOMAIN toProvider = {} /\ DOMAIN active = {}
  BY <1>1
<1>3. Arrived = {} /\ QueueClaims = {}
  BY <1>1, <1>2 DEF Arrived, QueueClaims
<1>5. ClaimsOnce
  BY <1>1, <1>2, <1>3, FS_EmptySet DEF ClaimsOnce
<1>6. PortTypeOK /\ NoClaimLost
  BY <1>1, <1>2, EmptySeq DEF PortTypeOK, NoClaimLost, ClaimsOf
<1>7. FrameTypeOK /\ RequestsAreNew /\ CallsKnown(active, pending, next)
  BY <1>1, <1>2, EmptySeq DEF FrameTypeOK, RequestsAreNew, CallsKnown
<1> QED BY <1>1, <1>5, <1>6, <1>7, KnownNone DEF IInv, PortInv, FrameInv, HandlersActive

\* Only handlers of active calls run.
LEMMA StepHandlers ==
    ASSUME IInv, [Next]_vars
    PROVE  HandlersActive'
<1>1. CASE Dispatch
  <2> QED BY <1>1 DEF Dispatch, IInv, HandlersActive, Repeated, Taken
<1>2. CASE RunHandler
  BY <1>2 DEF RunHandler, IInv, HandlersActive
<1>3. CASE HandlerReturns
  BY <1>3 DEF HandlerReturns, Minus, Restricted, IInv, HandlersActive
<1>4. CASE ProviderEnds
  BY <1>4 DEF ProviderEnds, HandlersActive
<1>5. CASE UNCHANGED <<running, active>>
  BY <1>5 DEF IInv, HandlersActive
<1>6. Arrive \/ Withdraw \/ Detach \/ Pass \/ Lose => UNCHANGED <<running, active>>
  BY DEF Arrive, Withdraw, Detach, Pass, Lose, providerVars
<1>7. Tick \/ OnResponse \/ ServerEnds => UNCHANGED <<running, active>>
  BY DEF Tick, StartTick, TakeGood, TakeRefused, TakeShort, EndTick, OnResponse, ServerEnds, Over, providerVars
<1> QED BY <1>1, <1>2, <1>3, <1>4, <1>5, <1>6, <1>7 DEF Next, vars, providerVars

\* Where neither the port nor the session changes.
LEMMA PortStill ==
    ASSUME PortInv, UNCHANGED <<attached, queue, claimed, settled, pending, next>>
    PROVE  PortInv' /\ PendingKept
<1>2. attached => ClaimsOnce'
  BY DEF PortInv, ClaimsOnce, QueueClaims, Arrived
<1> QED BY <1>2 DEF PortInv, PortTypeOK, NoClaimLost, ClaimsOf, PendingKept

LEMMA StepInv ==
    ASSUME IInv, [Next]_vars
    PROVE  PortInv' /\ FrameInv'
<1>1. PortInv /\ FrameInv /\ HandlersActive
  BY DEF IInv
<1>2. CASE Arrive
  <2>1. PortInv'
    BY <1>1, <1>2, ArrivePort
  <2>2. UNCHANGED <<pending, next, toProvider, toSession, active, highest>>
    BY <1>2 DEF Arrive, providedVars, providerVars
  <2>3. PendingKept
    BY <1>1, <2>2 DEF PendingKept, PortInv, PortTypeOK
  <2> QED BY <1>1, <2>1, <2>2, <2>3, FramesKept
<1>3. CASE Withdraw
  <2>1. PortInv'
    BY <1>1, <1>3, WithdrawPort
  <2>2. UNCHANGED <<pending, next, toProvider, toSession, active, highest>>
    BY <1>3 DEF Withdraw, providedVars, providerVars
  <2>3. PendingKept
    BY <1>1, <2>2 DEF PendingKept, PortInv, PortTypeOK
  <2> QED BY <1>1, <2>1, <2>2, <2>3, FramesKept
<1>4. CASE Detach
  <2>1. PortInv'
    BY <1>1, <1>4, DetachPort
  <2>2. UNCHANGED <<pending, next, toProvider, toSession, active, highest>>
    BY <1>4 DEF Detach, providedVars, providerVars
  <2>3. PendingKept
    BY <1>1, <2>2 DEF PendingKept, PortInv, PortTypeOK
  <2> QED BY <1>1, <2>1, <2>2, <2>3, FramesKept
<1>5. CASE Pass
  <2>1. PortInv' /\ DOMAIN pending' = DOMAIN pending
        /\ \A s \in DOMAIN pending : pending'[s].claim = pending[s].claim
    BY <1>1, <1>5, PassPort
  <2>2. UNCHANGED <<next, toProvider, toSession, active, highest>>
    BY <1>5 DEF Pass, providerVars
  <2>3. PendingKept
    BY <1>1, <2>1, <2>2 DEF PendingKept, PortInv, PortTypeOK
  <2> QED BY <1>1, <2>1, <2>2, <2>3, FramesKept
<1>6. CASE StartTick
  <2>2. UNCHANGED <<toProvider, toSession, active, highest>>
    BY <1>6 DEF StartTick, providerVars
  <2> QED BY <1>1, <1>6, StartTickPort, <2>2, FramesKept
<1>7. CASE TakeGood
  BY <1>1, <1>7, TakeGoodPort, TakeGoodFrames
<1>8. CASE TakeRefused
  <2>2. UNCHANGED <<toProvider, toSession, active, highest>>
    BY <1>8 DEF TakeRefused, providerVars
  <2> QED BY <1>1, <1>8, TakeRefusedPort, <2>2, FramesKept
<1>9. CASE TakeShort
  <2>2. UNCHANGED <<toProvider, toSession, active, highest>>
    BY <1>9 DEF TakeShort, providerVars
  <2> QED BY <1>1, <1>9, TakeShortPort, <2>2, FramesKept
<1>10. CASE Over
  <2>2. toSession' = <<>> /\ UNCHANGED <<toProvider, active, highest>>
    BY <1>10 DEF Over, providerVars
  <2> QED BY <1>1, <1>10, OverPort, <2>2, FramesKept
<1>11. CASE OnResponse
  <2>2. /\ toSession # <<>> /\ toSession' = Tail(toSession)
        /\ UNCHANGED <<toProvider, active, highest>>
    BY <1>11 DEF OnResponse, providerVars
  <2> QED BY <1>1, <1>11, OnResponsePort, <2>2, FramesKept
<1>12. CASE Dispatch
  <2>1. PortInv'
    BY <1>1, <1>12, PortStill DEF Dispatch, portVars, providedVars
  <2> QED BY <1>1, <1>12, <2>1, DispatchFrames
<1>13. CASE HandlerReturns
  <2>1. PortInv'
    BY <1>1, <1>13, PortStill DEF HandlerReturns, portVars, providedVars
  <2> QED BY <1>1, <1>13, <2>1, HandlerReturnsFrames
<1>14. CASE ProviderEnds
  <2>1. PortInv'
    BY <1>1, <1>14, PortStill DEF ProviderEnds, portVars, providedVars
  <2> QED BY <1>1, <1>14, <2>1, ProviderEndsFrames
<1>15. CASE /\ UNCHANGED <<attached, queue, claimed, settled, pending, next>>
            /\ UNCHANGED <<toProvider, toSession, active, highest>>
  BY <1>1, <1>15, PortStill, FramesKept
<1>16. EndTick => Over \/ UNCHANGED <<attached, queue, claimed, settled, pending, next,
                                      toProvider, toSession, active, highest>>
  BY DEF EndTick, portVars, providerVars
<1>17. ServerEnds => Over
  BY DEF ServerEnds
<1>18. RunHandler \/ Lose \/ UNCHANGED vars =>
         UNCHANGED <<attached, queue, claimed, settled, pending, next,
                     toProvider, toSession, active, highest>>
  BY DEF RunHandler, Lose, vars, portVars, providedVars, providerVars
<1>19. Tick => StartTick \/ TakeGood \/ TakeRefused \/ TakeShort \/ EndTick
  BY DEF Tick
<1> QED BY <1>2, <1>3, <1>4, <1>5, <1>6, <1>7, <1>8, <1>9, <1>10, <1>11, <1>12, <1>13, <1>14,
           <1>15, <1>16, <1>17, <1>18, <1>19 DEF Next

THEOREM Invariant == Spec => []IInv
<1>1. IInv /\ [Next]_vars => IInv'
  BY StepInv, StepHandlers DEF IInv
<1> QED BY InitInv, <1>1, PTL DEF Spec

\* A late response never meets another claim under its seq, every claim the
\* session has taken is pending under one seq until it is settled, and no new
\* request is taken for a repeat: for any number of claims, any capacity and
\* however often deadlines pass, callers withdraw and handlers answer.
THEOREM ResponsesMatch == Spec => []ClaimsMatch
<1>1. IInv => ClaimsMatch
  <2> SUFFICES ASSUME IInv PROVE ClaimsMatch
    OBVIOUS
  <2>1. RightClaim
    BY DEF IInv, FrameInv, AllKnown, Known, RightClaim, Range
  <2> QED BY <2>1 DEF IInv, PortInv, FrameInv, ClaimsMatch
<1> QED BY Invariant, <1>1, PTL

-----------------------------------------------------------------------------
(* Numbers. *)

\* A set of numbers that is not empty has a least one.
LEMMA LeastNumber ==
  ASSUME NEW S \in SUBSET Nat, S # {}
  PROVE  \E n \in S : \A m \in S : n <= m
<1> DEFINE R == OpToRel(<, Nat)
<1>1. IsWellFoundedOn(R, Nat)
  BY NatLessThanWellFounded
<1>2. PICK x \in S : \A y \in S : ~(<<y, x>> \in R)
  <2> HIDE DEF R
  <2> QED BY <1>1, WFMin, Zenon
<1>3. \A y \in S : ~(y < x)
  BY <1>2 DEF OpToRel
<1> QED BY <1>3

-----------------------------------------------------------------------------
(***************************************************************************)
(* The signals of one interface over a connection.  The invariant says     *)
(* what is under way: `Numbered`, the samples on the wire and the one held *)
(* against the channel's counter; `WantedWill`, what the client asked for  *)
(* against what the session comes to once it has read its messages;        *)
(* `InOrder`, the order in which operations are asked, handled and         *)
(* answered; and `WaitsForOwed`, the client's queue against what is still  *)
(* to be answered.  Each has one lemma that every step keeps it.           *)
(***************************************************************************)

Operation == [op : {"subscribe", "read"}, id : Nat, dropped : BOOLEAN]
Message == [form : {"subscribe", "unsubscribe", "read"}, signal : All, id : Nat]
Answer == [form : {"accepted", "refused"}, signal : All, for : Nat]
Publish == [form : {"publish"}, signal : Signals, seq : Nat, version : Nat, for : Nat]
Sample == [seq : Nat, version : Nat]

\* The reads at the head of a queue, and what is left without them.
LEMMA ReadsTaken ==
  ASSUME NEW q \in Seq(Operation)
  PROVE  \E n \in 0 .. Len(q) :
            /\ \A i \in 1 .. n : q[i].op = "read"
            /\ n < Len(q) => q[n + 1].op = "subscribe"
            /\ TakeReads(q) \in Seq(Operation) /\ Len(TakeReads(q)) = Len(q) - n
            /\ \A i \in 1 .. Len(q) - n : TakeReads(q)[i] = q[n + i]
<1> DEFINE I == {i \in 1 .. Len(q) : q[i].op # "read"}
<1>1. AfterReads(q) = IF I # {} THEN Min(I) ELSE 0
  BY DEF AfterReads, SelectInSeq
<1>0. I \in SUBSET (1 .. Len(q)) /\ \A i \in 1 .. Len(q) : i \in I <=> q[i].op # "read"
  OBVIOUS
<1> HIDE DEF I
<1>2. CASE I = {}
  <2>2. \A i \in 1 .. Len(q) : q[i].op = "read"
    BY <1>0, <1>2
  <2> WITNESS Len(q) \in 0 .. Len(q)
  <2> QED BY <1>1, <1>2, <2>2 DEF TakeReads
<1>3. CASE I # {}
  <2>1. PICK m \in I : \A i \in I : m <= i
    <3> QED BY <1>3, <1>0, LeastNumber
  <2>2. Min(I) = m
    <3>2. \A x \in I : (\A y \in I : x <= y) => x = m
      BY <2>1, <1>0
    <3> QED BY <2>1, <3>2 DEF Min
  <2>3. m \in 1 .. Len(q) /\ AfterReads(q) = m
    BY <1>0, <1>1, <1>3, <2>1, <2>2
  <2>4. \A i \in 1 .. m - 1 : q[i].op = "read"
    <3> SUFFICES ASSUME NEW i \in 1 .. m - 1, q[i].op # "read" PROVE FALSE
      OBVIOUS
    <3> QED BY <2>1, <2>3, <1>0
  <2>5. q[m].op = "subscribe"
    <3>1. q[m] \in Operation /\ q[m].op # "read"
      BY <1>0, <2>1, <2>3
    <3> QED BY <3>1 DEF Operation
  <2>6. /\ SubSeq(q, m, Len(q)) \in Seq(Operation)
        /\ Len(SubSeq(q, m, Len(q))) = Len(q) - (m - 1)
        /\ \A i \in 1 .. Len(q) - (m - 1) : SubSeq(q, m, Len(q))[i] = q[(m - 1) + i]
    BY <2>3, SubSeqProperties
  <2> DEFINE n == m - 1
  <2>8. /\ n \in 0 .. Len(q)
        /\ \A i \in 1 .. n : q[i].op = "read"
        /\ n < Len(q) => q[n + 1].op = "subscribe"
        /\ TakeReads(q) \in Seq(Operation) /\ Len(TakeReads(q)) = Len(q) - n
        /\ \A i \in 1 .. Len(q) - n : TakeReads(q)[i] = q[n + i]
    BY <2>3, <2>4, <2>5, <2>6 DEF TakeReads
  <2> HIDE DEF n
  <2> QED BY <2>8
<1> QED BY <1>2, <1>3

\* The signal a tick turns to next is one that is left.
LEMMA LeastLeft ==
  ASSUME NEW S \in SUBSET Nat, S # {}
  PROVE  (CHOOSE x \in S : \A y \in S : x <= y) \in S
  BY LeastNumber

\* A tail has every element but the first, one place further to the front.
LEMMA TailPlaces ==
  ASSUME NEW S, NEW q \in Seq(S), q # <<>>
  PROVE  /\ Tail(q) \in Seq(S) /\ Len(Tail(q)) = Len(q) - 1 /\ Len(q) >= 1
         /\ Head(q) = q[1] /\ 1 \in DOMAIN q /\ Head(q) \in S
         /\ \A i \in DOMAIN Tail(q) : i + 1 \in DOMAIN q /\ Tail(q)[i] = q[i + 1]
         /\ \A i \in DOMAIN q : i # 1 => i - 1 \in DOMAIN Tail(q) /\ q[i] = Tail(q)[i - 1]
  OBVIOUS

\* One element more, behind all the others.
LEMMA AppendPlaces ==
  ASSUME NEW S, NEW q \in Seq(S), NEW e \in S
  PROVE  /\ Append(q, e) \in Seq(S) /\ Len(Append(q, e)) = Len(q) + 1
         /\ DOMAIN Append(q, e) = DOMAIN q \cup {Len(q) + 1}
         /\ \A i \in DOMAIN q : Append(q, e)[i] = q[i] /\ i < Len(q) + 1
         /\ Append(q, e)[Len(q) + 1] = e
  OBVIOUS

\* Two elements more, one after the other.
LEMMA TwoAppended ==
  ASSUME NEW S, NEW q \in Seq(S), NEW d \in S, NEW e \in S
  PROVE  q \o <<d, e>> = Append(Append(q, d), e)
  OBVIOUS

SignalsTyped ==
  /\ mode \in Modes
  /\ value \in [Signals -> [version : Nat, big : BOOLEAN]]
  /\ generation \in Nat /\ \A s \in Signals : value[s].version <= generation
  /\ subscribed \subseteq Signals
  /\ mark \in Nat \cup {-1}
  /\ DOMAIN channel \subseteq Signals
  /\ \A s \in Signals : Channel(s).counter \in Nat /\ Channel(s).last \in Nat \cup {-1}
  /\ toServer \in Seq(Message)
  /\ toClient \in Seq(Answer \cup Publish)
  /\ ops \in Nat
  /\ waiting \in [All -> Seq(Operation)]
  /\ signals \subseteq Signals /\ DOMAIN held \subseteq Signals
  /\ {early, crossed} \subseteq BOOLEAN

\* A handler under way is about a signal that can be.
JobFits ==
  \/ job = Idle
  \/ job.op = "subscribe" /\ job.signal \in All \ subscribed /\ job.id \in Nat
  \/ job.op = "poll" /\ job.left # {} /\ job.left \subseteq subscribed

\* The interface is marked with the first subscription, before it is recorded.
Marked ==
  mode = "scanning" =>
     IF job.op = "subscribe" THEN mark # -1 /\ (job.marked <=> subscribed = {})
     ELSE mark # -1 <=> subscribed # {}

\* The samples of s under way and the one the client holds, as <<seq, version>>.
Samples(s) ==
  {<<toClient[i].seq, toClient[i].version>> :
      i \in {j \in DOMAIN toClient : toClient[j].form = "publish" /\ toClient[j].signal = s}}
  \cup (IF s \in DOMAIN held THEN {<<held[s].seq, held[s].version>>} ELSE {})

\* No seq is above the counter, and the one of the counter is of the last sample.
NumberedFor(s) ==
  /\ Channel(s).last <= value[s].version
  /\ Channel(s).counter = 0 <=> Channel(s).last <= 0
  /\ \A a \in Samples(s) :
        /\ a[1] \in Nat /\ a[2] \in Nat
        /\ a[1] <= Channel(s).counter
        /\ a[1] = 0 <=> a[2] = 0
        /\ a[1] = Channel(s).counter /\ a[1] # 0 => a[2] = Channel(s).last
  /\ \A a, b \in Samples(s) : a[1] = b[1] => a[2] = b[2]
Numbered == \A s \in Signals : NumberedFor(s)

\* The session has s subscribed, or is about to.
Now(s) == s \in subscribed \/ (job.op = "subscribe" /\ job.signal = s)

\* An unsubscribe of s is under way behind the message i.
Cancelled(s, i) ==
  \E j \in DOMAIN toServer :
     j > i /\ toServer[j].signal = s /\ toServer[j].form = "unsubscribe"

\* Whether the session has s subscribed once it has read what is under way.
Will(s) ==
  \/ Now(s) /\ ~Cancelled(s, 0)
  \/ \E i \in DOMAIN toServer :
        toServer[i].signal = s /\ toServer[i].form = "subscribe" /\ ~Cancelled(s, i)

\* The client has s subscribed, or has asked and not taken it back.
Wanted(s) ==
  \/ s \in signals
  \/ \E i \in DOMAIN waiting[s] : waiting[s][i].op = "subscribe" /\ ~waiting[s][i].dropped
WantedWill ==
  /\ \A s \in Signals : Wanted(s) => Will(s)
  /\ ~crossed => \A s \in Signals : Will(s) => Wanted(s)

\* A frame that answers an operation on signal s of the form op.
AnswersTo(f, op) ==
  /\ f.form = "accepted" => op = "subscribe"
  /\ f.form = "publish" => op = "read"
  /\ f.form = "refused" /\ f.signal \in Signals => op = "read"

\* The operation n on s is still to be answered: its answer is under way, or
\* its handler, or the message that asks for it.
OwedByFrame(s, n, op) ==
  \E i \in DOMAIN toClient :
     toClient[i].signal = s /\ toClient[i].for = n /\ n # 0 /\ AnswersTo(toClient[i], op)
OwedByJob(s, n, op) ==
  job.op = "subscribe" /\ job.signal = s /\ job.id = n /\ op = "subscribe"
OwedByMessage(s, n, op) ==
  \E i \in DOMAIN toServer :
     toServer[i].signal = s /\ toServer[i].id = n /\ toServer[i].form = op
Owed(s, n, op) == OwedByFrame(s, n, op) \/ OwedByJob(s, n, op) \/ OwedByMessage(s, n, op)

\* Operations are numbered as they are sent, handled and answered.
Asked ==
  /\ \A i \in DOMAIN toServer : toServer[i].id # 0 /\ toServer[i].id <= ops
  /\ \A i, j \in DOMAIN toServer : i < j => toServer[i].id < toServer[j].id
Handled ==
  job.op = "subscribe" =>
     /\ job.id # 0 /\ job.id <= ops
     /\ \A i \in DOMAIN toServer : job.id < toServer[i].id
     /\ \A i \in DOMAIN toClient : toClient[i].for < job.id
FramesOrdered(q) ==
  \A i \in DOMAIN q :
     /\ \A j \in DOMAIN q : i < j /\ q[j].for # 0 => q[i].for < q[j].for
     /\ q[i].form # "publish" => q[i].for # 0
     /\ q[i].form = "accepted" => q[i].signal \in Signals
Replied ==
  /\ FramesOrdered(toClient)
  /\ \A i \in DOMAIN toClient :
        /\ toClient[i].for <= ops
        /\ \A j \in DOMAIN toServer : toClient[i].for < toServer[j].id
InOrder == Asked /\ Handled /\ Replied

\* The client waits for what is owed, for all of it unless a publish came early.
WaitsForOwed ==
  /\ \A s \in All : \A i \in DOMAIN waiting[s] :
        /\ Owed(s, waiting[s][i].id, waiting[s][i].op)
        /\ \A j \in DOMAIN waiting[s] : i < j => waiting[s][i].id < waiting[s][j].id
  /\ ~early => /\ ~crossed
               /\ \A s \in All, n \in 1 .. ops, op \in {"subscribe", "read"} :
                     Owed(s, n, op) => \E i \in DOMAIN waiting[s] : waiting[s][i].id = n

SignalsInv ==
  SignalsTyped /\ JobFits /\ Marked /\ Numbered /\ WantedWill /\ InOrder /\ WaitsForOwed

\* A channel that is set, and the others as they were.
LEMMA ChannelSet ==
  ASSUME NEW s \in Signals, NEW r, channel' = With(channel, s, r)
  PROVE  /\ DOMAIN channel' = DOMAIN channel \cup {s}
         /\ Channel(s)' = r
         /\ \A t \in Signals \ {s} : Channel(t)' = Channel(t)
  BY DEF With, Channel

\* What a published sample leaves in its channel.
LEMMA ChannelPublished ==
  ASSUME SignalsTyped, NEW s \in Signals, NEW fresh \in BOOLEAN, NEW isNew \in BOOLEAN,
         channel' = Published(s, fresh, isNew)
  PROVE  /\ DOMAIN channel' \subseteq Signals
         /\ \A t \in Signals \ {s} : Channel(t)' = Channel(t)
         /\ value[s].version = 0 =>
               /\ Channel(s)'.counter = Channel(s).counter
               /\ Channel(s)'.last \in {Channel(s).last, 0}
         /\ value[s].version # 0 =>
               /\ Channel(s)'.counter = PublishSeq(s, fresh)
               /\ Channel(s)'.last = value[s].version
         /\ PublishSeq(s, fresh) \in Nat /\ value[s].version \in Nat
<1> DEFINE r == [counter |-> IF value[s].version = 0 THEN Channel(s).counter
                             ELSE PublishSeq(s, fresh),
                 last |-> value[s].version]
<1>1. PublishSeq(s, fresh) \in Nat /\ value[s].version \in Nat
  BY DEF SignalsTyped, PublishSeq
<1>2. CASE value[s].version = 0 /\ ~isNew /\ s \notin DOMAIN channel
  <2> QED BY <1>1, <1>2 DEF Channel, SignalsTyped, Published
<1>3. CASE ~(value[s].version = 0 /\ ~isNew /\ s \notin DOMAIN channel)
  <2>1. channel' = With(channel, s, r)
    BY <1>3 DEF Published
  <2>2. /\ r.counter = IF value[s].version = 0 THEN Channel(s).counter
                       ELSE PublishSeq(s, fresh)
        /\ r.last = value[s].version
    OBVIOUS
  <2> HIDE DEF r
  <2>3. /\ DOMAIN channel' = DOMAIN channel \cup {s}
        /\ Channel(s)' = r
        /\ \A t \in Signals \ {s} : Channel(t)' = Channel(t)
    BY <2>1, ChannelSet
  <2>4. DOMAIN channel' \subseteq Signals
    BY <2>3 DEF SignalsTyped
  <2> QED BY <1>1, <2>2, <2>3, <2>4
<1> QED BY <1>2, <1>3

\* A published sample leaves the channels well formed.
LEMMA ChannelsTyped ==
  ASSUME SignalsTyped, NEW s \in Signals, NEW fresh \in BOOLEAN, NEW isNew \in BOOLEAN,
         channel' = Published(s, fresh, isNew)
  PROVE  /\ DOMAIN channel' \subseteq Signals
         /\ \A t \in Signals : Channel(t)'.counter \in Nat /\ Channel(t)'.last \in Nat \cup {-1}
<1>1. \A t \in Signals : Channel(t).counter \in Nat /\ Channel(t).last \in Nat \cup {-1}
  BY DEF SignalsTyped
<1>2. /\ DOMAIN channel' \subseteq Signals
      /\ \A t \in Signals \ {s} : Channel(t)' = Channel(t)
      /\ value[s].version = 0 =>
               /\ Channel(s)'.counter = Channel(s).counter
               /\ Channel(s)'.last \in {Channel(s).last, 0}
      /\ value[s].version # 0 =>
               /\ Channel(s)'.counter = PublishSeq(s, fresh)
               /\ Channel(s)'.last = value[s].version
      /\ PublishSeq(s, fresh) \in Nat /\ value[s].version \in Nat
  BY ChannelPublished
<1>4. ASSUME NEW t \in Signals
      PROVE  Channel(t)'.counter \in Nat /\ Channel(t)'.last \in Nat \cup {-1}
  <2>1. CASE t = s
    BY <1>1, <1>2, <2>1
  <2>2. CASE t # s
    <3> QED BY <1>1, <1>2, <2>2
  <2> QED BY <2>1, <2>2
<1> QED BY <1>2, <1>4

\* The frame of a sample.
LEMMA FrameTyped ==
  ASSUME SignalsTyped, NEW s \in Signals, NEW fresh \in BOOLEAN, NEW n \in Nat
  PROVE  PublishFrame(s, fresh, n) \in Publish
<1> QED BY DEF PublishFrame, Publish, SignalsTyped, PublishSeq

\* The message that a handler takes.
LEMMA Received ==
  ASSUME SignalsTyped, NEW form, Handle(form)
  PROVE  /\ toServer \in Seq(Message) /\ toServer # <<>>
         /\ Head(toServer) \in Message /\ Head(toServer) = toServer[1]
         /\ Head(toServer).signal \in All /\ Head(toServer).id \in Nat
         /\ Head(toServer).form = form /\ toServer' \in Seq(Message) /\ job = Idle
<1>1. toServer \in Seq(Message) /\ toServer # <<>> /\ toServer' = Tail(toServer)
      /\ Head(toServer).form = form /\ job = Idle
  BY DEF Handle, SignalsTyped
<1>2. Head(toServer) \in Message /\ Head(toServer) = toServer[1] /\ Tail(toServer) \in Seq(Message)
  BY <1>1, TailPlaces
<1> QED BY <1>1, <1>2 DEF Message

\* A fetch ends in one of three ways, and only a served signal gets past the first.
LEMMA ServedSignals ==
  ASSUME NEW s \in All
  PROVE  Fetch(s) \in {"contract", "too large", "sample"} /\ (Fetch(s) # "contract" => s \in Signals)
  BY DEF Fetch, All

\* A subscribe between its mark and its fetch.
LEMMA Fetching ==
  ASSUME JobFits, job.op = "subscribe"
  PROVE  job.signal \in All \ subscribed /\ job.id \in Nat /\ job # Idle
  BY DEF JobFits, Idle

\* A tick between two of its fetches, and the signal it turns to.
LEMMA Polled ==
  ASSUME JobFits, SignalsTyped, job.op = "poll"
  PROVE  /\ job.left # {} /\ job.left \subseteq subscribed
         /\ (CHOOSE x \in job.left : \A y \in job.left : x <= y) \in job.left
         /\ job.left \subseteq Signals
<1>1. job.left # {} /\ job.left \subseteq subscribed /\ job.left \subseteq Signals
  BY DEF JobFits, Idle, SignalsTyped
<1> QED BY <1>1, WsSignalsAssumption, LeastLeft

\* A tick over subscribed signals is a handler that fits.
LEMMA PollFits ==
  ASSUME NEW S, S \subseteq subscribed, subscribed' = subscribed, job' = Polling(S)
  PROVE  JobFits' /\ job'.op # "subscribe"
<1>1. CASE S = {}
  BY <1>1 DEF Polling, JobFits, Idle
<1>2. CASE S # {}
  <2> QED BY <1>2 DEF JobFits, Polling
<1> QED BY <1>1, <1>2

\* What the client's queues hold after each of its steps.
LEMMA QueueAppended ==
  ASSUME SignalsTyped, NEW s \in All, NEW op \in {"subscribe", "read"}, waiting' = Enqueue(s, op)
  PROVE  waiting' \in [All -> Seq(Operation)]
<1> DEFINE e == [op |-> op, id |-> ops + 1, dropped |-> FALSE]
<1>1. waiting \in [All -> Seq(Operation)] /\ e \in Operation
  BY DEF SignalsTyped, Operation
<1>2. waiting' = [waiting EXCEPT ![s] = Append(@, e)]
  BY DEF Enqueue
<1> HIDE DEF e
<1>3. Append(waiting[s], e) \in Seq(Operation)
  BY <1>1
<1> QED BY <1>1, <1>2, <1>3

\* An unsubscribe drops the subscribes that wait, and nothing else changes in the queue.
LEMMA QueueDropped ==
  ASSUME SignalsTyped, NEW s \in All, ClientUnsubscribe(s)
  PROVE  /\ waiting' \in [All -> Seq(Operation)]
         /\ \A t \in All \ {s} : waiting'[t] = waiting[t]
         /\ DOMAIN waiting'[s] = DOMAIN waiting[s]
         /\ \A i \in DOMAIN waiting[s] :
               /\ waiting'[s][i].op = waiting[s][i].op /\ waiting'[s][i].id = waiting[s][i].id
               /\ waiting'[s][i].dropped <=>
                     waiting[s][i].dropped \/ waiting[s][i].op = "subscribe"
<1> DEFINE q == waiting[s]
           r == [i \in DOMAIN q |-> [q[i] EXCEPT !.dropped = @ \/ q[i].op = "subscribe"]]
<1>1. waiting \in [All -> Seq(Operation)] /\ q \in Seq(Operation)
  BY DEF SignalsTyped
<1>2. waiting' = [waiting EXCEPT ![s] = r]
  BY <1>1 DEF ClientUnsubscribe, Send, Dropped
<1>3. DOMAIN r = DOMAIN q
  OBVIOUS
<1>4. ASSUME NEW i \in DOMAIN q
      PROVE  /\ r[i] \in Operation /\ r[i].op = q[i].op /\ r[i].id = q[i].id
             /\ r[i].dropped <=> q[i].dropped \/ q[i].op = "subscribe"
  <2>1. q[i] \in Operation
    BY <1>1, <1>4
  <2>3. r[i] = [op |-> q[i].op, id |-> q[i].id,
                dropped |-> (q[i].dropped \/ q[i].op = "subscribe")]
    BY <2>1, <1>4 DEF Operation
  <2>5. r[i].dropped <=> (q[i].dropped \/ q[i].op = "subscribe")
    BY <2>3, Zenon
  <2>6. r[i] \in Operation
    BY <2>1, <2>3 DEF Operation
  <2> QED BY <2>3, <2>5, <2>6
<1>5. r \in Seq(Operation)
  <2>1. DOMAIN q = 1 .. Len(q) /\ Len(q) \in Nat
    BY <1>1
  <2>2. r \in [1 .. Len(q) -> Operation]
    BY <1>3, <1>4, <2>1
  <2> QED BY <2>1, <2>2
<1> HIDE DEF r
<1>6. waiting'[s] = r /\ waiting' \in [All -> Seq(Operation)]
      /\ \A t \in All \ {s} : waiting'[t] = waiting[t]
  BY <1>1, <1>2, <1>5
<1> QED BY <1>3, <1>4, <1>6

\* The frame the client takes.
LEMMA FrontFrame ==
  ASSUME SignalsTyped, ClientReceive
  PROVE  /\ toClient \in Seq(Answer \cup Publish) /\ toClient # <<>> /\ toClient' = Tail(toClient)
         /\ Head(toClient) \in Answer \cup Publish /\ Head(toClient) = toClient[1]
         /\ Head(toClient).signal \in All /\ Head(toClient).for \in Nat
         /\ toClient' \in Seq(Answer \cup Publish)
<1>1. toClient \in Seq(Answer \cup Publish) /\ toClient # <<>> /\ toClient' = Tail(toClient)
  BY DEF ClientReceive, SignalsTyped
<1> QED BY <1>1, TailPlaces DEF Answer, Publish, All

\* An answer leaves the queues well formed.
LEMMA QueueTaken ==
  ASSUME SignalsTyped, ClientReceive, OnAnswer(Head(toClient))
  PROVE  waiting' \in [All -> Seq(Operation)]
<1> DEFINE s == Head(toClient).signal
<1>1. s \in All /\ waiting \in [All -> Seq(Operation)] /\ waiting[s] \in Seq(Operation)
  BY FrontFrame DEF SignalsTyped
<1>2. \/ waiting' = waiting
      \/ waiting[s] # <<>> /\ waiting' = [waiting EXCEPT ![s] = Tail(waiting[s])]
  BY <1>1 DEF OnAnswer
<1> HIDE DEF s
<1>3. waiting[s] # <<>> => Tail(waiting[s]) \in Seq(Operation)
  BY <1>1
<1> QED BY <1>1, <1>2, <1>3

\* So does a publish.
LEMMA QueueRead ==
  ASSUME SignalsTyped, ClientReceive, OnPublish(Head(toClient))
  PROVE  waiting' \in [All -> Seq(Operation)]
<1> DEFINE s == Head(toClient).signal
<1>1. s \in All /\ waiting \in [All -> Seq(Operation)] /\ waiting[s] \in Seq(Operation)
  BY FrontFrame DEF SignalsTyped
<1>2. waiting' = [waiting EXCEPT ![s] = TakeReads(waiting[s])]
  BY <1>1 DEF OnPublish
<1> HIDE DEF s
<1>3. TakeReads(waiting[s]) \in Seq(Operation)
  BY <1>1, ReadsTaken
<1> QED BY <1>1, <1>2, <1>3

\* Every step keeps the types and a handler that fits.
LEMMA SignalsTypedStep ==
  ASSUME SignalsTyped, JobFits, InOrder, SignalsNext
  PROVE  SignalsTyped' /\ JobFits'
<1>1. ASSUME NEW s \in Signals, NEW big \in Sizes, Commit(s, big)
      PROVE  SignalsTyped' /\ JobFits'
  <2> DEFINE r == [version |-> generation + 1, big |-> big]
  <2>1. value \in [Signals -> [version : Nat, big : BOOLEAN]] /\ generation \in Nat
        /\ big \in BOOLEAN /\ generation' = generation + 1
        /\ value' = [value EXCEPT ![s] = r]
        /\ UNCHANGED <<mode, subscribed, channel, mark, job, toServer, toClient,
                       ops, waiting, signals, held, early, crossed>>
    BY <1>1, WsSignalsAssumption DEF Commit, SignalsTyped, sessionVars, clientVars
  <2>2. r \in [version : Nat, big : BOOLEAN] /\ r.version = generation + 1
    BY <2>1
  <2> HIDE DEF r
  <2>3. value' \in [Signals -> [version : Nat, big : BOOLEAN]]
        /\ \A t \in Signals : value'[t] = value[t] \/ value'[t] = r
    BY <2>1, <2>2
  <2>4. \A t \in Signals : value'[t].version <= generation'
    <3> TAKE t \in Signals
    <3> QED BY <2>1, <2>2, <2>3 DEF SignalsTyped
  <2>6. JobFits'
    BY <2>1 DEF JobFits, Idle
  <2>7. SignalsTyped'
    BY <2>1, <2>3, <2>4 DEF SignalsTyped, Channel
  <2> QED BY <2>6, <2>7
<1>2. ASSUME NEW s \in All,
             \/ waiting' \in [All -> Seq(Operation)] /\ ClientSubscribe(s)
             \/ waiting' \in [All -> Seq(Operation)] /\ ClientUnsubscribe(s)
             \/ waiting' \in [All -> Seq(Operation)] /\ ClientRead(s)
      PROVE  SignalsTyped' /\ JobFits'
  <2>1. PICK form \in {"subscribe", "unsubscribe", "read"} :
           /\ ops' = ops + 1
           /\ toServer' = Append(toServer, [form |-> form, signal |-> s, id |-> ops + 1])
    BY <1>2 DEF ClientSubscribe, ClientUnsubscribe, ClientRead, Send
  <2>2. UNCHANGED <<mode, value, generation, subscribed, channel, mark, job, toClient,
                    early, crossed>>
    BY <1>2 DEF ClientSubscribe, ClientUnsubscribe, ClientRead, Send, backendVars, sessionVars
  <2>3. signals' \subseteq signals /\ DOMAIN held' \subseteq DOMAIN held
    BY <1>2 DEF ClientSubscribe, ClientUnsubscribe, ClientRead, Drop
  <2> DEFINE m == [form |-> form, signal |-> s, id |-> ops + 1]
  <2>4. m \in Message /\ toServer \in Seq(Message) /\ ops \in Nat /\ toServer' = Append(toServer, m)
    BY <2>1 DEF Message, SignalsTyped
  <2> HIDE DEF m
  <2>6. \A t \in Signals : Channel(t)' = Channel(t)
    BY <2>2 DEF Channel
  <2>7. JobFits'
    BY <2>2 DEF JobFits, Idle
  <2>8. SignalsTyped'
    BY <1>2, <2>1, <2>2, <2>3, <2>4, <2>6 DEF SignalsTyped
  <2> QED BY <2>7, <2>8
<1>3. CASE Subscribe
  <2> DEFINE s == Head(toServer).signal
             id == Head(toServer).id
             r == [op |-> "subscribe", signal |-> s, id |-> id,
                   marked |-> mode = "scanning" /\ mark = -1]
  <2>1. s \in All /\ id \in Nat /\ toServer' \in Seq(Message) /\ job = Idle
    BY <1>3, Received DEF Subscribe
  <2>2. UNCHANGED <<mode, value, generation, subscribed, channel, ops, waiting, signals,
                    held, early, crossed>>
    BY <1>3 DEF Subscribe, backendVars, clientVars
  <2>3. \/ s \in subscribed /\ toClient' = Append(toClient, AcceptedFor(s, id))
           /\ UNCHANGED <<mark, job>>
        \/ s \notin subscribed /\ mark' \in {mark, generation} /\ job' = r
           /\ UNCHANGED toClient
    BY <1>3 DEF Subscribe
  <2>4. r.op = "subscribe" /\ r.signal = s /\ r.id = id
    OBVIOUS
  <2>6. toClient' \in Seq(Answer \cup Publish)
    <3> DEFINE a == AcceptedFor(s, id)
    <3>1. a \in Answer /\ (toClient' = Append(toClient, a) \/ toClient' = toClient)
      BY <2>3, <2>1 DEF AcceptedFor, Answer
    <3> HIDE DEF a
    <3>2. toClient \in Seq(Answer \cup Publish)
      BY DEF SignalsTyped
    <3> QED BY <3>1, <3>2
  <2> HIDE DEF r, s, id
  <2>7. JobFits'
    BY <2>1, <2>2, <2>3, <2>4 DEF JobFits
  <2>9. SignalsTyped'
    BY <2>1, <2>2, <2>3, <2>6 DEF SignalsTyped, Channel
  <2> QED BY <2>7, <2>9
<1>4. CASE SubscribeFetched
  <2> DEFINE s == job.signal
             id == job.id
             f == PublishFrame(s, FALSE, 0)
             a == AcceptedFor(s, id)
             b == RefusedFor(s, id)
  <2>1. s \in All /\ id \in Nat /\ job' = Idle
    BY <1>4, Fetching DEF SubscribeFetched
  <2>2. UNCHANGED <<mode, value, generation, toServer, ops, waiting, signals, held,
                    early, crossed>>
    BY <1>4 DEF SubscribeFetched, backendVars, clientVars
  <2>3. JobFits'
    BY <2>1 DEF JobFits
  <2>4. a \in Answer /\ b \in Answer
    BY <2>1 DEF AcceptedFor, RefusedFor, Answer
  <2>5. CASE Fetch(s) = "contract"
    <3>1. mark' \in {-1, mark} /\ toClient' = Append(toClient, b) /\ UNCHANGED <<subscribed, channel>>
      BY <1>4, <2>5 DEF SubscribeFetched
    <3>2. toClient' \in Seq(Answer \cup Publish)
      <4> HIDE DEF b
      <4> QED BY <2>4, <3>1 DEF SignalsTyped
    <3>4. SignalsTyped'
      <4> HIDE DEF b
      <4> QED BY <2>2, <3>1, <3>2 DEF SignalsTyped, Channel
    <3> QED BY <2>3, <3>4
  <2>6. CASE Fetch(s) = "sample"
    <3>1. s \in Signals
      BY <2>1, <2>6, ServedSignals
    <3>2. subscribed' = subscribed \cup {s} /\ channel' = Published(s, FALSE, TRUE)
          /\ toClient' = toClient \o <<a, f>> /\ UNCHANGED mark
      BY <1>4, <2>6 DEF SubscribeFetched
    <3>3. f \in Publish
      BY <3>1, FrameTyped
    <3> HIDE DEF s, a, f
    <3>4. /\ DOMAIN channel' \subseteq Signals
          /\ \A t \in Signals : Channel(t)'.counter \in Nat /\ Channel(t)'.last \in Nat \cup {-1}
      <4> DEFINE fr == FALSE
                 isNew == TRUE
      <4> HIDE DEF fr, isNew
      <4> QED BY <3>1, <3>2, ChannelsTyped
    <3>5. toClient' \in Seq(Answer \cup Publish)
      BY <2>4, <3>2, <3>3 DEF SignalsTyped
    <3>7. SignalsTyped'
      BY <2>2, <3>1, <3>2, <3>4, <3>5 DEF SignalsTyped
    <3> QED BY <2>3, <3>7
  <2>7. CASE Fetch(s) = "too large"
    <3>1. s \in Signals
      BY <2>1, <2>7, ServedSignals
    <3>2. subscribed' = subscribed \cup {s} /\ channel' = With(channel, s, Channel(s))
          /\ toClient' = Append(toClient, a) /\ UNCHANGED mark
      BY <1>4, <2>7 DEF SubscribeFetched
    <3> HIDE DEF s, a
    <3>3. /\ DOMAIN channel' = DOMAIN channel \cup {s}
          /\ \A t \in Signals : Channel(t)' = Channel(t)
      <4> DEFINE r == Channel(s)
      <4> HIDE DEF r
      <4> QED BY <3>1, <3>2, ChannelSet
    <3>5. SignalsTyped'
      BY <2>2, <3>1, <3>2, <3>3, <2>4 DEF SignalsTyped
    <3> QED BY <2>3, <3>5
  <2> QED BY <2>1, <2>5, <2>6, <2>7, ServedSignals
<1>5. CASE Unsubscribe
  <2>1. job = Idle /\ toServer' \in Seq(Message)
    BY <1>5, Received DEF Unsubscribe
  <2>2. UNCHANGED <<mode, value, generation, channel, job, toClient, ops, waiting, signals,
                    held, early, crossed>>
    BY <1>5 DEF Unsubscribe, backendVars, clientVars
  <2>4. \A t \in Signals : Channel(t)' = Channel(t)
    BY <2>2 DEF Channel
  <2>5. SignalsTyped'
    BY <2>1, <2>2, <1>5, <2>4 DEF SignalsTyped, Unsubscribe
  <2> QED BY <2>1, <2>2, <2>5 DEF JobFits
<1>6. CASE Read
  <2> DEFINE s == Head(toServer).signal
             id == Head(toServer).id
             f == PublishFrame(s, FALSE, id)
             b == RefusedFor(s, id)
  <2>1. s \in All /\ id \in Nat /\ toServer' \in Seq(Message) /\ job = Idle
    BY <1>6, Received DEF Read
  <2>2. UNCHANGED <<mode, value, generation, subscribed, mark, job, ops, waiting, signals,
                    held, early, crossed>>
    BY <1>6 DEF Read, backendVars, clientVars
  <2>3. JobFits'
    BY <2>1, <2>2 DEF JobFits
  <2>4. CASE Fetch(s) = "sample"
    <3>1. s \in Signals
      BY <2>1, <2>4, ServedSignals
    <3>2. channel' = Published(s, FALSE, FALSE) /\ toClient' = Append(toClient, f)
      BY <1>6, <2>4 DEF Read
    <3>3. f \in Publish
      BY <2>1, <3>1, FrameTyped
    <3> HIDE DEF s, f
    <3>4. /\ DOMAIN channel' \subseteq Signals
          /\ \A t \in Signals : Channel(t)'.counter \in Nat /\ Channel(t)'.last \in Nat \cup {-1}
      <4> DEFINE fr == FALSE
                 isNew == FALSE
      <4> HIDE DEF fr, isNew
      <4> QED BY <3>1, <3>2, ChannelsTyped
    <3>5. toClient' \in Seq(Answer \cup Publish)
      BY <3>2, <3>3 DEF SignalsTyped
    <3>7. SignalsTyped'
      BY <2>1, <2>2, <3>4, <3>5 DEF SignalsTyped
    <3> QED BY <2>3, <3>7
  <2>5. CASE Fetch(s) # "sample"
    <3>1. toClient' = Append(toClient, b) /\ UNCHANGED channel
      BY <1>6, <2>5 DEF Read
    <3>2. b \in Answer
      BY <2>1 DEF RefusedFor, Answer
    <3> HIDE DEF b, s
    <3>3. toClient' \in Seq(Answer \cup Publish)
      BY <3>1, <3>2 DEF SignalsTyped
    <3>5. SignalsTyped'
      BY <2>1, <2>2, <3>1, <3>3 DEF SignalsTyped, Channel
    <3> QED BY <2>3, <3>5
  <2> QED BY <2>4, <2>5
<1>7. CASE StartPoll
  <2>1. UNCHANGED <<mode, value, generation, subscribed, channel, toServer, toClient, ops,
                    waiting, signals, held, early, crossed>>
    BY <1>7 DEF StartPoll, backendVars, clientVars
  <2>2. PICK S : S \subseteq subscribed /\ job' = Polling(S) /\ mark' \in {mark, generation}
    <3> DEFINE S == IF mode = "scanning" THEN {s \in subscribed : changedAt[s] > mark} ELSE subscribed
    <3>1. S \subseteq subscribed
      OBVIOUS
    <3>2. job' = Polling(S) /\ mark' \in {mark, generation}
      BY <1>7 DEF StartPoll
    <3> HIDE DEF S
    <3> QED BY <3>1, <3>2
  <2>3. JobFits'
    BY <2>1, <2>2, PollFits
  <2>5. SignalsTyped'
    BY <2>1, <2>2 DEF SignalsTyped, Channel
  <2> QED BY <2>3, <2>5
<1>8. CASE PollSignal
  <2> DEFINE s == CHOOSE x \in job.left : \A y \in job.left : x <= y
             fresh == mode = "scanning"
             f == PublishFrame(s, fresh, 0)
             S == job.left \ {s}
  <2>1. s \in Signals /\ job.left \subseteq subscribed
    BY <1>8, Polled DEF PollSignal
  <2>2. UNCHANGED <<mode, value, generation, subscribed, mark, toServer, ops, waiting, signals,
                    held, early, crossed>>
    BY <1>8 DEF PollSignal, backendVars, clientVars
  <2>4. \/ channel' = Published(s, fresh, TRUE) /\ toClient' = Append(toClient, f)
        \/ UNCHANGED <<channel, toClient>>
    BY <1>8 DEF PollSignal
  <2>5. f \in Publish /\ fresh \in BOOLEAN
    BY <2>1, FrameTyped
  <2> HIDE DEF s, f, S, fresh
  <2>6. JobFits'
    BY <2>2, <1>8, <2>1, PollFits DEF PollSignal
  <2>7. CASE channel' = Published(s, fresh, TRUE) /\ toClient' = Append(toClient, f)
    <3>4. /\ DOMAIN channel' \subseteq Signals
          /\ \A t \in Signals : Channel(t)'.counter \in Nat /\ Channel(t)'.last \in Nat \cup {-1}
      <4> DEFINE fr == fresh
                 isNew == TRUE
      <4> HIDE DEF fr, isNew
      <4> QED BY <2>1, <2>5, <2>7, ChannelsTyped
    <3>5. toClient' \in Seq(Answer \cup Publish)
      BY <2>5, <2>7 DEF SignalsTyped
    <3>7. SignalsTyped'
      BY <2>2, <3>4, <3>5 DEF SignalsTyped
    <3> QED BY <2>6, <3>7
  <2>8. CASE UNCHANGED <<channel, toClient>>
    <3>5. SignalsTyped'
      BY <2>2, <2>8 DEF SignalsTyped, Channel
    <3> QED BY <2>6, <3>5
  <2> QED BY <2>4, <2>7, <2>8
<1>9. CASE ClientReceive
  <2> DEFINE f == Head(toClient)
             s == f.signal
  <2>1. /\ f \in Answer \cup Publish /\ f = toClient[1] /\ s \in All
        /\ toClient' \in Seq(Answer \cup Publish) /\ 1 \in DOMAIN toClient
    <3>2. 1 \in DOMAIN toClient
      BY <1>9, FrontFrame
    <3> QED BY <1>9, <3>2, FrontFrame
  <2>2. UNCHANGED <<mode, value, generation, subscribed, channel, mark, job, toServer, ops>>
    BY <1>9 DEF ClientReceive, backendVars, sessionVars
  <2>3. JobFits'
    BY <2>2 DEF JobFits, Idle
  <2>4. \A t \in Signals : Channel(t)' = Channel(t)
    BY <2>2 DEF Channel
  <2>5. CASE OnAnswer(f)
    <3>1. waiting' \in [All -> Seq(Operation)]
      BY <1>9, <2>5, QueueTaken
    <3>2. f.form = "accepted" => s \in Signals
      BY <2>1 DEF InOrder, Asked, Handled, Replied, FramesOrdered
    <3>3. signals' \subseteq Signals /\ UNCHANGED <<held, early>>
      BY <2>5, <3>2 DEF OnAnswer, SignalsTyped
    <3>4. crossed' \in BOOLEAN
      <4>1. crossed' <=> (crossed \/ (waiting[s] # <<>> /\ (f.form = "refused" \/ Head(waiting[s]).op = "subscribe")
                           /\ Head(waiting[s]).id # f.for))
        BY <2>5 DEF OnAnswer
      <4> QED BY <2>5 DEF OnAnswer
    <3> HIDE DEF f, s
    <3>6. SignalsTyped'
      BY <2>1, <2>2, <2>4, <3>1, <3>3, <3>4 DEF SignalsTyped
    <3> QED BY <2>3, <3>6
  <2>6. CASE OnPublish(f)
    <3>1. waiting' \in [All -> Seq(Operation)]
      BY <1>9, <2>6, QueueRead
    <3>3. DOMAIN held' \subseteq Signals
      BY <2>6, <2>1 DEF OnPublish, With, SignalsTyped, Answer, Publish
    <3>4. early' \in BOOLEAN
      BY <2>6 DEF OnPublish
    <3>5. UNCHANGED <<signals, crossed>>
      BY <2>6 DEF OnPublish
    <3>6. crossed \in BOOLEAN
      BY DEF SignalsTyped
    <3> HIDE DEF f, s
    <3>7. SignalsTyped'
      BY <2>1, <2>2, <2>4, <3>1, <3>3, <3>4, <3>5 DEF SignalsTyped
    <3> QED BY <2>3, <3>7
  <2> QED BY <1>9, <2>5, <2>6 DEF ClientReceive
<1>10. ASSUME NEW s \in All, ClientSubscribe(s) \/ ClientRead(s)
       PROVE  waiting' \in [All -> Seq(Operation)]
  <2>1. CASE ClientSubscribe(s)
    <3> QED BY <2>1, QueueAppended DEF ClientSubscribe, Send
  <2>2. CASE ClientRead(s)
    <3> QED BY <2>2, QueueAppended DEF ClientRead, Send
  <2> QED BY <1>10, <2>1, <2>2
<1>11. ASSUME NEW s \in All, ClientUnsubscribe(s)
       PROVE  waiting' \in [All -> Seq(Operation)]
  BY <1>11, QueueDropped
<1> QED BY <1>1, <1>2, <1>3, <1>4, <1>5, <1>6, <1>7, <1>8, <1>9, <1>10, <1>11 DEF SignalsNext, Session

\* The interface stays marked from the first subscription to the last unsubscribe.
LEMMA MarkedStep ==
  ASSUME SignalsTyped, JobFits, Marked, SignalsNext
  PROVE  Marked'
<1>1. ASSUME UNCHANGED <<mode, subscribed, mark, job>>
      PROVE  Marked'
  BY <1>1 DEF Marked
<1>2. ASSUME NEW s \in Signals, NEW big \in Sizes, Commit(s, big)
      PROVE  Marked'
  BY <1>1, <1>2 DEF Commit, sessionVars
<1>3. ASSUME NEW s \in All, ClientSubscribe(s) \/ ClientUnsubscribe(s) \/ ClientRead(s)
      PROVE  Marked'
  BY <1>1, <1>3 DEF ClientSubscribe, ClientUnsubscribe, ClientRead, Send, backendVars, sessionVars
<1>4. CASE ClientReceive
  BY <1>1, <1>4 DEF ClientReceive, backendVars, sessionVars
<1>5. CASE Subscribe
  <2> DEFINE s == Head(toServer).signal
             r == [op |-> "subscribe", signal |-> s, id |-> Head(toServer).id,
                   marked |-> mode = "scanning" /\ mark = -1]
  <2>1. job = Idle /\ UNCHANGED <<mode, subscribed>>
    BY <1>5 DEF Subscribe, Handle, backendVars
  <2>3. CASE UNCHANGED <<mark, job>>
    BY <1>1, <2>1, <2>3
  <2>4. CASE job' = r /\ mark' = IF mode = "scanning" /\ mark = -1 THEN generation ELSE mark
    <3>1. SUFFICES ASSUME mode = "scanning"
                   PROVE  mark' # -1 /\ (job'.marked <=> subscribed = {}) /\ job'.op = "subscribe"
      BY <2>1 DEF Marked
    <3>2. r.op = "subscribe" /\ (r.marked <=> mark = -1)
      BY <3>1
    <3>4. mark' # -1
      BY <2>4, <3>1 DEF SignalsTyped
    <3>5. job'.op = "subscribe" /\ (job'.marked <=> mark = -1)
      <4> HIDE DEF r
      <4> QED BY <2>4, <3>2
    <3> QED BY <2>1, <3>1, <3>4, <3>5 DEF Marked, Idle
  <2> QED BY <1>5, <2>3, <2>4 DEF Subscribe
<1>6. CASE SubscribeFetched
  <2>1. job.op = "subscribe" /\ job' = Idle /\ UNCHANGED mode
    BY <1>6 DEF SubscribeFetched, backendVars
  <2>2. SUFFICES ASSUME mode = "scanning"
                 PROVE  mark' # -1 <=> subscribed' # {}
    BY <2>1 DEF Marked, Idle
  <2>4. \/ mark' = (IF job.marked THEN -1 ELSE mark) /\ UNCHANGED subscribed
        \/ mark' = mark /\ subscribed' = subscribed \cup {job.signal}
    <3>2. CASE Fetch(job.signal) = "contract"
      BY <1>6, <3>2 DEF SubscribeFetched
    <3>3. CASE Fetch(job.signal) = "sample"
      BY <1>6, <3>3 DEF SubscribeFetched
    <3>4. CASE Fetch(job.signal) = "too large"
      BY <1>6, <3>4 DEF SubscribeFetched
    <3> QED BY <2>1, Fetching, ServedSignals, <3>2, <3>3, <3>4
  <2> QED BY <2>1, <2>2, <2>4 DEF Marked
<1>7. CASE Unsubscribe
  <2> QED BY <1>7 DEF Marked, Idle, Unsubscribe, Handle, backendVars
<1>8. CASE Read
  BY <1>1, <1>8 DEF Read, backendVars
<1>9. CASE StartPoll
  <2>2. job'.op # "subscribe"
    BY <1>9 DEF StartPoll, Polling, Idle
  <2>3. mode = "scanning" => mark # -1 /\ mark' = generation
    BY <1>9 DEF StartPoll
  <2> QED BY <1>9, <2>2, <2>3 DEF Marked, Idle, SignalsTyped, StartPoll, backendVars
<1>10. CASE PollSignal
  <2>2. job'.op # "subscribe"
    BY <1>10 DEF PollSignal, Polling, Idle
  <2> QED BY <1>10, <2>2 DEF Marked, PollSignal, backendVars
<1> QED BY <1>2, <1>3, <1>4, <1>5, <1>6, <1>7, <1>8, <1>9, <1>10 DEF SignalsNext, Session
-----------------------------------------------------------------------------
\* A sample of s is in a frame under way, or the client holds it.
LEMMA InSamples ==
  ASSUME NEW s, NEW a
  PROVE  a \in Samples(s) <=>
           \/ \E i \in DOMAIN toClient :
                 /\ toClient[i].form = "publish" /\ toClient[i].signal = s
                 /\ a = <<toClient[i].seq, toClient[i].version>>
           \/ s \in DOMAIN held /\ a = <<held[s].seq, held[s].version>>
  BY DEF Samples

\* The same after a step.
LEMMA InSamplesNext ==
  ASSUME NEW s, NEW a
  PROVE  a \in Samples(s)' <=>
           \/ \E i \in DOMAIN toClient' :
                 /\ toClient'[i].form = "publish" /\ toClient'[i].signal = s
                 /\ a = <<toClient'[i].seq, toClient'[i].version>>
           \/ s \in DOMAIN held' /\ a = <<held'[s].seq, held'[s].version>>
  BY DEF Samples

\* The samples after one more frame.
LEMMA SamplesAppended ==
  ASSUME SignalsTyped, NEW f \in Answer \cup Publish, toClient' = Append(toClient, f),
         UNCHANGED held, NEW s, NEW a \in Samples(s)'
  PROVE  \/ a \in Samples(s)
         \/ f.form = "publish" /\ f.signal = s /\ a = <<f.seq, f.version>>
<1>2. /\ DOMAIN toClient' = DOMAIN toClient \cup {Len(toClient) + 1}
      /\ \A i \in DOMAIN toClient : toClient'[i] = toClient[i]
      /\ toClient'[Len(toClient) + 1] = f
  BY AppendPlaces DEF SignalsTyped
<1> QED BY <1>2, InSamples, InSamplesNext

\* Fewer samples are numbered as well.
LEMMA NumberedLess ==
  ASSUME NEW s \in Signals, NumberedFor(s), \A a \in Samples(s)' : a \in Samples(s),
         Channel(s)' = Channel(s), SignalsTyped, SignalsTyped',
         value[s].version <= value'[s].version
  PROVE  NumberedFor(s)'
<1>1. value[s].version \in Nat /\ value'[s].version \in Nat /\ Channel(s).last \in Nat \cup {-1}
  BY DEF SignalsTyped
<1>2. Channel(s)'.last <= value'[s].version
  BY <1>1 DEF NumberedFor
<1> QED BY <1>2 DEF NumberedFor

\* A sample with a seq of its own, or with the last one's.
LEMMA NumberedMore ==
  ASSUME NEW s \in Signals, NumberedFor(s), SignalsTyped, NEW fresh \in BOOLEAN,
         NEW isNew \in BOOLEAN, channel' = Published(s, fresh, isNew), UNCHANGED value,
         \A a \in Samples(s)' : a \in Samples(s) \/ a = <<PublishSeq(s, fresh), value[s].version>>
  PROVE  NumberedFor(s)'
<1> DEFINE v == value[s].version
           n == PublishSeq(s, fresh)
           c == Channel(s).counter
           l == Channel(s).last
           e == Channel(s)'.counter
           m == Channel(s)'.last
<1>1. c \in Nat /\ l \in Nat \cup {-1} /\ v \in Nat /\ n \in Nat
  BY ChannelPublished DEF SignalsTyped
<1>2. l <= v /\ (c = 0 <=> l <= 0)
  BY DEF NumberedFor
<1>3. n = IF v = 0 THEN 0 ELSE IF ~fresh /\ l = v THEN c ELSE c + 1
  BY DEF PublishSeq
<1>4. /\ v = 0 => e = c /\ m \in {l, 0}
      /\ v # 0 => e = n /\ m = v
  BY ChannelPublished
<1>5. \A a \in Samples(s) :
         /\ a[1] \in Nat /\ a[2] \in Nat /\ a[1] <= c
         /\ a[1] = 0 <=> a[2] = 0
         /\ a[1] = c /\ a[1] # 0 => a[2] = l
  BY DEF NumberedFor
<1>8. \A a \in Samples(s)' : a \in Samples(s) \/ (a[1] = n /\ a[2] = v)
  OBVIOUS
<1> HIDE DEF v, n, c, l, e, m
<1>9. m <= v /\ (e = 0 <=> m <= 0) /\ n <= e /\ (n = 0 <=> v = 0) /\ (n = e /\ n # 0 => v = m)
      /\ e \in Nat
  BY <1>1, <1>2, <1>3, <1>4
<1>10. \A a \in Samples(s) :
          /\ a[1] \in Nat /\ a[2] \in Nat /\ a[1] <= e
          /\ a[1] = 0 <=> a[2] = 0
          /\ a[1] = e /\ a[1] # 0 => a[2] = m
          /\ a[1] = n => a[2] = v
  BY <1>1, <1>2, <1>3, <1>4, <1>5
<1>11. \A a \in Samples(s)' :
          /\ a[1] \in Nat /\ a[2] \in Nat /\ a[1] <= e
          /\ a[1] = 0 <=> a[2] = 0
          /\ a[1] = e /\ a[1] # 0 => a[2] = m
  BY <1>1, <1>8, <1>9, <1>10
<1>12. \A a, b \in Samples(s)' : a[1] = b[1] => a[2] = b[2]
  BY <1>8, <1>10 DEF NumberedFor
<1> QED BY <1>9, <1>11, <1>12 DEF NumberedFor, e, m, v

\* Every step keeps the samples numbered.
LEMMA NumberedStep ==
  ASSUME SignalsTyped, SignalsTyped', JobFits, Numbered, SignalsNext
  PROVE  Numbered'
<1> USE DEF Numbered
<1>1. \A s \in Signals : value[s].version \in Nat /\ value[s].version <= generation
  BY DEF SignalsTyped
<1>2. ASSUME UNCHANGED <<channel, value>>, \A s \in Signals : \A a \in Samples(s)' : a \in Samples(s)
      PROVE  Numbered'
  <2> TAKE s \in Signals
  <2>2. Channel(s)' = Channel(s)
    BY <1>2 DEF Channel
  <2>3. \A a \in Samples(s)' : a \in Samples(s)
    BY <1>2
  <2> QED BY <1>1, <1>2, <2>2, <2>3, NumberedLess
<1>3. ASSUME NEW s \in Signals, NEW fresh \in BOOLEAN, NEW isNew \in BOOLEAN, NEW f,
             f.form = "publish", f.signal = s, f.seq = PublishSeq(s, fresh),
             f.version = value[s].version,
             channel' = Published(s, fresh, isNew), UNCHANGED <<value, held>>,
             \A t : \A a \in Samples(t)' :
                a \in Samples(t) \/ (f.signal = t /\ a = <<f.seq, f.version>>)
      PROVE  Numbered'
  <2> TAKE t \in Signals
  <2>1. CASE t = s
    <3>2. NumberedFor(s) /\ channel' = Published(s, fresh, isNew) /\ UNCHANGED value
      BY <1>3
    <3>3. NumberedFor(s)'
      BY <1>3, <3>2, NumberedMore
    <3> QED BY <2>1, <3>3
  <2>2. CASE t # s
    <3>1. Channel(t)' = Channel(t)
      BY <1>3, <2>2, ChannelPublished
    <3>3. value[t].version <= value'[t].version
      BY <1>1, <1>3
    <3>4. NumberedFor(t)
      OBVIOUS
    <3> QED BY <3>1, <1>3, <2>2, <3>3, <3>4, NumberedLess
  <2> QED BY <2>1, <2>2
<1>4. ASSUME UNCHANGED <<toClient, held>>
      PROVE  \A s : \A a \in Samples(s)' : a \in Samples(s)
  BY <1>4 DEF Samples
<1>5. ASSUME NEW f \in Answer, toClient' = Append(toClient, f), UNCHANGED held
      PROVE  \A s : \A a \in Samples(s)' : a \in Samples(s)
  <2> QED BY <1>5, SamplesAppended DEF Answer
<1>6. ASSUME NEW s \in Signals, NEW big \in Sizes, Commit(s, big)
      PROVE  Numbered'
  <2>1. UNCHANGED <<channel, toClient, held>> /\ generation' = generation + 1
        /\ value' = [value EXCEPT ![s] = [version |-> generation + 1, big |-> big]]
    BY <1>6 DEF Commit, sessionVars, clientVars
  <2> TAKE t \in Signals
  <2>3. value[t].version <= value'[t].version
    BY <1>1, <2>1 DEF SignalsTyped
  <2>5. \A a \in Samples(t)' : a \in Samples(t)
    BY <1>4, <2>1
  <2> QED BY <2>3, <2>1, <2>5, NumberedLess DEF Channel
<1>7. ASSUME NEW s \in All, ClientSubscribe(s) \/ ClientUnsubscribe(s) \/ ClientRead(s)
      PROVE  Numbered'
  <2>1. UNCHANGED <<channel, value, toClient>>
    BY <1>7 DEF ClientSubscribe, ClientUnsubscribe, ClientRead, Send, backendVars, sessionVars
  <2>3. \A t \in DOMAIN held' : t \in DOMAIN held /\ held'[t] = held[t]
    BY <1>7 DEF Drop, ClientSubscribe, ClientUnsubscribe, ClientRead
  <2> QED BY <1>2, <2>1, <2>3 DEF Samples
<1>8. CASE Subscribe
  <2> DEFINE f == AcceptedFor(Head(toServer).signal, Head(toServer).id)
  <2>1. UNCHANGED <<channel, value, held>> /\ (UNCHANGED toClient \/ toClient' = Append(toClient, f))
    BY <1>8 DEF Subscribe, backendVars, clientVars
  <2>2. f \in Answer
    BY <1>8, Received DEF Subscribe, AcceptedFor, Answer
  <2> HIDE DEF f
  <2> QED BY <1>2, <1>4, <1>5, <2>1, <2>2
<1>9. CASE SubscribeFetched
  <2> DEFINE s == job.signal
             id == job.id
             f == PublishFrame(s, FALSE, 0)
             c == AcceptedFor(s, id)
             b == RefusedFor(s, id)
  <2>1. s \in All /\ id \in Nat
    BY <1>9, Fetching DEF SubscribeFetched
  <2>2. c \in Answer /\ b \in Answer
    BY <2>1 DEF AcceptedFor, RefusedFor, Answer
  <2>3. UNCHANGED <<value, held>>
    BY <1>9 DEF SubscribeFetched, backendVars, clientVars
  <2>4. CASE Fetch(s) = "contract"
    <3>1. toClient' = Append(toClient, b) /\ UNCHANGED channel
      BY <1>9, <2>4 DEF SubscribeFetched
    <3> HIDE DEF b, c, s, f
    <3> QED BY <1>2, <1>5, <2>2, <2>3, <3>1
  <2>5. CASE Fetch(s) = "sample"
    <3> DEFINE fr == FALSE
               isNew == TRUE
    <3>1. channel' = Published(s, fr, isNew) /\ toClient' = toClient \o <<c, f>>
          /\ fr \in BOOLEAN /\ isNew \in BOOLEAN
      BY <1>9, <2>5 DEF SubscribeFetched
    <3>2. s \in Signals
      BY <2>1, <2>5, ServedSignals
    <3>3. f.form = "publish" /\ f.signal = s /\ f.seq = PublishSeq(s, fr) /\ f.version = value[s].version
      BY DEF PublishFrame
    <3>4. f \in Publish
      BY <3>2, FrameTyped
    <3> HIDE DEF s, fr, isNew, f, c, b
    <3>5. ASSUME NEW t, NEW a \in Samples(t)'
          PROVE  a \in Samples(t) \/ (f.signal = t /\ a = <<f.seq, f.version>>)
      <4>1. toClient \in Seq(Answer \cup Publish) /\ c \in Answer \cup Publish /\ f \in Answer \cup Publish
        BY <2>2, <3>4 DEF SignalsTyped
      <4> DEFINE q == Append(toClient, c)
      <4>3. /\ DOMAIN q = DOMAIN toClient \cup {Len(toClient) + 1}
            /\ \A i \in DOMAIN toClient : q[i] = toClient[i]
            /\ q[Len(toClient) + 1] = c /\ q \in Seq(Answer \cup Publish)
        BY <4>1, AppendPlaces
      <4> HIDE DEF q
      <4>4. /\ DOMAIN toClient' = DOMAIN q \cup {Len(q) + 1}
            /\ \A i \in DOMAIN q : toClient'[i] = q[i]
            /\ toClient'[Len(q) + 1] = f
        BY <4>1, <3>1, TwoAppended, <4>3, AppendPlaces DEF q
      <4>7. CASE t \in DOMAIN held /\ a = <<held[t].seq, held[t].version>>
        BY <4>7, InSamples
      <4>8. ASSUME NEW i \in DOMAIN toClient', toClient'[i].form = "publish",
                   toClient'[i].signal = t, a = <<toClient'[i].seq, toClient'[i].version>>
            PROVE  a \in Samples(t) \/ (f.signal = t /\ a = <<f.seq, f.version>>)
        <5>1. CASE i = Len(q) + 1
          BY <4>4, <4>8, <5>1
        <5>2. CASE i \in DOMAIN toClient
          <6> QED BY <4>8, <5>2, <4>3, <4>4, InSamples
        <5>3. CASE i = Len(toClient) + 1
          <6>1. toClient'[i] = c
            BY <4>3, <4>4, <5>3
          <6> QED BY <2>2, <4>8, <6>1 DEF Answer
        <5> QED BY <4>3, <4>4, <5>1, <5>2, <5>3
      <4> QED BY <2>3, <3>5, InSamplesNext, <4>7, <4>8
    <3> QED BY <1>3, <2>3, <3>1, <3>2, <3>3, <3>5
  <2>6. CASE Fetch(s) = "too large"
    <3>1. toClient' = Append(toClient, c) /\ channel' = With(channel, s, Channel(s))
      BY <1>9, <2>6 DEF SubscribeFetched
    <3> HIDE DEF b, c, s, f
    <3>3. \A t \in Signals : Channel(t)' = Channel(t)
      <4> DEFINE r == Channel(s)
      <4>1. channel' = With(channel, s, r) /\ r = Channel(s)
        BY <3>1
      <4> HIDE DEF r
      <4> QED BY <2>1, <2>6, ServedSignals, <4>1, ChannelSet
    <3> TAKE t \in Signals
    <3>6. NumberedFor(t) /\ \A a \in Samples(t)' : a \in Samples(t)
      BY <1>5, <2>2, <2>3, <3>1
    <3> QED BY <1>1, <2>3, <3>3, <3>6, NumberedLess
  <2> QED BY <2>1, <2>4, <2>5, <2>6, ServedSignals
<1>10. CASE Unsubscribe
  BY <1>2, <1>4, <1>10 DEF Unsubscribe, backendVars, clientVars
<1>11. CASE Read
  <2> DEFINE s == Head(toServer).signal
             id == Head(toServer).id
             f == PublishFrame(s, FALSE, id)
             b == RefusedFor(s, id)
  <2>1. s \in All /\ id \in Nat
    BY <1>11, Received DEF Read
  <2>2. b \in Answer
    BY <2>1 DEF RefusedFor, Answer
  <2>3. UNCHANGED <<value, held>>
    BY <1>11 DEF Read, backendVars, clientVars
  <2>4. CASE Fetch(s) = "sample"
    <3> DEFINE fr == FALSE
               isNew == FALSE
    <3>1. channel' = Published(s, fr, isNew) /\ toClient' = Append(toClient, f)
          /\ fr \in BOOLEAN /\ isNew \in BOOLEAN
      BY <1>11, <2>4 DEF Read
    <3>2. s \in Signals
      BY <2>1, <2>4, ServedSignals
    <3>3. f.form = "publish" /\ f.signal = s /\ f.seq = PublishSeq(s, fr) /\ f.version = value[s].version
      BY DEF PublishFrame
    <3>4. f \in Answer \cup Publish
      BY <2>1, <3>2, FrameTyped
    <3> HIDE DEF s, fr, isNew, f, b
    <3>5. \A t : \A a \in Samples(t)' : a \in Samples(t) \/ (f.signal = t /\ a = <<f.seq, f.version>>)
      BY <2>3, <3>1, <3>4, SamplesAppended
    <3> QED BY <1>3, <2>3, <3>1, <3>2, <3>3, <3>5
  <2>5. CASE Fetch(s) # "sample"
    <3>1. toClient' = Append(toClient, b) /\ UNCHANGED channel
      BY <1>11, <2>5 DEF Read
    <3> HIDE DEF b, s, f
    <3> QED BY <1>2, <1>5, <2>2, <2>3, <3>1
  <2> QED BY <2>4, <2>5
<1>12. CASE StartPoll
  BY <1>2, <1>4, <1>12 DEF StartPoll, backendVars, clientVars
<1>13. CASE PollSignal
  <2> DEFINE s == CHOOSE x \in job.left : \A y \in job.left : x <= y
             fresh == mode = "scanning"
             f == PublishFrame(s, fresh, 0)
             isNew == TRUE
  <2>1. s \in Signals
    BY <1>13, Polled DEF PollSignal
  <2>2. UNCHANGED <<value, held>>
    BY <1>13 DEF PollSignal, backendVars, clientVars
  <2>3. \/ channel' = Published(s, fresh, isNew) /\ toClient' = Append(toClient, f)
        \/ UNCHANGED <<channel, toClient>>
    BY <1>13 DEF PollSignal
  <2>4. fresh \in BOOLEAN /\ isNew \in BOOLEAN
    OBVIOUS
  <2>5. f.form = "publish" /\ f.signal = s /\ f.seq = PublishSeq(s, fresh)
        /\ f.version = value[s].version
    BY DEF PublishFrame
  <2>6. f \in Answer \cup Publish
    BY <2>1, FrameTyped
  <2> HIDE DEF s, fresh, f, isNew
  <2>7. CASE channel' = Published(s, fresh, isNew) /\ toClient' = Append(toClient, f)
    <3>1. \A t : \A a \in Samples(t)' : a \in Samples(t) \/ (f.signal = t /\ a = <<f.seq, f.version>>)
      BY <2>2, <2>6, <2>7, SamplesAppended
    <3> QED BY <1>3, <2>1, <2>2, <2>4, <2>5, <2>7, <3>1
  <2>8. CASE UNCHANGED <<channel, toClient>>
    BY <1>2, <1>4, <2>2, <2>8
  <2> QED BY <2>3, <2>7, <2>8
<1>14. CASE ClientReceive
  <2> DEFINE f == Head(toClient)
             s == f.signal
             h == [seq |-> f.seq, version |-> f.version]
  <2>2. /\ 1 \in DOMAIN toClient /\ f = toClient[1]
        /\ \A i \in DOMAIN toClient' : i + 1 \in DOMAIN toClient /\ toClient'[i] = toClient[i + 1]
    BY <1>14, FrontFrame, TailPlaces
  <2>3. held' = held \/ (f.form = "publish" /\ held' = With(held, s, h))
    BY <1>14 DEF ClientReceive, OnAnswer, OnPublish
  <2>4. h.seq = f.seq /\ h.version = f.version
    OBVIOUS
  <2> HIDE DEF h
  <2>5. ASSUME NEW t, NEW a \in Samples(t)'
        PROVE  a \in Samples(t)
    <3>2. CASE t \in DOMAIN held' /\ a = <<held'[t].seq, held'[t].version>>
      <4>1. \/ t \in DOMAIN held /\ held'[t] = held[t]
            \/ f.form = "publish" /\ s = t /\ held'[t] = h
        BY <2>3, <3>2 DEF With
      <4> QED BY <2>2, <2>4, <3>2, <4>1, InSamples
    <3>3. CASE \E i \in DOMAIN toClient' :
               /\ toClient'[i].form = "publish" /\ toClient'[i].signal = t
               /\ a = <<toClient'[i].seq, toClient'[i].version>>
      BY <2>2, <3>3, InSamples
    <3> QED BY <2>5, InSamplesNext, <3>2, <3>3
  <2> QED BY <1>2, <1>14, <2>5 DEF ClientReceive, backendVars, sessionVars
<1> QED BY <1>6, <1>7, <1>8, <1>9, <1>10, <1>11, <1>12, <1>13, <1>14 DEF SignalsNext, Session

\* What the session comes to is not changed by what it does itself.
LEMMA WillSame ==
  ASSUME UNCHANGED toServer, NEW t, Now(t)' <=> Now(t)
  PROVE  Will(t)' <=> Will(t)
<1> QED BY DEF Will, Cancelled

\* A message taken does what it was to do.
LEMMA WillReceived ==
  ASSUME SignalsTyped, NEW form, Handle(form), NEW t,
         Head(toServer).signal # t \/ form = "read" => (Now(t)' <=> Now(t)),
         Head(toServer).signal = t /\ form = "subscribe" => Now(t)',
         Head(toServer).signal = t /\ form = "unsubscribe" => ~Now(t)'
  PROVE  Will(t)' <=> Will(t)
<1> DEFINE m == Head(toServer)
<1>1. toServer \in Seq(Message) /\ toServer # <<>> /\ toServer' = Tail(toServer) /\ m.form = form
  BY DEF Handle, SignalsTyped
<1>2. /\ Len(toServer) \in Nat /\ DOMAIN toServer = 1 .. Len(toServer)
      /\ 1 \in DOMAIN toServer /\ m = toServer[1] /\ m \in Message
      /\ \A i \in DOMAIN toServer' : i + 1 \in DOMAIN toServer /\ toServer'[i] = toServer[i + 1]
      /\ \A i \in DOMAIN toServer : i # 1 => i - 1 \in DOMAIN toServer' /\ toServer[i] = toServer'[i - 1]
      /\ DOMAIN toServer' \subseteq Nat \ {0} /\ DOMAIN toServer \subseteq Nat \ {0}
  BY <1>1, TailPlaces
<1> HIDE DEF m
<1>4. ASSUME NEW i \in Nat
      PROVE  Cancelled(t, i)' <=> Cancelled(t, i + 1)
  <2>1. ASSUME Cancelled(t, i)'
        PROVE  Cancelled(t, i + 1)
    <3>1. PICK j \in DOMAIN toServer' : j > i /\ toServer'[j].signal = t /\ toServer'[j].form = "unsubscribe"
      BY <2>1 DEF Cancelled
    <3> QED BY <3>1, <1>2 DEF Cancelled
  <2>2. ASSUME Cancelled(t, i + 1)
        PROVE  Cancelled(t, i)'
    <3>1. PICK j \in DOMAIN toServer : j > i + 1 /\ toServer[j].signal = t /\ toServer[j].form = "unsubscribe"
      BY <2>2 DEF Cancelled
    <3> QED BY <3>1, <1>2 DEF Cancelled
  <2> QED BY <2>1, <2>2
<1>6. Cancelled(t, 0) <=> Cancelled(t, 1) \/ (m.signal = t /\ form = "unsubscribe")
  <2>2. m.signal = t /\ form = "unsubscribe" => Cancelled(t, 0)
    BY <1>1, <1>2 DEF Cancelled
  <2>3. ASSUME Cancelled(t, 0), ~(m.signal = t /\ form = "unsubscribe")
        PROVE  Cancelled(t, 1)
    <3>1. PICK j \in DOMAIN toServer : j > 0 /\ toServer[j].signal = t /\ toServer[j].form = "unsubscribe"
      BY <2>3 DEF Cancelled
    <3>3. j > 1
      BY <1>2, <1>1, <2>3, <3>1
    <3> QED BY <3>1, <3>3 DEF Cancelled
  <2> QED BY <1>2, <2>2, <2>3 DEF Cancelled
<1> DEFINE Rest == \E i \in DOMAIN toServer : i # 1 /\ toServer[i].signal = t
                      /\ toServer[i].form = "subscribe" /\ ~Cancelled(t, i)
<1>7. Will(t) <=> \/ Now(t) /\ ~Cancelled(t, 0)
                  \/ m.signal = t /\ form = "subscribe" /\ ~Cancelled(t, 1)
                  \/ Rest
  BY <1>1, <1>2 DEF Will
<1>8. Will(t)' <=> (Now(t)' /\ ~Cancelled(t, 1)) \/ Rest
  <2>1. (\E i \in DOMAIN toServer' : toServer'[i].signal = t /\ toServer'[i].form = "subscribe"
                                      /\ ~Cancelled(t, i)') <=> Rest
    <3>1. ASSUME NEW i \in DOMAIN toServer', toServer'[i].signal = t,
                 toServer'[i].form = "subscribe", ~Cancelled(t, i)'
          PROVE  Rest
      <4>1. i \in Nat /\ i + 1 \in DOMAIN toServer /\ i + 1 # 1 /\ toServer'[i] = toServer[i + 1]
        BY <1>2
      <4> QED BY <3>1, <4>1, <1>4
    <3>2. ASSUME NEW i \in DOMAIN toServer, i # 1, toServer[i].signal = t,
                 toServer[i].form = "subscribe", ~Cancelled(t, i)
          PROVE  \E k \in DOMAIN toServer' : toServer'[k].signal = t
                    /\ toServer'[k].form = "subscribe" /\ ~Cancelled(t, k)'
      <4> DEFINE k == i - 1
      <4>1. k \in Nat /\ k \in DOMAIN toServer' /\ toServer[i] = toServer'[k] /\ k + 1 = i
        BY <1>2, <3>2
      <4> HIDE DEF k
      <4> QED BY <3>2, <4>1, <1>4
    <3> QED BY <3>1, <3>2
  <2> HIDE DEF Rest
  <2> QED BY <1>4, <2>1 DEF Will
<1>9. (m.signal # t \/ form = "read" => (Now(t)' <=> Now(t)))
      /\ (m.signal = t /\ form = "subscribe" => Now(t)')
      /\ (m.signal = t /\ form = "unsubscribe" => ~Now(t)')
  BY DEF m
<1> HIDE DEF Rest
<1> QED BY <1>1, <1>2, <1>6, <1>7, <1>8, <1>9 DEF Message

\* The client's own messages decide what the session comes to.
LEMMA WillAppended ==
  ASSUME SignalsTyped, NEW m \in Message, toServer' = Append(toServer, m), NEW t,
         Now(t)' <=> Now(t)
  PROVE  /\ m.signal # t \/ m.form = "read" => (Will(t)' <=> Will(t))
         /\ m.signal = t /\ m.form = "subscribe" => Will(t)'
         /\ m.signal = t /\ m.form = "unsubscribe" => ~Will(t)'
<1>1. PICK k :
      /\ DOMAIN toServer' = DOMAIN toServer \cup {k} /\ k \in Nat \ {0}
      /\ \A i \in DOMAIN toServer : toServer'[i] = toServer[i] /\ i < k
      /\ toServer'[k] = m /\ DOMAIN toServer \subseteq Nat \ {0}
  <2>1. toServer \in Seq(Message)
    BY DEF SignalsTyped
  <2> QED BY <2>1, AppendPlaces
<1>2. ASSUME m.signal # t \/ m.form = "read"
      PROVE  Will(t)' <=> Will(t)
  <2> QED BY <1>1, <1>2 DEF Will, Cancelled
<1>3. ASSUME m.signal = t, m.form = "subscribe"
      PROVE  Will(t)'
  <2>2. k \in DOMAIN toServer' /\ toServer'[k].signal = t /\ toServer'[k].form = "subscribe"
    BY <1>1, <1>3
  <2> QED BY <1>1, <2>2 DEF Will, Cancelled
<1>4. ASSUME m.signal = t, m.form = "unsubscribe"
      PROVE  ~Will(t)'
  <2>1. k \in DOMAIN toServer' /\ toServer'[k].signal = t /\ toServer'[k].form = "unsubscribe" /\ k > 0
    BY <1>1, <1>4
  <2>2. Cancelled(t, 0)'
    BY <2>1 DEF Cancelled
  <2>3. ASSUME NEW i \in DOMAIN toServer', toServer'[i].signal = t, toServer'[i].form = "subscribe"
        PROVE  Cancelled(t, i)'
    <3> QED BY <2>1, <1>1, <2>3 DEF Cancelled
  <2> QED BY <2>2, <2>3 DEF Will
<1> QED BY <1>2, <1>3, <1>4
-----------------------------------------------------------------------------
\* The frame the client takes answers the first operation owed, if any.
LEMMA FrontFirst ==
  ASSUME SignalsTyped, JobFits, InOrder, ClientReceive, NEW s, NEW n, NEW op, Owed(s, n, op)
  PROVE  /\ n \in Nat \ {0} /\ n <= ops
         /\ Head(toClient).for <= n
         /\ n = Head(toClient).for => s = Head(toClient).signal /\ AnswersTo(Head(toClient), op)
         /\ n # Head(toClient).for => Owed(s, n, op)'
<1> DEFINE f == Head(toClient)
<1>1. /\ 1 \in DOMAIN toClient /\ f = toClient[1] /\ f.for \in Nat
      /\ \A i \in DOMAIN toClient : i # 1 => i - 1 \in DOMAIN toClient' /\ toClient[i] = toClient'[i - 1]
      /\ DOMAIN toClient \subseteq Nat \ {0}
      /\ \A i \in DOMAIN toClient : toClient[i].for \in Nat
  <2>2. \A i \in DOMAIN toClient : toClient[i].for \in Nat
    BY FrontFrame DEF Answer, Publish
  <2> QED BY <2>2, FrontFrame, TailPlaces
<1>2. UNCHANGED <<job, toServer>>
  BY DEF ClientReceive, sessionVars
<1>3. \A i \in DOMAIN toServer : toServer[i].id \in Nat
  <2>1. \A i \in DOMAIN toServer : toServer[i] \in Message
    BY DEF SignalsTyped
  <2> QED BY <2>1 DEF Message
<1>4. ops \in Nat
  BY DEF SignalsTyped
<1> HIDE DEF f
<1>5. CASE \E i \in DOMAIN toClient :
        toClient[i].signal = s /\ toClient[i].for = n /\ n # 0 /\ AnswersTo(toClient[i], op)
  <2>1. PICK i \in DOMAIN toClient :
          toClient[i].signal = s /\ toClient[i].for = n /\ n # 0 /\ AnswersTo(toClient[i], op)
    BY <1>5
  <2>2. n \in Nat \ {0} /\ n <= ops
    BY <1>1, <2>1 DEF InOrder, Asked, Handled, Replied, FramesOrdered
  <2>3. CASE i = 1
    BY <1>1, <2>1, <2>2, <2>3 DEF f
  <2>4. CASE i # 1
    <3>1. f.for < n
      BY <1>1, <2>1, <2>4 DEF InOrder, Asked, Handled, Replied, FramesOrdered
    <3>2. Owed(s, n, op)'
      <4>1. i - 1 \in DOMAIN toClient' /\ toClient[i] = toClient'[i - 1]
        BY <1>1, <2>4
      <4> QED BY <2>1, <4>1 DEF Owed, OwedByFrame, OwedByJob, OwedByMessage, AnswersTo
    <3> QED BY <1>1, <2>2, <3>1, <3>2 DEF f
  <2> QED BY <2>3, <2>4
<1>6. CASE job.op = "subscribe" /\ job.signal = s /\ job.id = n /\ op = "subscribe"
  <2>1. n # 0 /\ n <= ops /\ f.for < n
    BY <1>1, <1>6 DEF InOrder, Asked, Handled, Replied, FramesOrdered
  <2>2. Owed(s, n, op)'
    BY <1>2, <1>6 DEF Owed, OwedByFrame, OwedByJob, OwedByMessage
  <2> QED BY <1>1, <2>1, <2>2, <1>6, Fetching DEF f
<1>7. CASE \E i \in DOMAIN toServer :
              toServer[i].signal = s /\ toServer[i].id = n /\ toServer[i].form = op
  <2>1. n # 0 /\ n <= ops /\ f.for < n /\ n \in Nat
    BY <1>1, <1>3, <1>7 DEF InOrder, Asked, Handled, Replied, FramesOrdered
  <2>2. Owed(s, n, op)'
    BY <1>2, <1>7 DEF Owed, OwedByFrame, OwedByJob, OwedByMessage
  <2> QED BY <1>1, <2>1, <2>2 DEF f
<1> QED BY <1>5, <1>6, <1>7 DEF Owed, OwedByFrame, OwedByJob, OwedByMessage

\* Taking a frame makes nothing owed, and an operation it answers is not owed any more.
LEMMA OwedLess ==
  ASSUME SignalsTyped, JobFits, InOrder, ClientReceive, NEW s, NEW n, NEW op, Owed(s, n, op)'
  PROVE  Owed(s, n, op) /\ n # Head(toClient).for
<1> DEFINE f == Head(toClient)
<1>1. /\ 1 \in DOMAIN toClient /\ f = toClient[1] /\ f.for \in Nat
      /\ \A i \in DOMAIN toClient' : i + 1 \in DOMAIN toClient /\ toClient'[i] = toClient[i + 1]
                                     /\ 1 < i + 1
      /\ \A i \in DOMAIN toClient : toClient[i].for \in Nat
  <2>2. \A i \in DOMAIN toClient : toClient[i].for \in Nat
    BY FrontFrame DEF Answer, Publish
  <2>4. DOMAIN toClient' \subseteq Nat \ {0}
    BY FrontFrame
  <2> QED BY <2>2, <2>4, FrontFrame, TailPlaces
<1>2. UNCHANGED <<job, toServer>>
  BY DEF ClientReceive, sessionVars
<1>3. \A i \in DOMAIN toServer : toServer[i].id \in Nat
  <2>1. \A i \in DOMAIN toServer : toServer[i] \in Message
    BY DEF SignalsTyped
  <2> QED BY <2>1 DEF Message
<1> HIDE DEF f
<1>5. CASE \E i \in DOMAIN toClient' :
        toClient'[i].signal = s /\ toClient'[i].for = n /\ n # 0 /\ AnswersTo(toClient'[i], op)
  <2>1. PICK i \in DOMAIN toClient' :
          toClient'[i].signal = s /\ toClient'[i].for = n /\ n # 0 /\ AnswersTo(toClient'[i], op)
    BY <1>5
  <2>2. i + 1 \in DOMAIN toClient /\ toClient'[i] = toClient[i + 1] /\ 1 < i + 1
    BY <1>1
  <2>3. f.for < n /\ n \in Nat
    BY <1>1, <2>1, <2>2 DEF InOrder, Asked, Handled, Replied, FramesOrdered
  <2>4. Owed(s, n, op)
    <3> QED BY <2>1, <2>2 DEF Owed, OwedByFrame, OwedByJob, OwedByMessage
  <2> QED BY <1>1, <2>3, <2>4 DEF f
<1>6. CASE job.op = "subscribe" /\ job.signal = s /\ job.id = n /\ op = "subscribe"
  <2>1. f.for < n
    BY <1>1, <1>6 DEF InOrder, Asked, Handled, Replied, FramesOrdered
  <2> QED BY <1>1, <1>6, <2>1 DEF Owed, OwedByFrame, OwedByJob, OwedByMessage, f
<1>7. CASE \E i \in DOMAIN toServer :
              toServer[i].signal = s /\ toServer[i].id = n /\ toServer[i].form = op
  <2>1. f.for < n /\ n \in Nat
    BY <1>1, <1>3, <1>7 DEF InOrder, Asked, Handled, Replied, FramesOrdered
  <2> QED BY <1>1, <1>7, <2>1 DEF Owed, OwedByFrame, OwedByJob, OwedByMessage, f
<1> QED BY <1>2, <1>5, <1>6, <1>7 DEF Owed, OwedByFrame, OwedByJob, OwedByMessage, AnswersTo

\* What an answer does to the client's queue.
LEMMA AnswerTaken ==
  ASSUME SignalsTyped, ClientReceive, OnAnswer(Head(toClient)),
         NEW s, s = Head(toClient).signal
  PROVE  /\ s \in All /\ \A t \in All \ {s} : waiting'[t] = waiting[t]
         /\ Head(toClient).form \in {"accepted", "refused"}
         /\ UNCHANGED <<held, early>>
         /\ \/ /\ waiting'[s] = waiting[s] /\ UNCHANGED <<signals, crossed>>
               /\ \/ DOMAIN waiting[s] = {}
                  \/ Head(toClient).form = "accepted" /\ waiting[s][1].op = "read"
            \/ /\ 1 \in DOMAIN waiting[s]
               /\ Head(toClient).form = "refused" \/ waiting[s][1].op = "subscribe"
               /\ \A i \in DOMAIN waiting'[s] :
                     i + 1 \in DOMAIN waiting[s] /\ waiting'[s][i] = waiting[s][i + 1]
               /\ \A i \in DOMAIN waiting[s] :
                     i # 1 => i - 1 \in DOMAIN waiting'[s] /\ waiting[s][i] = waiting'[s][i - 1]
               /\ signals' = IF Head(toClient).form = "accepted" /\ ~waiting[s][1].dropped
                             THEN signals \cup {s} ELSE signals
               /\ crossed' <=> crossed \/ waiting[s][1].id # Head(toClient).for
<1> DEFINE f == Head(toClient)
           asked == waiting[s]
           used == asked # <<>> /\ (f.form = "refused" \/ Head(asked).op = "subscribe")
<1>1. /\ f.form \in {"accepted", "refused"}
      /\ waiting' = IF used THEN [waiting EXCEPT ![s] = Tail(asked)] ELSE waiting
      /\ signals' = IF used /\ f.form = "accepted" /\ ~Head(asked).dropped
                    THEN signals \cup {s} ELSE signals
      /\ crossed' = (crossed \/ (used /\ Head(asked).id # f.for))
      /\ UNCHANGED <<held, early>>
  BY DEF OnAnswer
<1>2. s \in All /\ waiting \in [All -> Seq(Operation)] /\ asked \in Seq(Operation)
      /\ crossed \in BOOLEAN
  BY FrontFrame DEF SignalsTyped
<1> HIDE DEF f, asked
<1>3. CASE used
  <2>2. /\ Head(asked) = asked[1] /\ 1 \in DOMAIN asked /\ asked[1] \in Operation
        /\ \A i \in DOMAIN Tail(asked) : i + 1 \in DOMAIN asked /\ Tail(asked)[i] = asked[i + 1]
        /\ \A i \in DOMAIN asked : i # 1 => i - 1 \in DOMAIN Tail(asked) /\ asked[i] = Tail(asked)[i - 1]
    BY <1>2, <1>3, TailPlaces
  <2>3. waiting'[s] = Tail(asked) /\ \A t \in All \ {s} : waiting'[t] = waiting[t]
    BY <1>1, <1>2, <1>3
  <2>4. f.form = "refused" \/ asked[1].op = "subscribe"
    BY <1>3, <2>2
  <2>5. crossed' <=> crossed \/ asked[1].id # f.for
    BY <1>1, <1>3, <2>2
  <2>8. /\ 1 \in DOMAIN waiting[s]
        /\ Head(toClient).form = "refused" \/ waiting[s][1].op = "subscribe"
        /\ crossed' <=> crossed \/ waiting[s][1].id # Head(toClient).for
    BY <2>2, <2>4, <2>5, Zenon DEF f, asked
  <2>9. signals' = IF Head(toClient).form = "accepted" /\ ~waiting[s][1].dropped
                             THEN signals \cup {s} ELSE signals
    BY <1>1, <1>3, <2>2 DEF f, asked
  <2>10. /\ \A i \in DOMAIN waiting'[s] :
                     i + 1 \in DOMAIN waiting[s] /\ waiting'[s][i] = waiting[s][i + 1]
         /\ \A i \in DOMAIN waiting[s] :
                     i # 1 => i - 1 \in DOMAIN waiting'[s] /\ waiting[s][i] = waiting'[s][i - 1]
    BY <2>2, <2>3 DEF asked
  <2> QED BY <1>1, <1>2, <2>3, <2>8, <2>9, <2>10 DEF f
<1>4. CASE ~used
  <2>2. crossed' = crossed
    BY <1>1, <1>2, <1>4
  <2>3. asked = <<>> \/ (f.form = "accepted" /\ asked[1].op = "read")
    <3>1. CASE asked # <<>>
      <4>1. Head(asked) = asked[1] /\ asked[1] \in Operation
        BY <1>2, <3>1
      <4> QED BY <1>1, <4>1, <1>4, <3>1 DEF Operation
    <3> QED BY <3>1
  <2>4. DOMAIN asked = {} \/ (f.form = "accepted" /\ asked[1].op = "read")
    BY <2>3
  <2> QED BY <1>1, <1>2, <1>4, <2>2, <2>4 DEF f, asked
<1> QED BY <1>3, <1>4

\* What a publish does to the client's queue.
LEMMA PublishTaken ==
  ASSUME SignalsTyped, ClientReceive, OnPublish(Head(toClient)),
         NEW s, s = Head(toClient).signal
  PROVE  /\ s \in All /\ \A t \in All \ {s} : waiting'[t] = waiting[t]
         /\ Head(toClient).form = "publish"
         /\ UNCHANGED <<signals, crossed>>
         /\ \E k \in Nat :
               /\ \A i \in DOMAIN waiting[s] : i <= k => waiting[s][i].op = "read"
               /\ k + 1 \in DOMAIN waiting[s] => waiting[s][k + 1].op = "subscribe"
               /\ \A i \in DOMAIN waiting'[s] :
                     i + k \in DOMAIN waiting[s] /\ waiting'[s][i] = waiting[s][i + k]
                     /\ (i # 1 => k + 1 \in DOMAIN waiting[s] /\ k + 1 < i + k)
                     /\ (i = 1 => i + k = k + 1)
               /\ \A i \in DOMAIN waiting[s] :
                     i > k => i - k \in DOMAIN waiting'[s] /\ waiting[s][i] = waiting'[s][i - k]
               /\ early' <=> early \/ \E i \in DOMAIN waiting[s] :
                                         i <= k /\ waiting[s][i].id # Head(toClient).for
<1> DEFINE f == Head(toClient)
           asked == waiting[s]
           left == TakeReads(asked)
<1>1. /\ f.form = "publish"
      /\ waiting' = [waiting EXCEPT ![s] = left]
      /\ early' = (early \/ \E i \in 1..(Len(asked) - Len(left)) : asked[i].id # f.for)
      /\ UNCHANGED <<signals, crossed>>
  BY DEF OnPublish
<1>2. s \in All /\ waiting \in [All -> Seq(Operation)] /\ asked \in Seq(Operation)
      /\ early \in BOOLEAN
  BY FrontFrame DEF SignalsTyped
<1>3. PICK k \in 0 .. Len(asked) :
        /\ \A i \in 1 .. k : asked[i].op = "read"
        /\ k < Len(asked) => asked[k + 1].op = "subscribe"
        /\ left \in Seq(Operation) /\ Len(left) = Len(asked) - k
        /\ \A i \in 1 .. Len(asked) - k : left[i] = asked[k + i]
  <2> HIDE DEF asked
  <2> QED BY <1>2, ReadsTaken
<1> HIDE DEF f, asked, left
<1>4. /\ k \in Nat /\ DOMAIN asked = 1 .. Len(asked) /\ DOMAIN left = 1 .. Len(asked) - k
      /\ Len(asked) \in Nat
  BY <1>2, <1>3
<1>5. waiting'[s] = left /\ \A t \in All \ {s} : waiting'[t] = waiting[t]
  BY <1>1, <1>2
<1>7. early' <=> early \/ \E i \in DOMAIN asked : i <= k /\ asked[i].id # f.for
  <2>1. early' = (early \/ \E i \in 1..k : asked[i].id # f.for)
    BY <1>1, <1>3, <1>4
  <2>2. \A i : i \in 1..k <=> i \in DOMAIN asked /\ i <= k
    <3> QED BY <1>4, <1>3
  <2>3. (\E i \in 1..k : asked[i].id # f.for) <=> (\E i \in DOMAIN asked : i <= k /\ asked[i].id # f.for)
    BY <2>2, Zenon
  <2> QED BY <2>1, <2>3, Zenon
<1>8. /\ \A i \in DOMAIN asked : i <= k => asked[i].op = "read"
      /\ k + 1 \in DOMAIN asked => asked[k + 1].op = "subscribe"
  BY <1>3, <1>4
<1>9. \A i \in DOMAIN left : i + k \in DOMAIN asked /\ left[i] = asked[i + k]
         /\ (i # 1 => k + 1 \in DOMAIN asked /\ k + 1 < i + k) /\ (i = 1 => i + k = k + 1)
  <2> TAKE i \in DOMAIN left
  <2> QED BY <1>3, <1>4
<1>10. \A i \in DOMAIN asked : i > k => i - k \in DOMAIN left /\ asked[i] = left[i - k]
  <2> TAKE i \in DOMAIN asked
  <2>1. SUFFICES ASSUME i > k PROVE i - k \in DOMAIN left /\ asked[i] = left[i - k]
    OBVIOUS
  <2> DEFINE j == i - k
  <2>2. j \in 1 .. Len(asked) - k /\ k + j = i
    BY <1>4, <2>1
  <2> HIDE DEF j
  <2>3. j \in DOMAIN left /\ left[j] = asked[i]
    BY <1>3, <1>4, <2>2
  <2> QED BY <2>3 DEF j
<1>11. /\ \A i \in DOMAIN waiting[s] : i <= k => waiting[s][i].op = "read"
       /\ k + 1 \in DOMAIN waiting[s] => waiting[s][k + 1].op = "subscribe"
       /\ early' <=> early \/ \E i \in DOMAIN waiting[s] :
                                 i <= k /\ waiting[s][i].id # Head(toClient).for
  BY <1>7, <1>8, Zenon DEF asked, f
<1>12. /\ \A i \in DOMAIN waiting'[s] :
             i + k \in DOMAIN waiting[s] /\ waiting'[s][i] = waiting[s][i + k]
             /\ (i # 1 => k + 1 \in DOMAIN waiting[s] /\ k + 1 < i + k)
             /\ (i = 1 => i + k = k + 1)
       /\ \A i \in DOMAIN waiting[s] :
             i > k => i - k \in DOMAIN waiting'[s] /\ waiting[s][i] = waiting'[s][i - k]
  BY <1>5, <1>9, <1>10 DEF asked
<1> HIDE DEF asked
<1> QED BY <1>1, <1>2, <1>4, <1>5, <1>11, <1>12 DEF f

\* What the session comes to is what the client asked it for.
LEMMA WantedWillStep ==
  ASSUME SignalsTyped, JobFits, WantedWill, InOrder, WaitsForOwed, SignalsNext
  PROVE  WantedWill'
<1>1. ASSUME UNCHANGED <<waiting, signals, crossed>>,
             \A t \in Signals : Will(t)' <=> Will(t)
      PROVE  WantedWill'
  <2> QED BY <1>1 DEF WantedWill, Wanted
<1>2. ASSUME UNCHANGED <<waiting, signals, crossed>>, UNCHANGED toServer,
             \A t \in Signals : Now(t)' <=> Now(t)
      PROVE  WantedWill'
  <2> QED BY <1>1, <1>2, WillSame
<1>3. ASSUME NEW s \in Signals, NEW big \in Sizes, Commit(s, big)
      PROVE  WantedWill'
  BY <1>2, <1>3 DEF Commit, sessionVars, clientVars, Now
<1>4. ASSUME NEW s \in All, ClientSubscribe(s) \/ ClientUnsubscribe(s) \/ ClientRead(s)
      PROVE  WantedWill'
  <2>1. PICK form \in {"subscribe", "unsubscribe", "read"} :
           /\ toServer' = Append(toServer, [form |-> form, signal |-> s, id |-> ops + 1])
           /\ form = "subscribe" => ClientSubscribe(s)
           /\ form = "unsubscribe" => ClientUnsubscribe(s)
           /\ form = "read" => ClientRead(s)
    BY <1>4 DEF ClientSubscribe, ClientUnsubscribe, ClientRead, Send
  <2> DEFINE m == [form |-> form, signal |-> s, id |-> ops + 1]
  <2>2. m \in Message /\ toServer' = Append(toServer, m) /\ m.form = form /\ m.signal = s
    BY <2>1 DEF Message, SignalsTyped
  <2>3. UNCHANGED <<subscribed, job, crossed>>
    BY <1>4 DEF ClientSubscribe, ClientUnsubscribe, ClientRead, Send, sessionVars
  <2> HIDE DEF m
  <2>4. \A t : Now(t)' <=> Now(t)
    BY <2>3 DEF Now
  <2>5. ASSUME NEW t \in Signals
        PROVE  /\ s # t \/ form = "read" => (Will(t)' <=> Will(t))
               /\ s = t /\ form = "subscribe" => Will(t)'
               /\ s = t /\ form = "unsubscribe" => ~Will(t)'
    BY <2>2, <2>4, WillAppended
  <2>6. ASSUME NEW t \in Signals
        PROVE  /\ s # t \/ form = "read" => (Wanted(t)' <=> Wanted(t))
               /\ s = t /\ form = "subscribe" => Wanted(t)'
               /\ s = t /\ form = "unsubscribe" => ~Wanted(t)'
    <3>0. t \in All /\ waiting \in [All -> Seq(Operation)]
      BY DEF All, SignalsTyped
    <3>1. CASE form = "unsubscribe"
      <4>1. /\ \A x \in All \ {s} : waiting'[x] = waiting[x]
            /\ DOMAIN waiting'[s] = DOMAIN waiting[s]
            /\ \A i \in DOMAIN waiting[s] :
                  /\ waiting'[s][i].op = waiting[s][i].op
                  /\ waiting'[s][i].dropped <=>
                     waiting[s][i].dropped \/ waiting[s][i].op = "subscribe"
        BY <2>1, <3>1, QueueDropped
      <4>2. signals' = signals \ {s}
        BY <2>1, <3>1 DEF ClientUnsubscribe
      <4>3. CASE s = t
        BY <3>1, <4>1, <4>2, <4>3 DEF Wanted
      <4>4. CASE s # t
        <5> QED BY <3>1, <4>4, <3>0, <4>1, <4>2 DEF Wanted
      <4> QED BY <4>3, <4>4
    <3>2. CASE form \in {"subscribe", "read"}
      <4> DEFINE e == [op |-> form, id |-> ops + 1, dropped |-> FALSE]
                 k == Len(waiting[s]) + 1
      <4>1. waiting' = Enqueue(s, form) /\ signals' = signals
        BY <2>1, <3>2 DEF ClientSubscribe, ClientRead, Send
      <4>2. waiting' = [waiting EXCEPT ![s] = Append(waiting[s], e)]
        BY <4>1 DEF Enqueue
      <4>3. e \in Operation /\ e.op = form /\ ~e.dropped
        BY <3>2 DEF Operation, SignalsTyped
      <4> HIDE DEF e
      <4>5. /\ waiting'[s] = Append(waiting[s], e)
            /\ \A x \in All \ {s} : waiting'[x] = waiting[x]
        BY <3>0, <4>2
      <4>6. /\ DOMAIN waiting'[s] = DOMAIN waiting[s] \cup {k}
            /\ \A i \in DOMAIN waiting[s] : waiting'[s][i] = waiting[s][i]
            /\ waiting'[s][k] = e
        BY <4>3, <3>0, <4>5, AppendPlaces
      <4> HIDE DEF k
      <4>7. CASE s = t
        <5>1. CASE form = "subscribe"
          <6> QED BY <4>7, <5>1, <4>3, <4>6 DEF Wanted
        <5>2. CASE form = "read"
          <6> QED BY <4>1, <4>7, <5>2, <4>3, <4>6 DEF Wanted
        <5> QED BY <3>2, <5>1, <5>2
      <4>8. CASE s # t
        <5> QED BY <3>2, <4>8, <3>0, <4>1, <4>5 DEF Wanted
      <4> QED BY <4>7, <4>8
    <3> QED BY <3>1, <3>2
  <2> QED BY <2>3, <2>5, <2>6 DEF WantedWill
<1>5. CASE Subscribe
  <2> DEFINE s == Head(toServer).signal
             r == [op |-> "subscribe", signal |-> s, id |-> Head(toServer).id,
                   marked |-> mode = "scanning" /\ mark = -1]
  <2>1. Handle("subscribe") /\ job = Idle /\ UNCHANGED <<subscribed, waiting, signals, crossed>>
    BY <1>5 DEF Subscribe, Handle, clientVars
  <2>3. r.op = "subscribe" /\ r.signal = s /\ job.op # "subscribe"
    BY <2>1 DEF Idle
  <2> HIDE DEF r
  <2>4. \A t : (s # t => (Now(t)' <=> Now(t))) /\ (s = t => Now(t)')
    BY <2>1, <1>5, <2>3 DEF Now, Subscribe
  <2> QED BY <1>1, <2>1, <2>4, WillReceived
<1>6. CASE SubscribeFetched
  <2> DEFINE s == job.signal
  <2>1. job.op = "subscribe" /\ job' = Idle /\ UNCHANGED <<toServer, waiting, signals, crossed>>
        /\ s \in All
    BY <1>6, Fetching DEF SubscribeFetched, clientVars
  <2>2. (s \notin Signals /\ subscribed' = subscribed) \/ subscribed' = subscribed \cup {s}
    <3>1. CASE Fetch(s) = "contract"
      <4>2. subscribed' = subscribed
        BY <1>6, <3>1 DEF SubscribeFetched
      <4> QED BY <3>1, WsSignalsAssumption, <4>2 DEF Fetch
    <3>2. CASE Fetch(s) = "sample"
      BY <1>6, <3>2 DEF SubscribeFetched
    <3>3. CASE Fetch(s) = "too large"
      BY <1>6, <3>3 DEF SubscribeFetched
    <3> QED BY <2>1, <3>1, <3>2, <3>3, ServedSignals
  <2> QED BY <1>2, <2>1, <2>2 DEF Now, Idle
<1>7. CASE Unsubscribe
  <2> DEFINE s == Head(toServer).signal
  <2>1. Handle("unsubscribe") /\ job = Idle /\ UNCHANGED <<job, waiting, signals, crossed>>
        /\ subscribed' = subscribed \ {s}
    BY <1>7 DEF Unsubscribe, Handle, clientVars
  <2>3. \A t \in Signals : Will(t)' <=> Will(t)
    BY <2>1, WillReceived DEF Now, Idle
  <2> QED BY <1>1, <2>1, <2>3
<1>8. CASE Read
  <2>1. Handle("read") /\ UNCHANGED <<job, subscribed, waiting, signals, crossed>>
    BY <1>8 DEF Read, clientVars
  <2>3. \A t \in Signals : Will(t)' <=> Will(t)
    BY <2>1, WillReceived DEF Now
  <2> QED BY <1>1, <2>1, <2>3
<1>9. CASE StartPoll
  <2>1. job = Idle /\ UNCHANGED <<toServer, subscribed, waiting, signals, crossed>>
    BY <1>9 DEF StartPoll, clientVars
  <2>3. \A t \in Signals : Now(t)' <=> Now(t)
    BY <2>1, <1>9 DEF Now, Idle, StartPoll, Polling
  <2> QED BY <1>2, <2>1, <2>3
<1>10. CASE PollSignal
  <2>1. job.op = "poll" /\ UNCHANGED <<toServer, subscribed, waiting, signals, crossed>>
    BY <1>10 DEF PollSignal, clientVars
  <2>3. \A t \in Signals : Now(t)' <=> Now(t)
    BY <2>1, <1>10 DEF Now, PollSignal, Polling, Idle
  <2> QED BY <1>2, <2>1, <2>3
<1>11. CASE ClientReceive
  <2> DEFINE f == Head(toClient)
             s == f.signal
  <2>1. UNCHANGED <<toServer, job, subscribed>>
    BY <1>11 DEF ClientReceive, sessionVars
  <2>2. \A t \in Signals : Will(t)' <=> Will(t)
    <3> QED BY <2>1, WillSame DEF Now
  <2>3. CASE OnPublish(f)
    <3>1. PICK k \in Nat :
            /\ \A t \in All \ {s} : waiting'[t] = waiting[t]
            /\ \A i \in DOMAIN waiting[s] : i <= k => waiting[s][i].op = "read"
            /\ \A i \in DOMAIN waiting'[s] :
                  i + k \in DOMAIN waiting[s] /\ waiting'[s][i] = waiting[s][i + k]
            /\ \A i \in DOMAIN waiting[s] :
                  i > k => i - k \in DOMAIN waiting'[s] /\ waiting[s][i] = waiting'[s][i - k]
            /\ UNCHANGED <<signals, crossed>> /\ DOMAIN waiting[s] \subseteq Nat
      <4> DEFINE z == s
      <4>1. z = Head(toClient).signal
        OBVIOUS
      <4>2. z \in All /\ waiting \in [All -> Seq(Operation)]
        BY <1>11, FrontFrame DEF SignalsTyped
      <4> HIDE DEF z
      <4>3. DOMAIN waiting[z] \subseteq Nat
        BY <4>2
      <4>4. z = s
        BY DEF z
      <4> QED BY <1>11, <2>3, <4>1, <4>3, <4>4, PublishTaken
    <3> HIDE DEF f, s
    <3>2. \A t \in Signals : Wanted(t)' <=> Wanted(t)
      <4> TAKE t \in Signals
      <4>1. CASE t = s
        <5>1. (\E i \in DOMAIN waiting'[s] : waiting'[s][i].op = "subscribe" /\ ~waiting'[s][i].dropped)
              <=> (\E i \in DOMAIN waiting[s] : waiting[s][i].op = "subscribe" /\ ~waiting[s][i].dropped)
          <6>1. ASSUME NEW i \in DOMAIN waiting[s], waiting[s][i].op = "subscribe", ~waiting[s][i].dropped
                PROVE  \E j \in DOMAIN waiting'[s] : waiting'[s][j].op = "subscribe" /\ ~waiting'[s][j].dropped
            <7> QED BY <3>1, <6>1
          <6> QED BY <3>1, <6>1
        <5> QED BY <3>1, <4>1, <5>1 DEF Wanted
      <4>2. CASE t # s
        <5> QED BY <3>1, <4>2 DEF Wanted, All
      <4> QED BY <4>1, <4>2
    <3> QED BY <2>2, <3>1, <3>2 DEF WantedWill
  <2>4. CASE OnAnswer(f)
    <3>0. PICK z : z = s
      OBVIOUS
    <3>1. /\ z \in All /\ \A t \in All \ {z} : waiting'[t] = waiting[t]
          /\ f.form \in {"accepted", "refused"}
          /\ \/ /\ waiting'[z] = waiting[z] /\ UNCHANGED <<signals, crossed>>
             \/ /\ 1 \in DOMAIN waiting[z]
                /\ f.form = "refused" \/ waiting[z][1].op = "subscribe"
                /\ \A i \in DOMAIN waiting'[z] :
                      i + 1 \in DOMAIN waiting[z] /\ waiting'[z][i] = waiting[z][i + 1]
                /\ \A i \in DOMAIN waiting[z] :
                      i # 1 => i - 1 \in DOMAIN waiting'[z] /\ waiting[z][i] = waiting'[z][i - 1]
                /\ signals' = IF f.form = "accepted" /\ ~waiting[z][1].dropped
                              THEN signals \cup {z} ELSE signals
                /\ crossed' <=> crossed \/ waiting[z][1].id # f.for
      <4> QED BY <1>11, <2>4, <3>0, AnswerTaken
    <3>2. CASE waiting'[z] = waiting[z] /\ UNCHANGED <<signals, crossed>>
      <4>2. \A t \in Signals : Wanted(t)' <=> Wanted(t)
        BY <3>2, <3>1 DEF Wanted, All
      <4> QED BY <2>2, <3>2, <4>2 DEF WantedWill
    <3>3. CASE /\ 1 \in DOMAIN waiting[z]
               /\ f.form = "refused" \/ waiting[z][1].op = "subscribe"
               /\ \A i \in DOMAIN waiting'[z] :
                     i + 1 \in DOMAIN waiting[z] /\ waiting'[z][i] = waiting[z][i + 1]
               /\ \A i \in DOMAIN waiting[z] :
                     i # 1 => i - 1 \in DOMAIN waiting'[z] /\ waiting[z][i] = waiting'[z][i - 1]
               /\ signals' = IF f.form = "accepted" /\ ~waiting[z][1].dropped
                             THEN signals \cup {z} ELSE signals
               /\ crossed' <=> crossed \/ waiting[z][1].id # f.for
      <4>1. \A t \in Signals \ {z} : (Wanted(t)' <=> Wanted(t))
        <5> TAKE t \in Signals \ {z}
        <5>2. t \in signals' <=> t \in signals
          BY <3>3
        <5> QED BY <3>1, <5>2 DEF Wanted, All
      <4>2. Wanted(z)' => Wanted(z)
        <5>1. ASSUME NEW i \in DOMAIN waiting'[z], waiting'[z][i].op = "subscribe", ~waiting'[z][i].dropped
              PROVE  Wanted(z)
          BY <3>3, <5>1 DEF Wanted
        <5>2. ASSUME z \in signals'
              PROVE  Wanted(z)
          <6>1. CASE z \in signals
            BY <6>1 DEF Wanted
          <6>2. CASE z \notin signals
            <7>1. f.form = "accepted" /\ ~waiting[z][1].dropped
              BY <3>3, <5>2, <6>2
            <7> QED BY <7>1, <3>3 DEF Wanted
          <6> QED BY <6>1, <6>2
        <5> QED BY <5>1, <5>2 DEF Wanted
      <4>3. ASSUME ~crossed', z \in Signals, Wanted(z)
            PROVE  Wanted(z)'
        <5>1. CASE z \in signals
          <6> QED BY <3>3, <5>1 DEF Wanted
        <5>2. CASE z \notin signals
          <6>1. PICK i \in DOMAIN waiting[z] : waiting[z][i].op = "subscribe" /\ ~waiting[z][i].dropped
            BY <4>3, <5>2 DEF Wanted
          <6>2. CASE i # 1
            BY <3>3, <6>1, <6>2 DEF Wanted
          <6>3. CASE i = 1
            <7>2. Owed(z, waiting[z][1].id, waiting[z][1].op)
              BY <3>1, <3>3 DEF WaitsForOwed
            <7>3. AnswersTo(f, "subscribe") /\ f.signal \in Signals
              <8> DEFINE n == waiting[z][1].id
                         op == waiting[z][1].op
              <8>1. Owed(z, n, op) /\ n = f.for /\ op = "subscribe"
                BY <6>1, <6>3, <3>3, <4>3, <7>2
              <8> HIDE DEF n, op
              <8> QED BY <3>0, <4>3, <8>1, <1>11, FrontFirst
            <7>5. z \in signals'
              BY <3>3, <6>1, <6>3, <3>1, <7>3 DEF AnswersTo
            <7> QED BY <7>5 DEF Wanted
          <6> QED BY <6>2, <6>3
        <5> QED BY <5>1, <5>2
      <4> HIDE DEF f, s
      <4> QED BY <2>2, <4>1, <4>2, <4>3, <3>3 DEF WantedWill
    <3> QED BY <3>1, <3>2, <3>3
  <2> QED BY <1>11, <2>3, <2>4 DEF ClientReceive
<1> QED BY <1>3, <1>4, <1>5, <1>6, <1>7, <1>8, <1>9, <1>10, <1>11 DEF SignalsNext, Session

\* One frame more, and a publish that answers nothing.
LEMMA FramesOrderedMore ==
  ASSUME NEW q \in Seq(Answer \cup Publish), NEW f \in Answer \cup Publish, FramesOrdered(q),
         f.for # 0 => \A i \in DOMAIN q : q[i].for < f.for,
         f.form # "publish" => f.for # 0, f.form = "accepted" => f.signal \in Signals
  PROVE  FramesOrdered(Append(q, f))
<1> DEFINE r == Append(q, f)
           k == Len(q) + 1
<1>1. /\ DOMAIN r = DOMAIN q \cup {k} /\ k \in Nat
      /\ \A i \in DOMAIN q : r[i] = q[i] /\ i < k /\ i \in Nat
      /\ r[k] = f
  BY AppendPlaces
<1> HIDE DEF r, k
<1>2. FramesOrdered(r)
  BY <1>1 DEF FramesOrdered
<1> QED BY <1>2 DEF r

\* What is owed by the frames after one more.
LEMMA OwedAppended ==
  ASSUME SignalsTyped, NEW f \in Answer \cup Publish, toClient' = Append(toClient, f),
         NEW s, NEW n, NEW op
  PROVE  OwedByFrame(s, n, op)' <=>
           OwedByFrame(s, n, op) \/ (f.signal = s /\ f.for = n /\ n # 0 /\ AnswersTo(f, op))
<1>1. PICK k :
      /\ DOMAIN toClient' = DOMAIN toClient \cup {k}
      /\ \A i \in DOMAIN toClient : toClient'[i] = toClient[i]
      /\ toClient'[k] = f
  <2> QED BY AppendPlaces DEF SignalsTyped
<1>2. ASSUME OwedByFrame(s, n, op)
      PROVE  OwedByFrame(s, n, op)'
  BY <1>1, <1>2 DEF OwedByFrame, AnswersTo
<1>3. ASSUME f.signal = s, f.for = n, n # 0, AnswersTo(f, op)
      PROVE  OwedByFrame(s, n, op)'
  BY <1>1, <1>3 DEF OwedByFrame, AnswersTo
<1>4. ASSUME OwedByFrame(s, n, op)'
      PROVE  OwedByFrame(s, n, op) \/ (f.signal = s /\ f.for = n /\ n # 0 /\ AnswersTo(f, op))
  BY <1>1, <1>4 DEF OwedByFrame, AnswersTo
<1> QED BY <1>2, <1>3, <1>4

\* What is owed by the frames after an answer and the publish that follows it.
LEMMA OwedAppendedTwo ==
  ASSUME SignalsTyped, NEW f \in Answer \cup Publish, NEW g \in Answer \cup Publish,
         g.for = 0, toClient' = Append(Append(toClient, f), g), NEW s, NEW n, NEW op
  PROVE  OwedByFrame(s, n, op)' <=>
           OwedByFrame(s, n, op) \/ (f.signal = s /\ f.for = n /\ n # 0 /\ AnswersTo(f, op))
<1>1. PICK j, k :
      /\ DOMAIN toClient' = DOMAIN toClient \cup {j, k}
      /\ \A i \in DOMAIN toClient : toClient'[i] = toClient[i]
      /\ toClient'[j] = f /\ toClient'[k] = g
  <2> DEFINE q == Append(toClient, f)
  <2>2. /\ DOMAIN q = DOMAIN toClient \cup {Len(toClient) + 1}
        /\ \A i \in DOMAIN toClient : q[i] = toClient[i]
        /\ q[Len(toClient) + 1] = f /\ q \in Seq(Answer \cup Publish)
    BY AppendPlaces DEF SignalsTyped
  <2>3. toClient' = Append(q, g)
    OBVIOUS
  <2> HIDE DEF q
  <2>4. /\ DOMAIN toClient' = DOMAIN q \cup {Len(q) + 1}
        /\ \A i \in DOMAIN q : toClient'[i] = q[i]
        /\ toClient'[Len(q) + 1] = g
    <3>1. /\ DOMAIN Append(q, g) = DOMAIN q \cup {Len(q) + 1}
          /\ \A i \in DOMAIN q : Append(q, g)[i] = q[i]
          /\ Append(q, g)[Len(q) + 1] = g
      <4> DEFINE S == Answer \cup Publish
      <4>1. q \in Seq(S) /\ g \in S
        BY <2>2
      <4> HIDE DEF S
      <4> QED BY <4>1, AppendPlaces
    <3> QED BY <2>3, <3>1, Zenon
  <2> QED BY <2>2, <2>4
<1>2. ASSUME OwedByFrame(s, n, op)
      PROVE  OwedByFrame(s, n, op)'
  BY <1>1, <1>2 DEF OwedByFrame, AnswersTo
<1>3. ASSUME f.signal = s, f.for = n, n # 0, AnswersTo(f, op)
      PROVE  OwedByFrame(s, n, op)'
  BY <1>1, <1>3 DEF OwedByFrame, AnswersTo
<1>4. ASSUME OwedByFrame(s, n, op)'
      PROVE  OwedByFrame(s, n, op) \/ (f.signal = s /\ f.for = n /\ n # 0 /\ AnswersTo(f, op))
  BY <1>1, <1>4 DEF OwedByFrame, AnswersTo
<1> QED BY <1>2, <1>3, <1>4

\* What is owed by the messages after one more, and without the first.
LEMMA OwedSent ==
  ASSUME SignalsTyped, NEW m \in Message, toServer' = Append(toServer, m), NEW s, NEW n, NEW op
  PROVE  OwedByMessage(s, n, op)' <=>
           OwedByMessage(s, n, op) \/ (m.signal = s /\ m.id = n /\ m.form = op)
<1>1. PICK k :
      /\ DOMAIN toServer' = DOMAIN toServer \cup {k}
      /\ \A i \in DOMAIN toServer : toServer'[i] = toServer[i]
      /\ toServer'[k] = m
  <2> QED BY AppendPlaces DEF SignalsTyped
<1> QED BY <1>1 DEF OwedByMessage

\* What a handler takes is what the messages owe no more.
LEMMA OwedReceived ==
  ASSUME SignalsTyped, NEW form, Handle(form), NEW s, NEW n, NEW op
  PROVE  OwedByMessage(s, n, op) <=>
           \/ OwedByMessage(s, n, op)'
           \/ Head(toServer).signal = s /\ Head(toServer).id = n /\ form = op
<1> DEFINE m == Head(toServer)
<1>1. /\ toServer \in Seq(Message) /\ toServer # <<>> /\ toServer' = Tail(toServer)
      /\ m.form = form
  BY DEF Handle, SignalsTyped
<1>2. /\ 1 \in DOMAIN toServer /\ m = toServer[1]
      /\ \A i \in DOMAIN toServer' : i + 1 \in DOMAIN toServer /\ toServer'[i] = toServer[i + 1]
      /\ \A i \in DOMAIN toServer : i # 1 => i - 1 \in DOMAIN toServer' /\ toServer[i] = toServer'[i - 1]
  BY <1>1, TailPlaces
<1> HIDE DEF m
<1>3. OwedByMessage(s, n, op) <=>
           \/ OwedByMessage(s, n, op)'
           \/ m.signal = s /\ m.id = n /\ form = op
  <2>1. ASSUME NEW i \in DOMAIN toServer, toServer[i].signal = s, toServer[i].id = n, toServer[i].form = op
        PROVE  OwedByMessage(s, n, op)' \/ (m.signal = s /\ m.id = n /\ form = op)
    BY <1>1, <1>2, <2>1 DEF OwedByMessage
  <2>2. ASSUME NEW i \in DOMAIN toServer', toServer'[i].signal = s, toServer'[i].id = n, toServer'[i].form = op
        PROVE  OwedByMessage(s, n, op)
    BY <1>2, <2>2 DEF OwedByMessage
  <2> QED BY <2>1, <2>2, <1>1, <1>2 DEF OwedByMessage
<1> QED BY <1>3 DEF m

\* What waits is owed as long as what is owed is the same.
LEMMA WaitsKept ==
  ASSUME SignalsTyped, WaitsForOwed, UNCHANGED <<waiting, early, crossed, ops>>,
         \A s \in All, n \in Nat, op \in {"subscribe", "read"} :
            /\ Owed(s, n, op) => Owed(s, n, op)'
            /\ Owed(s, n, op)' => Owed(s, n, "read") \/ Owed(s, n, "subscribe")
  PROVE  WaitsForOwed'
<1>1. ASSUME NEW s \in All, NEW i \in DOMAIN waiting[s]
      PROVE  Owed(s, waiting[s][i].id, waiting[s][i].op)'
  <2>2. waiting[s][i] \in Operation
    BY <1>1 DEF SignalsTyped
  <2>4. PICK n \in Nat, op \in {"subscribe", "read"} : n = waiting[s][i].id /\ op = waiting[s][i].op
    BY <2>2 DEF Operation
  <2>6. Owed(s, n, op)'
    BY <1>1, <2>4 DEF WaitsForOwed
  <2> QED BY <2>6, <2>4
<1>2. ASSUME NEW s \in All, NEW n \in 1 .. ops, NEW op \in {"subscribe", "read"},
             Owed(s, n, op)', ~early
      PROVE  \E i \in DOMAIN waiting[s] : waiting[s][i].id = n
  <2>2. Owed(s, n, "read") \/ Owed(s, n, "subscribe")
    BY <1>2 DEF SignalsTyped
  <2> QED BY <1>2, <2>2 DEF WaitsForOwed
<1> QED BY <1>1, <1>2 DEF WaitsForOwed

\* The numbers of the operations under way.
LEMMA NumbersTyped ==
  ASSUME SignalsTyped
  PROVE  /\ ops \in Nat /\ DOMAIN toServer \subseteq Nat /\ DOMAIN toClient \subseteq Nat
         /\ \A i \in DOMAIN toServer : toServer[i] \in Message /\ toServer[i].id \in Nat
         /\ \A i \in DOMAIN toClient : toClient[i] \in Answer \cup Publish /\ toClient[i].for \in Nat
<1>1. /\ ops \in Nat /\ DOMAIN toServer \subseteq Nat /\ DOMAIN toClient \subseteq Nat
      /\ \A i \in DOMAIN toServer : toServer[i] \in Message
      /\ \A i \in DOMAIN toClient : toClient[i] \in Answer \cup Publish
  BY DEF SignalsTyped
<1>3. \A i \in DOMAIN toClient : toClient[i].for \in Nat
  BY <1>1 DEF Answer, Publish
<1> QED BY <1>1, <1>3 DEF Message

\* The frames in their order with one more, or with two.
LEMMA RepliedMore ==
  ASSUME SignalsTyped, Replied, NEW f \in Answer \cup Publish, toClient' = Append(toClient, f),
         UNCHANGED ops, f.for <= ops,
         f.for # 0 => \A i \in DOMAIN toClient : toClient[i].for < f.for,
         f.form # "publish" => f.for # 0, f.form = "accepted" => f.signal \in Signals,
         \A j \in DOMAIN toServer' : f.for < toServer'[j].id
            /\ \A i \in DOMAIN toClient : toClient[i].for < toServer'[j].id
  PROVE  Replied'
<1>1. PICK k :
      /\ DOMAIN toClient' = DOMAIN toClient \cup {k}
      /\ \A i \in DOMAIN toClient : toClient'[i] = toClient[i]
      /\ toClient'[k] = f
  <2> QED BY AppendPlaces DEF SignalsTyped
<1>2. FramesOrdered(Append(toClient, f))
  <2> DEFINE q == toClient
  <2>1. /\ q \in Seq(Answer \cup Publish) /\ FramesOrdered(q)
        /\ f.for # 0 => \A i \in DOMAIN q : q[i].for < f.for
    BY DEF SignalsTyped, Replied
  <2> HIDE DEF q
  <2>2. FramesOrdered(Append(q, f))
    BY <2>1, FramesOrderedMore
  <2> QED BY <2>2 DEF q
<1>3. FramesOrdered(toClient')
  BY <1>2, Zenon
<1>4. FramesOrdered(toClient)'
  BY <1>3 DEF FramesOrdered
<1>5. ASSUME NEW i \in DOMAIN toClient'
      PROVE  toClient'[i].for <= ops' /\ \A j \in DOMAIN toServer' : toClient'[i].for < toServer'[j].id
  BY <1>1, <1>5 DEF Replied
<1> QED BY <1>4, <1>5 DEF Replied

\* The frames in their order with an answer more and the publish that follows it.
LEMMA RepliedMoreTwo ==
  ASSUME SignalsTyped, Replied, NEW f \in Answer \cup Publish, NEW g \in Answer \cup Publish,
         toClient' = Append(Append(toClient, f), g), UNCHANGED ops, f.for <= ops,
         f.for # 0 => \A i \in DOMAIN toClient : toClient[i].for < f.for,
         f.form # "publish" => f.for # 0, f.form = "accepted" => f.signal \in Signals,
         g.for = 0, g.form = "publish",
         \A j \in DOMAIN toServer' : f.for < toServer'[j].id /\ toServer'[j].id \in Nat
            /\ \A i \in DOMAIN toClient : toClient[i].for < toServer'[j].id
  PROVE  Replied'
<1> DEFINE q == toClient
           r == Append(toClient, f)
<1>0. q \in Seq(Answer \cup Publish) /\ FramesOrdered(q) /\ r = Append(q, f) /\ toClient' = Append(r, g)
      /\ q = toClient
  BY DEF SignalsTyped, Replied
<1> HIDE DEF q, r
<1>2. /\ DOMAIN r = DOMAIN q \cup {Len(q) + 1}
      /\ \A i \in DOMAIN q : r[i] = q[i]
      /\ r[Len(q) + 1] = f /\ r \in Seq(Answer \cup Publish)
  BY <1>0, AppendPlaces
<1>3. /\ DOMAIN Append(r, g) = DOMAIN r \cup {Len(r) + 1}
      /\ \A i \in DOMAIN r : Append(r, g)[i] = r[i]
      /\ Append(r, g)[Len(r) + 1] = g
  <2> DEFINE S == Answer \cup Publish
  <2>1. r \in Seq(S) /\ g \in S
    BY <1>2
  <2> HIDE DEF S
  <2> QED BY <2>1, AppendPlaces
<1>4. FramesOrdered(r)
  <2>1. FramesOrdered(Append(q, f))
    BY <1>0, FramesOrderedMore
  <2> QED BY <1>0, <2>1
<1>5. FramesOrdered(Append(r, g))
  BY <1>2, <1>4, FramesOrderedMore
<1>6. FramesOrdered(toClient')
  BY <1>0, <1>5, Zenon
<1>7. FramesOrdered(toClient)'
  BY <1>6 DEF FramesOrdered
<1>8. \A i \in DOMAIN toClient' :
         \/ i \in DOMAIN toClient /\ toClient'[i] = toClient[i]
         \/ toClient'[i] = f \/ toClient'[i] = g
  BY <1>0, <1>2, <1>3
<1>9. ASSUME NEW i \in DOMAIN toClient'
      PROVE  toClient'[i].for <= ops' /\ \A j \in DOMAIN toServer' : toClient'[i].for < toServer'[j].id
  <2>3. CASE toClient'[i] = g
    <3>1. ASSUME NEW j \in DOMAIN toServer'
          PROVE  0 < toServer'[j].id
      BY DEF Answer, Publish
    <3> QED BY <2>3, <3>1 DEF SignalsTyped
  <2>4. CASE toClient'[i] = f
    BY <2>4
  <2>5. CASE i \in DOMAIN toClient /\ toClient'[i] = toClient[i]
    BY <2>5 DEF Replied
  <2> QED BY <1>8, <1>9, <2>3, <2>4, <2>5
<1> QED BY <1>7, <1>9 DEF Replied

\* The message a handler takes is the oldest, and behind every answer.
LEMMA MessageFirst ==
  ASSUME SignalsTyped, InOrder, NEW form, Handle(form), UNCHANGED ops
  PROVE  /\ Asked' /\ Head(toServer).id # 0 /\ Head(toServer).id <= ops
         /\ \A i \in DOMAIN toClient : toClient[i].for < Head(toServer).id
         /\ \A j \in DOMAIN toServer' :
               /\ Head(toServer).id < toServer'[j].id
               /\ \A i \in DOMAIN toClient : toClient[i].for < toServer'[j].id
<1> DEFINE m == Head(toServer)
<1>2. /\ 1 \in DOMAIN toServer /\ m = toServer[1]
      /\ \A i \in DOMAIN toServer' : i + 1 \in DOMAIN toServer /\ toServer'[i] = toServer[i + 1]
      /\ DOMAIN toServer' \subseteq Nat \ {0}
  BY TailPlaces DEF Handle, SignalsTyped
<1> HIDE DEF m
<1>3. ASSUME NEW i \in DOMAIN toServer', NEW j \in DOMAIN toServer', i < j
      PROVE  toServer'[i].id < toServer'[j].id
  <2> QED BY <1>2, <1>3 DEF InOrder, Asked
<1>5. \A j \in DOMAIN toServer' : m.id < toServer'[j].id
  <2> TAKE j \in DOMAIN toServer'
  <2> QED BY <1>2 DEF InOrder, Asked
<1>6. m.id # 0 /\ m.id <= ops
  BY <1>2 DEF InOrder, Asked
<1>7. \A i \in DOMAIN toClient : toClient[i].for < m.id
  BY <1>2 DEF InOrder, Replied
<1>8. \A j \in DOMAIN toServer' : \A i \in DOMAIN toClient : toClient[i].for < toServer'[j].id
  BY <1>2 DEF InOrder, Replied
<1> QED BY <1>3, <1>2, <1>5, <1>6, <1>7, <1>8 DEF Asked, m, InOrder

\* Operations stay in their order.
LEMMA InOrderStep ==
  ASSUME SignalsTyped, JobFits, InOrder, SignalsNext
  PROVE  InOrder'
<1>0. /\ ops \in Nat /\ DOMAIN toServer \subseteq Nat /\ DOMAIN toClient \subseteq Nat
      /\ \A i \in DOMAIN toServer : toServer[i].id \in Nat
      /\ \A i \in DOMAIN toClient : toClient[i].for \in Nat
  BY NumbersTyped
<1>1. ASSUME UNCHANGED <<toServer, toClient, ops>>, job'.op = "subscribe" => job' = job
      PROVE  InOrder'
  BY <1>1 DEF InOrder, Asked, Handled, Replied, FramesOrdered
<1>2. ASSUME NEW s \in Signals, NEW big \in Sizes, Commit(s, big)
      PROVE  InOrder'
  BY <1>1, <1>2 DEF Commit, sessionVars, clientVars
<1>3. ASSUME NEW s \in All, ClientSubscribe(s) \/ ClientUnsubscribe(s) \/ ClientRead(s)
      PROVE  InOrder'
  <2>1. PICK form \in {"subscribe", "unsubscribe", "read"} :
           /\ toServer' = Append(toServer, [form |-> form, signal |-> s, id |-> ops + 1])
           /\ ops' = ops + 1 /\ UNCHANGED <<job, toClient>>
    BY <1>3 DEF ClientSubscribe, ClientUnsubscribe, ClientRead, Send, sessionVars
  <2> DEFINE m == [form |-> form, signal |-> s, id |-> ops + 1]
  <2>2. m \in Message /\ toServer' = Append(toServer, m) /\ m.id = ops + 1
    BY <2>1 DEF Message, SignalsTyped
  <2> HIDE DEF m
  <2>3. PICK k \in Nat :
        /\ DOMAIN toServer' = DOMAIN toServer \cup {k}
        /\ \A i \in DOMAIN toServer : toServer'[i] = toServer[i] /\ i < k
        /\ toServer'[k] = m
    <3>1. toServer \in Seq(Message)
      BY DEF SignalsTyped
    <3> QED BY <2>2, <3>1, AppendPlaces
  <2>4. Asked'
    <3>1. ASSUME NEW i \in DOMAIN toServer'
          PROVE  toServer'[i].id # 0 /\ toServer'[i].id <= ops'
      <4>1. CASE i = k
        BY <1>0, <2>1, <2>2, <2>3, <4>1
      <4>2. CASE i \in DOMAIN toServer
        <5> QED BY <1>0, <2>1, <2>3, <4>2 DEF InOrder, Asked
      <4> QED BY <2>3, <4>1, <4>2
    <3>2. ASSUME NEW i \in DOMAIN toServer', NEW j \in DOMAIN toServer', i < j
          PROVE  toServer'[i].id < toServer'[j].id
      <4>1. i \in DOMAIN toServer
        BY <1>0, <2>3, <3>2
      <4>3. CASE j = k
        BY <1>0, <2>2, <2>3, <4>1, <4>3 DEF InOrder, Asked
      <4>4. CASE j \in DOMAIN toServer
        BY <2>3, <3>2, <4>1, <4>4 DEF InOrder, Asked
      <4> QED BY <2>3, <4>3, <4>4
    <3> QED BY <3>1, <3>2 DEF Asked
  <2>5. ASSUME NEW n \in Nat, n <= ops, \A j \in DOMAIN toServer : n < toServer[j].id
        PROVE  n <= ops' /\ \A j \in DOMAIN toServer' : n < toServer'[j].id
    BY <1>0, <2>1, <2>2, <2>3, <2>5
  <2>6. Handled'
    <3>1. SUFFICES ASSUME job.op = "subscribe"
                   PROVE  /\ job.id # 0 /\ job.id <= ops'
                          /\ \A i \in DOMAIN toServer' : job.id < toServer'[i].id
                          /\ \A i \in DOMAIN toClient : toClient[i].for < job.id
      BY <2>1 DEF Handled
    <3> QED BY <2>5, <3>1, Fetching DEF InOrder, Handled
  <2>7. Replied'
    <3>1. FramesOrdered(toClient)'
      BY <2>1 DEF InOrder, Replied, FramesOrdered
    <3>2. ASSUME NEW i \in DOMAIN toClient
          PROVE  toClient[i].for <= ops' /\ \A j \in DOMAIN toServer' : toClient[i].for < toServer'[j].id
      <4> QED BY <2>5, <1>0, <3>2 DEF InOrder, Replied
    <3> QED BY <2>1, <3>1, <3>2 DEF Replied
  <2> QED BY <2>4, <2>6, <2>7 DEF InOrder
<1>4. ASSUME NEW form, Handle(form), UNCHANGED ops, NEW f \in Answer \cup Publish,
             f.for = Head(toServer).id, toClient' = Append(toClient, f), job'.op # "subscribe",
             f.form = "accepted" => f.signal \in Signals
      PROVE  InOrder'
  <2> DEFINE n == Head(toServer).id
  <2>1. /\ Asked' /\ n # 0 /\ n <= ops
        /\ \A i \in DOMAIN toClient : toClient[i].for < n
        /\ \A j \in DOMAIN toServer' :
               /\ n < toServer'[j].id
               /\ \A i \in DOMAIN toClient : toClient[i].for < toServer'[j].id
    BY <1>4, MessageFirst
  <2>2. f.for = n
    BY <1>4
  <2> HIDE DEF n
  <2>3. Replied
    BY DEF InOrder
  <2>4. Replied'
    BY <1>4, <2>1, <2>2, <2>3, RepliedMore
  <2>5. Handled'
    BY <1>4 DEF Handled
  <2> QED BY <2>1, <2>4, <2>5 DEF InOrder
<1>5. ASSUME NEW form, Handle(form), UNCHANGED <<ops, toClient>>,
             job'.op = "subscribe" => job'.id = Head(toServer).id
      PROVE  InOrder'
  <2> DEFINE n == Head(toServer).id
  <2>1. /\ Asked' /\ n # 0 /\ n <= ops
        /\ \A i \in DOMAIN toClient : toClient[i].for < n
        /\ \A j \in DOMAIN toServer' :
               /\ n < toServer'[j].id
               /\ \A i \in DOMAIN toClient : toClient[i].for < toServer'[j].id
    BY <1>5, MessageFirst
  <2>2. job'.op = "subscribe" => job'.id = n
    BY <1>5
  <2> HIDE DEF n
  <2>3. Handled'
    BY <1>5, <2>1, <2>2 DEF Handled
  <2>4. FramesOrdered(toClient)'
    BY <1>5 DEF InOrder, Replied, FramesOrdered
  <2>5. Replied'
    BY <1>5, <2>1, <2>4 DEF Replied, InOrder
  <2> QED BY <2>1, <2>3, <2>5 DEF InOrder
<1>6. CASE Subscribe
  <2> DEFINE s == Head(toServer).signal
             id == Head(toServer).id
             f == AcceptedFor(s, id)
             r == [op |-> "subscribe", signal |-> s, id |-> id,
                   marked |-> mode = "scanning" /\ mark = -1]
  <2>1. Handle("subscribe") /\ job = Idle /\ UNCHANGED ops /\ s \in All /\ id \in Nat
    BY <1>6, Received DEF Subscribe, Handle, clientVars
  <2>2. \/ s \in subscribed /\ toClient' = Append(toClient, f) /\ UNCHANGED job
        \/ job' = r /\ UNCHANGED toClient
    BY <1>6 DEF Subscribe
  <2>3. r.id = id /\ f \in Answer \cup Publish /\ f.for = id /\ f.signal = s
    BY <2>1 DEF AcceptedFor, Answer
  <2> HIDE DEF r, f
  <2>4. CASE s \in subscribed /\ toClient' = Append(toClient, f) /\ UNCHANGED job
    <3> QED BY <1>4, <2>1, <2>3, <2>4 DEF SignalsTyped, Idle
  <2>5. CASE job' = r /\ UNCHANGED toClient
    BY <1>5, <2>1, <2>3, <2>5
  <2> QED BY <2>2, <2>4, <2>5
<1>7. CASE SubscribeFetched
  <2> DEFINE s == job.signal
             id == job.id
             a == AcceptedFor(s, id)
             b == RefusedFor(s, id)
             g == PublishFrame(s, FALSE, 0)
  <2>1. /\ job.op = "subscribe" /\ job' = Idle /\ UNCHANGED <<ops, toServer>>
        /\ s \in All /\ id \in Nat
    BY <1>7, Fetching DEF SubscribeFetched, clientVars
  <2>2. /\ id # 0 /\ id <= ops
        /\ \A i \in DOMAIN toServer : id < toServer[i].id
        /\ \A i \in DOMAIN toClient : toClient[i].for < id
    BY <2>1 DEF InOrder, Handled
  <2>3. /\ a \in Answer \cup Publish /\ a.for = id /\ a.signal = s
        /\ b \in Answer \cup Publish /\ b.for = id /\ b.form = "refused"
    BY <2>1 DEF AcceptedFor, RefusedFor, Answer
  <2>4. Handled' /\ Asked'
    BY <2>1 DEF Handled, Asked, Idle, InOrder
  <2>5. \A j \in DOMAIN toServer' : id < toServer'[j].id /\ toServer'[j].id \in Nat
            /\ \A i \in DOMAIN toClient : toClient[i].for < toServer'[j].id
    BY <1>0, <2>1, <2>2 DEF InOrder, Replied
  <2>6. Replied
    BY DEF InOrder
  <2>7. CASE Fetch(s) = "contract"
    <3>1. toClient' = Append(toClient, b)
      BY <1>7, <2>7 DEF SubscribeFetched
    <3> HIDE DEF a, b, g, s, id
    <3>2. Replied'
      BY <2>1, <2>2, <2>3, <2>5, <2>6, <3>1, RepliedMore
    <3> QED BY <2>4, <3>2 DEF InOrder
  <2>8. CASE Fetch(s) = "too large"
    <3>1. toClient' = Append(toClient, a)
      BY <1>7, <2>8 DEF SubscribeFetched
    <3>2. s \in Signals
      BY <2>1, <2>8, ServedSignals
    <3> HIDE DEF a, b, g, s, id
    <3>3. Replied'
      BY <2>1, <2>2, <2>3, <2>5, <2>6, <3>1, <3>2, RepliedMore
    <3> QED BY <2>4, <3>3 DEF InOrder
  <2>9. CASE Fetch(s) = "sample"
    <3>1. toClient' = toClient \o <<a, g>>
      BY <1>7, <2>9 DEF SubscribeFetched
    <3>2. s \in Signals
      BY <2>1, <2>9, ServedSignals
    <3>3. g \in Answer \cup Publish
      BY <3>2, FrameTyped
    <3>4. g.for = 0 /\ g.form = "publish"
      BY DEF PublishFrame
    <3>5. toClient \in Seq(Answer \cup Publish)
      BY DEF SignalsTyped
    <3> HIDE DEF a, b, g, s, id
    <3>6. toClient' = Append(Append(toClient, a), g)
      BY <2>3, <3>1, <3>3, <3>5, TwoAppended
    <3>7. Replied'
      BY <2>1, <2>2, <2>3, <2>5, <2>6, <3>2, <3>3, <3>4, <3>6, RepliedMoreTwo
    <3> QED BY <2>4, <3>7 DEF InOrder
  <2> QED BY <2>1, <2>7, <2>8, <2>9, ServedSignals
<1>8. CASE Unsubscribe
  <2> QED BY <1>5, <1>8 DEF Idle, Unsubscribe, Handle, clientVars
<1>9. CASE Read
  <2> DEFINE s == Head(toServer).signal
             id == Head(toServer).id
             g == PublishFrame(s, FALSE, id)
             b == RefusedFor(s, id)
  <2>1. Handle("read") /\ job = Idle /\ UNCHANGED <<ops, job>> /\ s \in All /\ id \in Nat
    BY <1>9, Received DEF Read, Handle, clientVars
  <2>2. (Fetch(s) = "sample" /\ toClient' = Append(toClient, g)) \/ toClient' = Append(toClient, b)
    BY <1>9 DEF Read
  <2>3. b \in Answer \cup Publish /\ b.for = id /\ b.form = "refused"
    BY <2>1 DEF RefusedFor, Answer
  <2>4. g.for = id /\ g.form = "publish"
    BY DEF PublishFrame
  <2>5. Fetch(s) = "sample" => g \in Answer \cup Publish
    BY <2>1, FrameTyped, ServedSignals
  <2>6. job'.op # "subscribe"
    BY <2>1 DEF Idle
  <2> HIDE DEF g, b
  <2> QED BY <1>4, <2>1, <2>2, <2>3, <2>4, <2>5, <2>6
<1>10. CASE StartPoll
  <2> QED BY <1>1, <1>10 DEF StartPoll, clientVars, Polling, Idle
<1>11. CASE PollSignal
  <2> DEFINE s == CHOOSE x \in job.left : \A y \in job.left : x <= y
             fresh == mode = "scanning"
             g == PublishFrame(s, fresh, 0)
  <2>1. UNCHANGED <<toServer, ops>> /\ job'.op # "subscribe"
    BY <1>11 DEF PollSignal, clientVars, Polling, Idle
  <2>2. UNCHANGED toClient \/ toClient' = Append(toClient, g)
    BY <1>11 DEF PollSignal
  <2>3. g \in Answer \cup Publish
    BY <1>11, Polled, FrameTyped DEF PollSignal
  <2>4. g.for = 0 /\ g.form = "publish"
    BY DEF PublishFrame
  <2> HIDE DEF g
  <2>5. CASE toClient' = Append(toClient, g)
    <3>2. Replied'
      BY <2>1, <2>3, <2>4, <2>5, <1>0, RepliedMore DEF InOrder, Asked, Replied
    <3>3. Asked' /\ Handled'
      BY <2>1 DEF InOrder, Asked, Handled
    <3> QED BY <3>2, <3>3 DEF InOrder
  <2> QED BY <1>1, <2>1, <2>2, <2>5
<1>12. CASE ClientReceive
  <2>1. UNCHANGED <<toServer, job, ops>>
    BY <1>12 DEF ClientReceive, sessionVars
  <2>2. /\ \A i \in DOMAIN toClient' : i + 1 \in DOMAIN toClient /\ toClient'[i] = toClient[i + 1]
        /\ DOMAIN toClient' \subseteq Nat
    BY <1>12, FrontFrame, TailPlaces
  <2>3. Asked' /\ Handled'
    BY <2>1, <2>2 DEF InOrder, Asked, Handled
  <2>4. FramesOrdered(toClient')
    <3>1. ASSUME NEW i \in DOMAIN toClient', NEW j \in DOMAIN toClient', i < j, toClient'[j].for # 0
          PROVE  toClient'[i].for < toClient'[j].for
      <4> QED BY <2>2, <3>1 DEF InOrder, Replied, FramesOrdered
    <3> QED BY <3>1, <2>2 DEF FramesOrdered, InOrder, Replied
  <2>5. FramesOrdered(toClient)'
    BY <2>4 DEF FramesOrdered
  <2>6. Replied'
    BY <2>1, <2>2, <2>5 DEF InOrder, Replied
  <2> QED BY <2>3, <2>6 DEF InOrder
<1> QED BY <1>2, <1>3, <1>6, <1>7, <1>8, <1>9, <1>10, <1>11, <1>12 DEF SignalsNext, Session

\* The client waits for what is owed while messages and answers cross.
LEMMA WaitsForOwedSession ==
  ASSUME SignalsTyped, JobFits, InOrder, WaitsForOwed, Session
  PROVE  WaitsForOwed'
<1>1. UNCHANGED <<waiting, early, crossed, ops>>
  BY DEF Session, Subscribe, SubscribeFetched, Unsubscribe, Read, StartPoll, PollSignal, clientVars
<1>2. ASSUME UNCHANGED <<toServer, toClient>>, job.op # "subscribe", job'.op # "subscribe"
      PROVE  WaitsForOwed'
  <2>1. ASSUME NEW s, NEW n, NEW op
        PROVE  Owed(s, n, op)' <=> Owed(s, n, op)
    BY <1>2 DEF Owed, OwedByFrame, OwedByJob, OwedByMessage, AnswersTo
  <2> QED BY <1>1, <2>1, WaitsKept
<1>3. CASE Subscribe
  <2> DEFINE t == Head(toServer).signal
             id == Head(toServer).id
             f == AcceptedFor(t, id)
             r == [op |-> "subscribe", signal |-> t, id |-> id,
                   marked |-> mode = "scanning" /\ mark = -1]
  <2>1. Handle("subscribe") /\ job = Idle /\ t \in All /\ id \in Nat
    BY <1>3, Received DEF Subscribe, Handle
  <2>2. \/ toClient' = Append(toClient, f) /\ UNCHANGED job
        \/ job' = r /\ UNCHANGED toClient
    BY <1>3 DEF Subscribe
  <2>3. /\ f \in Answer \cup Publish /\ f.for = id /\ f.signal = t /\ f.form = "accepted"
        /\ r.op = "subscribe" /\ r.signal = t /\ r.id = id /\ job.op # "subscribe"
        /\ \A op : AnswersTo(f, op) <=> op = "subscribe"
    BY <2>1 DEF AcceptedFor, Answer, Idle, AnswersTo
  <2>4. id # 0
    BY <1>1, <2>1, MessageFirst
  <2>5. ASSUME NEW s, NEW n, NEW op
        PROVE  OwedByMessage(s, n, op) <=>
                 OwedByMessage(s, n, op)' \/ (t = s /\ id = n /\ "subscribe" = op)
    BY <2>1, OwedReceived
  <2> HIDE DEF t, id, f, r
  <2>6. ASSUME NEW s, NEW n, NEW op
        PROVE  Owed(s, n, op)' <=> Owed(s, n, op)
    <3>1. CASE toClient' = Append(toClient, f) /\ UNCHANGED job
      <4>1. OwedByFrame(s, n, op)' <=>
              OwedByFrame(s, n, op) \/ (t = s /\ id = n /\ n # 0 /\ op = "subscribe")
        BY <2>3, <3>1, OwedAppended
      <4>2. OwedByJob(s, n, op)' <=> OwedByJob(s, n, op)
        BY <3>1 DEF OwedByJob
      <4> QED BY <2>4, <2>5, <4>1, <4>2 DEF Owed
    <3>2. CASE job' = r /\ UNCHANGED toClient
      <4>2. OwedByJob(s, n, op)' <=> t = s /\ id = n /\ op = "subscribe"
        BY <2>3, <3>2 DEF OwedByJob
      <4>3. ~OwedByJob(s, n, op)
        BY <2>3 DEF OwedByJob
      <4> QED BY <2>5, <3>2, <4>2, <4>3 DEF Owed, OwedByFrame, AnswersTo
    <3> QED BY <2>2, <3>1, <3>2
  <2> QED BY <1>1, <2>6, WaitsKept
<1>4. CASE SubscribeFetched
  <2> DEFINE t == job.signal
             id == job.id
             a == AcceptedFor(t, id)
             b == RefusedFor(t, id)
             g == PublishFrame(t, FALSE, 0)
  <2>1. /\ job.op = "subscribe" /\ job' = Idle /\ UNCHANGED toServer /\ t \in All /\ id \in Nat
    BY <1>4, Fetching DEF SubscribeFetched
  <2>2. id # 0
    BY <2>1 DEF InOrder, Handled
  <2>3. ASSUME NEW s, NEW n, NEW op
        PROVE  /\ OwedByMessage(s, n, op)' <=> OwedByMessage(s, n, op)
               /\ ~OwedByJob(s, n, op)'
               /\ OwedByJob(s, n, op) <=> t = s /\ id = n /\ op = "subscribe"
    BY <2>1 DEF OwedByMessage, OwedByJob, Idle
  <2>4. /\ a \in Answer \cup Publish /\ a.for = id /\ a.signal = t
        /\ b \in Answer \cup Publish /\ b.for = id /\ b.signal = t
        /\ \A op : AnswersTo(a, op) <=> op = "subscribe"
    BY <2>1 DEF AcceptedFor, RefusedFor, Answer, AnswersTo
  <2>5. CASE Fetch(t) = "contract"
    <3>1. toClient' = Append(toClient, b)
      BY <1>4, <2>5 DEF SubscribeFetched
    <3>3. \A op : AnswersTo(b, op)
      BY <2>5, WsSignalsAssumption DEF RefusedFor, AnswersTo, Fetch
    <3> HIDE DEF a, b, g, t, id
    <3>4. ASSUME NEW s, NEW n, NEW op
          PROVE  /\ Owed(s, n, op) => Owed(s, n, op)'
                 /\ Owed(s, n, op)' => Owed(s, n, op) \/ Owed(s, n, "subscribe")
      <4>1. OwedByFrame(s, n, op)' <=>
              OwedByFrame(s, n, op) \/ (t = s /\ id = n /\ n # 0)
        BY <2>4, <3>1, <3>3, OwedAppended
      <4> QED BY <2>2, <2>3, <4>1 DEF Owed
    <3> QED BY <1>1, <3>4, WaitsKept
  <2>6. CASE Fetch(t) # "contract"
    <3>1. toClient' = Append(toClient, a)
          \/ (t \in Signals /\ toClient' = toClient \o <<a, g>>)
      <4>1. CASE Fetch(t) = "sample"
        <5> QED BY <1>4, <4>1, <2>1, <2>6, ServedSignals DEF SubscribeFetched
      <4>2. CASE Fetch(t) = "too large"
        BY <1>4, <4>2 DEF SubscribeFetched
      <4> QED BY <2>1, <2>6, <4>1, <4>2, ServedSignals
    <3>2. t \in Signals => g \in Answer \cup Publish
      BY FrameTyped
    <3>3. g.for = 0
      BY DEF PublishFrame
    <3>4. toClient \in Seq(Answer \cup Publish)
      BY DEF SignalsTyped
    <3> HIDE DEF a, b, g, t, id
    <3>5. ASSUME NEW s, NEW n, NEW op
          PROVE  OwedByFrame(s, n, op)' <=>
                   OwedByFrame(s, n, op) \/ (t = s /\ id = n /\ n # 0 /\ op = "subscribe")
      <4>1. CASE toClient' = Append(toClient, a)
        BY <2>4, <4>1, OwedAppended
      <4>2. CASE t \in Signals /\ toClient' = toClient \o <<a, g>>
        <5>1. toClient' = Append(Append(toClient, a), g) /\ g \in Answer \cup Publish
          BY <2>4, <3>2, <3>4, <4>2, TwoAppended
        <5> QED BY <2>4, <3>3, <5>1, OwedAppendedTwo
      <4> QED BY <3>1, <4>1, <4>2
    <3>6. ASSUME NEW s, NEW n, NEW op
          PROVE  Owed(s, n, op)' <=> Owed(s, n, op)
      BY <2>2, <2>3, <3>5 DEF Owed
    <3> QED BY <1>1, <3>6, WaitsKept
  <2> QED BY <2>5, <2>6
<1>5. CASE Unsubscribe
  <2>1. Handle("unsubscribe") /\ UNCHANGED <<toClient, job>>
    BY <1>5 DEF Unsubscribe
  <2>2. ASSUME NEW s, NEW n, NEW op \in {"subscribe", "read"}
        PROVE  Owed(s, n, op)' <=> Owed(s, n, op)
    <3>1. OwedByMessage(s, n, op) <=> OwedByMessage(s, n, op)'
      <4> QED BY <2>1, OwedReceived
    <3>3. OwedByJob(s, n, op)' <=> OwedByJob(s, n, op)
      BY <2>1 DEF OwedByJob
    <3> QED BY <3>1, <2>1, <3>3 DEF Owed, OwedByFrame, AnswersTo
  <2> QED BY <1>1, <2>2, WaitsKept
<1>6. CASE Read
  <2> DEFINE t == Head(toServer).signal
             id == Head(toServer).id
             g == PublishFrame(t, FALSE, id)
             b == RefusedFor(t, id)
  <2>1. Handle("read") /\ UNCHANGED job /\ t \in All /\ id \in Nat
    BY <1>6, Received DEF Read
  <2>3. PICK f \in Answer \cup Publish :
          toClient' = Append(toClient, f) /\ f.for = id /\ f.signal = t /\ AnswersTo(f, "read")
    <3>1. CASE Fetch(t) = "sample" /\ toClient' = Append(toClient, g)
      <4>1. g \in Answer \cup Publish
        BY <2>1, <3>1, FrameTyped, ServedSignals
      <4>2. g.for = id /\ g.signal = t /\ g.form = "publish"
        BY DEF PublishFrame
      <4> HIDE DEF g, t, id
      <4> QED BY <3>1, <4>1, <4>2 DEF AnswersTo
    <3>2. CASE toClient' = Append(toClient, b)
      <4>1. b \in Answer \cup Publish /\ b.for = id /\ b.signal = t /\ b.form = "refused"
        BY <2>1 DEF RefusedFor, Answer
      <4> HIDE DEF b, t, id
      <4> QED BY <3>2, <4>1 DEF AnswersTo
    <3> QED BY <1>6, <3>1, <3>2 DEF Read
  <2>4. id # 0
    BY <1>1, <2>1, MessageFirst
  <2>5. ASSUME NEW s, NEW n, NEW op
        PROVE  /\ OwedByMessage(s, n, op) <=>
                    OwedByMessage(s, n, op)' \/ (t = s /\ id = n /\ "read" = op)
               /\ OwedByJob(s, n, op)' <=> OwedByJob(s, n, op)
    <3> QED BY <2>1, OwedReceived DEF OwedByJob
  <2> HIDE DEF t, id
  <2>6. ASSUME NEW s, NEW n, NEW op
        PROVE  /\ Owed(s, n, op) => Owed(s, n, op)'
               /\ Owed(s, n, op)' => Owed(s, n, op) \/ Owed(s, n, "read")
    <3>2. t = s /\ id = n => OwedByMessage(s, n, "read")
      BY <2>5
    <3>3. t = s /\ id = n /\ op = "read" => AnswersTo(f, op)
      BY <2>3
    <3> QED BY <2>4, <2>5, <2>3, OwedAppended, <3>2, <3>3 DEF Owed
  <2> QED BY <1>1, <2>6, WaitsKept
<1>7. CASE StartPoll
  <2> QED BY <1>2, <1>7 DEF StartPoll, Polling, Idle
<1>8. CASE PollSignal
  <2> DEFINE t == CHOOSE x \in job.left : \A y \in job.left : x <= y
             fresh == mode = "scanning"
             g == PublishFrame(t, fresh, 0)
  <2>1. UNCHANGED toServer /\ job.op # "subscribe" /\ job'.op # "subscribe"
    BY <1>8 DEF PollSignal, Polling, Idle
  <2>2. UNCHANGED toClient \/ toClient' = Append(toClient, g)
    BY <1>8 DEF PollSignal
  <2>3. g \in Answer \cup Publish
    BY <1>8, Polled, FrameTyped DEF PollSignal
  <2>4. g.for = 0
    BY DEF PublishFrame
  <2> HIDE DEF g
  <2>5. CASE toClient' = Append(toClient, g)
    <3>1. ASSUME NEW s, NEW n, NEW op
          PROVE  Owed(s, n, op)' <=> Owed(s, n, op)
      <4>1. OwedByFrame(s, n, op)' <=>
              OwedByFrame(s, n, op) \/ (g.signal = s /\ g.for = n /\ n # 0 /\ AnswersTo(g, op))
        BY <2>3, <2>5, OwedAppended
      <4>2. OwedByMessage(s, n, op)' <=> OwedByMessage(s, n, op)
        BY <2>1 DEF OwedByMessage
      <4>3. ~OwedByJob(s, n, op)' /\ ~OwedByJob(s, n, op)
        BY <2>1 DEF OwedByJob
      <4> QED BY <2>4, <4>1, <4>2, <4>3 DEF Owed
    <3> QED BY <1>1, <3>1, WaitsKept
  <2> QED BY <1>2, <2>1, <2>2, <2>5
<1> QED BY <1>3, <1>4, <1>5, <1>6, <1>7, <1>8 DEF Session

\* An operation that waits has a number that was given.
LEMMA WaitingNumbered ==
  ASSUME SignalsTyped, NEW s \in All, NEW i \in DOMAIN waiting[s]
  PROVE  /\ waiting[s][i] \in Operation /\ waiting[s][i].id \in Nat
         /\ waiting[s][i].op \in {"subscribe", "read"} /\ i \in Nat
<1>2. waiting[s][i] \in Operation /\ i \in Nat
  BY DEF SignalsTyped
<1> QED BY <1>2 DEF Operation

\* What is owed has a number that was given.
LEMMA OwedNumbered ==
  ASSUME SignalsTyped, InOrder, NEW s, NEW n, NEW op, Owed(s, n, op)
  PROVE  n # 0 /\ n <= ops
<1>1. CASE OwedByFrame(s, n, op)
  BY <1>1 DEF OwedByFrame, InOrder, Replied
<1>2. CASE OwedByJob(s, n, op)
  BY <1>2 DEF OwedByJob, InOrder, Handled
<1>3. CASE OwedByMessage(s, n, op)
  BY <1>3 DEF OwedByMessage, InOrder, Asked
<1> QED BY <1>1, <1>2, <1>3 DEF Owed

\* The client waits for what it has just sent too.
LEMMA WaitsForOwedSent ==
  ASSUME SignalsTyped, InOrder, WaitsForOwed, NEW s \in All,
         ClientSubscribe(s) \/ ClientUnsubscribe(s) \/ ClientRead(s)
  PROVE  WaitsForOwed'
<1>1. PICK form \in {"subscribe", "unsubscribe", "read"} :
         /\ toServer' = Append(toServer, [form |-> form, signal |-> s, id |-> ops + 1])
         /\ ops' = ops + 1 /\ UNCHANGED <<job, toClient, early, crossed>>
         /\ form = "subscribe" => ClientSubscribe(s)
         /\ form = "unsubscribe" => ClientUnsubscribe(s)
         /\ form = "read" => ClientRead(s)
  BY DEF ClientSubscribe, ClientUnsubscribe, ClientRead, Send, sessionVars
<1>2. PICK m \in Message : toServer' = Append(toServer, m) /\ m.form = form /\ m.signal = s /\ m.id = ops + 1
  <2> DEFINE m == [form |-> form, signal |-> s, id |-> ops + 1]
  <2>1. m \in Message /\ toServer' = Append(toServer, m) /\ m.form = form /\ m.signal = s /\ m.id = ops + 1
    BY <1>1 DEF Message, SignalsTyped
  <2> HIDE DEF m
  <2> QED BY <2>1
<1>3. ops \in Nat /\ waiting \in [All -> Seq(Operation)]
  BY DEF SignalsTyped
<1>4. ASSUME NEW t, NEW n, NEW op
      PROVE  Owed(t, n, op)' <=> Owed(t, n, op) \/ (s = t /\ n = ops + 1 /\ form = op)
  <2>2. OwedByFrame(t, n, op)' <=> OwedByFrame(t, n, op)
    BY <1>1 DEF OwedByFrame, AnswersTo
  <2>3. OwedByJob(t, n, op)' <=> OwedByJob(t, n, op)
    BY <1>1 DEF OwedByJob
  <2> QED BY <1>2, OwedSent, <2>2, <2>3 DEF Owed
<1>5. CASE form = "unsubscribe"
  <2>2. ASSUME NEW t \in All
        PROVE  /\ DOMAIN waiting'[t] = DOMAIN waiting[t]
               /\ \A i \in DOMAIN waiting[t] :
                     waiting'[t][i].op = waiting[t][i].op /\ waiting'[t][i].id = waiting[t][i].id
    BY <1>1, <1>5, QueueDropped
  <2>3. ASSUME NEW t \in All, NEW i \in DOMAIN waiting'[t]
        PROVE  /\ Owed(t, waiting[t][i].id, waiting[t][i].op)'
               /\ \A j \in DOMAIN waiting'[t] : i < j => waiting'[t][i].id < waiting'[t][j].id
    <3>1. PICK n, op : n = waiting[t][i].id /\ op = waiting[t][i].op
      OBVIOUS
    <3>2. i \in DOMAIN waiting[t] /\ waiting'[t][i].id = n /\ waiting'[t][i].op = op
      BY <2>2, <2>3, <3>1
    <3>4. Owed(t, n, op)'
      BY <1>4, <3>1, <3>2 DEF WaitsForOwed
    <3>6. \A j \in DOMAIN waiting[t] : i < j => waiting[t][i].id < waiting[t][j].id
      BY <3>2 DEF WaitsForOwed
    <3> QED BY <2>2, <3>2, <3>4, <3>6
  <2>4. ASSUME ~early, NEW t \in All, NEW n \in 1 .. ops', NEW op \in {"subscribe", "read"},
               Owed(t, n, op)'
        PROVE  \E i \in DOMAIN waiting'[t] : waiting'[t][i].id = n
    <3>1. Owed(t, n, op)
      BY <1>4, <1>5, <2>4
    <3>2. n \in 1 .. ops
      BY <1>1, <1>3, <3>1, OwedNumbered
    <3> QED BY <2>2, <2>4, <3>1, <3>2 DEF WaitsForOwed
  <2> QED BY <1>1, <2>3, <2>4 DEF WaitsForOwed
<1>6. CASE form \in {"subscribe", "read"}
  <2>1. PICK e \in Operation : waiting' = [waiting EXCEPT ![s] = Append(waiting[s], e)]
                               /\ e.op = form /\ e.id = ops + 1
    <3> DEFINE e == [op |-> form, id |-> ops + 1, dropped |-> FALSE]
    <3>2. waiting' = [waiting EXCEPT ![s] = Append(waiting[s], e)]
      BY <1>1, <1>6 DEF Enqueue, ClientSubscribe, ClientRead, Send
    <3>3. e \in Operation /\ e.op = form /\ e.id = ops + 1
      BY <1>3, <1>6 DEF Operation
    <3> HIDE DEF e
    <3> QED BY <3>2, <3>3
  <2>2. waiting[s] \in Seq(Operation)
    BY <1>3
  <2>3. PICK k \in Nat :
        /\ DOMAIN waiting'[s] = DOMAIN waiting[s] \cup {k}
        /\ \A i \in DOMAIN waiting[s] : waiting'[s][i] = waiting[s][i] /\ i < k /\ i \in Nat
        /\ waiting'[s][k] = e
        /\ \A t \in All \ {s} : waiting'[t] = waiting[t]
    <3>2. Len(waiting[s]) + 1 \in Nat /\ DOMAIN waiting[s] \subseteq Nat
      BY <2>2
    <3> QED BY <2>2, <1>3, <2>1, <3>2, AppendPlaces
  <2>4. ASSUME NEW t \in All, NEW i \in DOMAIN waiting[t]
        PROVE  /\ i \in DOMAIN waiting'[t] /\ waiting'[t][i] = waiting[t][i]
               /\ waiting[t][i].id <= ops /\ waiting[t][i].id \in Nat
    <3>3. waiting[t][i].id <= ops
      BY <2>4, OwedNumbered DEF WaitsForOwed
    <3>4. waiting[t][i].id \in Nat
      BY <2>4, WaitingNumbered
    <3> QED BY <2>3, <2>4, <3>3, <3>4
  <2>5. ASSUME NEW t \in All, NEW i \in DOMAIN waiting'[t]
        PROVE  \/ i \in DOMAIN waiting[t]
               \/ t = s /\ i = k /\ waiting'[t][i] = e
    BY <2>3, <2>5
  <2>6. ASSUME NEW t \in All, NEW i \in DOMAIN waiting'[t]
        PROVE  Owed(t, waiting[t][i].id, waiting[t][i].op)'
    <3>1. PICK n, op : n = waiting'[t][i].id /\ op = waiting'[t][i].op
      OBVIOUS
    <3>2. CASE i \in DOMAIN waiting[t]
      <4>2. Owed(t, n, op)
        BY <3>2, <2>4, <3>1 DEF WaitsForOwed
      <4>3. Owed(t, n, op)'
        BY <1>4, <4>2
      <4> QED BY <3>1, <4>3
    <3>3. CASE t = s /\ i = k /\ waiting'[t][i] = e
      <4>2. Owed(t, n, op)'
        BY <1>4, <3>3, <2>1, <3>1
      <4> QED BY <3>1, <4>2
    <3> QED BY <2>5, <2>6, <3>2, <3>3
  <2>7. ASSUME NEW t \in All, NEW i \in DOMAIN waiting'[t], NEW j \in DOMAIN waiting'[t], i < j
        PROVE  waiting'[t][i].id < waiting'[t][j].id
    <3>1. CASE i \in DOMAIN waiting[t] /\ j \in DOMAIN waiting[t]
      <4> QED BY <2>4, <3>1, <2>7 DEF WaitsForOwed
    <3>2. CASE i \in DOMAIN waiting[t] /\ j \notin DOMAIN waiting[t]
      <4>2. waiting'[t][i].id <= ops /\ waiting'[t][i].id \in Nat
        BY <2>4, <3>2
      <4> QED BY <1>3, <2>1, <2>5, <2>7, <3>2, <4>2
    <3>3. CASE i \notin DOMAIN waiting[t]
      <4>1. t = s /\ i = k
        BY <2>5, <2>7, <3>3
      <4>3. j \in Nat
        BY <2>3, <2>7, <4>1
      <4> QED BY <2>7, <4>1, <2>3, <4>3
    <3> QED BY <3>1, <3>2, <3>3
  <2>8. ASSUME ~early, NEW t \in All, NEW n \in 1 .. ops', NEW op \in {"subscribe", "read"},
               Owed(t, n, op)'
        PROVE  \E i \in DOMAIN waiting'[t] : waiting'[t][i].id = n
    <3>1. CASE Owed(t, n, op)
      <4>1. n \in 1 .. ops
        BY <1>1, <1>3, <3>1, OwedNumbered
      <4>2. PICK i \in DOMAIN waiting[t] : waiting[t][i].id = n
        BY <2>8, <3>1, <4>1 DEF WaitsForOwed
      <4> QED BY <2>4, <4>2
    <3>2. CASE s = t /\ n = ops + 1
      BY <2>1, <2>3, <3>2
    <3> QED BY <1>4, <2>8, <3>1, <3>2
  <2> QED BY <1>1, <2>6, <2>7, <2>8 DEF WaitsForOwed
<1> QED BY <1>5, <1>6

\* What a frame settles is what it answers, and what waits on is still owed.
LEMMA WaitsForOwedTaken ==
  ASSUME SignalsTyped, JobFits, InOrder, WaitsForOwed, ClientReceive
  PROVE  WaitsForOwed'
<1>1. PICK f, z : f = Head(toClient) /\ z = Head(toClient).signal
  OBVIOUS
<1>2. f.for \in Nat /\ UNCHANGED ops /\ ops \in Nat
  BY <1>1, FrontFrame DEF ClientReceive, SignalsTyped
<1>3. ASSUME NEW t \in All, NEW i \in DOMAIN waiting[t]
      PROVE  /\ f.for <= waiting[t][i].id
             /\ waiting[t][i].id = f.for => t = z /\ AnswersTo(f, waiting[t][i].op)
             /\ waiting[t][i].id \in Nat /\ i \in Nat
  <2>1. PICK n, op : n = waiting[t][i].id /\ op = waiting[t][i].op
    OBVIOUS
  <2>3. /\ Head(toClient).for <= n
        /\ n = Head(toClient).for => t = Head(toClient).signal /\ AnswersTo(Head(toClient), op)
    BY <1>3, <2>1, FrontFirst DEF WaitsForOwed
  <2> QED BY <1>1, <2>1, <2>3, <1>3, WaitingNumbered
<1>4. ASSUME NEW t \in All, NEW i \in DOMAIN waiting[t], waiting[t][i].id # f.for,
             NEW n, NEW op, n = waiting[t][i].id, op = waiting[t][i].op
      PROVE  Owed(t, n, op)'
  <2> QED BY <1>1, <1>4, FrontFirst DEF WaitsForOwed
<1>5. ASSUME NEW t, NEW n, NEW op, Owed(t, n, op)'
      PROVE  Owed(t, n, op) /\ n # f.for
  BY <1>1, <1>5, OwedLess
<1>6. \A t \in All : \A i, j \in DOMAIN waiting[t] : i < j => waiting[t][i].id < waiting[t][j].id
  BY DEF WaitsForOwed
<1>7. ~early => /\ ~crossed
                /\ \A s \in All, n \in 1 .. ops, op \in {"subscribe", "read"} :
                      Owed(s, n, op) => \E i \in DOMAIN waiting[s] : waiting[s][i].id = n
  BY DEF WaitsForOwed
<1>8. \A t \in All : DOMAIN waiting[t] # {} => 1 \in DOMAIN waiting[t]
                     /\ \A i \in DOMAIN waiting[t] : i # 1 => 1 < i
  <2> TAKE t \in All
  <2> QED BY DEF SignalsTyped
<1>9. ASSUME \* every operation that waits was waiting, and is not the one of the frame
             \A t \in All : \A i \in DOMAIN waiting'[t] :
                \E j \in DOMAIN waiting[t] :
                   waiting'[t][i] = waiting[t][j] /\ waiting[t][j].id # f.for,
             \A t \in All : \A i, j \in DOMAIN waiting'[t] :
                i < j => waiting'[t][i].id < waiting'[t][j].id,
             ~early' => /\ ~early /\ ~crossed'
                        /\ \A t \in All : \A i \in DOMAIN waiting[t] :
                              waiting[t][i].id # f.for =>
                                 \E j \in DOMAIN waiting'[t] : waiting'[t][j].id = waiting[t][i].id
      PROVE  WaitsForOwed'
  <2>1. ASSUME NEW t \in All, NEW i \in DOMAIN waiting'[t]
        PROVE  Owed(t, waiting[t][i].id, waiting[t][i].op)'
    <3>1. PICK j \in DOMAIN waiting[t] :
             waiting'[t][i] = waiting[t][j] /\ waiting[t][j].id # f.for
      BY <1>9, <2>1
    <3>2. PICK n, op : n = waiting[t][j].id /\ op = waiting[t][j].op
      OBVIOUS
    <3>3. Owed(t, n, op)'
      BY <1>4, <3>1, <3>2
    <3> QED BY <3>3, <3>1, <3>2
  <2>2. ASSUME ~early', NEW t \in All, NEW n \in 1 .. ops', NEW op \in {"subscribe", "read"},
               Owed(t, n, op)'
        PROVE  \E i \in DOMAIN waiting'[t] : waiting'[t][i].id = n
    <3>1. Owed(t, n, op) /\ n # f.for
      BY <1>5, <2>2
    <3>2. PICK i \in DOMAIN waiting[t] : waiting[t][i].id = n
      BY <1>2, <1>7, <1>9, <2>2, <3>1
    <3> QED BY <1>9, <2>2, <3>1, <3>2
  <2> QED BY <1>9, <2>1, <2>2 DEF WaitsForOwed
<1>10. CASE OnAnswer(f)
  <2>1. /\ z \in All /\ \A t \in All \ {z} : waiting'[t] = waiting[t]
        /\ f.form \in {"accepted", "refused"}
        /\ UNCHANGED early
        /\ \/ /\ waiting'[z] = waiting[z] /\ UNCHANGED crossed
              /\ \/ DOMAIN waiting[z] = {}
                 \/ f.form = "accepted" /\ waiting[z][1].op = "read"
           \/ /\ 1 \in DOMAIN waiting[z]
              /\ \A i \in DOMAIN waiting'[z] :
                    i + 1 \in DOMAIN waiting[z] /\ waiting'[z][i] = waiting[z][i + 1]
              /\ \A i \in DOMAIN waiting[z] :
                    i # 1 => i - 1 \in DOMAIN waiting'[z] /\ waiting[z][i] = waiting'[z][i - 1]
              /\ crossed' <=> crossed \/ waiting[z][1].id # f.for
    BY <1>1, <1>10, AnswerTaken
  <2>2. CASE /\ waiting'[z] = waiting[z] /\ UNCHANGED crossed
             /\ \/ DOMAIN waiting[z] = {}
                \/ f.form = "accepted" /\ waiting[z][1].op = "read"
    <3>1. \A t \in All : waiting'[t] = waiting[t]
      BY <2>1, <2>2
    <3>2. ASSUME NEW t \in All, NEW i \in DOMAIN waiting[t], waiting[t][i].id = f.for
          PROVE  FALSE
      <4>1. t = z /\ AnswersTo(f, waiting[t][i].op)
        BY <1>3, <3>2
      <4>2. i = 1
        <5>1. SUFFICES ASSUME i # 1 PROVE FALSE
          OBVIOUS
        <5>3. waiting[t][1].id < waiting[t][i].id /\ f.for <= waiting[t][1].id
              /\ waiting[t][1].id \in Nat
          BY <1>3, <1>6, <3>2, <1>8, <5>1
        <5> QED BY <1>2, <3>2, <5>3
      <4> QED BY <4>1, <2>2, <3>2, <4>2 DEF AnswersTo
    <3>4. \A t \in All : \A i, j \in DOMAIN waiting'[t] :
             i < j => waiting'[t][i].id < waiting'[t][j].id
      BY <1>6, <3>1
    <3>5. ~early' => /\ ~early /\ ~crossed'
                     /\ \A t \in All : \A i \in DOMAIN waiting[t] :
                           waiting[t][i].id # f.for =>
                              \E j \in DOMAIN waiting'[t] : waiting'[t][j].id = waiting[t][i].id
      BY <1>7, <2>1, <2>2, <3>1
    <3> QED BY <1>9, <3>1, <3>2, <3>4, <3>5
  <2>3. CASE /\ 1 \in DOMAIN waiting[z]
             /\ \A i \in DOMAIN waiting'[z] :
                   i + 1 \in DOMAIN waiting[z] /\ waiting'[z][i] = waiting[z][i + 1]
             /\ \A i \in DOMAIN waiting[z] :
                   i # 1 => i - 1 \in DOMAIN waiting'[z] /\ waiting[z][i] = waiting'[z][i - 1]
             /\ crossed' <=> crossed \/ waiting[z][1].id # f.for
    <3>1. z \in All /\ f.for <= waiting[z][1].id /\ waiting[z][1].id \in Nat
      BY <1>3, <2>1, <2>3
    <3>2. \A i \in DOMAIN waiting'[z] : i \in Nat \ {0}
      <4>2. waiting'[z] \in Seq(Operation)
        BY <3>1, <1>1, <1>10, QueueTaken
      <4> QED BY <4>2
    <3>3. \A i \in DOMAIN waiting[z] : i # 1 => waiting[z][i].id # f.for
      <4> TAKE i \in DOMAIN waiting[z]
      <4>1. SUFFICES ASSUME i # 1 PROVE waiting[z][i].id # f.for
        OBVIOUS
      <4>2. waiting[z][1].id < waiting[z][i].id
        BY <1>6, <1>8, <2>3, <3>1, <4>1
      <4> QED BY <1>2, <3>1, <4>2, <1>3
    <3>4. ASSUME NEW t \in All, NEW i \in DOMAIN waiting'[t]
          PROVE  \E j \in DOMAIN waiting[t] :
                    waiting'[t][i] = waiting[t][j] /\ waiting[t][j].id # f.for
      <4>1. CASE t = z
        <5> QED BY <3>3, <4>1, <2>3, <3>2, <3>4
      <4>2. CASE t # z
        <5> QED BY <1>3, <3>4, <4>2, <2>1
      <4> QED BY <4>1, <4>2
    <3>5. ASSUME NEW t \in All, NEW i \in DOMAIN waiting'[t], NEW j \in DOMAIN waiting'[t], i < j
          PROVE  waiting'[t][i].id < waiting'[t][j].id
      <4>1. CASE t = z
        <5>2. waiting'[z][i] = waiting[z][i + 1] /\ waiting'[z][j] = waiting[z][j + 1]
              /\ i + 1 \in DOMAIN waiting[z] /\ j + 1 \in DOMAIN waiting[z]
          BY <2>3, <3>5, <4>1
        <5> QED BY <1>6, <3>1, <4>1, <3>2, <3>5, <5>2
      <4>2. CASE t # z
        BY <1>6, <2>1, <3>5, <4>2
      <4> QED BY <4>1, <4>2
    <3>6. ASSUME ~early
          PROVE  ~crossed' /\ waiting[z][1].id = f.for
      <4>1. f.for # 0 /\ f.for <= ops
        <5> QED BY <2>1, <1>1, FrontFrame, TailPlaces DEF InOrder, Replied, FramesOrdered
      <4>2. \E op \in {"subscribe", "read"} : AnswersTo(f, op)
        BY <2>1 DEF AnswersTo
      <4>3. \E op \in {"subscribe", "read"} : Owed(z, f.for, op)
        <5>2. PICK op \in {"subscribe", "read"} : AnswersTo(f, op)
          BY <4>2
        <5>3. OwedByFrame(z, f.for, op)
          BY <1>1, <4>1, FrontFrame, TailPlaces, <5>2 DEF OwedByFrame
        <5> QED BY <5>3 DEF Owed
      <4>5. PICK i \in DOMAIN waiting[z] : waiting[z][i].id = f.for
        BY <1>7, <3>1, <3>6, <4>3, <1>2, <4>1
      <4> QED BY <1>7, <2>3, <3>6, <4>5, <3>3
    <3>7. ASSUME ~early, NEW t \in All, NEW i \in DOMAIN waiting[t], waiting[t][i].id # f.for
          PROVE  \E j \in DOMAIN waiting'[t] : waiting'[t][j].id = waiting[t][i].id
      <4>1. CASE t = z
        <5> QED BY <2>3, <3>7, <4>1, <3>6
      <4>2. CASE t # z
        BY <2>1, <3>7, <4>2
      <4> QED BY <4>1, <4>2
    <3> QED BY <1>9, <3>4, <3>5, <2>1, <3>6, <3>7
  <2> QED BY <2>1, <2>2, <2>3
<1>11. CASE OnPublish(f)
  <2>1. PICK k \in Nat :
        /\ z \in All /\ \A t \in All \ {z} : waiting'[t] = waiting[t]
        /\ f.form = "publish"
        /\ UNCHANGED crossed
        /\ k + 1 \in DOMAIN waiting[z] => waiting[z][k + 1].op = "subscribe"
        /\ \A i \in DOMAIN waiting'[z] :
              i + k \in DOMAIN waiting[z] /\ waiting'[z][i] = waiting[z][i + k]
              /\ (i # 1 => k + 1 \in DOMAIN waiting[z] /\ k + 1 < i + k)
              /\ (i = 1 => i + k = k + 1)
        /\ \A i \in DOMAIN waiting[z] :
              i > k => i - k \in DOMAIN waiting'[z] /\ waiting[z][i] = waiting'[z][i - k]
        /\ early' <=> early \/ \E i \in DOMAIN waiting[z] : i <= k /\ waiting[z][i].id # f.for
    BY <1>1, <1>11, PublishTaken
  <2>2. \A i \in DOMAIN waiting'[z] : i \in Nat
    <3>2. waiting'[z] \in Seq(Operation)
      BY <2>1, <1>1, <1>11, QueueRead
    <3> QED BY <3>2
  <2>3. ASSUME NEW i \in DOMAIN waiting'[z]
        PROVE  waiting[z][i + k].id # f.for
    <3>1. SUFFICES ASSUME waiting[z][i + k].id = f.for PROVE FALSE
      OBVIOUS
    <3>3. CASE i = 1
      <4>1. waiting[z][i + k].op = "subscribe"
        BY <2>1, <2>3, <3>3
      <4> QED BY <2>1, <1>3, <2>3, <3>1, <4>1 DEF AnswersTo
    <3>4. CASE i # 1
      <4>1. k + 1 \in DOMAIN waiting[z] /\ k + 1 < i + k /\ i + k \in DOMAIN waiting[z]
        BY <2>1, <2>3, <3>4
      <4>3. f.for <= waiting[z][k + 1].id /\ waiting[z][k + 1].id \in Nat
        BY <1>3, <2>1, <4>1
      <4> QED BY <1>2, <3>1, <1>6, <2>1, <4>1, <4>3
    <3> QED BY <3>3, <3>4
  <2>4. ASSUME NEW t \in All, NEW i \in DOMAIN waiting'[t]
        PROVE  \E j \in DOMAIN waiting[t] :
                  waiting'[t][i] = waiting[t][j] /\ waiting[t][j].id # f.for
    <3>1. CASE t = z
      <4> QED BY <2>3, <2>4, <3>1, <2>1
    <3>2. CASE t # z
      <4> QED BY <1>3, <2>4, <3>2, <2>1
    <3> QED BY <3>1, <3>2
  <2>5. ASSUME NEW t \in All, NEW i \in DOMAIN waiting'[t], NEW j \in DOMAIN waiting'[t], i < j
        PROVE  waiting'[t][i].id < waiting'[t][j].id
    <3>1. CASE t = z
      <4>2. waiting'[z][i] = waiting[z][i + k] /\ waiting'[z][j] = waiting[z][j + k]
            /\ i + k \in DOMAIN waiting[z] /\ j + k \in DOMAIN waiting[z]
        BY <2>1, <2>5, <3>1
      <4> QED BY <1>6, <2>1, <3>1, <2>2, <2>5, <4>2
    <3>2. CASE t # z
      BY <1>6, <2>1, <2>5, <3>2
    <3> QED BY <3>1, <3>2
  <2>6. ASSUME ~early', NEW t \in All, NEW i \in DOMAIN waiting[t], waiting[t][i].id # f.for
        PROVE  \E j \in DOMAIN waiting'[t] : waiting'[t][j].id = waiting[t][i].id
    <3>1. CASE t = z
      <4>2. i > k
        BY <2>1, <1>3, <2>6, <3>1
      <4> QED BY <2>1, <2>6, <3>1, <4>2
    <3>2. CASE t # z
      BY <2>1, <2>6, <3>2
    <3> QED BY <3>1, <3>2
  <2>8. ~early' => /\ ~early /\ ~crossed'
                   /\ \A t \in All : \A i \in DOMAIN waiting[t] :
                         waiting[t][i].id # f.for =>
                            \E j \in DOMAIN waiting'[t] : waiting'[t][j].id = waiting[t][i].id
    BY <2>6, <1>7, <2>1
  <2> QED BY <1>9, <2>4, <2>5, <2>8
<1> QED BY <1>1, <1>10, <1>11 DEF ClientReceive

\* Every step keeps the client waiting for what is owed.
LEMMA WaitsForOwedStep ==
  ASSUME SignalsTyped, JobFits, InOrder, WaitsForOwed, SignalsNext
  PROVE  WaitsForOwed'
<1>1. ASSUME NEW s \in Signals, NEW big \in Sizes, Commit(s, big)
      PROVE  WaitsForOwed'
  <2>1. UNCHANGED <<waiting, early, crossed, ops, toServer, toClient, job>>
    BY <1>1 DEF Commit, sessionVars, clientVars
  <2>2. ASSUME NEW t, NEW n, NEW op
        PROVE  Owed(t, n, op)' <=> Owed(t, n, op)
    BY <2>1 DEF Owed, OwedByFrame, OwedByJob, OwedByMessage, AnswersTo
  <2> QED BY <2>1, <2>2, WaitsKept
<1>2. ASSUME NEW s \in All, ClientSubscribe(s) \/ ClientUnsubscribe(s) \/ ClientRead(s)
      PROVE  WaitsForOwed'
  BY <1>2, WaitsForOwedSent
<1>3. CASE Session
  BY <1>3, WaitsForOwedSession
<1>4. CASE ClientReceive
  BY <1>4, WaitsForOwedTaken
<1> QED BY <1>1, <1>2, <1>3, <1>4 DEF SignalsNext

\* Nothing is under way, subscribed or owed at first.
LEMMA SignalsInvInit ==
  ASSUME SignalsInit
  PROVE  SignalsInv
<1>1. /\ toServer = <<>> /\ toClient = <<>> /\ job = Idle /\ ops = 0 /\ subscribed = {}
      /\ mark = -1 /\ signals = {} /\ DOMAIN held = {} /\ DOMAIN channel = {}
      /\ ~early /\ ~crossed /\ generation = 0
      /\ value = [s \in Signals |-> [version |-> 0, big |-> FALSE]]
      /\ waiting = [s \in All |-> <<>>] /\ mode \in Modes /\ early = FALSE /\ crossed = FALSE
  BY DEF SignalsInit
<1>2. /\ DOMAIN toServer = {} /\ DOMAIN toClient = {} /\ \A s \in All : DOMAIN waiting[s] = {}
      /\ job.op # "subscribe" /\ \A s \in Signals : value[s].version = 0
  BY <1>1 DEF Idle
<1>3. \A s \in Signals : Channel(s).counter = 0 /\ Channel(s).last = -1
  BY <1>1 DEF Channel
<1>4. SignalsTyped
  <2>2. waiting \in [All -> Seq(Operation)]
    BY <1>1
  <2>3. toServer \in Seq(Message) /\ toClient \in Seq(Answer \cup Publish)
    BY <1>1
  <2>4. generation \in Nat /\ (\A s \in Signals : value[s].version <= generation)
        /\ ops \in Nat /\ mark \in Nat \cup {-1} /\ mode \in Modes
    BY <1>1, <1>2
  <2>5. /\ subscribed \subseteq Signals /\ DOMAIN channel \subseteq Signals /\ signals \subseteq Signals
        /\ DOMAIN held \subseteq Signals /\ {early, crossed} \subseteq BOOLEAN
    BY <1>1
  <2>6. \A s \in Signals : Channel(s).counter \in Nat /\ Channel(s).last \in Nat \cup {-1}
    BY <1>3
  <2> QED BY <1>1, <2>2, <2>3, <2>4, <2>5, <2>6 DEF SignalsTyped
<1>5. JobFits
  BY <1>1 DEF JobFits
<1>6. Marked
  BY <1>1, <1>2 DEF Marked
<1>7. Numbered
  <2>2. ASSUME NEW s \in Signals
        PROVE  NumberedFor(s)
    BY <1>2, <1>3, <1>1, InSamples DEF NumberedFor
  <2> QED BY <2>2 DEF Numbered
<1>8. WantedWill
  BY <1>1, <1>2 DEF WantedWill, Wanted, Will, Now, All
<1>9. InOrder
  BY <1>2 DEF InOrder, Asked, Handled, Replied, FramesOrdered
<1>10. WaitsForOwed
  <2> QED BY <1>1, <1>2 DEF WaitsForOwed, Owed, OwedByFrame, OwedByJob, OwedByMessage
<1> QED BY <1>4, <1>5, <1>6, <1>7, <1>8, <1>9, <1>10 DEF SignalsInv

\* Every step keeps the invariant of the signals.
LEMMA SignalsInvStep ==
  ASSUME SignalsInv, [SignalsNext]_signalsVars
  PROVE  SignalsInv'
<1>1. CASE SignalsNext
  <2>1. SignalsTyped /\ JobFits /\ Marked /\ Numbered /\ WantedWill /\ InOrder /\ WaitsForOwed
    BY DEF SignalsInv
  <2>2. SignalsTyped' /\ JobFits'
    BY <1>1, <2>1, SignalsTypedStep
  <2>3. Marked'
    BY <1>1, <2>1, MarkedStep
  <2>4. Numbered'
    BY <1>1, <2>1, <2>2, NumberedStep
  <2>5. WantedWill'
    BY <1>1, <2>1, WantedWillStep
  <2>6. InOrder'
    BY <1>1, <2>1, InOrderStep
  <2>7. WaitsForOwed'
    BY <1>1, <2>1, WaitsForOwedStep
  <2> QED BY <2>2, <2>3, <2>4, <2>5, <2>6, <2>7 DEF SignalsInv
<1>2. CASE UNCHANGED signalsVars
  <2> USE <1>2 DEF signalsVars, backendVars, sessionVars, clientVars
  <2>0. SignalsTyped /\ JobFits /\ Marked /\ Numbered /\ WantedWill /\ InOrder /\ WaitsForOwed
    BY DEF SignalsInv
  <2>1. SignalsTyped'
    BY <2>0 DEF SignalsTyped, Channel
  <2>2. JobFits' /\ Marked'
    BY <2>0 DEF JobFits, Marked
  <2>3. Numbered'
    <3>2. \A s : Channel(s)' = Channel(s)
      BY DEF Channel
    <3>3. ASSUME NEW s \in Signals
          PROVE  NumberedFor(s)'
      <4>2. Samples(s)' = Samples(s) /\ Channel(s)' = Channel(s) /\ value' = value
        BY <3>2 DEF Samples
      <4> QED BY <2>0, <4>2 DEF NumberedFor, Numbered
    <3> QED BY <3>3 DEF Numbered
  <2>4. WantedWill'
    <3>2. ASSUME NEW s
          PROVE  Will(s)' <=> Will(s)
      <4> QED BY WillSame DEF Now
    <3> QED BY <2>0, <3>2 DEF WantedWill, Wanted
  <2>5. InOrder'
    BY <2>0 DEF InOrder, Asked, Handled, Replied, FramesOrdered
  <2>6. WaitsForOwed'
    <3>1. ASSUME NEW s, NEW n, NEW op
          PROVE  Owed(s, n, op)' <=> Owed(s, n, op)
      BY DEF Owed, OwedByFrame, OwedByJob, OwedByMessage, AnswersTo
    <3> QED BY <2>0, <3>1, WaitsKept
  <2> QED BY <2>1, <2>2, <2>3, <2>4, <2>5, <2>6 DEF SignalsInv
<1> QED BY <1>1, <1>2

\* The invariant has both ends agree.
LEMMA SignalsInvAgrees ==
  ASSUME SignalsInv
  PROVE  EndsAgree
<1>0. SignalsTyped /\ JobFits /\ Marked /\ Numbered /\ WantedWill /\ InOrder /\ WaitsForOwed
  BY DEF SignalsInv
<1>1. SameSeqSameSample
  <2> SUFFICES ASSUME NEW i \in DOMAIN toClient, NEW j \in DOMAIN toClient,
                      toClient[i].form = "publish"
               PROVE  /\ toClient[j].form = "publish" /\ toClient[i].signal = toClient[j].signal
                           /\ toClient[i].seq = toClient[j].seq =>
                           toClient[i].version = toClient[j].version
                      /\ toClient[i].signal \in DOMAIN held
                           /\ toClient[i].seq = held[toClient[i].signal].seq =>
                           toClient[i].version = held[toClient[i].signal].version
    BY DEF SameSeqSameSample
  <2> DEFINE s == toClient[i].signal
             a == <<toClient[i].seq, toClient[i].version>>
             b == <<toClient[j].seq, toClient[j].version>>
             c == <<held[s].seq, held[s].version>>
  <2>2. s \in Signals
    BY <1>0, NumbersTyped DEF Answer, Publish
  <2>4. a \in Samples(s)
    BY InSamples
  <2>5. toClient[j].form = "publish" /\ toClient[j].signal = s => b \in Samples(s)
    BY InSamples
  <2>6. s \in DOMAIN held => c \in Samples(s)
    BY InSamples
  <2>7. a[1] = toClient[i].seq /\ a[2] = toClient[i].version
        /\ b[1] = toClient[j].seq /\ b[2] = toClient[j].version
        /\ c[1] = held[s].seq /\ c[2] = held[s].version
    OBVIOUS
  <2> HIDE DEF a, b, c
  <2> QED BY <1>0, <2>2, <2>4, <2>5, <2>6, <2>7 DEF Numbered, NumberedFor
<1>2. SubscriptionsAgree
  <2>1. ASSUME Quiet
        PROVE  /\ \A s : Will(s) => s \in subscribed
               /\ \A s : s \in subscribed => Will(s)
               /\ \A s, n, op : ~Owed(s, n, op)
    <3>1. DOMAIN toServer = {} /\ DOMAIN toClient = {} /\ job.op # "subscribe"
      BY <2>1 DEF Quiet, Idle
    <3> QED BY <3>1 DEF Will, Now, Cancelled, Owed, OwedByFrame, OwedByJob, OwedByMessage
  <2>2. signals \subseteq Signals /\ subscribed \subseteq Signals /\ Signals \subseteq All
    BY <1>0 DEF SignalsTyped, All
  <2>3. Quiet => signals \subseteq subscribed
    <3> SUFFICES ASSUME Quiet, NEW s \in signals PROVE s \in subscribed
      OBVIOUS
    <3> QED BY <2>1, <1>0, <2>2 DEF WantedWill, Wanted
  <2>4. Quiet /\ ~crossed => subscribed \subseteq signals
    <3> SUFFICES ASSUME Quiet, ~crossed, NEW s \in subscribed PROVE s \in signals
      OBVIOUS
    <3>2. DOMAIN waiting[s] = {}
      BY <1>0, <2>1, <2>2 DEF WaitsForOwed
    <3> QED BY <1>0, <2>1, <2>2, <3>2 DEF Wanted, WantedWill
  <2> QED BY <2>3, <2>4, <1>0 DEF SubscriptionsAgree, Marked, Idle
<1>3. AnswersExact
  BY <1>0 DEF WaitsForOwed, AnswersExact
<1> QED BY <1>1, <1>2, <1>3 DEF EndsAgree

\* For every set of signals, every mode and every order of the client's asks, the
\* provider's commits and the session's scans: a session seq stands for one sample,
\* both ends agree on what is subscribed once nothing is under way, the interface
\* is marked exactly while something is subscribed, and an answer settles the
\* operation it was sent for unless a publish came early.
THEOREM SignalsEndsAgree == SignalsSpec => []EndsAgree
<1>1. SignalsInit => SignalsInv
  BY SignalsInvInit
<1>2. SignalsInv /\ [SignalsNext]_signalsVars => SignalsInv'
  BY SignalsInvStep
<1>3. SignalsInv => EndsAgree
  BY SignalsInvAgrees
<1> QED BY <1>1, <1>2, <1>3, PTL DEF SignalsSpec

=============================================================================
