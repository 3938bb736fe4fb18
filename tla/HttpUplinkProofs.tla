--------------------------- MODULE HttpUplinkProofs ----------------------------
(***************************************************************************)
(* Theorems about HttpUplink, for every number of payloads, every depth of *)
(* the queue, every number of tries and of files kept, and every bound on  *)
(* the failures and the resets.                                            *)
(***************************************************************************)
EXTENDS HttpUplink, FiniteSetTheorems, SequenceTheorems, WellFoundedInduction, TLAPS

\* Where a payload is on its way, and where it was settled.
InQueue(m) == \E i \in DOMAIN queue : queue[i] = m
Rejected(m) == stage["telemetry"] # "idle" /\ next - 1 = m
Live(m) == InQueue(m) \/ item = m \/ Rejected(m)

Kept(m) == \E i \in DOMAIN made : made[i] = m
Settled(m) == m \in confirmed \/ m \in refused \/ Kept(m)

\* How often the service received it.
Receipts(m) == Cardinality({i \in DOMAIN arrived : arrived[i] = m})

\* The types TypeOK leaves to the other parts; no two files were written at once.
ShapeInv ==
    /\ made \in Seq(Msgs \union {Torn}) /\ arrived \in Seq(Msgs)
    /\ victims \in [Writers -> SUBSET Nat]
    /\ confirmed \in SUBSET Msgs /\ refused \in SUBSET Msgs
    /\ IsFiniteSet(files)
    /\ files \subseteq [num : 1 .. MaxMsgs, what : Msgs \union {Torn}, at : 1 .. Len(made)]
    /\ \A f, g \in files : f.at = g.at => f = g
    /\ http \in {"try", "store"} <=> item # 0
    /\ stage["telemetry"] # "idle" => next >= 2

\* Payloads come to the HTTP task, to the service and to the telemetry task's store in
\* the order they were sent in.
OrderInv ==
    /\ \A i, j \in DOMAIN queue : i < j => queue[i] < queue[j]
    /\ \A i \in DOMAIN queue : item < queue[i] /\ queue[i] < next
    /\ item < next
    /\ \A i, j \in DOMAIN arrived : i < j => arrived[i] <= arrived[j]
    /\ \A i \in DOMAIN arrived : arrived[i] < next /\ (item # 0 => arrived[i] <= item)
    /\ \A i \in DOMAIN arrived, j \in DOMAIN queue : arrived[i] < queue[j]
    /\ stage["telemetry"] # "idle" =>
          item < next - 1 /\ \A i \in DOMAIN queue : queue[i] < next - 1

\* No try is made beyond the last, and each reaches the service at most once.
TriesInv ==
    /\ \A m \in Msgs : Receipts(m) <= Tries
    /\ http = "try" => Receipts(item) < attempt

\* A payload sent is on its way or settled, never both, and settled in one way.
FateInv ==
    /\ \A m \in confirmed : m \notin refused /\ ~Kept(m)
    /\ \A m \in refused : ~Kept(m)
    /\ \A m \in 1 .. next - 1 : Live(m) <=> ~Settled(m)
    /\ \A m \in Msgs : Settled(m) => m < next

PathInv == ShapeInv /\ OrderInv /\ TriesInv /\ FateInv
-------------------------------------------------------------------------------
(* The sequences and sets of the model.                                    *)

\* Append and Tail, by the indices of the sequences.
LEMMA Appended ==
  ASSUME NEW S, NEW s \in Seq(S), NEW x \in S
  PROVE  /\ Append(s, x) \in Seq(S) /\ Len(Append(s, x)) = Len(s) + 1
         /\ DOMAIN s = 1 .. Len(s) /\ DOMAIN Append(s, x) = 1 .. Len(s) + 1
         /\ Len(s) \in Nat
         /\ \A i \in 1 .. Len(s) : Append(s, x)[i] = s[i] /\ s[i] \in S
         /\ Append(s, x)[Len(s) + 1] = x
  BY AppendProperties, LenProperties, ElementOfSeq

LEMMA Taken ==
  ASSUME NEW S, NEW s \in Seq(S), s # <<>>
  PROVE  /\ Tail(s) \in Seq(S) /\ Len(Tail(s)) = Len(s) - 1
         /\ DOMAIN s = 1 .. Len(s) /\ DOMAIN Tail(s) = 1 .. Len(s) - 1
         /\ Len(s) \in Nat \ {0}
         /\ Head(s) = s[1]
         /\ \A i \in 1 .. Len(s) : s[i] \in S
         /\ \A i \in 1 .. Len(s) - 1 : Tail(s)[i] = s[i + 1]
  BY HeadTailProperties, LenProperties, EmptySeq, ElementOfSeq

\* One more receipt counts for the payload received and for no other.
LEMMA OneMoreReceipt ==
  ASSUME NEW s \in Seq(Msgs), NEW x \in Msgs, NEW m \in Msgs
  PROVE  /\ Cardinality({i \in DOMAIN s : s[i] = m}) \in Nat
         /\ Cardinality({i \in DOMAIN Append(s, x) : Append(s, x)[i] = m})
               = IF x = m THEN Cardinality({i \in DOMAIN s : s[i] = m}) + 1
                          ELSE Cardinality({i \in DOMAIN s : s[i] = m})
  <1> DEFINE A == {i \in DOMAIN s : s[i] = m}
             B == {i \in DOMAIN Append(s, x) : Append(s, x)[i] = m}
  <1>0. /\ DOMAIN s = 1 .. Len(s) /\ DOMAIN Append(s, x) = 1 .. Len(s) + 1 /\ Len(s) \in Nat
        /\ \A i \in 1 .. Len(s) : Append(s, x)[i] = s[i]
        /\ Append(s, x)[Len(s) + 1] = x
    BY Appended
  <1>1. IsFiniteSet(A) /\ Cardinality(A) \in Nat
    <2>1. A \subseteq 1 .. Len(s) /\ IsFiniteSet(1 .. Len(s))
      BY <1>0, FS_Interval
    <2>2. QED
      BY <2>1, FS_Subset, FS_CardinalityType
  <1>2. CASE x = m
    <2>1. B = A \union {Len(s) + 1} /\ Len(s) + 1 \notin A
      BY <1>0, <1>2
    <2>2. QED
      BY <2>1, <1>1, <1>2, FS_AddElement
  <1>3. CASE x # m
    <2>1. B = A
      BY <1>0, <1>3
    <2>2. QED
      BY <2>1, <1>1, <1>3
  <1>4. QED
    BY <1>2, <1>3
-------------------------------------------------------------------------------
(* The steps that move no payload.                                         *)

\* What such a step leaves alone.
Quiet ==
    /\ UNCHANGED <<queue, next, item, attempt, made, arrived, confirmed, refused>>
    /\ stage["telemetry"]' = "idle" <=> stage["telemetry"] = "idle"
    /\ http' = "try" => http = "try"
    /\ http' \in {"try", "store"} <=> http \in {"try", "store"}

\* Storing a payload moves it nowhere before its file is written.
LEMMA StoringIsQuiet ==
  ASSUME TypeOK, NEW w \in Writers,
         List(w) \/ Remove(w) \/ Load(w) \/ Bump(w) \/ Full(w)
  PROVE  Quiet
  <1> USE DEF TypeOK, Writers, Stages, Quiet, sendVars, httpVars, storeVars, cloudVars
  <1>1. CASE List(w)
    BY <1>1 DEF List
  <1>2. CASE Remove(w)
    BY <1>2 DEF Remove
  <1>3. CASE Load(w)
    BY <1>3 DEF Load
  <1>4. CASE Bump(w)
    BY <1>4 DEF Bump
  <1>5. CASE Full(w)
    BY <1>5 DEF Full
  <1>6. QED
    BY <1>1, <1>2, <1>3, <1>4, <1>5

\* Nor do the loop of the HTTP task and the network by themselves.
LEMMA LoopIsQuiet ==
  ASSUME TypeOK,
         HttpBegin \/ HttpRest \/ PostOffline \/ WifiUp \/ WifiDown \/ UNCHANGED vars
  PROVE  Quiet
  <1> USE DEF TypeOK, Writers, Stages, Quiet, sendVars, httpVars, storeVars, cloudVars
  <1>1. CASE HttpBegin \/ HttpRest
    BY <1>1 DEF HttpBegin, HttpRest
  <1>2. CASE PostOffline
    BY <1>2 DEF PostOffline, StoreItem
  <1>3. CASE WifiUp \/ WifiDown
    BY <1>3 DEF WifiUp, WifiDown
  <1>4. CASE UNCHANGED vars
    BY <1>4 DEF vars
  <1>5. QED
    BY <1>1, <1>2, <1>3, <1>4

\* So they preserve what is said of the payloads.
LEMMA QuietKeepsPath ==
  ASSUME PathInv, Quiet
  PROVE  OrderInv' /\ TriesInv' /\ FateInv'
  <1> USE DEF Quiet
  <1>1. OrderInv'
    BY DEF PathInv, OrderInv
  <1>2. TriesInv'
    BY DEF PathInv, TriesInv, Receipts
  <1>3. \A m : (Live(m)' <=> Live(m)) /\ (Settled(m)' <=> Settled(m)) /\ (Kept(m)' <=> Kept(m))
    BY DEF Live, InQueue, Rejected, Settled, Kept
  <1>4. FateInv'
    BY <1>3 DEF PathInv, FateInv
  <1>5. QED
    BY <1>1, <1>2, <1>4
-------------------------------------------------------------------------------
(* The steps that move one.                                                *)

LEMMA SendKeepsPath ==
  ASSUME TypeOK, PathInv, Send
  PROVE  OrderInv' /\ TriesInv' /\ FateInv'
  <1>0. /\ next \in Msgs /\ next' = next + 1
        /\ UNCHANGED <<item, http, attempt, made, arrived, confirmed, refused>>
        /\ queue \in Seq(Msgs) /\ stage \in [Writers -> Stages]
        /\ stage["telemetry"] = "idle"
    BY DEF Send, httpVars, cloudVars, TypeOK, Msgs
  <1>a. \A m \in Msgs : m \in Nat /\ m # 0
    BY DEF Msgs
  <1>b. item \in Nat /\ item < next /\ \A i \in DOMAIN arrived : arrived[i] \in Msgs
    BY LenProperties, ElementOfSeq DEF PathInv, OrderInv, ShapeInv, TypeOK
  <1>1. TriesInv'
    BY <1>0 DEF PathInv, TriesInv, Receipts
  <1>2. \A m : (Settled(m)' <=> Settled(m)) /\ (Kept(m)' <=> Kept(m))
    BY <1>0 DEF Settled, Kept
  <1>3. CASE Len(queue) < QueueDepth
    <2>1. queue' = Append(queue, next) /\ UNCHANGED stage
      BY <1>3 DEF Send
    <2>2. /\ DOMAIN queue = 1 .. Len(queue) /\ DOMAIN queue' = 1 .. Len(queue) + 1
          /\ Len(queue) \in Nat
          /\ \A i \in 1 .. Len(queue) : queue'[i] = queue[i] /\ queue[i] \in Msgs
          /\ queue'[Len(queue) + 1] = next
      BY <1>0, <2>1, Appended
    <2>3. OrderInv'
      BY <1>0, <1>a, <1>b, <2>1, <2>2 DEF OrderInv, PathInv
    <2>4. \A m : Live(m)' <=> Live(m) \/ m = next
      <3>1. \A m : InQueue(m)' <=> InQueue(m) \/ m = next
        BY <1>0, <2>2 DEF InQueue
      <3>2. \A m : ~Rejected(m) /\ ~Rejected(m)'
        BY <1>0, <2>1 DEF Rejected
      <3>3. QED
        BY <1>0, <3>1, <3>2 DEF Live
    <2>5. FateInv'
      BY <1>0, <1>2, <2>4 DEF PathInv, FateInv, Msgs
    <2>6. QED
      BY <1>1, <2>3, <2>5
  <1>4. CASE ~(Len(queue) < QueueDepth)
    <2>1. queue' = queue /\ stage["telemetry"]' = "list"
      BY <1>0, <1>4 DEF Send, Writers
    <2>2. DOMAIN queue = 1 .. Len(queue) /\ \A i \in 1 .. Len(queue) : queue[i] \in Msgs
      BY <1>0, LenProperties, ElementOfSeq
    <2>3. OrderInv'
      BY <1>0, <1>a, <1>b, <2>1, <2>2 DEF PathInv, OrderInv
    <2>4. \A m : Live(m)' <=> Live(m) \/ m = next
      BY <1>0, <2>1 DEF Live, InQueue, Rejected, Msgs
    <2>5. FateInv'
      BY <1>0, <1>2, <2>4 DEF PathInv, FateInv, Msgs
    <2>6. QED
      BY <1>1, <2>3, <2>5
  <1>5. QED
    BY <1>3, <1>4

LEMMA TakeKeepsPath ==
  ASSUME TypeOK, PathInv, HttpTake
  PROVE  OrderInv' /\ TriesInv' /\ FateInv'
  <1>0. /\ UNCHANGED <<next, stage, made, arrived, confirmed, refused>>
        /\ item = 0 /\ item' = Head(queue) /\ queue' = Tail(queue)
        /\ http' = "try" /\ attempt' = 1
        /\ queue \in Seq(Msgs) /\ queue # <<>>
    BY DEF TypeOK, PathInv, ShapeInv, HttpTake, storeVars, cloudVars
  <1>1. /\ DOMAIN queue = 1 .. Len(queue) /\ DOMAIN queue' = 1 .. Len(queue) - 1
        /\ Len(queue) \in Nat \ {0}
        /\ item' = queue[1]
        /\ \A i \in 1 .. Len(queue) - 1 : queue'[i] = queue[i + 1]
        /\ \A i \in 1 .. Len(queue) : queue[i] \in Msgs
    BY <1>0, Taken
  <1>a. \A m \in Msgs : m \in Nat /\ m # 0
    BY DEF Msgs
  <1>b. \A i \in DOMAIN arrived : arrived[i] \in Msgs
    BY LenProperties, ElementOfSeq DEF PathInv, ShapeInv
  <1>2. OrderInv'
    <2>1. \A i, j \in DOMAIN queue' : i < j => queue'[i] < queue'[j]
      BY <1>0, <1>1 DEF PathInv, OrderInv
    <2>2. \A i \in DOMAIN queue' : item' < queue'[i] /\ queue'[i] < next
      BY <1>0, <1>1 DEF PathInv, OrderInv
    <2>3. item' < next /\ \A i \in DOMAIN arrived : arrived[i] < next /\ arrived[i] <= item'
      <3>1. 1 \in DOMAIN queue /\ queue[1] \in Nat
        BY <1>1, <1>a
      <3>2. ASSUME NEW i \in DOMAIN arrived PROVE arrived[i] < next /\ arrived[i] <= queue[1]
        BY <1>a, <1>b, <3>1 DEF PathInv, OrderInv
      <3>3. queue[1] < next
        BY <3>1 DEF PathInv, OrderInv
      <3>4. QED
        BY <1>1, <3>2, <3>3
    <2>4. \A i \in DOMAIN arrived, j \in DOMAIN queue' : arrived[i] < queue'[j]
      BY <1>0, <1>1 DEF PathInv, OrderInv
    <2>5. stage["telemetry"] # "idle" =>
             item' < next - 1 /\ \A i \in DOMAIN queue' : queue'[i] < next - 1
      BY <1>0, <1>1 DEF PathInv, OrderInv
    <2>6. QED
      BY <1>0, <2>1, <2>2, <2>3, <2>4, <2>5 DEF PathInv, OrderInv
  <1>3. TriesInv'
    <2>1. {i \in DOMAIN arrived : arrived[i] = item'} = {}
      <3>1. \A i \in DOMAIN arrived : arrived[i] \in Nat /\ arrived[i] < item'
        BY <1>1, <1>a, <1>b DEF PathInv, OrderInv
      <3>2. QED
        BY <3>1, <1>1
    <2>2. Receipts(item)' = 0
      BY <1>0, <2>1, FS_EmptySet DEF Receipts
    <2>3. \A m : Receipts(m)' = Receipts(m)
      BY <1>0 DEF Receipts
    <2>4. QED
      BY <1>0, <2>2, <2>3 DEF PathInv, TriesInv
  <1>4. \A m \in Nat \ {0} : Live(m)' <=> Live(m)
    <2>1. TAKE m \in Nat \ {0}
    <2>2. InQueue(m) <=> item' = m \/ InQueue(m)'
      <3>1. InQueue(m) => item' = m \/ InQueue(m)'
        <4>1. ASSUME NEW i \in 1 .. Len(queue), queue[i] = m
              PROVE  item' = m \/ \E j \in 1 .. Len(queue) - 1 : queue'[j] = m
          <5>1. CASE i = 1
            BY <4>1, <5>1, <1>1
          <5>2. CASE i # 1
            <6>1. i - 1 \in 1 .. Len(queue) - 1 /\ (i - 1) + 1 = i
              BY <4>1, <5>2, <1>1
            <6>2. queue'[i - 1] = m
              BY <4>1, <6>1, <1>1
            <6>3. QED
              BY <6>1, <6>2
          <5>3. QED
            BY <5>1, <5>2
        <4>2. QED
          BY <4>1, <1>1 DEF InQueue
      <3>2. item' = m \/ InQueue(m)' => InQueue(m)
        BY <1>0, <1>1 DEF InQueue
      <3>3. QED
        BY <3>1, <3>2
    <2>3. QED
      BY <1>0, <2>2 DEF Live, Rejected
  <1>5. \A m : (Settled(m)' <=> Settled(m)) /\ (Kept(m)' <=> Kept(m))
    BY <1>0 DEF Settled, Kept
  <1>6. FateInv'
    BY <1>0, <1>4, <1>5 DEF PathInv, FateInv, Msgs, TypeOK
  <1>7. QED
    BY <1>2, <1>3, <1>6

\* A payload received: the order, and the count of its receipts.
LEMMA ReceiptKeepsOrder ==
  ASSUME TypeOK, PathInv, item # 0,
         arrived' = Append(arrived, item),
         UNCHANGED <<queue, next>>,
         item' \in {0, item},
         stage["telemetry"]' = stage["telemetry"]
  PROVE  /\ OrderInv'
         /\ Receipts(item) \in Nat
         /\ \A m \in Msgs : Receipts(m)' = IF item = m THEN Receipts(m) + 1 ELSE Receipts(m)
  <1>1. item \in Msgs /\ arrived \in Seq(Msgs) /\ queue \in Seq(Msgs) /\ next \in Nat
    BY DEF TypeOK, PathInv, ShapeInv, Msgs
  <1>2. /\ DOMAIN arrived = 1 .. Len(arrived) /\ DOMAIN arrived' = 1 .. Len(arrived) + 1
        /\ Len(arrived) \in Nat
        /\ \A i \in 1 .. Len(arrived) : arrived'[i] = arrived[i] /\ arrived[i] \in Msgs
        /\ arrived'[Len(arrived) + 1] = item
    BY <1>1, Appended
  <1>3. \A m \in Msgs : m \in Nat /\ m # 0
    BY DEF Msgs
  <1>4. \A i \in DOMAIN queue : queue[i] \in Msgs
    BY <1>1, LenProperties, ElementOfSeq
  <1>5. \A i \in DOMAIN arrived : arrived[i] \in Nat /\ arrived[i] < next /\ arrived[i] <= item
    BY <1>1, <1>2, <1>3 DEF PathInv, OrderInv
  <1>6. \A i, j \in DOMAIN arrived' : i < j => arrived'[i] <= arrived'[j]
    BY <1>1, <1>2, <1>3, <1>5 DEF PathInv, OrderInv
  <1>7. item' < next /\ \A i \in DOMAIN queue : item' < queue[i] /\ queue[i] < next
    BY <1>1, <1>3, <1>4 DEF PathInv, OrderInv
  <1>8. \A i \in DOMAIN arrived' : arrived'[i] < next /\ (item' # 0 => arrived'[i] <= item')
    BY <1>1, <1>2, <1>3, <1>5 DEF PathInv, OrderInv
  <1>9. \A i \in DOMAIN arrived', j \in DOMAIN queue : arrived'[i] < queue[j]
    <2>1. ASSUME NEW i \in DOMAIN arrived', NEW j \in DOMAIN queue PROVE arrived'[i] < queue[j]
      <3>1. CASE i = Len(arrived) + 1
        BY <1>2, <1>7, <3>1 DEF PathInv, OrderInv
      <3>2. CASE i # Len(arrived) + 1
        BY <1>2, <3>2 DEF PathInv, OrderInv
      <3>3. QED
        BY <3>1, <3>2
    <2>2. QED
      BY <2>1
  <1>10. stage["telemetry"] # "idle" =>
            item' < next - 1 /\ \A i \in DOMAIN queue : queue[i] < next - 1
    BY <1>1, <1>3 DEF PathInv, OrderInv
  <1>11. OrderInv'
    <2>1. \A i, j \in DOMAIN queue : i < j => queue[i] < queue[j]
      BY DEF PathInv, OrderInv
    <2>2. QED
      BY <1>6, <1>7, <1>8, <1>9, <1>10, <2>1 DEF OrderInv
  <1>12. ASSUME NEW m \in Msgs
         PROVE  /\ Receipts(m) \in Nat
                /\ Receipts(m)' = IF item = m THEN Receipts(m) + 1 ELSE Receipts(m)
    <2>1. item \in Msgs /\ arrived \in Seq(Msgs) /\ arrived' = Append(arrived, item)
      BY <1>1
    <2>2. Cardinality({i \in DOMAIN arrived : arrived[i] = m}) \in Nat
      BY <2>1, OneMoreReceipt
    <2>3. Cardinality({i \in DOMAIN arrived' : arrived'[i] = m})
             = IF item = m THEN Cardinality({i \in DOMAIN arrived : arrived[i] = m}) + 1
                           ELSE Cardinality({i \in DOMAIN arrived : arrived[i] = m})
      <3>1. Cardinality({i \in DOMAIN Append(arrived, item) : Append(arrived, item)[i] = m})
               = IF item = m THEN Cardinality({i \in DOMAIN arrived : arrived[i] = m}) + 1
                             ELSE Cardinality({i \in DOMAIN arrived : arrived[i] = m})
        BY <2>1, OneMoreReceipt
      <3>2. {i \in DOMAIN Append(arrived, item) : Append(arrived, item)[i] = m}
               = {i \in DOMAIN arrived' : arrived'[i] = m}
        BY <2>1, Zenon
      <3>3. QED
        BY <3>1, <3>2
    <2>4. QED
      BY <2>2, <2>3 DEF Receipts
  <1>13. QED
    BY <1>1, <1>11, <1>12

LEMMA PostOkKeepsPath ==
  ASSUME TypeOK, PathInv, PostOk
  PROVE  OrderInv' /\ TriesInv' /\ FateInv'
  <1>1. /\ http = "try" /\ http' = "drain" /\ item \in Msgs /\ item' = 0
        /\ UNCHANGED <<queue, next, stage, made, refused>>
        /\ arrived' = Append(arrived, item) /\ confirmed' = confirmed \union {item}
        /\ queue \in Seq(Msgs) /\ next \in Nat /\ attempt \in 1 .. Tries
    BY DEF TypeOK, PathInv, ShapeInv, Msgs, PostOk, sendVars, storeVars
  <1>2. item \in Nat /\ item # 0 /\ item < next
    BY <1>1 DEF Msgs, PathInv, OrderInv
  <1>3. /\ OrderInv' /\ Receipts(item) \in Nat
        /\ \A m \in Msgs : Receipts(m)' = IF item = m THEN Receipts(m) + 1 ELSE Receipts(m)
    BY <1>1, <1>2, ReceiptKeepsOrder
  <1>4. TriesInv'
    <2>1. Receipts(item) < attempt
      BY <1>1 DEF PathInv, TriesInv
    <2>2. Receipts(item) + 1 <= Tries
      BY <1>1, <1>3, <2>1, ConstantsAssumption
    <2>3. \A m \in Msgs : Receipts(m)' <= Tries
      BY <1>3, <2>2 DEF PathInv, TriesInv
    <2>4. QED
      BY <1>1, <2>3 DEF TriesInv
  <1>5. \A m \in Msgs : /\ Live(m)' <=> Live(m) /\ m # item
                        /\ Settled(m)' <=> Settled(m) \/ m = item
    <2>1. \A m : InQueue(m)' <=> InQueue(m)
      BY <1>1 DEF InQueue
    <2>2. \A m : Rejected(m)' <=> Rejected(m)
      BY <1>1 DEF Rejected
    <2>3. ~InQueue(item) /\ ~Rejected(item)
      BY <1>1, <1>2 DEF InQueue, Rejected, PathInv, OrderInv
    <2>4. \A m \in Msgs : m # 0
      BY DEF Msgs
    <2>5. QED
      BY <1>1, <2>1, <2>2, <2>3, <2>4 DEF Live, Settled, Kept
  <1>6. Live(item) /\ ~Settled(item)
    BY <1>1, <1>2 DEF Live, PathInv, FateInv
  <1>7. FateInv'
    <2>1. \A m \in Msgs : Kept(m)' <=> Kept(m)
      BY <1>1 DEF Kept
    <2>2. \A m \in 1 .. next - 1 : m \in Msgs
      BY ConstantsAssumption DEF TypeOK, Msgs
    <2>3. confirmed \subseteq Msgs /\ refused \subseteq Msgs
      BY DEF PathInv, ShapeInv
    <2>4. \A m \in confirmed' : m \notin refused' /\ ~Kept(m)'
      BY <1>1, <1>6, <2>1, <2>3 DEF Settled, PathInv, FateInv
    <2>5. \A m \in refused' : ~Kept(m)'
      BY <1>1, <2>1, <2>3 DEF PathInv, FateInv
    <2>6. \A m \in 1 .. next - 1 : Live(m)' <=> ~Settled(m)'
      BY <1>5, <2>2 DEF PathInv, FateInv
    <2>7. \A m \in Msgs : Settled(m)' => m < next
      BY <1>2, <1>5 DEF PathInv, FateInv
    <2>8. QED
      BY <1>1, <2>4, <2>5, <2>6, <2>7 DEF FateInv
  <1>8. QED
    BY <1>3, <1>4, <1>7

\* A POST that fails leaves its payload in hand, received or not.
LEMMA PostFailsKeepsPath ==
  ASSUME TypeOK, PathInv, PostNoStatus \/ PostRejected
  PROVE  OrderInv' /\ TriesInv' /\ FateInv'
  <1>1. /\ http = "try" /\ item \in Msgs /\ item' = item
        /\ UNCHANGED <<queue, next, made, confirmed, refused>>
        /\ stage["telemetry"]' = stage["telemetry"]
        /\ arrived' \in {arrived, Append(arrived, item)}
        /\ attempt \in 1 .. Tries
    <2>1. http = "try" /\ item \in Msgs /\ attempt \in 1 .. Tries /\ stage \in [Writers -> Stages]
      BY DEF PostNoStatus, PostRejected, TypeOK, PathInv, ShapeInv, Msgs
    <2>2. UNCHANGED <<item, queue, next, made, confirmed, refused>>
      BY DEF PostNoStatus, PostRejected, StoreItem, sendVars
    <2>3. stage["telemetry"]' = stage["telemetry"]
      BY <2>1 DEF PostNoStatus, PostRejected, StoreItem, Writers
    <2>4. arrived' \in {arrived, Append(arrived, item)}
      BY DEF PostNoStatus, PostRejected
    <2>5. QED
      BY <2>1, <2>2, <2>3, <2>4
  <1>2. http' = "try" => attempt' = attempt + 1 /\ attempt < Tries
    BY <1>1 DEF PostNoStatus, PostRejected, StoreItem
  <1>3. item # 0
    BY <1>1 DEF Msgs
  <1>4. FateInv'
    <2>1. \A m : (Live(m)' <=> Live(m)) /\ (Settled(m)' <=> Settled(m)) /\ (Kept(m)' <=> Kept(m))
      BY <1>1 DEF Live, InQueue, Rejected, Settled, Kept
    <2>2. QED
      BY <1>1, <2>1 DEF PathInv, FateInv
  <1>5. Receipts(item) < attempt
    BY <1>1 DEF PathInv, TriesInv
  <1>6. CASE arrived' = arrived
    <2>1. OrderInv'
      BY <1>1, <1>6 DEF PathInv, OrderInv
    <2>2. \A m : Receipts(m)' = Receipts(m)
      BY <1>6 DEF Receipts
    <2>3. Receipts(item) \in Nat
      BY <1>1, OneMoreReceipt DEF Receipts, PathInv, ShapeInv
    <2>4. TriesInv'
      BY <1>1, <1>2, <1>5, <2>2, <2>3, ConstantsAssumption DEF PathInv, TriesInv
    <2>5. QED
      BY <1>4, <2>1, <2>4
  <1>7. CASE arrived' = Append(arrived, item)
    <2>1. /\ OrderInv' /\ Receipts(item) \in Nat
          /\ \A m \in Msgs : Receipts(m)' = IF item = m THEN Receipts(m) + 1 ELSE Receipts(m)
      BY <1>1, <1>3, <1>7, ReceiptKeepsOrder
    <2>2. Receipts(item) + 1 <= attempt /\ Receipts(item) + 1 <= Tries
      BY <1>1, <1>5, <2>1, ConstantsAssumption
    <2>3. \A m \in Msgs : Receipts(m)' <= Tries
      BY <2>1, <2>2 DEF PathInv, TriesInv
    <2>4. ASSUME NEW m \in Msgs, m = item, http' = "try" PROVE Receipts(m)' < attempt'
      BY <1>1, <1>2, <2>1, <2>2, <2>4
    <2>5. TriesInv'
      BY <1>1, <2>3, <2>4 DEF TriesInv, Receipts
    <2>6. QED
      BY <1>4, <2>1, <2>5
  <1>8. QED
    BY <1>1, <1>6, <1>7

\* A task that stores has one payload in hand, not settled yet, and no two have the same.
LEMMA InHand ==
  ASSUME TypeOK, PathInv, NEW w \in Writers, stage[w] # "idle"
  PROVE  /\ Last(w) \in Msgs /\ Last(w) < next
         /\ Live(Last(w)) /\ ~Settled(Last(w)) /\ ~InQueue(Last(w))
         /\ \A v \in Writers : v # w /\ stage[v] # "idle" => Last(v) # Last(w)
  <1>0. /\ queue \in Seq(Msgs) /\ next \in 1 .. MaxMsgs + 1 /\ item \in 0 .. MaxMsgs
        /\ MaxMsgs \in Nat
    BY ConstantsAssumption DEF TypeOK
  <1>1. stage["http"] # "idle" => item # 0
    BY DEF TypeOK, PathInv, ShapeInv
  <1>2. stage["telemetry"] # "idle" => item < next - 1 /\ next >= 2
    BY DEF PathInv, ShapeInv, OrderInv
  <1>3. \A i \in DOMAIN queue : item < queue[i] /\ queue[i] \in Nat
    BY <1>0, LenProperties, ElementOfSeq DEF PathInv, OrderInv, Msgs
  <1>4. stage["telemetry"] # "idle" => \A i \in DOMAIN queue : queue[i] < next - 1
    BY DEF PathInv, OrderInv
  <1>5. item < next
    BY DEF PathInv, OrderInv
  <1>6. CASE w = "http"
    <2>1. Last(w) = item /\ item \in Msgs
      BY <1>0, <1>1, <1>6 DEF Last, Msgs
    <2>2. Live(item) /\ ~InQueue(item)
      BY <1>0, <1>3 DEF Live, InQueue
    <2>3. ~Settled(item)
      BY <1>0, <1>5, <2>1, <2>2 DEF PathInv, FateInv, Msgs
    <2>4. \A v \in Writers : v # w /\ stage[v] # "idle" => Last(v) # Last(w)
      BY <1>0, <1>2, <1>6 DEF Writers, Last
    <2>5. QED
      BY <1>5, <2>1, <2>2, <2>3, <2>4
  <1>7. CASE w = "telemetry"
    <2>1. Last(w) = next - 1 /\ next - 1 \in Msgs /\ next - 1 < next
      BY <1>0, <1>2, <1>7 DEF Last, Msgs
    <2>2. Live(next - 1)
      BY <1>7 DEF Live, Rejected
    <2>3. ~InQueue(next - 1)
      BY <1>0, <1>3, <1>4, <1>7 DEF InQueue
    <2>4. ~Settled(next - 1)
      BY <1>0, <2>1, <2>2 DEF PathInv, FateInv, Msgs
    <2>5. \A v \in Writers : v # w /\ stage[v] # "idle" => Last(v) # Last(w)
      BY <1>0, <1>2, <1>7 DEF Writers, Last
    <2>6. QED
      BY <2>1, <2>2, <2>3, <2>4, <2>5
  <1>8. QED
    BY <1>6, <1>7 DEF Writers

\* A write ends in one of two ways: the payload is in made, or it is refused.
LEMMA WriteSettles ==
  ASSUME TypeOK, PathInv, NEW w \in Writers, Write(w)
  PROVE  /\ \A m \in Msgs : Live(m)' <=> Live(m) /\ m # Last(w)
         /\ \/ /\ refused' = refused
               /\ \A m \in Msgs : Kept(m)' <=> Kept(m) \/ m = Last(w)
            \/ /\ refused' = refused \union {Last(w)}
               /\ \A m \in Msgs : Kept(m)' <=> Kept(m)
  <1>1. /\ stage[w] # "idle" /\ stage \in [Writers -> Stages]
        /\ stage' = [stage EXCEPT ![w] = "idle"]
        /\ item' = IF w = "http" THEN 0 ELSE item
        /\ UNCHANGED <<queue, next>>
    BY DEF Write, Stored, TypeOK, sendVars
  <1>2. /\ Last(w) \in Msgs /\ Live(Last(w)) /\ ~InQueue(Last(w))
        /\ \A v \in Writers : v # w /\ stage[v] # "idle" => Last(v) # Last(w)
    BY <1>1, InHand
  <1>3. made \in Seq(Msgs \union {Torn}) /\ Torn \notin Msgs
    BY ConstantsAssumption DEF PathInv, ShapeInv, Msgs
  <1>4. \/ made' = Append(made, Last(w)) /\ refused' = refused
        \/ /\ made' = made \/ made' = Append(made, Torn)
           /\ refused' = refused \union {Last(w)}
        \/ made' = Append(made, Last(w)) /\ refused' = refused
    BY DEF Write
  <1>5. ASSUME NEW x \in Msgs \union {Torn}, made' = Append(made, x)
        PROVE  \A m : Kept(m)' <=> Kept(m) \/ m = x
    <2>1. /\ DOMAIN made = 1 .. Len(made) /\ DOMAIN made' = 1 .. Len(made) + 1
          /\ Len(made) \in Nat
          /\ \A i \in 1 .. Len(made) : made'[i] = made[i]
          /\ made'[Len(made) + 1] = x
      BY <1>3, <1>5, Appended
    <2>2. QED
      BY <2>1 DEF Kept
  <1>6. \/ /\ refused' = refused
           /\ \A m \in Msgs : Kept(m)' <=> Kept(m) \/ m = Last(w)
        \/ /\ refused' = refused \union {Last(w)}
           /\ \A m \in Msgs : Kept(m)' <=> Kept(m)
    <2>1. CASE made' = Append(made, Last(w)) /\ refused' = refused
      BY <1>2, <1>5, <2>1
    <2>2. CASE made' = Append(made, Torn) /\ refused' = refused \union {Last(w)}
      BY <1>3, <1>5, <2>2
    <2>3. CASE made' = made /\ refused' = refused \union {Last(w)}
      BY <2>3 DEF Kept
    <2>4. QED
      BY <1>4, <2>1, <2>2, <2>3
  <1>7. \A m : InQueue(m)' <=> InQueue(m)
    BY <1>1 DEF InQueue
  <1>8. \A m \in Msgs : m # 0
    BY DEF Msgs
  <1>9. CASE w = "http"
    <2>1. Last(w) = item /\ item' = 0 /\ item # 0
      BY <1>1, <1>2, <1>8, <1>9 DEF Last
    <2>2. stage["telemetry"]' = stage["telemetry"]
      BY <1>1, <1>9
    <2>3. ~Rejected(item)
      BY <1>2, <1>9, <2>1 DEF Rejected, Last, Writers
    <2>4. \A m : Rejected(m)' <=> Rejected(m)
      BY <1>1, <2>2 DEF Rejected
    <2>5. \A m \in Msgs : Live(m)' <=> Live(m) /\ m # Last(w)
      BY <1>2, <1>7, <1>8, <2>1, <2>3, <2>4 DEF Live
    <2>6. QED
      BY <1>6, <2>5
  <1>10. CASE w = "telemetry"
    <2>1. Last(w) = next - 1 /\ item' = item /\ stage["telemetry"]' = "idle"
      BY <1>1, <1>10 DEF Last
    <2>2. item # next - 1
      BY <1>1, <1>10 DEF PathInv, OrderInv, TypeOK
    <2>3. \A m : ~Rejected(m)' /\ (Rejected(m) <=> m = next - 1)
      BY <1>1, <1>10, <2>1 DEF Rejected
    <2>4. \A m \in Msgs : Live(m)' <=> Live(m) /\ m # Last(w)
      BY <1>2, <1>7, <2>1, <2>2, <2>3 DEF Live
    <2>5. QED
      BY <1>6, <2>4
  <1>11. QED
    BY <1>9, <1>10 DEF Writers

LEMMA WriteKeepsPath ==
  ASSUME TypeOK, PathInv, NEW w \in Writers, Write(w)
  PROVE  OrderInv' /\ TriesInv' /\ FateInv'
  <1>1. /\ stage[w] # "idle" /\ stage \in [Writers -> Stages]
        /\ stage' = [stage EXCEPT ![w] = "idle"]
        /\ item' = IF w = "http" THEN 0 ELSE item
        /\ http' = IF w = "http" THEN "drain" ELSE http
        /\ UNCHANGED <<queue, next, attempt, arrived, confirmed>>
    BY DEF Write, Stored, TypeOK, sendVars, cloudVars
  <1>2. /\ Last(w) \in Msgs /\ Last(w) < next /\ ~Settled(Last(w))
    BY <1>1, InHand
  <1>3. /\ queue \in Seq(Msgs) /\ item \in Nat /\ next \in 1 .. MaxMsgs + 1 /\ MaxMsgs \in Nat
        /\ \A i \in DOMAIN queue : queue[i] \in Nat /\ queue[i] # 0
    <2>1. MaxMsgs \in Nat
      BY ConstantsAssumption
    <2>2. QED
      BY <2>1, LenProperties, ElementOfSeq DEF TypeOK, Msgs
  <1>4. OrderInv'
    <2>1. stage["telemetry"]' # "idle" => stage["telemetry"] # "idle"
      BY <1>1 DEF Writers
    <2>2. item' \in {0, item} /\ item' <= item
      BY <1>1, <1>3
    <2>3. \A i \in DOMAIN queue : item' < queue[i]
      BY <1>3, <2>2 DEF PathInv, OrderInv
    <2>4. item' < next
      BY <1>3, <2>2 DEF PathInv, OrderInv
    <2>5. \A i \in DOMAIN arrived : item' # 0 => arrived[i] <= item'
      BY <2>2 DEF PathInv, OrderInv
    <2>6. stage["telemetry"]' # "idle" => item' < next - 1
      BY <1>3, <2>1, <2>2 DEF PathInv, OrderInv
    <2>7. QED
      BY <1>1, <2>1, <2>3, <2>4, <2>5, <2>6 DEF PathInv, OrderInv
  <1>5. TriesInv'
    <2>1. \A m : Receipts(m)' = Receipts(m)
      BY <1>1 DEF Receipts
    <2>2. http' = "try" => http = "try" /\ item' = item
      BY <1>1
    <2>3. QED
      BY <1>1, <2>1, <2>2 DEF PathInv, TriesInv, Receipts
  <1>6. \A m \in Msgs : Settled(m)' <=> Settled(m) \/ m = Last(w)
    BY <1>1, <1>2, WriteSettles DEF Settled
  <1>7. FateInv'
    <2>1. confirmed \subseteq Msgs /\ refused \subseteq Msgs
      BY DEF PathInv, ShapeInv
    <2>2. Last(w) \notin confirmed /\ Last(w) \notin refused /\ ~Kept(Last(w))
      BY <1>2 DEF Settled
    <2>3. \A m \in confirmed : m \notin refused' /\ ~Kept(m)'
      BY <2>1, <2>2, WriteSettles DEF PathInv, FateInv
    <2>4. \A m \in refused' : ~Kept(m)'
      BY <1>2, <2>1, <2>2, WriteSettles DEF PathInv, FateInv
    <2>5. \A m \in 1 .. next - 1 : m \in Msgs
      BY <1>3 DEF Msgs
    <2>6. \A m \in 1 .. next - 1 : Live(m)' <=> ~Settled(m)'
      BY <1>6, <2>5, WriteSettles DEF PathInv, FateInv
    <2>7. \A m \in Msgs : Settled(m)' => m < next
      BY <1>2, <1>6 DEF PathInv, FateInv
    <2>8. QED
      BY <1>1, <2>3, <2>4, <2>6, <2>7 DEF FateInv
  <1>8. QED
    BY <1>4, <1>5, <1>7

LEMMA RebootKeepsPath ==
  ASSUME TypeOK, PathInv, Reboot
  PROVE  OrderInv' /\ TriesInv' /\ FateInv'
  <1>1. /\ queue' = <<>> /\ item' = 0 /\ http' = "idle" /\ stage'["telemetry"] = "idle"
        /\ UNCHANGED <<next, made, arrived, confirmed>>
    BY DEF Reboot, Writers, cloudVars
  <1>2. /\ queue \in Seq(Msgs) /\ item \in Nat /\ next \in 1 .. MaxMsgs + 1 /\ MaxMsgs \in Nat
    BY ConstantsAssumption DEF TypeOK
  <1>3. refused \subseteq Msgs /\ confirmed \subseteq Msgs
    BY DEF PathInv, ShapeInv
  <1>4. \A m : m \in refused' <=> \/ m \in refused \/ InQueue(m) \/ Rejected(m)
                                  \/ item # 0 /\ m = item
    BY DEF Reboot, InQueue, Rejected, PathInv, ShapeInv
  <1>5. \A m \in Msgs : m # 0
    BY DEF Msgs
  <1>6. \A m \in Msgs : m \in refused' <=> m \in refused \/ Live(m)
    BY <1>4, <1>5 DEF Live
  <1>7. \A m \in refused' : m \in Msgs /\ m < next /\ m > 0
    <2>1. ASSUME NEW m, InQueue(m) PROVE m \in Msgs /\ m < next
      BY <1>2, <2>1, LenProperties, ElementOfSeq DEF InQueue, PathInv, OrderInv
    <2>2. item # 0 => item \in Msgs /\ item < next
      BY <1>2 DEF TypeOK, Msgs, PathInv, OrderInv
    <2>3. ASSUME NEW m, Rejected(m) PROVE m \in Msgs /\ m < next
      BY <1>2, <2>3 DEF Rejected, PathInv, ShapeInv, Msgs
    <2>4. \A m \in refused : m < next
      BY <1>3 DEF PathInv, FateInv, Settled
    <2>5. \A m \in Msgs : m > 0
      BY DEF Msgs
    <2>6. QED
      BY <1>3, <1>4, <2>1, <2>2, <2>3, <2>4, <2>5
  <1>8. \A m \in Msgs : (Kept(m)' <=> Kept(m)) /\ ~Live(m)'
    BY <1>1, <1>5 DEF Kept, Live, InQueue, Rejected
  <1>9. OrderInv'
    <2>1. DOMAIN queue' = {}
      BY <1>1
    <2>2. item' < next
      BY <1>1, <1>2
    <2>3. \A i, j \in DOMAIN arrived : i < j => arrived[i] <= arrived[j]
      BY DEF PathInv, OrderInv
    <2>4. \A i \in DOMAIN arrived : arrived[i] < next
      BY DEF PathInv, OrderInv
    <2>5. QED
      BY <1>1, <2>1, <2>2, <2>3, <2>4 DEF OrderInv
  <1>10. TriesInv'
    <2>1. \A m : Receipts(m)' = Receipts(m)
      BY <1>1 DEF Receipts
    <2>2. QED
      BY <1>1, <2>1 DEF PathInv, TriesInv
  <1>11. FateInv'
    <2>1. \A m \in 1 .. next - 1 : m \in Msgs
      BY <1>2 DEF Msgs
    <2>2. \A m \in Msgs : Live(m) => ~Settled(m)
      <3>1. \A m \in Msgs : m < next => m \in 1 .. next - 1
        BY <1>2 DEF Msgs
      <3>2. \A m \in Msgs : Settled(m) => m < next
        BY DEF PathInv, FateInv
      <3>3. QED
        BY <3>1, <3>2 DEF PathInv, FateInv
    <2>3. \A m \in confirmed : m \notin refused' /\ ~Kept(m)'
      BY <1>3, <1>6, <1>8, <2>2 DEF PathInv, FateInv, Settled
    <2>4. \A m \in refused' : ~Kept(m)'
      BY <1>6, <1>7, <1>8, <2>2 DEF PathInv, FateInv, Settled
    <2>5. \A m \in Msgs : Settled(m)' <=> Settled(m) \/ Live(m)
      BY <1>1, <1>6, <1>8 DEF Settled
    <2>6. \A m \in 1 .. next - 1 : Live(m)' <=> ~Settled(m)'
      BY <1>8, <2>1, <2>5 DEF PathInv, FateInv
    <2>7. \A m \in Msgs : Settled(m)' => m < next
      BY <1>1, <1>3, <1>7, <1>8 DEF Settled, PathInv, FateInv
    <2>8. QED
      BY <1>1, <2>3, <2>4, <2>6, <2>7 DEF FateInv
  <1>12. QED
    BY <1>9, <1>10, <1>11
-------------------------------------------------------------------------------
(* The numbers of the files.                                               *)

\* A writer at one of these stages has taken the number of its file.
Numbered == {"bump", "write", "relist", "reremove", "rewrite"}

\* The payloads whose store is over, one way or another, or has its number.
Done == {m \in Msgs : \/ m \in refused \/ Kept(m)
                      \/ \E w \in Writers : stage[w] \in Numbered /\ Last(w) = m}

\* No more numbers were given than payloads were stored, whoever lost an increment.
CountInv ==
    /\ seq <= Cardinality(Done)
    /\ \A w \in Writers : stage[w] \in Numbered => num[w] \in 1 .. Cardinality(Done)

Strong == TypeOK /\ PathInv /\ CountInv

\* There are as many payloads done as were sent, at most.
LEMMA DoneIsSmall ==
  IsFiniteSet(Done) /\ Cardinality(Done) \in 0 .. MaxMsgs
  <1>1. Done \subseteq 1 .. MaxMsgs
    BY DEF Done, Msgs
  <1>2. IsFiniteSet(1 .. MaxMsgs) /\ Cardinality(1 .. MaxMsgs) = MaxMsgs
    BY FS_Interval, ConstantsAssumption
  <1>3. IsFiniteSet(Done) /\ Cardinality(Done) <= MaxMsgs
    BY <1>1, <1>2, FS_Subset
  <1>4. QED
    BY <1>3, FS_CardinalityType, ConstantsAssumption

\* The steps of a store that have no payload settled.
Storing(w) == List(w) \/ Remove(w) \/ Load(w) \/ Bump(w) \/ Full(w)

\* Those of the HTTP task and of the network.
Moving == \/ HttpBegin \/ HttpTake \/ HttpRest
          \/ PostOffline \/ PostOk \/ PostNoStatus \/ PostRejected
          \/ WifiUp \/ WifiDown

\* What a step of a store does to the stages and to what they are counted by.
LEMMA StoringStages ==
  ASSUME TypeOK, NEW w \in Writers, Storing(w)
  PROVE  /\ stage[w] # "idle" /\ stage'[w] # "idle" /\ stage' \in [Writers -> Stages]
         /\ \A v \in Writers : v # w => stage'[v] = stage[v]
         /\ stage[w] \in Numbered => stage'[w] \in Numbered
         /\ stage'[w] \in Numbered => stage[w] \in Numbered \/ Load(w)
         /\ \A v \in Writers : Last(v)' = Last(v)
         /\ \A m : Kept(m)' <=> Kept(m)
         /\ UNCHANGED <<queue, next, wifi, http, item, attempt, made, arrived, confirmed,
                        refused, reboots>>
  <1> USE DEF TypeOK, Writers, Stages, Storing, Numbered, Last, Kept,
              sendVars, httpVars, storeVars, cloudVars
  <1>1. CASE List(w)
    BY <1>1 DEF List, Load
  <1>2. CASE Remove(w)
    BY <1>2 DEF Remove, Load
  <1>3. CASE Load(w)
    BY <1>3 DEF Load
  <1>4. CASE Bump(w)
    BY <1>4 DEF Bump, Load
  <1>5. CASE Full(w)
    BY <1>5 DEF Full, Load
  <1>6. QED
    BY <1>1, <1>2, <1>3, <1>4, <1>5

\* The HTTP task stores nothing while it posts, and hands over to its store.
LEMMA MovingStages ==
  ASSUME TypeOK, Moving
  PROVE  /\ stage'["telemetry"] = stage["telemetry"]
         /\ stage' \in [Writers -> Stages]
         /\ \/ {stage["http"], stage'["http"]} \intersect Numbered = {}
            \/ UNCHANGED <<stage, item>>
         /\ \/ stage'["http"] = stage["http"]
            \/ http = "try" /\ stage'["http"] = "list"
         /\ UNCHANGED <<next, victims, num, files, made, seq, refused, reboots>>
  <1> USE DEF TypeOK, Writers, Stages, Numbered, sendVars, httpVars, storeVars, cloudVars
  <1>1. CASE HttpBegin \/ HttpTake \/ HttpRest
    BY <1>1 DEF HttpBegin, HttpTake, HttpRest
  <1>2. CASE PostOffline
    BY <1>2 DEF PostOffline, StoreItem
  <1>3. CASE PostOk
    BY <1>3 DEF PostOk
  <1>4. CASE PostNoStatus
    BY <1>4 DEF PostNoStatus, StoreItem
  <1>5. CASE PostRejected
    BY <1>5 DEF PostRejected, StoreItem
  <1>6. CASE WifiUp \/ WifiDown
    BY <1>6 DEF WifiUp, WifiDown
  <1>7. QED
    BY <1>1, <1>2, <1>3, <1>4, <1>5, <1>6 DEF Moving

\* A reset settles what was on its way, but no file is written.
LEMMA RebootSettles ==
  ASSUME TypeOK, PathInv, Reboot
  PROVE  /\ stage' = [w \in Writers |-> "idle"] /\ UNCHANGED made
         /\ \A m : m \in refused' <=> m \in refused \/ InQueue(m) \/ (item # 0 /\ m = item)
                                       \/ Rejected(m)
  BY DEF Reboot, InQueue, Rejected, PathInv, ShapeInv

\* What is done stays done.
LEMMA DoneGrows ==
  ASSUME Strong, [Next]_vars
  PROVE  /\ Done \subseteq Done'
         /\ Cardinality(Done) <= Cardinality(Done')
         /\ Cardinality(Done) \in Nat /\ Cardinality(Done') \in 0 .. MaxMsgs
         /\ IsFiniteSet(Done)
  <1> USE DEF Strong
  <1>0. stage \in [Writers -> Stages] /\ Numbered \subseteq Stages /\ "idle" \notin Numbered
    BY DEF TypeOK, Numbered, Stages
  <1>1. Done \subseteq Done'
    <2>1. CASE Send
      <3>1. /\ UNCHANGED <<item, made, refused>> /\ stage["telemetry"] = "idle"
            /\ stage'["telemetry"] \notin Numbered /\ stage'["http"] = stage["http"]
        BY <1>0, <2>1 DEF Send, httpVars, Writers, Numbered
      <3>2. QED
        BY <1>0, <3>1 DEF Done, Kept, Last, Writers
    <2>2. ASSUME NEW w \in Writers, Storing(w) PROVE Done \subseteq Done'
      BY <2>2, StoringStages DEF Done
    <2>3. ASSUME NEW w \in Writers, Write(w) PROVE Done \subseteq Done'
      <3>1. stage' = [stage EXCEPT ![w] = "idle"]
        BY <2>3 DEF Write, Stored
      <3>2. \A v \in Writers : v # w => stage'[v] = stage[v] /\ Last(v)' = Last(v)
        BY <1>0, <2>3, <3>1 DEF Write, Stored, Last, Writers, sendVars
      <3>3. \A m \in Msgs : /\ m \in refused \/ Kept(m) => m \in refused' \/ Kept(m)'
                            /\ m = Last(w) => m \in refused' \/ Kept(m)'
        BY <2>3, WriteSettles
      <3>4. QED
        BY <1>0, <3>1, <3>2, <3>3 DEF Done
    <2>4. CASE Moving
      <3>1. \A m : Kept(m)' <=> Kept(m)
        BY <2>4, MovingStages DEF Kept
      <3>2. \A w \in Writers : stage[w] \in Numbered => stage'[w] = stage[w] /\ Last(w)' = Last(w)
        BY <2>4, MovingStages DEF Last, Writers
      <3>3. QED
        BY <2>4, <3>1, <3>2, MovingStages DEF Done
    <2>5. CASE Reboot
      <3>1. \A m : Kept(m)' <=> Kept(m)
        BY <2>5, RebootSettles DEF Kept
      <3>2. ASSUME NEW w \in Writers, stage[w] \in Numbered PROVE Last(w) \in refused'
        <4>1. Live(Last(w)) /\ Last(w) \in Msgs
          BY <1>0, <3>2, InHand
        <4>2. QED
          BY <2>5, <4>1, RebootSettles DEF Live, Msgs
      <3>3. refused \subseteq refused'
        BY <2>5, RebootSettles
      <3>4. QED
        BY <3>1, <3>2, <3>3 DEF Done
    <2>6. CASE UNCHANGED vars
      BY <2>6 DEF vars, sendVars, httpVars, storeVars, Done, Kept, Last
    <2>7. QED
      BY <2>1, <2>2, <2>3, <2>4, <2>5, <2>6 DEF Next, Moving, Storing
  <1>2. /\ IsFiniteSet(Done) /\ Cardinality(Done) \in 0 .. MaxMsgs
    BY DoneIsSmall
  <1>3. (IsFiniteSet(Done) /\ Cardinality(Done) \in 0 .. MaxMsgs)'
    BY DoneIsSmall, PTL
  <1>4. QED
    BY <1>1, <1>2, <1>3, FS_Subset, ConstantsAssumption

\* A writer that takes a number adds its payload to those done.
LEMMA LoadAdds ==
  ASSUME Strong, NEW w \in Writers, Load(w)
  PROVE  Cardinality(Done) + 1 <= Cardinality(Done')
  <1>1. stage \in [Writers -> Stages] /\ stage[w] = "load" /\ stage'[w] = "bump"
    BY DEF Load, Strong, TypeOK
  <1>2. Last(w) \in Msgs /\ ~Settled(Last(w))
        /\ \A v \in Writers : v # w /\ stage[v] # "idle" => Last(v) # Last(w)
    BY <1>1, InHand DEF Strong
  <1>3. Last(w) \notin Done
    BY <1>1, <1>2 DEF Done, Settled, Numbered
  <1>4. Last(w) \in Done'
    BY <1>1, <1>2, StoringStages DEF Done, Numbered, Strong, Storing
  <1>5. Done \subseteq Done' /\ IsFiniteSet(Done) /\ Cardinality(Done') \in 0 .. MaxMsgs
    BY DoneGrows DEF Next
  <1>6. IsFiniteSet(Done \union {Last(w)})
           /\ Cardinality(Done \union {Last(w)}) = Cardinality(Done) + 1
    BY <1>3, <1>5, FS_AddElement
  <1>7. (IsFiniteSet(Done) /\ Cardinality(Done) \in 0 .. MaxMsgs)'
    BY DoneIsSmall, PTL
  <1>8. Done \union {Last(w)} \subseteq Done'
    BY <1>4, <1>5
  <1>9. QED
    BY <1>6, <1>7, <1>8, FS_Subset

LEMMA NextCount ==
  ASSUME Strong, [Next]_vars
  PROVE  CountInv'
  <1>0. /\ Cardinality(Done) <= Cardinality(Done')
        /\ Cardinality(Done) \in Nat /\ Cardinality(Done') \in Nat
        /\ seq \in Nat /\ seq <= Cardinality(Done)
        /\ num \in [Writers -> Nat] /\ stage \in [Writers -> Stages]
        /\ \A w \in Writers : stage[w] \in Numbered => num[w] \in 1 .. Cardinality(Done)
        /\ "idle" \notin Numbered
    BY DoneGrows, ConstantsAssumption DEF Strong, CountInv, TypeOK, Numbered
  <1>1. ASSUME \A w \in Writers : stage'[w] \in Numbered =>
                                    stage[w] \in Numbered /\ num'[w] = num[w],
               seq' = seq \/ (\E w \in Writers : stage[w] \in Numbered /\ seq' = num[w])
                          \/ seq' = 0
        PROVE  CountInv'
    BY <1>0, <1>1 DEF CountInv
  <1>2. CASE Send
    <2>1. UNCHANGED <<seq, num>> /\ stage'["http"] = stage["http"]
             /\ stage'["telemetry"] \notin Numbered
      BY <1>0, <1>2 DEF Send, Writers, Numbered
    <2>2. QED
      BY <1>1, <2>1 DEF Writers
  <1>3. ASSUME NEW w \in Writers, Storing(w), ~Load(w) PROVE CountInv'
    <2>1. num' = num
      BY <1>3 DEF Storing, List, Remove, Bump, Full
    <2>2. \A v \in Writers : stage'[v] \in Numbered => stage[v] \in Numbered
      BY <1>3, StoringStages DEF Strong
    <2>3. seq' = seq \/ (stage[w] \in Numbered /\ seq' = num[w])
      BY <1>3 DEF Storing, List, Remove, Bump, Full, Numbered
    <2>4. QED
      BY <1>1, <2>1, <2>2, <2>3
  <1>4. ASSUME NEW w \in Writers, Load(w) PROVE CountInv'
    <2>1. /\ num' = [num EXCEPT ![w] = seq + 1] /\ seq' = seq
          /\ stage' = [stage EXCEPT ![w] = "bump"]
      BY <1>4 DEF Load
    <2>2. Cardinality(Done) + 1 <= Cardinality(Done')
      BY <1>4, LoadAdds
    <2>3. num'[w] \in 1 .. Cardinality(Done')
      BY <1>0, <2>1, <2>2
    <2>4. \A v \in Writers : v # w => num'[v] = num[v] /\ stage'[v] = stage[v]
      BY <1>0, <2>1
    <2>5. \A v \in Writers : stage'[v] \in Numbered => num'[v] \in 1 .. Cardinality(Done')
      BY <1>0, <2>3, <2>4
    <2>6. QED
      BY <1>0, <2>1, <2>5 DEF CountInv
  <1>5. ASSUME NEW w \in Writers, Write(w) PROVE CountInv'
    <2>1. UNCHANGED <<seq, num>> /\ stage' = [stage EXCEPT ![w] = "idle"]
      BY <1>5 DEF Write, Stored
    <2>2. \A v \in Writers : stage'[v] \in Numbered => stage[v] \in Numbered
      BY <1>0, <2>1
    <2>3. QED
      BY <1>1, <2>1, <2>2
  <1>6. CASE Moving
    <2>1. /\ UNCHANGED <<seq, num>>
          /\ \A v \in Writers : stage'[v] \in Numbered => stage[v] \in Numbered
      BY <1>6, MovingStages DEF Strong, Writers
    <2>2. QED
      BY <1>1, <2>1
  <1>7. CASE Reboot
    <2>1. stage' = [w \in Writers |-> "idle"] /\ seq' = 0
      BY <1>7 DEF Reboot
    <2>2. QED
      BY <1>0, <1>1, <2>1
  <1>8. CASE UNCHANGED vars
    BY <1>1, <1>8 DEF vars, storeVars
  <1>9. QED
    BY <1>2, <1>3, <1>4, <1>5, <1>6, <1>7, <1>8 DEF Next, Moving, Storing
-------------------------------------------------------------------------------
(* The types.                                                              *)

\* What a write does to the files.
LEMMA WriteFiles ==
  ASSUME Strong, NEW w \in Writers, Write(w)
  PROVE  /\ num[w] \in 1 .. MaxMsgs
         /\ \/ files' \subseteq files /\ made' = made
            \/ \E what \in Msgs \union {Torn}, kept \in SUBSET files :
                  files' = Written(w, kept, what) /\ made' = Append(made, what)
  <1>1. Last(w) \in Msgs
    BY InHand DEF Strong, Write
  <1>2. num[w] \in 1 .. MaxMsgs
    <2>1. Cardinality(Done) \in 0 .. MaxMsgs
      BY DoneIsSmall
    <2>2. stage[w] \in Numbered
      BY DEF Write, Numbered
    <2>3. num[w] \in 1 .. Cardinality(Done)
      BY <2>2 DEF Strong, CountInv
    <2>4. QED
      BY <2>1, <2>3, ConstantsAssumption
  <1>3. CASE files' = Written(w, files, Last(w)) /\ made' = Append(made, Last(w))
    BY <1>1, <1>2, <1>3
  <1>4. ASSUME NEW k \in Leaves(Keep) \union Leaves(KeepHard), NEW kept, kept = files \ Oldest(k),
               \/ files' = Written(w, kept, Last(w)) /\ made' = Append(made, Last(w))
               \/ files' = Written(w, kept, Torn) /\ made' = Append(made, Torn)
               \/ files' = kept /\ UNCHANGED made
        PROVE  \/ files' \subseteq files /\ made' = made
               \/ \E what \in Msgs \union {Torn}, kpt \in SUBSET files :
                     files' = Written(w, kpt, what) /\ made' = Append(made, what)
    <2>1. kept \in SUBSET files
      BY <1>4
    <2>2. QED
      BY <1>1, <1>4, <2>1
  <1>5. QED
    BY <1>2, <1>3, <1>4 DEF Write

\* The files and their contents keep their types, and no two are of one time.
FilesInv ==
    /\ IsFiniteSet(files)
    /\ files \subseteq [num : 1 .. MaxMsgs, what : Msgs \union {Torn}, at : 1 .. Len(made)]
    /\ \A f, g \in files : f.at = g.at => f = g
    /\ \A f \in files : f.num \in 1 .. MaxMsgs /\ f.what = made[f.at]

LEMMA WriteKeepsFiles ==
  ASSUME Strong, NEW w \in Writers, Write(w)
  PROVE  made' \in Seq(Msgs \union {Torn}) /\ FilesInv'
  <1>1. made \in Seq(Msgs \union {Torn}) /\ FilesInv
    BY DEF Strong, PathInv, ShapeInv, TypeOK, FilesInv
  <1>2. CASE files' \subseteq files /\ made' = made
    BY <1>1, <1>2, FS_Subset DEF FilesInv
  <1>3. ASSUME NEW what \in Msgs \union {Torn}, NEW kept \in SUBSET files,
               files' = Written(w, kept, what), made' = Append(made, what)
        PROVE  made' \in Seq(Msgs \union {Torn}) /\ FilesInv'
    <2> DEFINE n == Len(made)
               new == [num |-> num[w], what |-> what, at |-> n + 1]
               old == {f \in kept : f.num # num[w]}
    <2>1. /\ made' \in Seq(Msgs \union {Torn}) /\ Len(made') = n + 1 /\ n \in Nat
          /\ \A i \in 1 .. n : made'[i] = made[i]
          /\ made'[n + 1] = what
      BY <1>1, <1>3, Appended
    <2>2. files' = old \union {new} /\ old \subseteq files
      BY <1>3 DEF Written
    <2>3. num[w] \in 1 .. MaxMsgs
      BY WriteFiles
    <2>4. IsFiniteSet(files')
      BY <1>1, <2>2, FS_Subset, FS_AddElement DEF FilesInv
    <2>5. new \in [num : 1 .. MaxMsgs, what : Msgs \union {Torn}, at : 1 .. n + 1]
      BY <2>1, <2>3
    <2>6. \A f \in old : /\ f \in [num : 1 .. MaxMsgs, what : Msgs \union {Torn}, at : 1 .. n + 1]
                         /\ f.at \in 1 .. n
      BY <1>1, <2>1, <2>2 DEF FilesInv
    <2>7. \A f, g \in files' : f.at = g.at => f = g
      BY <1>1, <2>1, <2>2, <2>6 DEF FilesInv
    <2>8. \A f \in files' : f.num \in 1 .. MaxMsgs /\ f.what = made'[f.at]
      <3>1. \A f \in old : f.num \in 1 .. MaxMsgs /\ f.what = made'[f.at]
        BY <1>1, <2>1, <2>2, <2>6 DEF FilesInv
      <3>2. new.num \in 1 .. MaxMsgs /\ new.what = made'[new.at]
        BY <2>1, <2>3
      <3>3. QED
        BY <2>2, <3>1, <3>2
    <2>9. files' \subseteq [num : 1 .. MaxMsgs, what : Msgs \union {Torn}, at : 1 .. Len(made')]
      BY <2>1, <2>2, <2>5, <2>6
    <2>10. QED
      BY <2>1, <2>4, <2>7, <2>8, <2>9 DEF FilesInv
  <1>4. QED
    BY <1>2, <1>3, WriteFiles

LEMMA NextFiles ==
  ASSUME Strong, [Next]_vars
  PROVE  made' \in Seq(Msgs \union {Torn}) /\ FilesInv'
  <1>1. made \in Seq(Msgs \union {Torn}) /\ FilesInv
    BY DEF Strong, PathInv, ShapeInv, TypeOK, FilesInv
  <1>2. CASE files' \subseteq files /\ made' = made
    BY <1>1, <1>2, FS_Subset DEF FilesInv
  <1>3. CASE Send
    BY <1>2, <1>3 DEF Send
  <1>4. ASSUME NEW w \in Writers, Storing(w) PROVE files' \subseteq files /\ made' = made
    BY <1>4 DEF Storing, List, Remove, Load, Bump, Full
  <1>5. CASE Moving
    BY <1>2, <1>5, MovingStages DEF Strong
  <1>6. CASE Reboot
    BY <1>2, <1>6 DEF Reboot
  <1>7. CASE UNCHANGED vars
    BY <1>2, <1>7 DEF vars, storeVars
  <1>8. QED
    BY <1>2, <1>3, <1>4, <1>5, <1>6, <1>7, WriteKeepsFiles DEF Next, Moving, Storing

\* What the tasks have in hand.
HandsInv ==
    /\ queue \in Seq(Msgs) /\ Len(queue) <= QueueDepth
    /\ next \in 1 .. MaxMsgs + 1
    /\ item \in 0 .. MaxMsgs
    /\ http \in {"idle", "drain", "try", "store"}
    /\ attempt \in 1 .. Tries
    /\ stage \in [Writers -> Stages]
    /\ stage["http"] # "idle" <=> http = "store"
    /\ http \in {"try", "store"} <=> item # 0
    /\ stage["telemetry"] # "idle" => next >= 2

LEMMA NextHands ==
  ASSUME Strong, [Next]_vars
  PROVE  HandsInv'
  <1>0. HandsInv /\ MaxMsgs \in Nat /\ Tries \in Nat \ {0} /\ QueueDepth \in Nat \ {0}
    BY ConstantsAssumption DEF Strong, TypeOK, PathInv, ShapeInv, HandsInv
  <1>1. "telemetry" \in Writers /\ "http" \in Writers /\ "idle" \in Stages /\ "list" \in Stages
    BY DEF Writers, Stages
  <1>2. CASE Send
    <2>1. /\ next \in 1 .. MaxMsgs /\ next' = next + 1 /\ next \in Msgs /\ next' >= 2
          /\ UNCHANGED <<item, http, attempt>>
      BY <1>0, <1>2 DEF Send, httpVars, HandsInv, Msgs
    <2>2. queue' \in Seq(Msgs) /\ Len(queue') <= QueueDepth
      <3>1. CASE queue' = queue
        BY <1>0, <3>1 DEF HandsInv
      <3>2. CASE Len(queue) < QueueDepth /\ queue' = Append(queue, next)
        <4>1. queue' \in Seq(Msgs) /\ Len(queue') = Len(queue) + 1 /\ Len(queue) \in Nat
          BY <1>0, <2>1, <3>2, Appended DEF HandsInv
        <4>2. QED
          BY <1>0, <3>2, <4>1
      <3>3. QED
        BY <1>2, <3>1, <3>2 DEF Send
    <2>3. stage' \in [Writers -> Stages] /\ stage'["http"] = stage["http"]
      BY <1>0, <1>1, <1>2 DEF Send, HandsInv
    <2>4. next' \in 1 .. MaxMsgs + 1
      BY <1>0, <2>1
    <2>5. QED
      BY <1>0, <2>1, <2>2, <2>3, <2>4 DEF HandsInv
  <1>3. ASSUME NEW w \in Writers, Storing(w) PROVE HandsInv'
    <2>1. \A v \in Writers : stage'[v] # "idle" <=> stage[v] # "idle"
      BY <1>3, StoringStages DEF Strong
    <2>2. QED
      BY <1>0, <1>1, <1>3, <2>1, StoringStages DEF Strong, HandsInv
  <1>4. ASSUME NEW w \in Writers, Write(w) PROVE HandsInv'
    <2>1. /\ stage' = [stage EXCEPT ![w] = "idle"]
          /\ http' = IF w = "http" THEN "drain" ELSE http
          /\ item' = IF w = "http" THEN 0 ELSE item
          /\ UNCHANGED <<queue, next, attempt>>
      BY <1>4 DEF Write, Stored, sendVars
    <2>2. stage' \in [Writers -> Stages]
      BY <1>0, <1>1, <2>1 DEF HandsInv
    <2>3. stage'["telemetry"] # "idle" => stage["telemetry"] # "idle"
      BY <1>0, <1>1, <2>1 DEF HandsInv
    <2>4. CASE w = "http"
      BY <1>0, <1>1, <2>1, <2>2, <2>3, <2>4 DEF HandsInv
    <2>5. CASE w = "telemetry"
      <3>1. stage'["http"] = stage["http"]
        BY <1>0, <1>1, <2>1, <2>5 DEF HandsInv
      <3>2. QED
        BY <1>0, <2>1, <2>2, <2>3, <2>5, <3>1 DEF HandsInv
    <2>6. QED
      BY <2>4, <2>5 DEF Writers
  <1>5. CASE HttpTake
    <2>1. /\ queue' \in Seq(Msgs) /\ Len(queue') = Len(queue) - 1 /\ Len(queue) \in Nat
          /\ item' \in Msgs
      BY <1>0, <1>5, HeadTailProperties, LenProperties DEF HttpTake, HandsInv
    <2>2. item' \in 0 .. MaxMsgs /\ item' # 0
      BY <2>1 DEF Msgs
    <2>3. UNCHANGED <<next, stage>> /\ http' = "try" /\ http = "drain" /\ attempt' = 1
      BY <1>5 DEF HttpTake, storeVars
    <2>4. Len(queue') <= QueueDepth /\ 1 \in 1 .. Tries
      BY <1>0, <2>1 DEF HandsInv
    <2>5. QED
      BY <1>0, <2>1, <2>2, <2>3, <2>4 DEF HandsInv
  <1>6. CASE HttpBegin \/ HttpRest \/ WifiUp \/ WifiDown
    BY <1>0, <1>6 DEF HttpBegin, HttpRest, WifiUp, WifiDown, HandsInv, sendVars, storeVars,
                      httpVars
  <1>7. CASE PostOk
    BY <1>0, <1>7 DEF PostOk, HandsInv, sendVars, storeVars
  <1>8. CASE PostOffline \/ PostNoStatus \/ PostRejected
    <2>1. /\ UNCHANGED <<queue, next, item>> /\ http = "try"
          /\ \/ http' = "try" /\ stage' = stage /\ attempt' = attempt + 1 /\ attempt < Tries
             \/ http' = "store" /\ stage' = [stage EXCEPT !["http"] = "list"] /\ attempt' = attempt
      BY <1>8 DEF PostOffline, PostNoStatus, PostRejected, StoreItem, sendVars
    <2>2. attempt' \in 1 .. Tries
      BY <1>0, <2>1 DEF HandsInv
    <2>3. /\ stage' \in [Writers -> Stages] /\ stage'["telemetry"] = stage["telemetry"]
          /\ stage'["http"] # "idle" <=> http' = "store"
      BY <1>0, <1>1, <2>1 DEF HandsInv
    <2>4. QED
      BY <1>0, <2>1, <2>2, <2>3 DEF HandsInv
  <1>9. CASE Reboot
    <2>1. /\ queue' = <<>> /\ http' = "idle" /\ item' = 0 /\ attempt' = 1 /\ next' = next
          /\ stage' = [w \in Writers |-> "idle"]
      BY <1>9 DEF Reboot
    <2>2. queue' \in Seq(Msgs) /\ Len(queue') = 0
      BY <2>1
    <2>3. QED
      BY <1>0, <1>1, <2>1, <2>2 DEF HandsInv
  <1>10. CASE UNCHANGED vars
    BY <1>0, <1>10 DEF vars, sendVars, httpVars, storeVars, HandsInv
  <1>11. QED
    BY <1>2, <1>3, <1>4, <1>5, <1>6, <1>7, <1>8, <1>9, <1>10 DEF Next, Storing

\* The cloud and the bookkeeping of the stores.
BooksInv ==
    /\ arrived \in Seq(Msgs)
    /\ confirmed \in SUBSET Msgs /\ refused \in SUBSET Msgs
    /\ victims \in [Writers -> SUBSET Nat]
    /\ num \in [Writers -> 0 .. MaxMsgs] /\ seq \in 0 .. MaxMsgs
    /\ wifi \in BOOLEAN
    /\ faults \in 0 .. MaxFaults /\ reboots \in 0 .. MaxReboots

LEMMA NextBooks ==
  ASSUME Strong, [Next]_vars
  PROVE  BooksInv'
  <1>0. BooksInv /\ MaxMsgs \in Nat /\ MaxFaults \in Nat /\ MaxReboots \in Nat
    BY ConstantsAssumption DEF Strong, TypeOK, PathInv, ShapeInv, BooksInv
  <1>1. faults' \in 0 .. MaxFaults /\ reboots' \in 0 .. MaxReboots /\ wifi' \in BOOLEAN
    <2>1. faults' = faults \/ (faults < MaxFaults /\ faults' = faults + 1)
      BY DEF Next, vars, Send, List, Remove, Load, Bump, Full, Write, HttpBegin, HttpTake,
             HttpRest, PostOffline, PostOk, PostNoStatus, PostRejected, WifiUp, WifiDown,
             Reboot, Fault
    <2>2. reboots' = reboots \/ (reboots < MaxReboots /\ reboots' = reboots + 1)
      BY DEF Next, vars, Send, List, Remove, Load, Bump, Full, Write, HttpBegin, HttpTake,
             HttpRest, PostOffline, PostOk, PostNoStatus, PostRejected, WifiUp, WifiDown,
             Reboot
    <2>3. wifi' = wifi \/ wifi' = TRUE \/ wifi' = FALSE
      BY Zenon DEF Next, vars, Send, List, Remove, Load, Bump, Full, Write, HttpBegin, HttpTake,
             HttpRest, PostOffline, PostOk, PostNoStatus, PostRejected, WifiUp, WifiDown,
             Reboot
    <2>4. faults' \in 0 .. MaxFaults
      BY <1>0, <2>1 DEF BooksInv
    <2>5. reboots' \in 0 .. MaxReboots
      BY <1>0, <2>2 DEF BooksInv
    <2>6. wifi' \in BOOLEAN
      BY <1>0, <2>3, Zenon DEF BooksInv
    <2>7. QED
      BY <2>4, <2>5, <2>6
  <1>2. num' \in [Writers -> 0 .. MaxMsgs] /\ seq' \in 0 .. MaxMsgs
    <2>1. Cardinality(Done') \in 0 .. MaxMsgs /\ Cardinality(Done) \in Nat
      BY DoneGrows
    <2>2. seq' \in 0 .. MaxMsgs
      <3>1. seq' \in Nat
        BY <1>0 DEF Next, vars, Send, List, Remove, Load, Bump, Full, Write, HttpBegin, HttpTake,
             HttpRest, PostOffline, PostOk, PostNoStatus, PostRejected, WifiUp, WifiDown,
             Reboot, storeVars, BooksInv
      <3>2. seq' <= Cardinality(Done')
        BY NextCount DEF CountInv
      <3>3. QED
        BY <1>0, <2>1, <3>1, <3>2
    <2>3. ASSUME NEW w \in Writers, Load(w) PROVE num' \in [Writers -> 0 .. MaxMsgs]
      <3>1. Cardinality(Done) + 1 <= Cardinality(Done') /\ seq <= Cardinality(Done)
        BY <2>3, LoadAdds DEF Strong, CountInv
      <3>2. seq + 1 \in 0 .. MaxMsgs
        BY <1>0, <2>1, <3>1 DEF BooksInv
      <3>3. QED
        BY <1>0, <2>3, <3>2 DEF Load, BooksInv
    <2>4. CASE \E w \in Writers : Load(w)
      BY <2>2, <2>3, <2>4
    <2>5. CASE ~\E w \in Writers : Load(w)
      <3>1. num' = num \/ num' = [w \in Writers |-> 0]
        BY <2>5 DEF Next, vars, Send, List, Remove, Bump, Full, Write, HttpBegin, HttpTake,
             HttpRest, PostOffline, PostOk, PostNoStatus, PostRejected, WifiUp, WifiDown,
             Reboot, storeVars
      <3>2. QED
        BY <1>0, <2>2, <3>1 DEF BooksInv
    <2>6. QED
      BY <2>4, <2>5
  <1>3. victims' \in [Writers -> SUBSET Nat]
    <2>1. ASSUME NEW w \in Writers, List(w) PROVE victims' \in [Writers -> SUBSET Nat]
      <3>1. ASSUME NEW k PROVE {f.num : f \in Oldest(k)} \in SUBSET Nat
        <4>1. \A f \in files : f.num \in Nat
          BY DEF Strong, TypeOK
        <4>2. Oldest(k) \subseteq files
          BY DEF Oldest
        <4>3. QED
          BY <4>1, <4>2
      <3>2. QED
        BY <1>0, <2>1, <3>1 DEF List, BooksInv
    <2>2. ASSUME NEW w \in Writers, Remove(w) PROVE victims' \in [Writers -> SUBSET Nat]
      BY <1>0, <2>2 DEF Remove, BooksInv
    <2>3. CASE \E w \in Writers : List(w) \/ Remove(w)
      BY <2>1, <2>2, <2>3
    <2>4. CASE ~\E w \in Writers : List(w) \/ Remove(w)
      <3>1. victims' = victims \/ victims' = [w \in Writers |-> {}]
        BY <2>4 DEF Next, vars, Send, Load, Bump, Full, Write, HttpBegin, HttpTake,
             HttpRest, PostOffline, PostOk, PostNoStatus, PostRejected, WifiUp, WifiDown,
             Reboot, storeVars
      <3>2. QED
        BY <1>0, <3>1 DEF BooksInv
    <2>5. QED
      BY <2>3, <2>4
  <1>4. arrived' \in Seq(Msgs) /\ confirmed' \in SUBSET Msgs
    <2>1. ~UNCHANGED cloudVars => PostOk \/ PostNoStatus \/ PostRejected
      BY DEF Next, vars, Send, List, Remove, Load, Bump, Full, Write, HttpBegin, HttpTake,
             HttpRest, PostOffline, WifiUp, WifiDown, Reboot
    <2>2. CASE UNCHANGED cloudVars
      BY <1>0, <2>2 DEF cloudVars, BooksInv
    <2>3. CASE PostOk \/ PostNoStatus \/ PostRejected
      <3>1. item \in Msgs
        BY <2>3 DEF PostOk, PostNoStatus, PostRejected, Strong, TypeOK, PathInv, ShapeInv, Msgs
      <3>2. /\ arrived' \in {arrived, Append(arrived, item)}
            /\ confirmed' \in {confirmed, confirmed \union {item}}
        BY <2>3 DEF PostOk, PostNoStatus, PostRejected
      <3>3. arrived' \in Seq(Msgs)
        <4>1. arrived \in Seq(Msgs)
          BY <1>0 DEF BooksInv
        <4>2. Append(arrived, item) \in Seq(Msgs)
          BY <3>1, <4>1, Appended
        <4>3. QED
          BY <3>2, <4>1, <4>2
      <3>4. confirmed' \in SUBSET Msgs
        BY <1>0, <3>1, <3>2 DEF BooksInv
      <3>5. QED
        BY <3>3, <3>4
    <2>4. QED
      BY <2>1, <2>2, <2>3
  <1>5. refused' \in SUBSET Msgs
    <2>1. ASSUME NEW w \in Writers, Write(w) PROVE refused' \in SUBSET Msgs
      <3>1. Last(w) \in Msgs
        BY <2>1, InHand DEF Strong, Write
      <3>2. refused' \in {refused, refused \union {Last(w)}}
        BY <2>1, WriteSettles DEF Strong
      <3>3. QED
        BY <1>0, <3>1, <3>2 DEF BooksInv
    <2>2. CASE Reboot
      <3>1. \A m : InQueue(m) => m \in Msgs
        BY LenProperties, ElementOfSeq DEF InQueue, Strong, TypeOK
      <3>2. item # 0 => item \in Msgs
        BY DEF Strong, TypeOK, Msgs
      <3>3. \A m : Rejected(m) => m \in Msgs
        BY <1>0 DEF Rejected, Strong, TypeOK, PathInv, ShapeInv, Msgs
      <3>4. QED
        BY <1>0, <2>2, <3>1, <3>2, <3>3, RebootSettles DEF Strong, BooksInv
    <2>3. refused' = refused \/ Reboot \/ \E w \in Writers : Write(w)
      BY DEF Next, vars, Send, List, Remove, Load, Bump, Full, HttpBegin, HttpTake,
             HttpRest, PostOffline, PostOk, PostNoStatus, PostRejected, WifiUp, WifiDown
    <2>4. QED
      BY <1>0, <2>1, <2>2, <2>3 DEF BooksInv
  <1>6. QED
    BY <1>1, <1>2, <1>3, <1>4, <1>5 DEF BooksInv
-------------------------------------------------------------------------------
(* The invariant, and what follows from it.                                *)

LEMMA NextPath ==
  ASSUME Strong, [Next]_vars
  PROVE  OrderInv' /\ TriesInv' /\ FateInv'
  <1> USE DEF Strong
  <1>1. CASE Send
    BY <1>1, SendKeepsPath
  <1>2. ASSUME NEW w \in Writers, Storing(w) PROVE OrderInv' /\ TriesInv' /\ FateInv'
    BY <1>2, StoringIsQuiet, QuietKeepsPath DEF Storing
  <1>3. ASSUME NEW w \in Writers, Write(w) PROVE OrderInv' /\ TriesInv' /\ FateInv'
    BY <1>3, WriteKeepsPath
  <1>4. CASE HttpTake
    BY <1>4, TakeKeepsPath
  <1>5. CASE HttpBegin \/ HttpRest \/ PostOffline \/ WifiUp \/ WifiDown \/ UNCHANGED vars
    BY <1>5, LoopIsQuiet, QuietKeepsPath
  <1>6. CASE PostOk
    BY <1>6, PostOkKeepsPath
  <1>7. CASE PostNoStatus \/ PostRejected
    BY <1>7, PostFailsKeepsPath
  <1>8. CASE Reboot
    BY <1>8, RebootKeepsPath
  <1>9. QED
    BY <1>1, <1>2, <1>3, <1>4, <1>5, <1>6, <1>7, <1>8 DEF Next, Storing

LEMMA InitStrong ==
  ASSUME Init
  PROVE  Strong
  <1> USE DEF Init
  <1>0. /\ MaxMsgs \in Nat /\ Tries \in Nat \ {0} /\ QueueDepth \in Nat \ {0}
        /\ MaxFaults \in Nat /\ MaxReboots \in Nat /\ "idle" \notin Numbered
    BY ConstantsAssumption DEF Numbered
  <1>1. /\ <<>> \in Seq(Msgs) /\ <<>> \in Seq(Msgs \union {Torn}) /\ Len(<<>>) = 0
        /\ DOMAIN <<>> = {}
    BY EmptySeq
  <1>2. TypeOK
    <2>1. queue \in Seq(Msgs) /\ Len(queue) <= QueueDepth /\ queue = <<>>
      BY <1>0, <1>1
    <2>2. stage \in [Writers -> Stages] /\ stage["http"] = "idle"
      BY DEF Stages, Writers
    <2>3. num \in [Writers -> 0 .. MaxMsgs]
      BY <1>0
    <2>4. next \in 1 .. MaxMsgs + 1 /\ item \in 0 .. MaxMsgs /\ attempt \in 1 .. Tries
      BY <1>0
    <2>5. seq \in 0 .. MaxMsgs /\ faults \in 0 .. MaxFaults /\ reboots \in 0 .. MaxReboots
      BY <1>0
    <2>6. confirmed \union refused \subseteq Msgs /\ wifi \in BOOLEAN
      OBVIOUS
    <2>7. QED
      BY <2>1, <2>2, <2>3, <2>4, <2>5, <2>6 DEF TypeOK
  <1>3. ShapeInv
    BY <1>0, <1>1, FS_EmptySet DEF ShapeInv, Writers
  <1>4. OrderInv
    BY <1>1 DEF OrderInv, Writers
  <1>5. TriesInv
    <2>1. \A m : Receipts(m) = 0
      BY <1>1, FS_EmptySet DEF Receipts
    <2>2. QED
      BY <1>0, <2>1 DEF TriesInv
  <1>6. FateInv
    BY <1>1 DEF FateInv, Settled, Kept
  <1>7. CountInv
    <2>1. Cardinality(Done) \in 0 .. MaxMsgs
      BY DoneIsSmall
    <2>2. QED
      BY <1>0, <2>1 DEF CountInv
  <1>8. QED
    BY <1>2, <1>3, <1>4, <1>5, <1>6, <1>7 DEF Strong, PathInv

LEMMA NextStrong ==
  ASSUME Strong, [Next]_vars
  PROVE  Strong'
  <1>1. HandsInv' /\ BooksInv' /\ FilesInv' /\ made' \in Seq(Msgs \union {Torn})
    BY NextHands, NextBooks, NextFiles
  <1>2. TypeOK'
    BY <1>1 DEF TypeOK, HandsInv, BooksInv, FilesInv
  <1>3. ShapeInv'
    BY <1>1 DEF ShapeInv, HandsInv, BooksInv, FilesInv
  <1>4. QED
    BY <1>2, <1>3, NextPath, NextCount DEF Strong, PathInv

LEMMA StrongHolds ==
  Spec => []Strong
  <1>1. Init => Strong
    BY InitStrong
  <1>2. Strong /\ [Next]_vars => Strong'
    BY NextStrong
  <1>3. QED
    BY <1>1, <1>2, PTL DEF Spec

\* Every variable keeps its type: the number of a failure file never exceeds the number
\* of payloads, whatever increments the two tasks lose to each other
\* (storage_manager_store_http_failure).
THEOREM TypeCorrect ==
  Spec => []TypeOK
  <1>1. Strong => TypeOK
    BY DEF Strong
  <1>2. QED
    BY <1>1, StrongHolds, PTL

\* A payload given to smartload_http_send is never in two places and never in none, over
\* a full queue, failed POSTs, a full or broken flash and resets.
THEOREM OneFateHolds ==
  Spec => []OneFate
  <1>1. ASSUME Strong, NEW m \in 1 .. next - 1 PROVE Cardinality(Places(m)) = 1
    <2> USE <1>1
    <2> DEFINE P == {"queue", "posting", "rejected", "confirmed", "stored", "refused"}
    <2>0. /\ m \in Msgs /\ m # 0 /\ item \in Nat /\ next \in Nat
          /\ \A i \in DOMAIN queue : queue[i] \in Nat
      <3>1. MaxMsgs \in Nat
        BY ConstantsAssumption
      <3>2. QED
        BY <3>1, LenProperties, ElementOfSeq DEF Strong, TypeOK, Msgs
    <2>1. /\ "queue" \in Places(m) <=> InQueue(m)
          /\ "posting" \in Places(m) <=> item = m
          /\ "rejected" \in Places(m) <=> Rejected(m)
          /\ "confirmed" \in Places(m) <=> m \in confirmed
          /\ "stored" \in Places(m) <=> Kept(m)
          /\ "refused" \in Places(m) <=> m \in refused
      BY DEF Places, InQueue, Rejected, Kept
    <2>2. Places(m) \subseteq P
      BY DEF Places
    <2>3. Live(m) <=> ~Settled(m)
      BY DEF Strong, PathInv, FateInv
    <2>4. ~(InQueue(m) /\ item = m) /\ ~(InQueue(m) /\ Rejected(m)) /\ ~(item = m /\ Rejected(m))
      BY <2>0 DEF Strong, PathInv, OrderInv, InQueue, Rejected
    <2>5. ~(m \in confirmed /\ m \in refused) /\ ~(m \in confirmed /\ Kept(m))
             /\ ~(m \in refused /\ Kept(m))
      BY DEF Strong, PathInv, FateInv
    <2>6. \E p \in P : Places(m) = {p}
      <3>1. CASE Live(m)
        <4>1. Places(m) \intersect {"confirmed", "stored", "refused"} = {}
          BY <2>1, <2>3, <3>1 DEF Settled
        <4>2. CASE InQueue(m)
          <5>1. Places(m) = {"queue"}
            BY <2>1, <2>2, <2>4, <4>1, <4>2
          <5>2. QED
            BY <5>1
        <4>3. CASE item = m
          <5>1. Places(m) = {"posting"}
            BY <2>1, <2>2, <2>4, <4>1, <4>3
          <5>2. QED
            BY <5>1
        <4>4. CASE Rejected(m)
          <5>1. Places(m) = {"rejected"}
            BY <2>1, <2>2, <2>4, <4>1, <4>4
          <5>2. QED
            BY <5>1
        <4>5. QED
          BY <3>1, <4>2, <4>3, <4>4 DEF Live
      <3>2. CASE Settled(m)
        <4>1. Places(m) \intersect {"queue", "posting", "rejected"} = {}
          BY <2>1, <2>3, <3>2 DEF Live
        <4>2. CASE m \in confirmed
          <5>1. Places(m) = {"confirmed"}
            BY <2>1, <2>2, <2>5, <4>1, <4>2
          <5>2. QED
            BY <5>1
        <4>3. CASE m \in refused
          <5>1. Places(m) = {"refused"}
            BY <2>1, <2>2, <2>5, <4>1, <4>3
          <5>2. QED
            BY <5>1
        <4>4. CASE Kept(m)
          <5>1. Places(m) = {"stored"}
            BY <2>1, <2>2, <2>5, <4>1, <4>4
          <5>2. QED
            BY <5>1
        <4>5. QED
          BY <3>2, <4>2, <4>3, <4>4 DEF Settled
      <3>3. QED
        BY <2>3, <3>1, <3>2
    <2>7. QED
      BY <2>6, FS_Singleton
  <1>2. Strong => OneFate
    BY <1>1 DEF OneFate
  <1>3. QED
    BY <1>2, StrongHolds, PTL

\* The service sees the payloads in the order of smartload_http_send, each at most
\* retry_max times.
THEOREM ArrivesInOrderHolds ==
  Spec => []ArrivesInOrder
  <1>1. Strong => ArrivesInOrder
    BY DEF Strong, PathInv, OrderInv, TriesInv, Receipts, ArrivesInOrder
  <1>2. QED
    BY <1>1, StrongHolds, PTL
-------------------------------------------------------------------------------
(* The number of files.                                                    *)

\* A set of numbers has a least one.
LEMMA LeastNumber ==
  ASSUME NEW T \in SUBSET Nat, T # {}
  PROVE  \E n \in T : \A m \in T : n <= m
  <1> DEFINE R == {ss \in Nat \X Nat : ss[1] < ss[2]}
  <1>1. IsWellFoundedOn(R, Nat)
    BY NatLessThanWellFounded DEF OpToRel
  <1>2. \E n \in T : \A m \in T : <<m, n>> \notin R
    <2> HIDE DEF R
    <2>1. QED
      BY <1>1, WFMin
  <1>3. \A m, n \in T : <<m, n>> \notin R => n <= m
    OBVIOUS
  <1>4. QED
    <2> HIDE DEF R
    <2>1. QED
      BY <1>2, <1>3

\* The numbers of files that a rotation or a cleanup may leave.
LEMMA Limits ==
  /\ \A k \in Leaves(Keep) : k \in Nat /\ k <= Keep /\ k >= Keep - Foreign
  /\ \A k \in Leaves(Keep) \union Leaves(KeepHard) : k \in Nat /\ k >= KeepHard - Foreign
  BY ConstantsAssumption DEF Leaves

\* A rotation that leaves the k newest leaves no more than k.
LEMMA RotationLeaves ==
  ASSUME Strong, NEW k \in Nat
  PROVE  IsFiniteSet(files \ Oldest(k)) /\ Cardinality(files \ Oldest(k)) <= k
  <1> DEFINE S == files \ Oldest(k)
             Newer(f) == {g \in files : g.at > f.at}
  <1>1. /\ IsFiniteSet(files) /\ \A f \in files : f.at \in Nat
        /\ \A f, g \in files : f.at = g.at => f = g
    BY DEF Strong, PathInv, ShapeInv
  <1>2. IsFiniteSet(S)
    BY <1>1, FS_Subset
  <1>3. CASE S = {}
    BY <1>2, <1>3, FS_EmptySet
  <1>4. CASE S # {}
    <2> DEFINE Ats == {f.at : f \in S}
    <2>1. Ats \subseteq Nat /\ Ats # {}
      BY <1>1, <1>4
    <2>2. PICK n \in Ats : \A m \in Ats : n <= m
      <3> HIDE DEF Ats
      <3>1. QED
        BY <2>1, LeastNumber
    <2>3. PICK f \in S : f.at = n
      BY <2>2
    <2>4. ASSUME NEW g \in S \ {f} PROVE g.at > f.at
      <3>1. g.at \in Ats /\ g.at \in Nat /\ f.at \in Nat /\ g.at # f.at
        BY <1>1, <2>3, <2>4
      <3>2. QED
        BY <2>2, <2>3, <3>1
    <2>5. S \ {f} \subseteq Newer(f) /\ IsFiniteSet(Newer(f))
      BY <1>1, <2>4, FS_Subset
    <2>6. Cardinality(Newer(f)) \in Nat /\ ~(Cardinality(Newer(f)) >= k)
      BY <2>3, <2>5, FS_CardinalityType DEF Oldest
    <2>7. Cardinality(S \ {f}) <= Cardinality(Newer(f))
      BY <2>5, FS_Subset
    <2>8. Cardinality(S \ {f}) = Cardinality(S) - 1 /\ Cardinality(S) \in Nat
      BY <1>2, <2>3, FS_RemoveElement, FS_CardinalityType
    <2>9. Cardinality(S) <= k
      BY <2>6, <2>7, <2>8
    <2>10. QED
      BY <1>2, <2>9
  <1>5. QED
    BY <1>3, <1>4

\* A writer that has its rotation behind it is about to add a file.
Due(w) == IF stage[w] \in Numbered \union {"load"} THEN 1 ELSE 0

\* The files its rotation will leave.
Rest(w) == {f \in files : f.num \notin victims[w]}

\* The limit counts the files that are due; each rotation under way will leave one
\* place, and two under way at once leave two, whichever removes first.
BoundInv ==
    /\ Cardinality(files) + Due("telemetry") + Due("http") <= Keep + 2
    /\ \A w \in Writers : stage[w] = "remove" =>
          Cardinality(Rest(w)) + Due("telemetry") + Due("http") <= Keep + 1
    /\ stage["telemetry"] = "remove" /\ stage["http"] = "remove" =>
          Cardinality(Rest("telemetry") \intersect Rest("http")) <= Keep

\* Fewer files, none of them due that was not, and no rotation begun keep the limit.
LEMMA FewerFiles ==
  ASSUME Strong, Strong', BoundInv, files' \subseteq files,
         \A w \in Writers : /\ Due(w)' <= Due(w)
                            /\ stage'[w] = "remove" =>
                                  stage[w] = "remove" /\ victims'[w] = victims[w]
  PROVE  BoundInv'
  <1>0. /\ IsFiniteSet(files) /\ IsFiniteSet(files') /\ Keep \in Nat
        /\ "telemetry" \in Writers /\ "http" \in Writers
    BY ConstantsAssumption DEF Strong, PathInv, ShapeInv, Writers
  <1>1. \A w : Due(w) \in {0, 1} /\ Due(w)' \in {0, 1}
    BY DEF Due
  <1>2. /\ Cardinality(files') <= Cardinality(files)
        /\ Cardinality(files) \in Nat /\ Cardinality(files') \in Nat
    BY <1>0, FS_Subset, FS_CardinalityType
  <1>3. ASSUME NEW w \in Writers, stage'[w] = "remove"
        PROVE  /\ Rest(w)' \subseteq Rest(w)
               /\ Cardinality(Rest(w)') <= Cardinality(Rest(w))
               /\ Cardinality(Rest(w)) \in Nat /\ Cardinality(Rest(w)') \in Nat
               /\ IsFiniteSet(Rest(w))
    <2>1. Rest(w)' \subseteq Rest(w) /\ Rest(w) \subseteq files
      BY <1>3 DEF Rest
    <2>2. IsFiniteSet(Rest(w))
      BY <1>0, <2>1, FS_Subset
    <2>3. QED
      BY <2>1, <2>2, FS_Subset, FS_CardinalityType
  <1>4. Cardinality(files') + Due("telemetry")' + Due("http")' <= Keep + 2
    BY <1>0, <1>1, <1>2 DEF BoundInv
  <1>5. ASSUME NEW w \in Writers, stage'[w] = "remove"
        PROVE  Cardinality(Rest(w)') + Due("telemetry")' + Due("http")' <= Keep + 1
    BY <1>0, <1>1, <1>3, <1>5 DEF BoundInv
  <1>6. ASSUME stage'["telemetry"] = "remove", stage'["http"] = "remove"
        PROVE  Cardinality(Rest("telemetry")' \intersect Rest("http")') <= Keep
    <2> DEFINE R == Rest("telemetry") \intersect Rest("http")
               RR == Rest("telemetry")' \intersect Rest("http")'
    <2>1. RR \subseteq R /\ IsFiniteSet(R)
      BY <1>0, <1>3, <1>6, FS_Subset
    <2>2. Cardinality(RR) <= Cardinality(R) /\ Cardinality(R) \in Nat /\ Cardinality(RR) \in Nat
      BY <2>1, FS_Subset, FS_CardinalityType
    <2>3. Cardinality(R) <= Keep
      BY <1>0, <1>6 DEF BoundInv
    <2>4. QED
      BY <1>0, <2>2, <2>3
  <1>7. QED
    BY <1>4, <1>5, <1>6 DEF BoundInv

\* A rotation begun will leave no more than the limit.
LEMMA ListKeepsBound ==
  ASSUME Strong, Strong', BoundInv, NEW w \in Writers, List(w)
  PROVE  BoundInv'
  <1>a. PICK k \in Leaves(Keep) :
               victims' = [victims EXCEPT ![w] = {f.num : f \in Oldest(k)}]
    BY DEF List
  <1>0. /\ stage \in [Writers -> Stages] /\ victims \in [Writers -> SUBSET Nat] /\ Keep \in Nat
        /\ stage[w] \in {"list", "relist"} /\ files' = files
        /\ victims' = [victims EXCEPT ![w] = {f.num : f \in Oldest(k)}]
        /\ k \in Nat /\ k <= Keep
        /\ stage' = [stage EXCEPT ![w] = IF @ = "list" THEN "remove" ELSE "reremove"]
    BY <1>a, Limits, ConstantsAssumption DEF List, Strong, TypeOK, PathInv, ShapeInv
  <1>1. \A v \in Writers : v # w => stage'[v] = stage[v] /\ victims'[v] = victims[v]
    BY <1>0
  <1>2. \A v \in Writers : Due(v)' = Due(v)
    BY <1>0, <1>1 DEF Due, Numbered
  <1>3. CASE stage[w] = "relist"
    <2>1. stage'[w] # "remove"
      BY <1>0, <1>3
    <2>2. \A v \in Writers : /\ Due(v)' <= Due(v)
                             /\ stage'[v] = "remove" =>
                                   stage[v] = "remove" /\ victims'[v] = victims[v]
      BY <1>1, <1>2, <2>1 DEF Due
    <2>3. QED
      BY <1>0, <2>2, FewerFiles
  <1>4. CASE stage[w] = "list"
    <2>1. Rest(w)' \subseteq files \ Oldest(k)
      <3>1. victims'[w] = {f.num : f \in Oldest(k)}
        BY <1>0
      <3>2. QED
        BY <1>0, <3>1 DEF Rest, Oldest
    <2>2. /\ IsFiniteSet(Rest(w)') /\ Cardinality(Rest(w)') \in Nat
          /\ Cardinality(Rest(w)') <= Keep
      <3>1. IsFiniteSet(files \ Oldest(k)) /\ Cardinality(files \ Oldest(k)) <= k
        BY <1>0, RotationLeaves
      <3>2. Cardinality(files \ Oldest(k)) \in Nat
        BY <3>1, FS_CardinalityType
      <3>3. /\ IsFiniteSet(Rest(w)') /\ Cardinality(Rest(w)') <= Cardinality(files \ Oldest(k))
        BY <2>1, <3>1, FS_Subset
      <3>4. Cardinality(Rest(w)') \in Nat
        BY <3>3, FS_CardinalityType
      <3>5. QED
        BY <1>0, <3>1, <3>2, <3>3, <3>4
    <2>3. Due(w)' = 0 /\ \A v : Due(v)' \in {0, 1}
      BY <1>0, <1>4 DEF Due, Numbered
    <2>4. ASSUME NEW v \in Writers, stage'[v] = "remove"
          PROVE  Cardinality(Rest(v)') + Due("telemetry")' + Due("http")' <= Keep + 1
      <3>1. CASE v = w
        BY <1>0, <2>2, <2>3, <3>1 DEF Writers
      <3>2. CASE v # w
        <4>1. Rest(v)' = Rest(v)
          BY <1>0, <1>1, <3>2 DEF Rest
        <4>2. stage[v] = "remove"
          BY <1>1, <2>4, <3>2
        <4>3. Due("telemetry")' = Due("telemetry") /\ Due("http")' = Due("http")
          BY <1>2 DEF Writers
        <4>4. QED
          BY <4>1, <4>2, <4>3 DEF BoundInv
      <3>3. QED
        BY <3>1, <3>2
    <2>5. Cardinality(Rest("telemetry")' \intersect Rest("http")') <= Keep
      <3>1. Rest("telemetry")' \intersect Rest("http")' \subseteq Rest(w)'
        BY DEF Writers
      <3>2. /\ Cardinality(Rest("telemetry")' \intersect Rest("http")') <= Cardinality(Rest(w)')
            /\ IsFiniteSet(Rest("telemetry")' \intersect Rest("http")')
        BY <2>2, <3>1, FS_Subset
      <3>3. Cardinality(Rest("telemetry")' \intersect Rest("http")') \in Nat
        BY <3>2, FS_CardinalityType
      <3>4. QED
        BY <1>0, <2>2, <3>2, <3>3
    <2>6. Cardinality(files') + Due("telemetry")' + Due("http")' <= Keep + 2
      <3>1. Due("telemetry")' = Due("telemetry") /\ Due("http")' = Due("http")
        BY <1>2 DEF Writers
      <3>2. QED
        BY <1>0, <3>1 DEF BoundInv
    <2>7. QED
      BY <2>4, <2>5, <2>6 DEF BoundInv
  <1>5. QED
    BY <1>0, <1>3, <1>4

\* It leaves them when it removes, whatever the other rotation removed meanwhile.
LEMMA RemoveKeepsBound ==
  ASSUME Strong, Strong', BoundInv, NEW w \in Writers, Remove(w)
  PROVE  BoundInv'
  <1>0. /\ stage \in [Writers -> Stages] /\ victims \in [Writers -> SUBSET Nat] /\ Keep \in Nat
        /\ stage[w] \in {"remove", "reremove"}
        /\ victims' = [victims EXCEPT ![w] = {}]
        /\ stage' = [stage EXCEPT ![w] = IF @ = "remove" THEN "load" ELSE "rewrite"]
        /\ files' = Rest(w)
    BY ConstantsAssumption DEF Remove, Strong, TypeOK, PathInv, ShapeInv, Rest
  <1>1. \A v \in Writers : v # w => stage'[v] = stage[v] /\ victims'[v] = victims[v]
    BY <1>0
  <1>2. stage'[w] # "remove"
    BY <1>0
  <1>3. CASE stage[w] = "reremove"
    <2>1. \A v \in Writers : Due(v)' = Due(v)
      BY <1>0, <1>1, <1>3 DEF Due, Numbered
    <2>2. \A v \in Writers : /\ Due(v)' <= Due(v)
                             /\ stage'[v] = "remove" =>
                                   stage[v] = "remove" /\ victims'[v] = victims[v]
      BY <1>1, <1>2, <2>1 DEF Due
    <2>3. files' \subseteq files
      BY <1>0 DEF Rest
    <2>4. QED
      BY <2>2, <2>3, FewerFiles
  <1>4. CASE stage[w] = "remove"
    <2>1. Due(w) = 0 /\ Due(w)' = 1 /\ \A v : Due(v) \in {0, 1} /\ Due(v)' \in {0, 1}
      BY <1>0, <1>4 DEF Due, Numbered
    <2>2. IsFiniteSet(files') /\ Cardinality(files') \in Nat
      BY FS_CardinalityType DEF Strong, PathInv, ShapeInv
    <2>3. PICK v \in Writers : v # w /\ Writers = {v, w}
      BY DEF Writers
    <2>4. Due(v)' = Due(v)
      BY <1>1, <2>3 DEF Due
    <2>5. \A a, b : Writers = {a, b} /\ a # b =>
             Due("telemetry") + Due("http") = Due(a) + Due(b)
             /\ Due("telemetry")' + Due("http")' = Due(a)' + Due(b)'
      BY <2>1 DEF Writers
    <2>6. Due("telemetry") + Due("http") = Due(v)
             /\ Due("telemetry")' + Due("http")' = Due(v) + 1
      BY <2>1, <2>3, <2>4, <2>5
    <2>7. Cardinality(files') + Due("telemetry") + Due("http") <= Keep + 1
      BY <1>0, <1>4 DEF BoundInv
    <2>8. Cardinality(files') + Due("telemetry")' + Due("http")' <= Keep + 2
      BY <1>0, <2>1, <2>2, <2>6, <2>7
    <2>9. ASSUME NEW u \in Writers, stage'[u] = "remove"
          PROVE  Cardinality(Rest(u)') + Due("telemetry")' + Due("http")' <= Keep + 1
      <3>1. u = v /\ stage[v] = "remove" /\ Due(v) = 0
        BY <1>1, <1>2, <2>3, <2>9 DEF Due, Numbered
      <3>2. Rest(v)' = Rest(v) \intersect Rest(w)
        BY <1>0, <1>1, <2>3 DEF Rest
      <3>3. Rest(v)' = Rest("telemetry") \intersect Rest("http")
        BY <2>3, <3>2 DEF Writers
      <3>4. stage["telemetry"] = "remove" /\ stage["http"] = "remove"
        BY <1>4, <2>3, <3>1 DEF Writers
      <3>5. Cardinality(Rest(v)') <= Keep
        BY <3>3, <3>4 DEF BoundInv
      <3>6. Cardinality(Rest(v)') \in Nat
        <4>1. Rest(v)' \subseteq files'
          BY DEF Rest
        <4>2. QED
          BY <2>2, <4>1, FS_Subset, FS_CardinalityType
      <3>7. QED
        <4>1. Cardinality(Rest(v)') + Due("telemetry")' + Due("http")' <= Keep + 1
          <5>1. Due("telemetry")' + Due("http")' = 1
            BY <2>6, <3>1
          <5>2. Due("telemetry")' \in Nat /\ Due("http")' \in Nat
            BY <2>1
          <5>3. QED
            BY <1>0, <3>5, <3>6, <5>1, <5>2
        <4>2. QED
          BY <3>1, <4>1, Zenon
    <2>10. ~(stage'["telemetry"] = "remove" /\ stage'["http"] = "remove")
      BY <1>2 DEF Writers
    <2>11. QED
      BY <2>8, <2>9, <2>10 DEF BoundInv
  <1>5. QED
    BY <1>0, <1>3, <1>4

\* A write adds one file at most, which was due.
LEMMA WriteKeepsBound ==
  ASSUME Strong, Strong', BoundInv, NEW w \in Writers, Write(w)
  PROVE  BoundInv'
  <1>0. /\ stage \in [Writers -> Stages] /\ Keep \in Nat
        /\ stage[w] \in {"write", "rewrite"}
        /\ victims' = victims /\ stage' = [stage EXCEPT ![w] = "idle"]
    BY ConstantsAssumption DEF Write, Stored, Strong, TypeOK
  <1>1. \E x : files' \subseteq files \union {x}
    BY WriteFiles DEF Written
  <1>2. PICK x : files' \subseteq files \union {x}
    BY <1>1
  <1>3. stage'[w] = "idle" /\ \A v \in Writers : v # w => stage'[v] = stage[v]
    BY <1>0
  <1>4. Due(w) = 1 /\ Due(w)' = 0 /\ \A v : Due(v) \in {0, 1} /\ Due(v)' \in {0, 1}
    BY <1>0, <1>3 DEF Due, Numbered
  <1>5. \A v \in Writers : v # w => Due(v)' = Due(v)
    BY <1>3 DEF Due
  <1>6. Due("telemetry")' + Due("http")' + 1 = Due("telemetry") + Due("http")
    BY <1>4, <1>5 DEF Writers
  <1>7. ASSUME NEW S, NEW T, S \subseteq T \union {x}, IsFiniteSet(T)
        PROVE  /\ Cardinality(S) <= Cardinality(T) + 1
               /\ Cardinality(S) \in Nat /\ Cardinality(T) \in Nat
    <2>1. /\ IsFiniteSet(T \union {x}) /\ Cardinality(T) \in Nat
          /\ Cardinality(T \union {x}) <= Cardinality(T) + 1
      <3>1. Cardinality(T) \in Nat
        BY <1>7, FS_CardinalityType
      <3>2. QED
        BY <1>7, <3>1, FS_AddElement
    <2>2. Cardinality(S) <= Cardinality(T \union {x}) /\ IsFiniteSet(S)
      BY <1>7, <2>1, FS_Subset
    <2>3. Cardinality(S) \in Nat /\ Cardinality(T \union {x}) \in Nat
      BY <2>1, <2>2, FS_CardinalityType
    <2>4. QED
      BY <2>1, <2>2, <2>3
  <1>8. IsFiniteSet(files)
    BY DEF Strong, PathInv, ShapeInv
  <1>9. Cardinality(files') + Due("telemetry")' + Due("http")' <= Keep + 2
    <2>1. /\ Cardinality(files') <= Cardinality(files) + 1
          /\ Cardinality(files') \in Nat /\ Cardinality(files) \in Nat
      BY <1>2, <1>7, <1>8
    <2>2. Cardinality(files) + Due("telemetry") + Due("http") <= Keep + 2
      BY DEF BoundInv
    <2>3. QED
      BY <1>0, <1>4, <1>6, <2>1, <2>2
  <1>10. ASSUME NEW v \in Writers, stage'[v] = "remove"
         PROVE  Cardinality(Rest(v)') + Due("telemetry")' + Due("http")' <= Keep + 1
    <2>1. v # w /\ stage[v] = "remove"
      BY <1>3, <1>10
    <2>2. Rest(v)' \subseteq Rest(v) \union {x} /\ Rest(v) \subseteq files
      BY <1>0, <1>2 DEF Rest
    <2>3. /\ Cardinality(Rest(v)') <= Cardinality(Rest(v)) + 1
          /\ Cardinality(Rest(v)') \in Nat /\ Cardinality(Rest(v)) \in Nat
      BY <1>7, <1>8, <2>2, FS_Subset
    <2>4. Cardinality(Rest(v)) + Due("telemetry") + Due("http") <= Keep + 1
      BY <2>1 DEF BoundInv
    <2>5. QED
      BY <1>0, <1>4, <1>6, <2>3, <2>4
  <1>11. ~(stage'["telemetry"] = "remove" /\ stage'["http"] = "remove")
    BY <1>3 DEF Writers
  <1>12. QED
    BY <1>9, <1>10, <1>11 DEF BoundInv

LEMMA NextBound ==
  ASSUME Strong, Strong', BoundInv, [Next]_vars
  PROVE  BoundInv'
  <1>0. stage \in [Writers -> Stages]
    BY DEF Strong, TypeOK
  <1>1. ASSUME files' = files,
               \A v \in Writers : \/ stage'[v] = stage[v] /\ victims'[v] = victims[v]
                                  \/ stage'[v] \in {"idle", "list"}
                                  \/ /\ stage[v] \in Numbered \union {"load"}
                                     /\ stage'[v] # "remove"
        PROVE  BoundInv'
    <2>1. \A v \in Writers : Due(v)' <= Due(v)
      BY <1>1 DEF Due, Numbered
    <2>2. \A v \in Writers : stage'[v] = "remove" => stage[v] = "remove" /\ victims'[v] = victims[v]
      BY <1>1
    <2>3. QED
      BY <1>1, <2>1, <2>2, FewerFiles
  <1>2. CASE Send
    BY <1>0, <1>1, <1>2 DEF Send, Writers
  <1>3. ASSUME NEW w \in Writers, Load(w) \/ Bump(w) \/ Full(w) PROVE BoundInv'
    <2>1. files' = files /\ victims' = victims
      BY <1>3 DEF Load, Bump, Full
    <2>2. stage[w] \in {"load", "bump", "write"} /\ stage'[w] # "remove"
      BY <1>0, <1>3 DEF Load, Bump, Full
    <2>3. \A v \in Writers : v # w => stage'[v] = stage[v]
      BY <1>0, <1>3 DEF Load, Bump, Full
    <2>4. QED
      BY <1>1, <2>1, <2>2, <2>3 DEF Numbered
  <1>4. CASE Moving
    <2>1. files' = files /\ victims' = victims /\ stage'["telemetry"] = stage["telemetry"]
      BY <1>4, MovingStages DEF Strong
    <2>2. stage'["http"] = stage["http"] \/ stage'["http"] = "list"
      BY <1>4, MovingStages DEF Strong
    <2>3. QED
      BY <1>1, <2>1, <2>2 DEF Writers
  <1>5. CASE Reboot
    BY <1>1, <1>5 DEF Reboot
  <1>6. CASE UNCHANGED vars
    BY <1>1, <1>6 DEF vars, storeVars
  <1>7. QED
    BY <1>2, <1>3, <1>4, <1>5, <1>6, ListKeepsBound, RemoveKeepsBound, WriteKeepsBound
    DEF Next, Moving

\* The failure files never outgrow the limit of storage_rotate_prefix by more than the
\* two tasks, though the rotation, the numbering and the write are separate steps of
\* both and either may rotate a second time.
THEOREM StoreBoundedHolds ==
  Spec => []StoreBounded
  <1>1. Init => BoundInv
    <2>1. SUFFICES ASSUME Init PROVE BoundInv
      OBVIOUS
    <2>2. /\ files = {} /\ \A w \in Writers : stage[w] = "idle" /\ Due(w) = 0
          /\ Keep \in Nat /\ "telemetry" \in Writers /\ "http" \in Writers
      BY <2>1, ConstantsAssumption DEF Init, Due, Numbered, Writers
    <2>3. QED
      BY <2>2, FS_EmptySet DEF BoundInv
  <1>2. BoundInv /\ Strong /\ Strong' /\ [Next]_vars => BoundInv'
    BY NextBound
  <1>3. BoundInv /\ Strong => StoreBounded
    <2>1. SUFFICES ASSUME BoundInv, Strong PROVE StoreBounded
      OBVIOUS
    <2>2. Cardinality(Writers) = 2
      <3>1. IsFiniteSet({"http"}) /\ Cardinality({"http"}) = 1
        BY FS_Singleton
      <3>2. Writers = {"http"} \union {"telemetry"} /\ "telemetry" \notin {"http"}
        BY DEF Writers
      <3>3. QED
        BY <3>1, <3>2, FS_AddElement
    <2>3. Due("telemetry") \in Nat /\ Due("http") \in Nat
      BY DEF Due
    <2>4. Cardinality(files) \in Nat
      BY <2>1, FS_CardinalityType DEF Strong, PathInv, ShapeInv
    <2>5. QED
      BY <2>1, <2>2, <2>3, <2>4, ConstantsAssumption DEF BoundInv, StoreBounded
  <1>4. QED
    BY <1>1, <1>2, <1>3, StrongHolds, PTL DEF Spec
-------------------------------------------------------------------------------
(* One writer at a time keeps the newest.                                  *)

\* While one task stores at a time, every number is new, and only files that Keep newer
\* contents have followed are about to be removed.
NewestInv ==
    /\ \A f \in files : f.num <= seq
    /\ \A f, g \in files : f.num = g.num => f = g
    /\ \A w \in Writers :
        /\ stage[w] = "bump" => num[w] = seq + 1
        /\ stage[w] \in {"write", "relist", "reremove", "rewrite"} =>
              num[w] = seq /\ \A f \in files : f.num < seq
        /\ stage[w] \notin {"remove", "reremove"} => victims[w] = {}
        /\ \A f \in files : f.num \in victims[w] => Len(made) - f.at >= Keep - Foreign
    /\ NewestKept

\* A file that k newer ones make too old has had k contents written after its own.
LEMMA OldestAreOld ==
  ASSUME Strong, NEW k \in Nat, NEW f \in Oldest(k)
  PROVE  Len(made) - f.at >= k
  <1> DEFINE G == {g \in files : g.at > f.at}
             T == f.at + 1 .. Len(made)
             h == [g \in G |-> g.at]
  <1>1. /\ f \in files /\ Cardinality(G) >= k
        /\ Len(made) \in Nat /\ \A g \in files : g.at \in 1 .. Len(made)
        /\ \A e, g \in files : e.at = g.at => e = g
        /\ IsFiniteSet(files)
    BY LenProperties DEF Strong, PathInv, ShapeInv, Oldest
  <1>2. h \in Injection(G, T)
    <2>1. \A g \in G : g.at \in T
      BY <1>1
    <2>2. h \in [G -> T]
      BY <2>1
    <2>3. \A x, y \in G : h[x] = h[y] => x = y
      BY <1>1
    <2>4. QED
      BY <2>2, <2>3 DEF Injection, IsInjective
  <1>3. IsFiniteSet(T) /\ Cardinality(T) = Len(made) - f.at
    <2>1. f.at \in 1 .. Len(made)
      BY <1>1
    <2>2. f.at + 1 \in Int /\ Len(made) \in Int
      BY <1>1, <2>1
    <2>3. /\ IsFiniteSet(T)
          /\ Cardinality(T) = IF f.at + 1 > Len(made) THEN 0 ELSE Len(made) - (f.at + 1) + 1
      BY <2>2, FS_Interval
    <2>4. QED
      BY <1>1, <2>1, <2>3
  <1>4. Cardinality(G) <= Cardinality(T) /\ Cardinality(G) \in Nat
    <2> HIDE DEF h
    <2>1. Cardinality(G) <= Cardinality(T) /\ IsFiniteSet(G)
      BY <1>2, <1>3, FS_Injection
    <2>2. QED
      BY <2>1, FS_CardinalityType
  <1>5. QED
    BY <1>1, <1>3, <1>4

\* A step that only drops files dropped for their age, or none, keeps the newest.
LEMMA WriteKeepsNewest ==
  ASSUME Strong, NewestInv, OneWriterAtATime, NEW w \in Writers, Write(w)
  PROVE  NewestInv'
  <1>0. /\ stage \in [Writers -> Stages] /\ stage[w] \in {"write", "rewrite"}
        /\ stage' = [stage EXCEPT ![w] = "idle"]
        /\ UNCHANGED <<victims, num, seq>>
        /\ Keep \in Nat /\ KeepHard \in Nat /\ KeepHard <= Keep /\ Foreign \in {0, 1} /\ seq \in Nat
        /\ num[w] = seq /\ \A f \in files : f.num \in Nat /\ f.num < seq
        /\ made \in Seq(Msgs \union {Torn}) /\ Len(made) \in Nat
        /\ \A f \in files : f.at \in 1 .. Len(made)
    <2>1. /\ stage \in [Writers -> Stages] /\ stage[w] \in {"write", "rewrite"}
          /\ stage' = [stage EXCEPT ![w] = "idle"] /\ UNCHANGED <<victims, num, seq>>
      BY DEF Write, Stored, Strong, TypeOK
    <2>2. Keep \in Nat /\ KeepHard \in Nat /\ KeepHard <= Keep /\ Foreign \in {0, 1}
      BY ConstantsAssumption
    <2>3. num[w] = seq /\ \A f \in files : f.num < seq
      BY <2>1 DEF NewestInv
    <2>4. seq \in Nat /\ \A f \in files : f.num \in Nat
      BY DEF Strong, TypeOK
    <2>5. made \in Seq(Msgs \union {Torn}) /\ \A f \in files : f.at \in 1 .. Len(made)
      BY DEF Strong, PathInv, ShapeInv
    <2>6. QED
      BY <2>1, <2>2, <2>3, <2>4, <2>5, LenProperties
  <1>1. \A v \in Writers : /\ v # w => stage[v] = "idle"
                           /\ stage'[v] = "idle" /\ victims[v] = {} /\ victims'[v] = {}
    BY <1>0 DEF OneWriterAtATime, Writers, NewestInv
  <1>2. ASSUME NEW kept \in SUBSET files, NEW what \in Msgs \union {Torn},
               \A f \in files \ kept : Len(made) - f.at >= KeepHard - Foreign,
               \/ files' = kept /\ made' = made
               \/ files' = Written(w, kept, what) /\ made' = Append(made, what)
        PROVE  NewestInv'
    <2>1. CASE files' = kept /\ made' = made
      <3>1. \A f \in files' : f \in files
        BY <2>1
      <3>2. NewestKept'
        <4>1. ASSUME NEW i \in DOMAIN made, made[i] # Torn, Len(made) - i < KeepHard - Foreign
              PROVE  \E f \in kept : f.at = i
          <5>1. PICK f \in files : f.at = i
            BY <4>1 DEF NewestInv, NewestKept
          <5>2. f \in kept
            BY <1>0, <1>2, <4>1, <5>1
          <5>3. QED
            BY <5>1, <5>2
        <4>2. QED
          BY <2>1, <4>1 DEF NewestKept
      <3>3. QED
        BY <1>0, <1>1, <3>1, <3>2 DEF NewestInv
    <2>2. CASE files' = Written(w, kept, what) /\ made' = Append(made, what)
      <3> DEFINE n == Len(made)
                 new == [num |-> num[w], what |-> what, at |-> n + 1]
      <3>1. {f \in kept : f.num # num[w]} = kept
        BY <1>0
      <3>2. files' = kept \union {new}
        BY <2>2, <3>1 DEF Written
      <3>3. new.num = seq /\ new.at = n + 1
        BY <1>0
      <3>4. /\ DOMAIN made' = 1 .. n + 1 /\ Len(made') = n + 1
            /\ \A i \in 1 .. n : made'[i] = made[i] /\ i \in DOMAIN made
            /\ made' \in Seq(Msgs \union {Torn})
        BY <1>0, <2>2, Appended
      <3>5. NewestKept'
        <4>1. ASSUME NEW i \in 1 .. n + 1, made'[i] # Torn, (n + 1) - i < KeepHard - Foreign
              PROVE  \E f \in files' : f.at = i
          <5>1. CASE i = n + 1
            BY <3>2, <3>3, <5>1
          <5>2. CASE i # n + 1
            <6>1. i \in 1 .. n /\ made[i] # Torn /\ n - i < KeepHard - Foreign
              BY <1>0, <3>4, <4>1, <5>2
            <6>2. PICK f \in files : f.at = i
              BY <3>4, <6>1 DEF NewestInv, NewestKept
            <6>3. f \in kept
              BY <1>0, <1>2, <6>1, <6>2
            <6>4. QED
              BY <3>2, <6>2, <6>3
          <5>3. QED
            BY <5>1, <5>2
        <4>2. QED
          BY <3>4, <4>1 DEF NewestKept
      <3>6. \A f \in files' : f.num <= seq
        BY <1>0, <3>2, <3>3
      <3>7. \A f, g \in files' : f.num = g.num => f = g
        <4>1. \A f \in kept : f.num # new.num
          BY <1>0, <3>3
        <4>2. QED
          BY <3>2, <4>1 DEF NewestInv
      <3>8. QED
        BY <1>0, <1>1, <3>5, <3>6, <3>7 DEF NewestInv
    <2>3. QED
      BY <1>2, <2>1, <2>2
  <1>3. Last(w) \in Msgs
    BY InHand DEF Strong, Write
  <1>4. CASE files' = Written(w, files, Last(w)) /\ made' = Append(made, Last(w))
    BY <1>2, <1>3, <1>4
  <1>5. ASSUME NEW k \in Leaves(Keep) \union Leaves(KeepHard), NEW kept, kept = files \ Oldest(k),
               \/ files' = Written(w, kept, Last(w)) /\ made' = Append(made, Last(w))
               \/ files' = Written(w, kept, Torn) /\ made' = Append(made, Torn)
               \/ files' = kept /\ UNCHANGED made
        PROVE  NewestInv'
    <2>1. kept \in SUBSET files
      BY <1>5
    <2>2. ASSUME NEW f \in files \ kept PROVE Len(made) - f.at >= KeepHard - Foreign
      <3>1. k \in Nat /\ k >= KeepHard - Foreign /\ f \in Oldest(k)
        BY <1>5, Limits
      <3>2. Len(made) - f.at >= k
        BY <3>1, OldestAreOld
      <3>3. QED
        BY <1>0, <3>1, <3>2
    <2>3. QED
      BY <1>2, <1>3, <1>5, <2>1, <2>2
  <1>6. QED
    BY <1>4, <1>5 DEF Write

LEMMA NextNewest ==
  ASSUME Strong, NewestInv, OneWriterAtATime, OneWriterAtATime', [Next]_vars
  PROVE  NewestInv'
  <1>0. /\ stage \in [Writers -> Stages] /\ victims \in [Writers -> SUBSET Nat]
        /\ num \in [Writers -> 0 .. MaxMsgs]
        /\ Keep \in Nat /\ KeepHard \in Nat /\ KeepHard <= Keep /\ Foreign \in {0, 1} /\ seq \in Nat
        /\ \A f \in files : f.num \in Nat /\ f.at \in 1 .. Len(made)
        /\ Len(made) \in Nat
    BY ConstantsAssumption, LenProperties DEF Strong, TypeOK, PathInv, ShapeInv
  <1>1. ASSUME NEW w \in Writers, stage[w] # "idle"
        PROVE  \A v \in Writers : v # w => stage[v] = "idle"
    BY <1>1 DEF OneWriterAtATime, Writers
  <1>2. CASE UNCHANGED <<files, made, seq, num, victims>>
             /\ \A v \in Writers : stage'[v] = stage[v] \/ (stage[v] = "idle" /\ stage'[v] = "list")
    BY <1>2 DEF NewestInv, NewestKept
  <1>3. CASE Send
    BY <1>0, <1>2, <1>3 DEF Send, Writers
  <1>4. CASE Moving
    <2>1. UNCHANGED <<files, made, seq, num, victims>>
             /\ stage'["telemetry"] = stage["telemetry"]
      BY <1>4, MovingStages DEF Strong
    <2>2. stage'["http"] = stage["http"] \/ (stage["http"] = "idle" /\ stage'["http"] = "list")
      <3>1. http = "try" => stage["http"] = "idle"
        BY DEF Strong, TypeOK
      <3>2. TypeOK
        BY DEF Strong
      <3>3. stage'["http"] = stage["http"] \/ (http = "try" /\ stage'["http"] = "list")
        BY <1>4, <3>2, MovingStages
      <3>4. QED
        BY <3>1, <3>3
    <2>3. QED
      BY <1>2, <2>1, <2>2 DEF Writers
  <1>5. ASSUME NEW w \in Writers, List(w) PROVE NewestInv'
    <2>0. PICK k \in Leaves(Keep) :
                 victims' = [victims EXCEPT ![w] = {f.num : f \in Oldest(k)}]
      BY <1>5 DEF List
    <2>1. /\ stage[w] \in {"list", "relist"} /\ UNCHANGED <<files, made, seq, num>>
          /\ victims' = [victims EXCEPT ![w] = {f.num : f \in Oldest(k)}]
          /\ k \in Nat /\ k >= Keep - Foreign
          /\ stage' = [stage EXCEPT ![w] = IF @ = "list" THEN "remove" ELSE "reremove"]
      BY <1>5, <2>0, Limits DEF List
    <2>2. \A v \in Writers : v # w => stage'[v] = stage[v] /\ victims'[v] = victims[v]
      BY <1>0, <2>1
    <2>3. ASSUME NEW f \in files, f.num \in victims'[w] PROVE Len(made) - f.at >= Keep - Foreign
      <3>1. victims'[w] = {g.num : g \in Oldest(k)} /\ Oldest(k) \subseteq files
        BY <1>0, <2>1 DEF Oldest
      <3>2. PICK g \in Oldest(k) : g.num = f.num
        BY <2>3, <3>1
      <3>3. g = f
        BY <3>1, <3>2 DEF NewestInv
      <3>4. Len(made) - f.at >= k
        BY <2>1, <3>2, <3>3, OldestAreOld
      <3>5. QED
        BY <1>0, <2>1, <3>4
    <2>4. stage'[w] \in {"remove", "reremove"} /\ (stage'[w] = "reremove" => stage[w] = "relist")
      BY <1>0, <2>1
    <2>5. NewestKept'
      BY <2>1 DEF NewestInv, NewestKept
    <2>6. \A v \in Writers :
            /\ stage'[v] = "bump" => num[v] = seq + 1
            /\ stage'[v] \in {"write", "relist", "reremove", "rewrite"} =>
                  num[v] = seq /\ \A f \in files : f.num < seq
      BY <2>2, <2>4 DEF NewestInv
    <2>7. \A v \in Writers :
            /\ stage'[v] \notin {"remove", "reremove"} => victims'[v] = {}
            /\ \A f \in files : f.num \in victims'[v] => Len(made) - f.at >= Keep - Foreign
      BY <2>2, <2>3, <2>4 DEF NewestInv
    <2>8. QED
      BY <2>1, <2>5, <2>6, <2>7 DEF NewestInv
  <1>6. ASSUME NEW w \in Writers, Remove(w) PROVE NewestInv'
    <2>1. /\ stage[w] \in {"remove", "reremove"} /\ UNCHANGED <<made, seq, num>>
          /\ files' = {f \in files : f.num \notin victims[w]}
          /\ victims' = [victims EXCEPT ![w] = {}]
          /\ stage' = [stage EXCEPT ![w] = IF @ = "remove" THEN "load" ELSE "rewrite"]
      BY <1>6 DEF Remove
    <2>2. \A v \in Writers : v # w => stage'[v] = stage[v] /\ victims'[v] = victims[v]
      BY <1>0, <2>1
    <2>3. /\ stage'[w] \in {"load", "rewrite"} /\ (stage'[w] = "rewrite" => stage[w] = "reremove")
          /\ victims'[w] = {} /\ files' \subseteq files
      BY <1>0, <2>1
    <2>4. ASSUME NEW i \in DOMAIN made, made[i] # Torn, Len(made) - i < KeepHard - Foreign
          PROVE  \E f \in files' : f.at = i
      <3>1. PICK f \in files : f.at = i
        BY <2>4 DEF NewestInv, NewestKept
      <3>2. f.num \notin victims[w]
        BY <1>0, <2>4, <3>1 DEF NewestInv
      <3>3. QED
        BY <2>1, <3>1, <3>2
    <2>5. NewestKept'
      BY <2>1, <2>4 DEF NewestKept
    <2>6. \A v \in Writers :
            /\ stage'[v] = "bump" => num[v] = seq + 1
            /\ stage'[v] \in {"write", "relist", "reremove", "rewrite"} =>
                  num[v] = seq /\ \A f \in files' : f.num < seq
      BY <2>2, <2>3 DEF NewestInv
    <2>7. \A v \in Writers :
            /\ stage'[v] \notin {"remove", "reremove"} => victims'[v] = {}
            /\ \A f \in files' : f.num \in victims'[v] => Len(made) - f.at >= Keep - Foreign
      BY <2>2, <2>3 DEF NewestInv
    <2>8. QED
      BY <2>1, <2>3, <2>5, <2>6, <2>7 DEF NewestInv
  <1>7. ASSUME NEW w \in Writers, Load(w) \/ Bump(w) \/ Full(w) PROVE NewestInv'
    <2>1. UNCHANGED <<files, made, victims>> /\ stage[w] \in {"load", "bump", "write"}
      BY <1>7 DEF Load, Bump, Full
    <2>2. \A v \in Writers : v # w => stage[v] = "idle" /\ stage'[v] = "idle"
      BY <1>0, <1>1, <1>7, <2>1 DEF Load, Bump, Full
    <2>3. \/ stage[w] = "load" /\ stage'[w] = "bump" /\ num'[w] = seq + 1 /\ seq' = seq
          \/ stage[w] = "bump" /\ stage'[w] = "write" /\ num'[w] = num[w] /\ seq' = num[w]
          \/ stage[w] = "write" /\ stage'[w] = "relist" /\ num'[w] = num[w] /\ seq' = seq
      BY <1>0, <1>7 DEF Load, Bump, Full
    <2>4. stage[w] = "bump" => num[w] = seq + 1
      BY DEF NewestInv
    <2>5. \A f \in files : f.num <= seq /\ f.num <= seq'
      BY <1>0, <2>3, <2>4 DEF NewestInv
    <2>6. \A v \in Writers :
            /\ stage'[v] = "bump" => num'[v] = seq' + 1
            /\ stage'[v] \in {"write", "relist", "reremove", "rewrite"} =>
                  num'[v] = seq' /\ \A f \in files : f.num < seq'
      BY <1>0, <2>2, <2>3, <2>4, <2>5 DEF NewestInv
    <2>7. \A v \in Writers : victims[v] = {}
      BY <2>1, <2>2 DEF NewestInv
    <2>8. NewestKept'
      BY <2>1 DEF NewestInv, NewestKept
    <2>9. QED
      BY <2>1, <2>5, <2>6, <2>7, <2>8 DEF NewestInv
  <1>8. ~Reboot
    <2>1. reboots = 0 /\ reboots' = 0
      BY DEF OneWriterAtATime
    <2>2. QED
      BY <2>1 DEF Reboot
  <1>9. CASE UNCHANGED vars
    BY <1>2, <1>9 DEF vars, storeVars
  <1>10. QED
    BY <1>3, <1>4, <1>5, <1>6, <1>7, <1>8, <1>9, WriteKeepsNewest DEF Next, Moving

\* The newest of the payloads storage_manager_store_http_failure reports stored stay
\* readable as long as the two tasks do not store at once and no reset clears
\* s_http_failure_seq: what else the network, the flash and the queue do loses none.
THEOREM NewestKeptByOneHolds ==
  Spec => NewestKeptByOne
  <1>1. Init => NewestInv
    BY DEF Init, NewestInv, NewestKept, Writers
  <1>2. NewestInv /\ Strong /\ OneWriterAtATime /\ OneWriterAtATime' /\ [Next]_vars => NewestInv'
    BY NextNewest
  <1>3. NewestInv => NewestKept
    BY DEF NewestInv
  <1>4. QED
    BY <1>1, <1>2, <1>3, StrongHolds, PTL DEF Spec, NewestKeptByOne
===============================================================================
