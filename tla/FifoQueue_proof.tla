-------------------------- MODULE FifoQueue_proof --------------------------
(***************************************************************************)
(* Proofs about the FIFO queue, for any numbers of producers and consumers *)
(* any capacity and any width of the counter.                              *)
(***************************************************************************)
EXTENDS FifoQueue, SequenceTheorems, FiniteSetTheorems, TLAPS

-----------------------------------------------------------------------------
(* Channels as sequences. *)

LEMMA AppendFacts ==
    ASSUME NEW S, NEW c \in Seq(S), NEW e \in S
    PROVE  /\ Append(c, e) \in Seq(S)
           /\ Len(c) \in Nat /\ Len(Append(c, e)) = Len(c) + 1
           /\ \A i \in 1 .. Len(c) : Append(c, e)[i] = c[i]
           /\ Append(c, e)[Len(c) + 1] = e
           /\ ToSet(Append(c, e)) = ToSet(c) \cup {e}
           /\ IsInjective(c) /\ e \notin ToSet(c) => IsInjective(Append(c, e))
<1>. DEFINE a == Append(c, e)
<1>1. /\ a \in Seq(S) /\ Len(c) \in Nat /\ Len(a) = Len(c) + 1
      /\ \A i \in 1 .. Len(c) : a[i] = c[i]
      /\ a[Len(c) + 1] = e
  BY AppendProperties, LenProperties
<1>2. DOMAIN c = 1 .. Len(c) /\ DOMAIN a = 1 .. Len(c) + 1
  BY <1>1, LenProperties
<1>. HIDE DEF a
<1>3. ToSet(a) = ToSet(c) \cup {e}
  BY <1>1, <1>2 DEF ToSet
<1>4. IsInjective(c) /\ e \notin ToSet(c) => IsInjective(a)
  BY <1>1, <1>2 DEF IsInjective, ToSet
<1>. QED BY <1>1, <1>3, <1>4 DEF a

LEMMA TailFacts ==
    ASSUME NEW S, NEW c \in Seq(S), c # <<>>
    PROVE  /\ Head(c) \in S /\ Tail(c) \in Seq(S)
           /\ Len(c) \in Nat \ {0} /\ Len(Tail(c)) = Len(c) - 1
           /\ \A i \in 1 .. Len(Tail(c)) : Tail(c)[i] = c[i + 1]
           /\ ToSet(c) = ToSet(Tail(c)) \cup {Head(c)}
           /\ IsInjective(c) => IsInjective(Tail(c)) /\ Head(c) \notin ToSet(Tail(c))
<1>. DEFINE t == Tail(c)
            h == Head(c)
<1>1. /\ h \in S /\ t \in Seq(S) /\ Len(c) \in Nat \ {0} /\ Len(t) = Len(c) - 1
      /\ \A i \in 1 .. Len(t) : t[i] = c[i + 1]
      /\ h = c[1]
  BY HeadTailProperties, EmptySeq, LenProperties
<1>2. DOMAIN c = 1 .. Len(c) /\ DOMAIN t = 1 .. Len(c) - 1
  BY <1>1, LenProperties
<1>. HIDE DEF t, h
<1>3. ToSet(c) = ToSet(t) \cup {h}
  <2>1. ASSUME NEW x \in ToSet(c) PROVE x \in ToSet(t) \cup {h}
    <3>1. PICK i \in 1 .. Len(c) : x = c[i]
      BY <1>2 DEF ToSet
    <3>2. CASE i = 1
      BY <1>1, <3>1, <3>2
    <3>3. CASE i # 1
      <4>1. i - 1 \in 1 .. Len(t) /\ t[i - 1] = c[i]
        BY <1>1, <3>1, <3>3
      <4>. QED BY <1>1, <1>2, <3>1, <4>1 DEF ToSet
    <3>. QED BY <3>2, <3>3
  <2>2. ASSUME NEW x \in ToSet(t) \cup {h} PROVE x \in ToSet(c)
    <3>1. CASE x = h
      BY <1>1, <1>2, <3>1 DEF ToSet
    <3>2. CASE x \in ToSet(t)
      <4>1. PICK i \in 1 .. Len(c) - 1 : x = t[i]
        BY <1>2, <3>2 DEF ToSet
      <4>2. i + 1 \in 1 .. Len(c) /\ t[i] = c[i + 1]
        BY <1>1, <4>1
      <4>. QED BY <1>2, <4>1, <4>2 DEF ToSet
    <3>. QED BY <2>2, <3>1, <3>2
  <2>. QED BY <2>1, <2>2
<1>4. IsInjective(c) => IsInjective(t) /\ h \notin ToSet(t)
  <2>. SUFFICES ASSUME IsInjective(c) PROVE IsInjective(t) /\ h \notin ToSet(t)
    OBVIOUS
  <2>1. \A i \in 1 .. Len(c) - 1 : i + 1 \in 1 .. Len(c) /\ t[i] = c[i + 1] /\ i + 1 # 1
    BY <1>1
  <2>2. \A i, j \in 1 .. Len(c) - 1 : t[i] = t[j] => i = j
    BY <1>1, <1>2, <2>1 DEF IsInjective
  <2>3. \A i \in 1 .. Len(c) - 1 : t[i] # h
    BY <1>1, <1>2, <2>1 DEF IsInjective
  <2>. QED BY <1>2, <2>2, <2>3 DEF IsInjective, ToSet
<1>. QED BY <1>1, <1>3, <1>4 DEF t, h

-----------------------------------------------------------------------------
(* The invariant: an item is inside exactly while its enqueue is in a      *)
(* state that says so, and in one place; and the parked senders are those  *)
(* of the last messages, from the first one beyond the capacity on.        *)

Entered == {"parked", "sent", "ok", "abandoned"}

Types ==
    /\ pc \in [Items -> {"idle", "checked", "ok", "err", "cancelled", "abandoned"} \cup Sending]
    /\ consumer \in [Consumers -> {"idle", "locking", "receiving", "counting", "none", "gone"}]
    /\ holding \in [Consumers -> Items \cup {Nobody}]
    /\ chan \in Seq(Items)
    /\ parkedQueue \in Seq(Items)
    /\ received \in SUBSET Items

Holds ==
    /\ \A d \in Consumers : holding[d] # Nobody <=> consumer[d] = "counting"
    /\ \A e \in Items : pc[e] \in Entered <=> e \in Inside
    /\ IsInjective(chan)
    /\ \A e \in ToSet(chan) : e \notin received /\ \A d \in Consumers : holding[d] # e

ParkedAreLast ==
    /\ \A e \in ToSet(parkedQueue) : pc[e] \in {"parked", "abandoned"}
    /\ Len(chan) <= Capacity + Len(parkedQueue)
    /\ parkedQueue # <<>> => Len(chan) = Capacity + Len(parkedQueue)
    /\ \A i \in 1 .. Len(parkedQueue) : parkedQueue[i] = chan[Capacity + i]

Inv == Types /\ Holds /\ ParkedAreLast /\ NoneIsFinal

LEMMA InitInv == Init => Inv
<1>. SUFFICES ASSUME Init PROVE Inv
  OBVIOUS
<1>1. Len(<<>>) = 0 /\ <<>> \in Seq(Items) /\ DOMAIN <<>> = 1 .. 0 /\ ToSet(<<>>) = {}
      /\ IsInjective(<<>>)
  BY EmptySeq, LenProperties DEF ToSet, IsInjective
<1>2. Types /\ NoneIsFinal
  BY <1>1 DEF Init, Types, NoneIsFinal
<1>3. Holds
  BY <1>1, FifoAssumption DEF Init, Holds, Inside, Entered
<1>4. ParkedAreLast
  BY <1>1, FifoAssumption DEF Init, ParkedAreLast
<1>. QED BY <1>2, <1>3, <1>4 DEF Inv

\* Steps of an enqueue beside the channel.
LEMMA CallStep ==
    ASSUME Inv, NEW e \in Items, CheckClosed(e) \/ Clone(e) \/ Flush(e) \/ CountIn(e) \/ Cancel(e)
    PROVE  Inv'
<1>. USE DEF Inv
<1>1. UNCHANGED <<consumer, holding, chan, parkedQueue, received, hasSender>>
  BY DEF CheckClosed, Clone, Flush, CountIn, Cancel, consumerVars, closeVars
<1>2. PICK to \in {"checked", "ok", "err", "cancelled", "abandoned", "cloned", "sent"} :
          /\ pc' = [pc EXCEPT ![e] = to]
          /\ pc[e] \in Entered <=> to \in Entered
          /\ e \in ToSet(parkedQueue) => to = "abandoned"
          /\ to \in Sending => hasSender \/ pc[e] \in Sending
  BY DEF CheckClosed, Clone, Flush, CountIn, Cancel, Step, Entered, Sending, ParkedAreLast
<1>3. pc'[e] = to /\ \A i \in Items \ {e} : pc'[i] = pc[i]
  BY <1>2 DEF Types
<1>4. Inside' = Inside
  BY <1>1 DEF Inside
<1>5. Types'
  BY <1>1, <1>2 DEF Types, Sending
<1>6. Holds'
  BY <1>1, <1>2, <1>3, <1>4 DEF Holds
<1>7. ToSet(parkedQueue) \subseteq Items
  <2>1. parkedQueue \in Seq(Items) /\ DOMAIN parkedQueue = 1 .. Len(parkedQueue)
    BY LenProperties DEF Types
  <2>. QED BY <2>1, ElementOfSeq DEF ToSet
<1>8. ParkedAreLast'
  BY <1>1, <1>2, <1>3, <1>7 DEF ParkedAreLast
<1>9. NoneIsFinal'
  BY <1>1, <1>2, <1>3 DEF NoneIsFinal
<1>. QED BY <1>5, <1>6, <1>8, <1>9

LEMMA SendStep ==
    ASSUME Inv, NEW e \in Items, Send(e)
    PROVE  Inv'
<1>. USE DEF Inv
<1>1. /\ UNCHANGED <<consumer, holding, received, hasSender>> /\ pc[e] = "cloned"
      /\ chan' = Append(chan, e)
  BY DEF Send, Step, consumerVars, closeVars
<1>2. pc[e] \notin Entered /\ e \notin Inside
  BY <1>1 DEF Entered, Holds
<1>3. e \notin ToSet(chan) /\ e \notin received /\ \A d \in Consumers : holding[d] # e
  BY <1>2 DEF Inside
<1>4. /\ chan' \in Seq(Items) /\ Len(chan) \in Nat /\ Len(chan') = Len(chan) + 1
      /\ \A i \in 1 .. Len(chan) : chan'[i] = chan[i]
      /\ chan'[Len(chan) + 1] = e
      /\ ToSet(chan') = ToSet(chan) \cup {e} /\ IsInjective(chan')
  BY <1>1, <1>3, AppendFacts DEF Types, Holds
<1>5. Inside' = Inside \cup {e}
  BY <1>1, <1>4 DEF Inside
<1>6. \A d \in Consumers : consumer[d] # "none"
  BY <1>1 DEF NoneIsFinal, Sending
<1>7. parkedQueue \in Seq(Items) /\ Len(parkedQueue) \in Nat
  BY LenProperties DEF Types
<1>8. e \notin ToSet(parkedQueue)
  BY <1>1 DEF ParkedAreLast
<1>9. CASE Len(chan) + 1 > Capacity
  <2>1. pc' = [pc EXCEPT ![e] = "parked"] /\ parkedQueue' = Append(parkedQueue, e)
    BY <1>9 DEF Send, Step
  <2>2. /\ parkedQueue' \in Seq(Items) /\ Len(parkedQueue') = Len(parkedQueue) + 1
        /\ \A i \in 1 .. Len(parkedQueue) : parkedQueue'[i] = parkedQueue[i]
        /\ parkedQueue'[Len(parkedQueue) + 1] = e
        /\ ToSet(parkedQueue') = ToSet(parkedQueue) \cup {e}
    BY <1>7, <2>1, AppendFacts
  <2>3. pc'[e] = "parked" /\ \A i \in Items \ {e} : pc'[i] = pc[i]
    BY <2>1 DEF Types
  <2>4. Types'
    BY <1>1, <1>4, <2>1, <2>2 DEF Types, Sending
  <2>5. Holds'
    BY <1>1, <1>3, <1>4, <1>5, <2>3 DEF Holds, Entered
  <2>6. Len(chan) = Capacity + Len(parkedQueue)
    <3>1. parkedQueue = <<>> => Len(parkedQueue) = 0
      BY EmptySeq
    <3>. QED BY <1>4, <1>7, <1>9, <3>1, FifoAssumption DEF ParkedAreLast
  <2>7. \A i \in 1 .. Len(parkedQueue') : parkedQueue'[i] = chan'[Capacity + i]
    <3>1. \A i \in 1 .. Len(parkedQueue) : parkedQueue'[i] = chan'[Capacity + i]
      <4>1. \A i \in 1 .. Len(parkedQueue) : Capacity + i \in 1 .. Len(chan)
        BY <1>7, <2>6, FifoAssumption
      <4>. QED BY <1>4, <2>2, <4>1 DEF ParkedAreLast
    <3>2. parkedQueue'[Len(parkedQueue) + 1] = chan'[Capacity + (Len(parkedQueue) + 1)]
      <4>1. Capacity + (Len(parkedQueue) + 1) = Len(chan) + 1
        BY <1>7, <2>6, FifoAssumption
      <4>. QED BY <1>4, <2>2, <4>1
    <3>3. \A i \in 1 .. Len(parkedQueue') : i \in 1 .. Len(parkedQueue) \/ i = Len(parkedQueue) + 1
      BY <1>7, <2>2
    <3>. QED BY <3>1, <3>2, <3>3
  <2>8. \A i \in ToSet(parkedQueue') : pc'[i] \in {"parked", "abandoned"}
    <3>1. ToSet(parkedQueue) \subseteq Items
      <4>1. DOMAIN parkedQueue = 1 .. Len(parkedQueue)
        BY <1>7, LenProperties
      <4>. QED BY <1>7, <4>1, ElementOfSeq DEF ToSet
    <3>. QED BY <1>8, <2>2, <2>3, <3>1 DEF ParkedAreLast
  <2>9. ParkedAreLast'
    BY <1>4, <1>7, <2>2, <2>6, <2>7, <2>8, FifoAssumption DEF ParkedAreLast
  <2>10. NoneIsFinal'
    BY <1>1, <1>6 DEF NoneIsFinal
  <2>. QED BY <2>4, <2>5, <2>9, <2>10
<1>10. CASE ~(Len(chan) + 1 > Capacity)
  <2>1. pc' = [pc EXCEPT ![e] = "sent"] /\ parkedQueue' = parkedQueue
    BY <1>10 DEF Send, Step
  <2>2. pc'[e] = "sent" /\ \A i \in Items \ {e} : pc'[i] = pc[i]
    BY <2>1 DEF Types
  <2>3. Types'
    BY <1>1, <1>4, <2>1 DEF Types, Sending
  <2>4. Holds'
    BY <1>1, <1>3, <1>4, <1>5, <2>2 DEF Holds, Entered
  <2>5. parkedQueue = <<>> /\ Len(parkedQueue) = 0 /\ ToSet(parkedQueue) = {}
    <3>1. parkedQueue = <<>>
      BY <1>4, <1>7, <1>10, FifoAssumption DEF ParkedAreLast
    <3>2. Len(<<>>) = 0 /\ ToSet(<<>>) = {}
      BY EmptySeq DEF ToSet
    <3>. QED BY <3>1, <3>2
  <2>6. ParkedAreLast'
    BY <1>4, <1>10, <2>1, <2>5, FifoAssumption DEF ParkedAreLast
  <2>7. NoneIsFinal'
    BY <1>1, <1>6 DEF NoneIsFinal
  <2>. QED BY <2>3, <2>4, <2>6, <2>7
<1>. QED BY <1>9, <1>10

LEMMA ReceiveStep ==
    ASSUME Inv, NEW d \in Consumers, Receive(d)
    PROVE  Inv'
<1>. USE DEF Inv
<1>1. /\ UNCHANGED <<pc, received, hasSender>> /\ chan # <<>> /\ chan' = Tail(chan)
      /\ consumer[d] = "receiving" /\ consumer' = [consumer EXCEPT ![d] = "counting"]
      /\ holding' = [holding EXCEPT ![d] = Head(chan)]
      /\ parkedQueue' = IF parkedQueue = <<>> THEN <<>> ELSE Tail(parkedQueue)
  BY DEF Receive, Move, closeVars
<1>. DEFINE h == Head(chan)
<1>2. /\ h \in Items /\ chan' \in Seq(Items)
      /\ Len(chan) \in Nat \ {0} /\ Len(chan') = Len(chan) - 1
      /\ \A i \in 1 .. Len(chan') : chan'[i] = chan[i + 1]
      /\ ToSet(chan) = ToSet(chan') \cup {h}
      /\ IsInjective(chan') /\ h \notin ToSet(chan')
  BY <1>1, TailFacts DEF Types, Holds
<1>. HIDE DEF h
<1>3. /\ consumer'[d] = "counting" /\ holding'[d] = h /\ holding[d] = Nobody
      /\ \A b \in Consumers \ {d} : consumer'[b] = consumer[b] /\ holding'[b] = holding[b]
  BY <1>1 DEF Types, Holds, h
<1>4. parkedQueue \in Seq(Items) /\ Len(parkedQueue) \in Nat
  BY LenProperties DEF Types
<1>5. /\ parkedQueue' \in Seq(Items) /\ ToSet(parkedQueue') \subseteq ToSet(parkedQueue)
      /\ parkedQueue = <<>> => Len(parkedQueue) = 0 /\ Len(parkedQueue') = 0
      /\ parkedQueue # <<>> =>
             /\ Len(parkedQueue') = Len(parkedQueue) - 1
             /\ \A i \in 1 .. Len(parkedQueue') : parkedQueue'[i] = parkedQueue[i + 1]
  <2>1. CASE parkedQueue = <<>>
    BY <1>1, <1>4, <2>1, EmptySeq
  <2>2. CASE parkedQueue # <<>>
    BY <1>1, <1>4, <2>2, TailFacts
  <2>. QED BY <2>1, <2>2
<1>6. h # Nobody
  BY <1>2, FifoAssumption
<1>7. Types'
  BY <1>1, <1>2, <1>5 DEF Types, h
<1>8. \A e \in Items : e \in Inside' <=> e \in Inside
  <2>1. \A e \in Items : (\E b \in Consumers : holding'[b] = e) <=> (e = h \/ \E b \in Consumers : holding[b] = e)
    BY <1>3, FifoAssumption
  <2>. QED BY <1>1, <1>2, <2>1 DEF Inside
<1>9. Holds'
  <2>1. \A b \in Consumers : holding'[b] # Nobody <=> consumer'[b] = "counting"
    BY <1>3, <1>6 DEF Holds
  <2>2. \A e \in Items : pc'[e] \in Entered <=> e \in Inside'
    BY <1>1, <1>8 DEF Holds
  <2>3. \A e \in ToSet(chan') : e \notin received' /\ \A b \in Consumers : holding'[b] # e
    BY <1>1, <1>2, <1>3 DEF Holds
  <2>. QED BY <1>2, <2>1, <2>2, <2>3 DEF Holds
<1>10. ParkedAreLast'
  <2>1. \A e \in ToSet(parkedQueue') : pc'[e] \in {"parked", "abandoned"}
    BY <1>1, <1>5 DEF ParkedAreLast
  <2>2. Len(chan') <= Capacity + Len(parkedQueue')
    BY <1>2, <1>4, <1>5, FifoAssumption DEF ParkedAreLast
  <2>3. parkedQueue' # <<>> => parkedQueue # <<>> /\ Len(chan') = Capacity + Len(parkedQueue')
    <3>. SUFFICES ASSUME parkedQueue' # <<>>
                  PROVE  parkedQueue # <<>> /\ Len(chan') = Capacity + Len(parkedQueue')
      OBVIOUS
    <3>1. parkedQueue # <<>>
      BY <1>1
    <3>2. Len(chan) = Capacity + Len(parkedQueue)
      BY <3>1 DEF ParkedAreLast
    <3>3. /\ Len(chan) \in Nat /\ Len(parkedQueue) \in Nat /\ Capacity \in Nat
          /\ Len(chan') = Len(chan) - 1 /\ Len(parkedQueue') = Len(parkedQueue) - 1
      BY <1>2, <1>4, <1>5, <3>1, FifoAssumption
    <3>4. Len(chan') = Capacity + Len(parkedQueue')
      BY <3>2, <3>3
    <3>. QED BY <3>1, <3>4
  <2>4. ASSUME NEW i \in 1 .. Len(parkedQueue') PROVE parkedQueue'[i] = chan'[Capacity + i]
    <3>1. parkedQueue # <<>> /\ i + 1 \in 1 .. Len(parkedQueue) /\ parkedQueue'[i] = parkedQueue[i + 1]
      BY <1>4, <1>5, <2>4
    <3>2. Len(chan) = Capacity + Len(parkedQueue) /\ parkedQueue[i + 1] = chan[Capacity + (i + 1)]
      BY <3>1 DEF ParkedAreLast
    <3>3. Capacity + i \in 1 .. Len(chan') /\ (Capacity + i) + 1 = Capacity + (i + 1)
      BY <1>2, <1>4, <1>5, <2>4, <3>1, <3>2, FifoAssumption
    <3>4. chan'[Capacity + i] = chan[(Capacity + i) + 1]
      BY <1>2, <3>3
    <3>. QED BY <3>1, <3>2, <3>3, <3>4
  <2>. QED BY <2>1, <2>2, <2>3, <2>4 DEF ParkedAreLast
<1>11. NoneIsFinal'
  BY <1>1, <1>3 DEF NoneIsFinal
<1>. QED BY <1>7, <1>9, <1>10, <1>11

LEMMA CountOutStep ==
    ASSUME Inv, NEW d \in Consumers, CountOut(d)
    PROVE  Inv'
<1>. USE DEF Inv
<1>1. /\ UNCHANGED <<pc, chan, parkedQueue, hasSender>>
      /\ consumer[d] = "counting" /\ consumer' = [consumer EXCEPT ![d] = "idle"]
      /\ received' = received \cup {holding[d]}
      /\ holding' = [holding EXCEPT ![d] = Nobody]
  BY DEF CountOut, Move, closeVars
<1>2. holding[d] \in Items
  BY <1>1 DEF Types, Holds
<1>3. /\ consumer'[d] = "idle" /\ holding'[d] = Nobody
      /\ \A b \in Consumers \ {d} : consumer'[b] = consumer[b] /\ holding'[b] = holding[b]
  BY <1>1 DEF Types
<1>4. Types'
  BY <1>1, <1>2 DEF Types
<1>5. \A e \in Items : e \in Inside' <=> e \in Inside
  BY <1>1, <1>3, FifoAssumption DEF Inside
<1>6. ToSet(chan) \subseteq Items
  <2>1. chan \in Seq(Items) /\ DOMAIN chan = 1 .. Len(chan)
    BY LenProperties DEF Types
  <2>. QED BY <2>1, ElementOfSeq DEF ToSet
<1>7. Holds'
  <2>1. \A b \in Consumers : holding'[b] # Nobody <=> consumer'[b] = "counting"
    BY <1>3 DEF Holds
  <2>2. \A e \in Items : pc'[e] \in Entered <=> e \in Inside'
    BY <1>1, <1>5 DEF Holds
  <2>3. \A e \in ToSet(chan) : e \notin received' /\ \A b \in Consumers : holding'[b] # e
    BY <1>1, <1>3, <1>6, FifoAssumption DEF Holds
  <2>. QED BY <1>1, <2>1, <2>2, <2>3 DEF Holds
<1>8. ParkedAreLast' /\ NoneIsFinal'
  BY <1>1, <1>3 DEF ParkedAreLast, NoneIsFinal
<1>. QED BY <1>4, <1>7, <1>8

\* The other steps of a dequeue, and those of close().
LEMMA OtherStep ==
    ASSUME Inv, (\E d \in Consumers : Call(d) \/ Lock(d) \/ End(d) \/ Forget(d)) \/ Close \/ UNCHANGED vars
    PROVE  Inv'
<1>. USE DEF Inv
<1>1. UNCHANGED <<pc, holding, chan, parkedQueue, received>>
  BY DEF Call, Lock, End, Forget, Close, TakeSender, ZeroLength, SetClosed, consumerVars, vars
<1>2. /\ consumer' \in [Consumers -> {"idle", "locking", "receiving", "counting", "none", "gone"}]
      /\ \A d \in Consumers : consumer'[d] = "counting" <=> consumer[d] = "counting"
  BY DEF Call, Lock, End, Forget, Move, Close, TakeSender, ZeroLength, SetClosed, consumerVars,
         vars, Types
<1>3. Inside' = Inside
  BY <1>1 DEF Inside
<1>4. Types' /\ Holds' /\ ParkedAreLast'
  BY <1>1, <1>2, <1>3 DEF Types, Holds, ParkedAreLast
<1>5. NoneIsFinal'
  <2>1. CASE \E d \in Consumers : End(d)
    BY <2>1 DEF End, NoneIsFinal, closeVars
  <2>2. CASE (\E d \in Consumers : Call(d) \/ Lock(d) \/ Forget(d)) \/ Close \/ UNCHANGED vars
    <3>1. /\ \A d \in Consumers : consumer'[d] = "none" => consumer[d] = "none"
          /\ hasSender' => hasSender
      BY <2>2 DEF Call, Lock, Forget, Move, Close, TakeSender, ZeroLength, SetClosed, consumerVars,
         closeVars, vars, Types
    <3>. QED BY <1>1, <3>1 DEF NoneIsFinal
  <2>. QED BY <2>1, <2>2
<1>. QED BY <1>4, <1>5

\* Inv is an invariant of the queue.
THEOREM Invariance == Spec => []Inv
<1>1. Inv /\ [Next]_vars => Inv'
  <2>. SUFFICES ASSUME Inv, [Next]_vars PROVE Inv'
    OBVIOUS
  <2>1. ASSUME NEW e \in Items, Enqueue(e) PROVE Inv'
    BY <2>1, CallStep, SendStep DEF Enqueue
  <2>2. ASSUME NEW d \in Consumers, Dequeue(d) PROVE Inv'
    BY <2>2, ReceiveStep, CountOutStep, OtherStep DEF Dequeue
  <2>3. CASE Close \/ UNCHANGED vars
    BY <2>3, OtherStep
  <2>. QED BY <2>1, <2>2, <2>3 DEF Next
<1>. QED BY <1>1, InitInv, PTL DEF Spec

-----------------------------------------------------------------------------

\* What callers are told is true, for any numbers of producers and consumers: enqueue's
\* answer, and dequeue's None, which is final.
THEOREM AnswersAreTrue == Spec => []AnswersTrue
<1>1. Inv => AnswersTrue
  <2>. SUFFICES ASSUME Inv PROVE AnswersTrue
    OBVIOUS
  <2>1. ToSet(chan) \cap received = {} /\ IsInjective(chan)
    BY DEF Inv, Holds
  <2>2. EnqueueTrue
    BY <2>1 DEF Inv, Holds, Entered, EnqueueTrue
  <2>. QED BY <2>2 DEF Inv, AnswersTrue
<1>. QED BY <1>1, Invariance, PTL

\* The channel's bound holds: the messages of the first `Capacity' places are the only
\* ones whose enqueue can have returned, since every later one has its sender parked.
THEOREM CapacityKept == Spec => []CapacityHolds
<1>1. Inv => CapacityHolds
  <2>. SUFFICES ASSUME Inv PROVE CapacityHolds
    OBVIOUS
  <2>. DEFINE n == Len(parkedQueue)
              m == Len(chan) - n
              T == {e \in ToSet(chan) : pc[e] \in {"ok", "sent"}}
              I == {i \in 1 .. m : pc[chan[i]] \in {"ok", "sent"}}
              f == [i \in I |-> chan[i]]
  <2>1. /\ Len(chan) \in Nat /\ n \in Nat /\ DOMAIN chan = 1 .. Len(chan)
        /\ DOMAIN parkedQueue = 1 .. n /\ (parkedQueue = <<>> => n = 0)
    BY LenProperties, EmptySeq DEF Inv, Types
  <2>2. n <= Len(chan) /\ m \in Nat /\ m <= Capacity /\ (n > 0 => m = Capacity) /\ m + n = Len(chan)
    <3>1. Len(chan) <= Capacity + n
      BY DEF Inv, ParkedAreLast
    <3>2. n = 0 \/ Len(chan) = Capacity + n
      BY <2>1 DEF Inv, ParkedAreLast
    <3>3. m = Len(chan) - n
      OBVIOUS
    <3>4. Len(chan) \in Nat /\ n \in Nat /\ Capacity \in Nat
      BY <2>1, FifoAssumption
    <3>. HIDE DEF n, m
    <3>5. n <= Len(chan) /\ m \in Nat /\ m + n = Len(chan)
      BY <3>2, <3>3, <3>4
    <3>6. m <= Capacity /\ (n > 0 => m = Capacity)
      BY <3>1, <3>2, <3>3, <3>4
    <3>. QED BY <3>5, <3>6
  <2>3. ASSUME NEW e \in T PROVE \E i \in I : f[i] = e
    <3>1. PICK i \in 1 .. Len(chan) : chan[i] = e
      BY <2>1 DEF ToSet
    <3>2. i \in 1 .. m
      <4>. SUFFICES ASSUME i > m PROVE FALSE
        BY <2>1, <2>2, <3>1
      <4>1. n > 0 /\ i - Capacity \in 1 .. n /\ Capacity + (i - Capacity) = i
        <5>. HIDE DEF n, m
        <5>1. n > 0
          BY <2>1, <2>2, <3>1
        <5>. QED BY <2>1, <2>2, <3>1, <5>1, FifoAssumption
      <4>2. parkedQueue[i - Capacity] = e
        BY <3>1, <4>1 DEF Inv, ParkedAreLast
      <4>3. e \in ToSet(parkedQueue)
        BY <2>1, <4>1, <4>2 DEF ToSet
      <4>. QED BY <4>3 DEF Inv, ParkedAreLast
    <3>. QED BY <2>3, <3>1, <3>2
  <2>4. ASSUME NEW i \in I PROVE f[i] \in T
    <3>1. i \in 1 .. Len(chan) /\ pc[chan[i]] \in {"ok", "sent"}
      BY <2>1, <2>2
    <3>. QED BY <2>1, <3>1 DEF ToSet
  <2>5. f \in Surjection(I, T)
    BY <2>3, <2>4 DEF Surjection
  <2>6. IsFiniteSet(1 .. m) /\ Cardinality(1 .. m) <= Capacity /\ Cardinality(1 .. m) \in Nat
    <3>. HIDE DEF m
    <3>1. /\ IsFiniteSet(1 .. m)
          /\ Cardinality(1 .. m) = IF 1 > m THEN 0 ELSE m - 1 + 1
      BY <2>2, FS_Interval
    <3>. QED BY <2>2, <3>1, FifoAssumption
  <2>7. IsFiniteSet(I) /\ Cardinality(I) <= Cardinality(1 .. m) /\ Cardinality(I) \in Nat
    BY <2>6, FS_Subset, FS_CardinalityType
  <2>8. IsFiniteSet(T) /\ Cardinality(T) <= Cardinality(I) /\ Cardinality(T) \in Nat
    BY <2>5, <2>7, FS_Surjection, FS_CardinalityType
  <2>9. Backpressure
    BY <2>6, <2>7, <2>8, FifoAssumption DEF Backpressure
  <2>. QED BY <2>2, <2>9 DEF CapacityHolds, NoneStranded
<1>. QED BY <1>1, Invariance, PTL

-----------------------------------------------------------------------------
(* What len() says.  A counter modulo usize is exact modulo usize if each  *)
(* step changes the two sides of the equation alike.                       *)

LEMMA WrapType == ASSUME NEW n \in Int PROVE Wrap(n) \in 0 .. Usize - 1
BY FifoAssumption DEF Wrap

LEMMA WrapUnique ==
    ASSUME NEW n \in Int, NEW q \in Int, NEW r \in 0 .. Usize - 1, n = Usize * q + r
    PROVE  Wrap(n) = r
BY FifoAssumption DEF Wrap

LEMMA WrapAdd ==
    ASSUME NEW a \in Int, NEW b \in Int
    PROVE  Wrap(Wrap(a) + b) = Wrap(a + b)
<1>. DEFINE p == a \div Usize
            x == Wrap(a) + b
            q == x \div Usize
<1>1. Usize \in Nat \ {0}
  BY FifoAssumption
<1>2. p \in Int /\ Wrap(a) \in Int /\ a = Usize * p + Wrap(a)
  BY <1>1 DEF Wrap
<1>3. q \in Int /\ Wrap(x) \in 0 .. Usize - 1 /\ x = Usize * q + Wrap(x)
  <2>1. x \in Int
    BY <1>2
  <2>. QED BY <1>1, <2>1, WrapType DEF Wrap
<1>. HIDE DEF p, q
<1>4. Usize * (p + q) = Usize * p + Usize * q
  BY <1>1, <1>2, <1>3
<1>5. a + b = Usize * (p + q) + Wrap(x)
  BY <1>1, <1>2, <1>3, <1>4
<1>. QED BY <1>2, <1>3, <1>5, WrapUnique

\* The messages that were sent and not counted: their enqueue has not come to that, or
\* was dropped while it was parked and never will.
Uncounted == {e \in Items : pc[e] \in {"parked", "sent", "abandoned"}}

\* The consumers that have an item and have not counted it out.
Counting == {d \in Consumers : consumer[d] = "counting"}

\* The equation that holds at every moment before close() zeroes the counter.
LenExact ==
    Wrap(length + Cardinality(Uncounted)) = Wrap(Len(chan) + Cardinality(Counting))

\* What the counting needs besides: the receiver's mutex has one holder, and finitely
\* many items were received.
Side ==
    /\ TypeOK
    /\ \A d \in Consumers : consumer[d] \in {"receiving", "counting"} <=> receiver = d
    /\ IsFiniteSet(received)

Open == closer \in {"idle", "taken"}

LenInv == Side /\ (Open => LenExact)

LEMMA InitSide == Init => LenInv
<1>. SUFFICES ASSUME Init PROVE LenInv
  OBVIOUS
<1>1. length \in 0 .. Usize - 1
  BY FifoAssumption DEF Init
<1>2. <<>> \in Seq(Items) /\ Len(chan) = 0
  BY EmptySeq DEF Init
<1>3. TypeOK
  BY <1>1, <1>2 DEF Init, TypeOK
<1>4. Uncounted = {} /\ Counting = {} /\ length = 0
  BY DEF Init, Uncounted, Counting
<1>5. LenExact
  BY <1>2, <1>4, FS_EmptySet DEF LenExact, Counting
<1>6. \A d \in Consumers : consumer[d] \in {"receiving", "counting"} <=> receiver = d
  BY FifoAssumption DEF Init
<1>. QED BY <1>3, <1>4, <1>5, <1>6, FS_EmptySet DEF Init, LenInv, Side

\* The steps that touch neither the counter nor close().
LEMMA EnqueueSide ==
    ASSUME Inv, Side, NEW e \in Items, Enqueue(e)
    PROVE  Side'
<1>. USE DEF consumerVars, closeVars
<1>1. UNCHANGED <<consumer, holding, receiver, received, hasSender, closed, closer>>
  BY DEF Enqueue, CheckClosed, Clone, Send, Flush, CountIn, Cancel
<1>2. length' \in 0 .. Usize - 1
  <2>1. CASE CountIn(e)
    <3>1. length + 1 \in Int
      BY FifoAssumption DEF Side, TypeOK
    <3>. QED BY <2>1, <3>1, WrapType DEF CountIn
  <2>2. CASE ~CountIn(e)
    BY <2>2 DEF Enqueue, CheckClosed, Clone, Send, Flush, Cancel, Side, TypeOK
  <2>. QED BY <2>1, <2>2
<1>3. chan' \in Seq(Items) /\ parkedQueue' \in Seq(Items)
  <2>1. CASE Send(e)
    <3>1. chan' = Append(chan, e) /\ parkedQueue' \in {parkedQueue, Append(parkedQueue, e)}
      BY <2>1 DEF Send
    <3>2. Append(chan, e) \in Seq(Items) /\ Append(parkedQueue, e) \in Seq(Items)
      BY AppendFacts DEF Side, TypeOK
    <3>. QED BY <3>1, <3>2 DEF Side, TypeOK
  <2>2. CASE ~Send(e)
    BY <2>2 DEF Enqueue, CheckClosed, Clone, Flush, CountIn, Cancel, Side, TypeOK
  <2>. QED BY <2>1, <2>2
<1>4. PICK to \in {"checked", "ok", "err", "cancelled", "abandoned"} \cup Sending :
          pc' = [pc EXCEPT ![e] = to]
  BY DEF Enqueue, CheckClosed, Clone, Send, Flush, CountIn, Cancel, Step, Sending
<1>5. pc' \in [Items -> {"idle", "checked", "ok", "err", "cancelled", "abandoned"} \cup Sending]
  BY <1>4 DEF Side, TypeOK
<1>6. earlier' \in [Items -> SUBSET Items]
  BY DEF Enqueue, CheckClosed, Clone, Send, Flush, CountIn, Cancel, Side, TypeOK
<1>7. TypeOK'
  BY <1>1, <1>2, <1>3, <1>5, <1>6 DEF Side, TypeOK
<1>. QED BY <1>1, <1>7 DEF Side

LEMMA DequeueSide ==
    ASSUME Inv, Side, NEW d \in Consumers, Dequeue(d)
    PROVE  Side'
<1>. USE DEF closeVars
<1>1. UNCHANGED <<pc, earlier, hasSender, closed, closer>>
  BY DEF Dequeue, Call, Lock, Receive, CountOut, End, Forget
<1>2. length' \in 0 .. Usize - 1
  <2>1. CASE CountOut(d)
    <3>1. length - 1 \in Int
      BY FifoAssumption DEF Side, TypeOK
    <3>. QED BY <2>1, <3>1, WrapType DEF CountOut
  <2>2. CASE ~CountOut(d)
    BY <2>2 DEF Dequeue, Call, Lock, Receive, End, Forget, Side, TypeOK
  <2>. QED BY <2>1, <2>2
<1>3. chan' \in Seq(Items) /\ parkedQueue' \in Seq(Items)
      /\ holding' \in [Consumers -> Items \cup {Nobody}]
  <2>1. CASE Receive(d)
    BY <2>1, TailFacts, EmptySeq DEF Receive, Side, TypeOK
  <2>2. CASE ~Receive(d)
    BY <2>2 DEF Dequeue, Call, Lock, CountOut, End, Forget, Side, TypeOK
  <2>. QED BY <2>1, <2>2
<1>4. received' \in SUBSET Items /\ IsFiniteSet(received')
  <2>1. CASE CountOut(d)
    <3>1. holding[d] \in Items /\ received' = received \cup {holding[d]}
      BY <2>1 DEF CountOut, Move, Inv, Types, Holds
    <3>. QED BY <3>1, FS_AddElement DEF Side, TypeOK
  <2>2. CASE ~CountOut(d)
    BY <2>2 DEF Dequeue, Call, Lock, Receive, End, Forget, Side, TypeOK
  <2>. QED BY <2>1, <2>2
<1>5. consumer' \in [Consumers -> {"idle", "locking", "receiving", "counting", "none", "gone"}]
  BY DEF Dequeue, Call, Lock, Receive, CountOut, End, Forget, Move, Side, TypeOK
<1>6. /\ receiver' \in Consumers \cup {Nobody}
      /\ \A b \in Consumers : consumer'[b] \in {"receiving", "counting"} <=> receiver' = b
  BY FifoAssumption
     DEF Dequeue, Call, Lock, Receive, CountOut, End, Forget, Move, Side, TypeOK
<1>7. TypeOK'
  BY <1>1, <1>2, <1>3, <1>4, <1>5, <1>6 DEF Side, TypeOK
<1>. QED BY <1>1, <1>4, <1>6, <1>7 DEF Side

LEMMA OtherSide ==
    ASSUME Side, Close \/ UNCHANGED vars
    PROVE  Side'
<1>1. CASE TakeSender
  BY <1>1 DEF Side, TypeOK, TakeSender, consumerVars
<1>2. CASE ZeroLength
  <2>1. length' \in 0 .. Usize - 1
    BY <1>2, FifoAssumption DEF ZeroLength, Side, TypeOK
  <2>. QED BY <1>2, <2>1 DEF Side, TypeOK, ZeroLength, consumerVars
<1>3. CASE SetClosed
  BY <1>3 DEF Side, TypeOK, SetClosed, consumerVars
<1>4. CASE UNCHANGED vars
  BY <1>4 DEF Side, TypeOK, vars
<1>. QED BY <1>1, <1>2, <1>3, <1>4 DEF Close

LEMMA ElementsFinite ==
    ASSUME NEW S, NEW c \in Seq(S)
    PROVE  IsFiniteSet(ToSet(c))
<1>1. DOMAIN c = 1 .. Len(c) /\ Len(c) \in Nat /\ c \in [1 .. Len(c) -> S]
  BY LenProperties
<1>2. c \in Surjection(1 .. Len(c), ToSet(c))
  BY <1>1 DEF Surjection, ToSet
<1>3. IsFiniteSet(1 .. Len(c))
  BY <1>1, FS_Interval
<1>. QED BY <1>2, <1>3, FS_Surjection

LEMMA CountsFinite ==
    ASSUME Inv, Side
    PROVE  /\ IsFiniteSet(Uncounted) /\ Cardinality(Uncounted) \in Nat
           /\ IsFiniteSet(Counting) /\ Cardinality(Counting) \in Nat
<1>. DEFINE H == {holding[d] : d \in Consumers}
<1>1. H \subseteq {Nobody} \cup {holding[receiver]}
  BY DEF Inv, Holds, Side
<1>2. IsFiniteSet({Nobody} \cup {holding[receiver]})
  BY FS_Singleton, FS_Union
<1>3. IsFiniteSet(H)
  BY <1>1, <1>2, FS_Subset
<1>4. IsFiniteSet(ToSet(chan))
  BY ElementsFinite DEF Inv, Types
<1>5. IsFiniteSet(Inside)
  <2>1. IsFiniteSet(ToSet(chan) \cup H)
    BY <1>3, <1>4, FS_Union
  <2>. QED BY <2>1, FS_Union DEF Inside, Side
<1>6. Uncounted \subseteq Inside
  BY DEF Uncounted, Inv, Holds, Entered
<1>7. Counting \subseteq {receiver}
  BY DEF Counting, Side
<1>. QED BY <1>5, <1>6, <1>7, FS_Subset, FS_Singleton, FS_CardinalityType

\* How a step changes the two sides.
LenMoves(dl, du) ==
    /\ length' = Wrap(length + dl)
    /\ Cardinality(Uncounted') = Cardinality(Uncounted) + du
    /\ Len(chan') + Cardinality(Counting') = Len(chan) + Cardinality(Counting) + (dl + du)

LEMMA MoveKeepsLen ==
    ASSUME Inv, Side, LenExact, NEW dl \in Int, NEW du \in Int, LenMoves(dl, du)
    PROVE  LenExact'
<1>. DEFINE m == Cardinality(Uncounted)
            n == Len(chan) + Cardinality(Counting)
<1>1. length \in Int /\ m \in Int /\ n \in Int
  BY CountsFinite, LenProperties, FifoAssumption DEF Side, TypeOK
<1>2. Wrap(length + m) = Wrap(n)
  BY DEF LenExact
<1>3. length' + Cardinality(Uncounted') = Wrap(length + dl) + (m + du)
  BY DEF LenMoves
<1>4. Len(chan') + Cardinality(Counting') = n + (dl + du)
  BY DEF LenMoves
<1>. HIDE DEF m, n
<1>5. Wrap(Wrap(length + dl) + (m + du)) = Wrap((length + dl) + (m + du))
  BY <1>1, WrapAdd
<1>6. (length + dl) + (m + du) = (length + m) + (dl + du)
  BY <1>1
<1>7. Wrap((length + m) + (dl + du)) = Wrap(Wrap(length + m) + (dl + du))
  BY <1>1, WrapAdd
<1>8. Wrap(n + (dl + du)) = Wrap(Wrap(n) + (dl + du))
  BY <1>1, WrapAdd
<1>9. Wrap(length' + Cardinality(Uncounted')) = Wrap(Len(chan') + Cardinality(Counting'))
  BY <1>2, <1>3, <1>4, <1>5, <1>6, <1>7, <1>8
<1>. QED BY <1>9 DEF LenExact

\* The calls move the counter and the channel in three places.
LEMMA EnqueueLen == ASSUME Inv, Side, LenExact, NEW e \in Items, Enqueue(e) PROVE LenExact'
<1>. USE DEF consumerVars, closeVars
<1>1. Counting' = Counting
  BY DEF Enqueue, CheckClosed, Clone, Send, Flush, CountIn, Cancel, Counting, Side, TypeOK
<1>2. /\ length \in 0 .. Usize - 1 /\ Wrap(length + 0) = length
      /\ Len(chan) \in Int /\ Cardinality(Counting) \in Int /\ Cardinality(Uncounted) \in Int
  <2>1. length \in 0 .. Usize - 1
    BY DEF Side, TypeOK
  <2>2. Wrap(length + 0) = length
    BY <2>1, FifoAssumption DEF Wrap
  <2>. QED BY <2>1, <2>2, CountsFinite, LenProperties DEF Side, TypeOK
<1>3. CASE Send(e)
  <2>1. Len(chan') = Len(chan) + 1
    BY <1>3, AppendFacts DEF Send, Side, TypeOK
  <2>2. Uncounted' = Uncounted \cup {e} /\ e \notin Uncounted
    BY <1>3 DEF Send, Step, Uncounted, Side, TypeOK
  <2>3. Cardinality(Uncounted') = Cardinality(Uncounted) + 1
    BY <2>2, CountsFinite, FS_AddElement
  <2>4. LenMoves(0, 1)
    BY <1>1, <1>2, <1>3, <2>1, <2>3 DEF Send, LenMoves
  <2>. QED BY <2>4, MoveKeepsLen
<1>4. CASE CountIn(e)
  <2>1. Uncounted' = Uncounted \ {e} /\ e \in Uncounted
    BY <1>4 DEF CountIn, Step, Uncounted, Side, TypeOK
  <2>2. Cardinality(Uncounted') = Cardinality(Uncounted) - 1
    BY <2>1, CountsFinite, FS_RemoveElement
  <2>3. LenMoves(1, -1)
    BY <1>1, <1>2, <1>4, <2>2 DEF CountIn, LenMoves
  <2>. QED BY <2>3, MoveKeepsLen
<1>5. CASE CheckClosed(e) \/ Clone(e) \/ Flush(e) \/ Cancel(e)
  <2>1. Uncounted' = Uncounted
    BY <1>5 DEF CheckClosed, Clone, Flush, Cancel, Step, Uncounted, Side, TypeOK
  <2>2. UNCHANGED <<length, chan>>
    BY <1>5 DEF CheckClosed, Clone, Flush, Cancel
  <2>. QED BY <1>1, <2>1, <2>2 DEF LenExact, Counting
<1>. QED BY <1>3, <1>4, <1>5 DEF Enqueue

LEMMA DequeueLen == ASSUME Inv, Side, LenExact, NEW d \in Consumers, Dequeue(d) PROVE LenExact'
<1>. USE DEF closeVars
<1>1. Uncounted' = Uncounted
  BY DEF Dequeue, Call, Lock, Receive, CountOut, End, Forget, Uncounted, Side, TypeOK
<1>2. /\ length \in 0 .. Usize - 1 /\ Wrap(length + 0) = length
      /\ Len(chan) \in Int /\ Cardinality(Counting) \in Int /\ Cardinality(Uncounted) \in Int
  <2>1. length \in 0 .. Usize - 1
    BY DEF Side, TypeOK
  <2>2. Wrap(length + 0) = length
    BY <2>1, FifoAssumption DEF Wrap
  <2>. QED BY <2>1, <2>2, CountsFinite, LenProperties DEF Side, TypeOK
<1>3. CASE Receive(d)
  <2>1. Len(chan') = Len(chan) - 1
    BY <1>3, TailFacts DEF Receive, Side, TypeOK
  <2>2. Counting' = Counting \cup {d} /\ d \notin Counting
    BY <1>3 DEF Receive, Move, Counting, Side, TypeOK
  <2>3. Cardinality(Counting') = Cardinality(Counting) + 1
    BY <2>2, CountsFinite, FS_AddElement
  <2>4. LenMoves(0, 0)
    BY <1>1, <1>2, <1>3, <2>1, <2>3 DEF Receive, LenMoves
  <2>. QED BY <2>4, MoveKeepsLen
<1>4. CASE CountOut(d)
  <2>1. Counting' = Counting \ {d} /\ d \in Counting
    BY <1>4 DEF CountOut, Move, Counting, Side, TypeOK
  <2>2. Cardinality(Counting') = Cardinality(Counting) - 1
    BY <2>1, CountsFinite, FS_RemoveElement
  <2>3. LenMoves(-1, 0)
    BY <1>1, <1>2, <1>4, <2>2 DEF CountOut, LenMoves
  <2>. QED BY <2>3, MoveKeepsLen
<1>5. CASE Call(d) \/ Lock(d) \/ End(d) \/ Forget(d)
  <2>1. Counting' = Counting
    BY <1>5 DEF Call, Lock, End, Forget, Move, Counting, Side, TypeOK
  <2>2. UNCHANGED <<length, chan>>
    BY <1>5 DEF Call, Lock, End, Forget
  <2>. QED BY <1>1, <2>1, <2>2 DEF LenExact, Counting
<1>. QED BY <1>3, <1>4, <1>5 DEF Dequeue

LEMMA CloseLen ==
    ASSUME Side, Open => LenExact, Close \/ UNCHANGED vars
    PROVE  (Open => LenExact)'
<1>. SUFFICES ASSUME Open' PROVE LenExact'
  OBVIOUS
<1>1. Open /\ UNCHANGED <<pc, consumer, chan, length>>
  BY DEF Close, TakeSender, ZeroLength, SetClosed, vars, consumerVars, Open
<1>. QED BY <1>1 DEF LenExact, Uncounted, Counting

\* The counter's invariant.
THEOREM LengthInvariance == Spec => []LenInv
<1>1. Inv /\ LenInv /\ [Next]_vars => LenInv'
  <2>. SUFFICES ASSUME Inv, LenInv, [Next]_vars PROVE LenInv'
    OBVIOUS
  <2>. USE DEF LenInv
  <2>1. ASSUME NEW e \in Items, Enqueue(e) PROVE LenInv'
    <3>1. UNCHANGED closer
      BY <2>1 DEF Enqueue, CheckClosed, Clone, Send, Flush, CountIn, Cancel, closeVars
    <3>. QED BY <2>1, <3>1, EnqueueSide, EnqueueLen DEF Open
  <2>2. ASSUME NEW d \in Consumers, Dequeue(d) PROVE LenInv'
    <3>1. UNCHANGED closer
      BY <2>2 DEF Dequeue, Call, Lock, Receive, CountOut, End, Forget, closeVars
    <3>. QED BY <2>2, <3>1, DequeueSide, DequeueLen DEF Open
  <2>3. CASE Close \/ UNCHANGED vars
    BY <2>3, OtherSide, CloseLen
  <2>. QED BY <2>1, <2>2, <2>3 DEF Next
<1>. QED BY <1>1, InitSide, Invariance, PTL DEF Spec

\* Before close(), when no call is between the channel and the counter and no parked send
\* was dropped, len() is the number of messages, for any capacity and any width of usize:
\* however receives overtook the counting in of what they received.
THEOREM LengthExact == Spec => []LengthSound
<1>1. LenInv => LengthSound
  <2>. SUFFICES ASSUME LenInv PROVE LengthSound
    OBVIOUS
  <2>1. TypeOK
    BY DEF LenInv, Side
  <2>2. LenSettled
    <3>. SUFFICES ASSUME Open, Uncounted = {}, Counting = {} PROVE length = Wrap(Len(chan))
      BY DEF LenSettled, Open, Uncounted, Counting
    <3>1. length \in 0 .. Usize - 1 /\ Len(chan) \in Nat
      BY <2>1, LenProperties DEF TypeOK
    <3>2. Wrap(length + 0) = Wrap(Len(chan) + 0)
      BY FS_EmptySet DEF LenInv, LenExact
    <3>3. Wrap(length + 0) = length /\ Len(chan) + 0 = Len(chan)
      BY <3>1, FifoAssumption DEF Wrap
    <3>. QED BY <3>2, <3>3
  <2>. QED BY <2>1, <2>2 DEF LengthSound
<1>. QED BY <1>1, LengthInvariance, PTL

-----------------------------------------------------------------------------
(* The abstract queue.  The channel keeps the order of the calls: none     *)
(* whose message is at a place, or behind it, had returned when the call   *)
(* of that place was made.                                                 *)

Ordered ==
    /\ \A e \in Items : \A f \in earlier[e] : pc[f] = "ok"
    /\ \A i \in 1 .. Len(chan) : \A j \in i .. Len(chan) : chan[j] \notin earlier[chan[i]]

\* Messages are items, and are Entered.
LEMMA ChannelItems ==
    ASSUME Inv
    PROVE  /\ Len(chan) \in Nat /\ DOMAIN chan = 1 .. Len(chan)
           /\ \A i \in 1 .. Len(chan) : chan[i] \in Items /\ chan[i] \in ToSet(chan)
                                        /\ pc[chan[i]] \in Entered
<1>1. Len(chan) \in Nat /\ DOMAIN chan = 1 .. Len(chan)
  BY LenProperties DEF Inv, Types
<1>2. \A i \in 1 .. Len(chan) : chan[i] \in Items
  BY ElementOfSeq DEF Inv, Types
<1>3. \A i \in 1 .. Len(chan) : chan[i] \in ToSet(chan)
  BY <1>1 DEF ToSet
<1>4. ToSet(chan) \subseteq Inside
  BY DEF Inside
<1>. QED BY <1>1, <1>2, <1>3, <1>4 DEF Inv, Holds

LEMMA InitOrdered == Init => Ordered
<1>. SUFFICES ASSUME Init PROVE Ordered
  OBVIOUS
<1>1. Len(chan) = 0
  BY EmptySeq DEF Init
<1>. QED BY <1>1 DEF Init, Ordered

LEMMA OrderedStep == ASSUME Inv, Side, Ordered, [Next]_vars PROVE Ordered'
<1>. USE DEF consumerVars, closeVars
<1>1. ASSUME NEW e \in Items, CheckClosed(e) PROVE Ordered'
  <2>1. /\ pc[e] = "idle" /\ chan' = chan /\ earlier'[e] = {f \in Items : pc[f] = "ok"}
        /\ \A f \in Items \ {e} : pc'[f] = pc[f] /\ earlier'[f] = earlier[f]
    BY <1>1 DEF CheckClosed, Step, Side, TypeOK
  <2>2. \A g \in Items : \A f \in earlier'[g] : pc'[f] = "ok"
    <3>1. \A g \in Items : \A f \in earlier'[g] : f \in Items /\ pc[f] = "ok"
      BY <2>1 DEF Ordered, Side, TypeOK
    <3>. QED BY <2>1, <3>1
  <2>3. \A i \in 1 .. Len(chan) : earlier'[chan[i]] = earlier[chan[i]]
    BY <2>1, ChannelItems DEF Entered
  <2>. QED BY <2>1, <2>2, <2>3 DEF Ordered
<1>2. ASSUME NEW e \in Items, Send(e) PROVE Ordered'
  <2>1. /\ pc[e] = "cloned" /\ chan' = Append(chan, e) /\ UNCHANGED earlier
        /\ \A f \in Items \ {e} : pc'[f] = pc[f]
    BY <1>2 DEF Send, Step, Side, TypeOK
  <2>2. /\ Len(chan) \in Nat /\ Len(chan') = Len(chan) + 1 /\ chan'[Len(chan) + 1] = e
        /\ \A i \in 1 .. Len(chan) : chan'[i] = chan[i]
    BY <2>1, AppendFacts DEF Inv, Types
  <2>3. \A g \in Items : e \notin earlier[g]
    BY <2>1 DEF Ordered
  <2>4. \A g \in Items : \A f \in earlier'[g] : pc'[f] = "ok"
    BY <2>1, <2>3 DEF Ordered, Side, TypeOK
  <2>5. ASSUME NEW i \in 1 .. Len(chan'), NEW j \in i .. Len(chan')
        PROVE  chan'[j] \notin earlier[chan'[i]]
    <3>1. chan'[i] \in Items
      BY <2>2, ChannelItems
    <3>2. CASE j = Len(chan) + 1
      BY <2>2, <2>3, <3>1, <3>2
    <3>3. CASE j # Len(chan) + 1
      <4>1. i \in 1 .. Len(chan) /\ j \in i .. Len(chan) /\ j \in 1 .. Len(chan)
        BY <2>2, <3>3
      <4>. QED BY <2>2, <4>1 DEF Ordered
    <3>. QED BY <3>2, <3>3
  <2>. QED BY <2>1, <2>4, <2>5 DEF Ordered
<1>3. ASSUME NEW e \in Items, Clone(e) \/ Flush(e) \/ CountIn(e) \/ Cancel(e) PROVE Ordered'
  <2>1. /\ pc[e] # "ok" /\ UNCHANGED <<chan, earlier>>
        /\ \A f \in Items \ {e} : pc'[f] = pc[f]
    BY <1>3 DEF Clone, Flush, CountIn, Cancel, Step, Side, TypeOK
  <2>2. \A g \in Items : \A f \in earlier[g] : pc'[f] = "ok"
    BY <2>1 DEF Ordered, Side, TypeOK
  <2>. QED BY <2>1, <2>2 DEF Ordered
<1>4. ASSUME NEW d \in Consumers, Receive(d) PROVE Ordered'
  <2>1. UNCHANGED <<pc, earlier>> /\ chan # <<>> /\ chan' = Tail(chan)
    BY <1>4 DEF Receive
  <2>2. /\ Len(chan) \in Nat \ {0} /\ Len(chan') = Len(chan) - 1
        /\ \A i \in 1 .. Len(chan') : chan'[i] = chan[i + 1]
    BY <2>1, TailFacts DEF Inv, Types
  <2>3. ASSUME NEW i \in 1 .. Len(chan'), NEW j \in i .. Len(chan')
        PROVE  chan'[j] \notin earlier[chan'[i]]
    <3>1. i + 1 \in 1 .. Len(chan) /\ j + 1 \in i + 1 .. Len(chan) /\ j \in 1 .. Len(chan')
      BY <2>2
    <3>. QED BY <2>2, <3>1 DEF Ordered
  <2>. QED BY <2>1, <2>3 DEF Ordered
<1>5. ASSUME UNCHANGED <<pc, earlier, chan>> PROVE Ordered'
  BY <1>5 DEF Ordered
<1>6. ASSUME NEW d \in Consumers, Dequeue(d), ~Receive(d) PROVE Ordered'
  BY <1>5, <1>6 DEF Dequeue, Call, Lock, CountOut, End, Forget
<1>7. CASE Close \/ UNCHANGED vars
  BY <1>5, <1>7 DEF Close, TakeSender, ZeroLength, SetClosed, vars
<1>. QED BY <1>1, <1>2, <1>3, <1>4, <1>6, <1>7 DEF Next, Enqueue

\* A step that leaves the channel and the consumers alone moves no item.
LEMMA PlacesKept ==
    ASSUME UNCHANGED <<chan, holding, received>>
    PROVE  Place' = Place
BY DEF Place, Inside

\* An enqueue changes the answer of no other call.
LEMMA AnswerMoves ==
    ASSUME Side, NEW e \in Items, NEW from, NEW to, Step(e, from, to)
    PROVE  /\ pc' = [pc EXCEPT ![e] = to] /\ pc[e] = from /\ pc'[e] = to
           /\ Answer' = [Answer EXCEPT ![e] = Answer'[e]]
<1>1. pc' = [pc EXCEPT ![e] = to] /\ pc[e] = from /\ pc'[e] = to
  BY DEF Step, Side, TypeOK
<1>2. \A f \in Items \ {e} : Answer'[f] = Answer[f]
  BY <1>1 DEF Answer, Side, TypeOK
<1>3. Answer = [f \in Items |-> Answer[f]] /\ Answer' = [f \in Items |-> Answer'[f]]
  BY DEF Answer
<1>. QED BY <1>1, <1>2, <1>3

LEMMA EnqueueImplements ==
    ASSUME Inv, Side, NEW e \in Items, Enqueue(e)
    PROVE  [Promise!Next]_(Promise!vars)
<1>. USE DEF consumerVars, closeVars
<1>1. CASE CheckClosed(e)
  <2>1. PICK to \in {"err", "checked"} : Step(e, "idle", to)
    BY <1>1 DEF CheckClosed
  <2>2. /\ Answer' = [Answer EXCEPT ![e] = Answer'[e]]
        /\ Answer[e] = "new" /\ Answer'[e] \in {"waiting", "err"}
    BY <2>1, AnswerMoves DEF Answer
  <2>3. \A f \in Items : Answer[f] = "ok" <=> pc[f] = "ok"
    BY DEF Answer, Side, TypeOK, Sending
  <2>4. Place' = Place /\ earlier' = [earlier EXCEPT ![e] = {f \in Items : Answer[f] = "ok"}]
    BY <1>1, <2>3, PlacesKept DEF CheckClosed
  <2>5. Promise!Call(e, Answer'[e])
    BY <2>2, <2>4 DEF Promise!Call
  <2>. QED BY <2>2, <2>5 DEF Promise!Next
<1>2. CASE Clone(e)
  <2>1. PICK to \in {"err", "cloned"} : Step(e, "checked", to)
    BY <1>2 DEF Clone
  <2>2. /\ Answer' = [Answer EXCEPT ![e] = Answer'[e]] /\ Answer[e] = "waiting"
        /\ Answer'[e] = IF to = "err" THEN "err" ELSE "waiting"
    BY <2>1, AnswerMoves DEF Answer
  <2>3. Place' = Place /\ UNCHANGED earlier
    BY <1>2, PlacesKept DEF Clone
  <2>4. CASE to = "err"
    <3>1. Place[e] = "out"
      <4>1. e \notin Inside
        BY <2>1, AnswerMoves DEF Inv, Holds, Entered
      <4>. QED BY <4>1 DEF Place, Inside
    <3>2. Promise!Return(e, "err")
      BY <2>2, <2>3, <2>4, <3>1 DEF Promise!Return
    <3>. QED BY <3>2 DEF Promise!Next
  <2>5. CASE to # "err"
    <3>1. Answer' = Answer
      BY <2>2, <2>5 DEF Answer
    <3>. QED BY <2>3, <3>1 DEF Promise!vars
  <2>. QED BY <2>4, <2>5
<1>3. CASE Send(e)
  <2>1. PICK to \in {"parked", "sent"} : Step(e, "cloned", to)
    BY <1>3 DEF Send
  <2>2. Answer' = [Answer EXCEPT ![e] = Answer'[e]] /\ Answer[e] = "waiting" /\ Answer'[e] = "waiting"
    BY <2>1, AnswerMoves DEF Answer
  <2>3. Answer' = Answer
    BY <2>2 DEF Answer
  <2>4. ToSet(chan') = ToSet(chan) \cup {e} /\ e \notin Inside /\ UNCHANGED <<holding, received, earlier>>
    BY <1>3, <2>1, AnswerMoves, AppendFacts DEF Send, Inv, Types, Holds, Entered
  <2>5. Place[e] = "out" /\ Place' = [Place EXCEPT ![e] = "queued"]
    <3>1. Inside' = Inside \cup {e} /\ ToSet(chan) \subseteq Inside
      BY <2>4 DEF Inside
    <3>. QED BY <2>4, <3>1 DEF Place
  <2>6. Promise!Publish(e)
    BY <2>2, <2>3, <2>4, <2>5 DEF Promise!Publish
  <2>. QED BY <2>6 DEF Promise!Next
<1>4. CASE Flush(e)
  <2>1. Answer' = [Answer EXCEPT ![e] = Answer'[e]] /\ Answer[e] = "waiting" /\ Answer'[e] = "waiting"
    BY <1>4, AnswerMoves DEF Flush, Answer
  <2>2. Answer' = Answer /\ Place' = Place /\ UNCHANGED earlier
    BY <1>4, <2>1, PlacesKept DEF Flush, Answer
  <2>. QED BY <2>2 DEF Promise!vars
<1>5. CASE CountIn(e)
  <2>1. Answer' = [Answer EXCEPT ![e] = Answer'[e]] /\ Answer[e] = "waiting" /\ Answer'[e] = "ok"
    BY <1>5, AnswerMoves DEF CountIn, Answer
  <2>2. Place' = Place /\ UNCHANGED earlier
    BY <1>5, PlacesKept DEF CountIn
  <2>3. Place[e] # "out"
    <3>1. e \in Inside
      BY <1>5, AnswerMoves DEF CountIn, Inv, Holds, Entered
    <3>. QED BY <3>1 DEF Place
  <2>4. Promise!Return(e, "ok")
    BY <2>1, <2>2, <2>3 DEF Promise!Return
  <2>. QED BY <2>4 DEF Promise!Next
<1>6. CASE Cancel(e)
  <2>1. Answer' = [Answer EXCEPT ![e] = Answer'[e]] /\ Answer[e] = "waiting" /\ Answer'[e] = "dropped"
    BY <1>6, AnswerMoves DEF Cancel, Answer
  <2>2. Place' = Place /\ UNCHANGED earlier
    BY <1>6, PlacesKept DEF Cancel
  <2>3. Promise!Drop(e)
    BY <2>1, <2>2 DEF Promise!Drop
  <2>. QED BY <2>3 DEF Promise!Next
<1>. QED BY <1>1, <1>2, <1>3, <1>4, <1>5, <1>6 DEF Enqueue

LEMMA DequeueImplements ==
    ASSUME Inv, Side, Ordered, NEW d \in Consumers, Dequeue(d)
    PROVE  [Promise!Next]_(Promise!vars)
<1>. USE DEF closeVars
<1>1. Answer' = Answer /\ UNCHANGED <<pc, earlier>>
  BY DEF Dequeue, Call, Lock, Receive, CountOut, End, Forget, Answer
<1>2. CASE Receive(d)
  <2>. DEFINE h == Head(chan)
  <2>1. chan # <<>> /\ chan' = Tail(chan) /\ received' = received
    BY <1>2 DEF Receive
  <2>2. /\ h \in Items /\ Len(chan) \in Nat \ {0} /\ h = chan[1]
        /\ ToSet(chan) = ToSet(chan') \cup {h} /\ h \notin ToSet(chan')
    BY <2>1, TailFacts, HeadTailProperties DEF Inv, Types, Holds
  <2>3. \A f \in Items : f \in Inside' <=> f \in Inside
    BY <1>1, <1>2, ReceiveStep DEF Inv, Holds
  <2>4. h \in Inside
    BY <2>2 DEF Inside
  <2>5. Place[h] = "queued" /\ Place' = [Place EXCEPT ![h] = "taken"]
    BY <2>2, <2>3, <2>4 DEF Place
  <2>6. ASSUME NEW f \in Items, Place[f] = "queued" PROVE ~Promise!GoesFirst(f, h)
    <3>1. f \in ToSet(chan)
      BY <2>6 DEF Place
    <3>2. PICK j \in 1 .. Len(chan) : chan[j] = f
      BY <3>1, ChannelItems DEF ToSet
    <3>3. 1 \in 1 .. Len(chan) /\ j \in 1 .. Len(chan)
      BY <2>2
    <3>4. f \notin earlier[h]
      BY <2>2, <3>2, <3>3 DEF Ordered
    <3>. QED BY <3>4 DEF Promise!GoesFirst
  <2>7. Promise!Take(h)
    BY <1>1, <2>5, <2>6 DEF Promise!Take
  <2>. QED BY <2>2, <2>7 DEF Promise!Next
<1>3. CASE CountOut(d)
  <2>1. chan' = chan
    BY <1>3 DEF CountOut
  <2>2. \A f \in Items : f \in Inside' <=> f \in Inside
    BY <1>1, <1>3, CountOutStep DEF Inv, Holds
  <2>3. Place' = Place
    BY <2>1, <2>2 DEF Place
  <2>. QED BY <1>1, <2>3 DEF Promise!vars
<1>4. CASE Call(d) \/ Lock(d) \/ End(d) \/ Forget(d)
  <2>1. Place' = Place
    BY <1>4, PlacesKept DEF Call, Lock, End, Forget
  <2>. QED BY <1>1, <2>1 DEF Promise!vars
<1>. QED BY <1>2, <1>3, <1>4 DEF Dequeue

\* Whatever several consumers, parked senders and dropped calls do, for any numbers of
\* them and any capacity, the queue is a first in, first out queue.
THEOREM Implementation == Spec => ImplementsPromise
<1>1. Init => Promise!Init
  <2>. SUFFICES ASSUME Init PROVE Promise!Init
    OBVIOUS
  <2>1. \A e \in Items : e \notin Inside /\ e \notin ToSet(chan)
    BY EmptySeq, FifoAssumption DEF Init, Inside, ToSet
  <2>2. Answer = [e \in Items |-> "new"] /\ Place = [e \in Items |-> "out"]
    BY <2>1 DEF Init, Answer, Place
  <2>. QED BY <2>2 DEF Init, Promise!Init
<1>2. Inv /\ LenInv /\ Ordered /\ [Next]_vars => [Promise!Next]_(Promise!vars)
  <2>. SUFFICES ASSUME Inv, LenInv, Ordered, [Next]_vars PROVE [Promise!Next]_(Promise!vars)
    OBVIOUS
  <2>1. CASE Close \/ UNCHANGED vars
    <3>1. UNCHANGED <<pc, earlier, chan, holding, received>>
      BY <2>1 DEF Close, TakeSender, ZeroLength, SetClosed, vars, consumerVars
    <3>. QED BY <3>1, PlacesKept DEF Answer, Promise!vars
  <2>. QED BY <2>1, EnqueueImplements, DequeueImplements DEF Next, LenInv
<1>3. Inv /\ LenInv /\ Ordered /\ [Next]_vars => Ordered'
  BY OrderedStep DEF LenInv
<1>. QED BY <1>1, <1>2, <1>3, InitOrdered, Invariance, LengthInvariance, PTL
         DEF Spec, Promise!Spec, ImplementsPromise

-----------------------------------------------------------------------------
(* What the abstract queue implies for the items.                          *)

PromiseInv ==
    /\ Answer \in [Items -> {"new", "waiting", "ok", "err", "dropped"}]
    /\ Place \in [Items -> {"out", "queued", "taken"}]
    /\ earlier \in [Items -> SUBSET Items]
    /\ \A e \in Items : Answer[e] = "new" => Place[e] = "out"
    /\ \A e \in Items : \A f \in earlier[e] : Answer[f] = "ok"
    /\ Promise!Truthful
    /\ Promise!InOrder

LEMMA PromiseStep == ASSUME PromiseInv, [Promise!Next]_(Promise!vars) PROVE PromiseInv'
<1>. USE DEF PromiseInv, Promise!Truthful, Promise!InOrder
<1>1. ASSUME NEW e \in Items, NEW to \in {"waiting", "err"}, Promise!Call(e, to) PROVE PromiseInv'
  <2>1. /\ Answer[e] = "new" /\ Answer'[e] = to /\ Place' = Place
        /\ earlier'[e] = {f \in Items : Answer[f] = "ok"}
        /\ \A g \in Items \ {e} : Answer'[g] = Answer[g] /\ earlier'[g] = earlier[g]
        /\ Answer' \in [Items -> {"new", "waiting", "ok", "err", "dropped"}]
        /\ earlier' \in [Items -> SUBSET Items]
    BY <1>1 DEF Promise!Call
  <2>2. \A g \in Items : \A f \in earlier'[g] : f \in Items \ {e} /\ Answer'[f] = "ok"
    BY <2>1
  <2>3. Promise!Truthful'
    BY <2>1
  <2>4. Promise!InOrder'
    BY <2>1
  <2>. QED BY <2>1, <2>2, <2>3, <2>4
<1>2. ASSUME NEW e \in Items, Answer[e] = "waiting", NEW to \in {"ok", "err", "dropped"},
             Answer' = [Answer EXCEPT ![e] = to], UNCHANGED <<Place, earlier>>,
             to = "ok" => Place[e] # "out", to = "err" => Place[e] = "out"
      PROVE  PromiseInv'
  <2>1. /\ Answer'[e] = to /\ \A g \in Items \ {e} : Answer'[g] = Answer[g]
        /\ Answer' \in [Items -> {"new", "waiting", "ok", "err", "dropped"}]
    BY <1>2
  <2>2. \A g \in Items : \A f \in earlier[g] : f \in Items \ {e}
    BY <1>2
  <2>3. \A g \in Items : \A f \in earlier'[g] : Answer'[f] = "ok"
    BY <1>2, <2>1, <2>2
  <2>4. Promise!Truthful'
    BY <1>2, <2>1
  <2>. QED BY <1>2, <2>1, <2>3, <2>4
<1>3. ASSUME NEW e \in Items, Promise!Publish(e) PROVE PromiseInv'
  BY <1>3 DEF Promise!Publish
<1>4. ASSUME NEW e \in Items, Promise!Take(e) PROVE PromiseInv'
  <2>1. /\ Place[e] = "queued" /\ UNCHANGED <<Answer, earlier>>
        /\ Place'[e] = "taken" /\ \A g \in Items \ {e} : Place'[g] = Place[g]
        /\ Place' \in [Items -> {"out", "queued", "taken"}]
    BY <1>4 DEF Promise!Take
  <2>2. ASSUME NEW f \in earlier[e] PROVE Place'[f] = "taken"
    <3>1. f \in Items /\ Place[f] # "out"
      OBVIOUS
    <3>2. Place[f] # "queued"
      BY <1>4, <3>1 DEF Promise!Take, Promise!GoesFirst
    <3>. QED BY <2>1, <3>1, <3>2
  <2>3. Promise!InOrder'
    BY <2>1, <2>2
  <2>. QED BY <2>1, <2>3
<1>5. CASE UNCHANGED Promise!vars
  BY <1>5 DEF Promise!vars
<1>6. ASSUME NEW e \in Items, NEW answer \in {"ok", "err"}, Promise!Return(e, answer)
      PROVE  PromiseInv'
  BY <1>2, <1>6 DEF Promise!Return
<1>7. ASSUME NEW e \in Items, Promise!Drop(e) PROVE PromiseInv'
  BY <1>2, <1>7 DEF Promise!Drop
<1>. QED BY <1>1, <1>3, <1>4, <1>5, <1>6, <1>7 DEF Promise!Next

\* The promise means what one expects of it: an item is not handed out before one whose
\* enqueue had returned when its own was called, and answers are true.
THEOREM FirstInFirstOut == Promise!Spec => []Promise!InOrder /\ []Promise!Truthful
<1>1. Promise!Init => PromiseInv
  BY DEF Promise!Init, PromiseInv, Promise!Truthful, Promise!InOrder
<1>2. PromiseInv /\ [Promise!Next]_(Promise!vars) => PromiseInv'
  BY PromiseStep
<1>3. PromiseInv => Promise!InOrder /\ Promise!Truthful
  BY DEF PromiseInv
<1>. QED BY <1>1, <1>2, <1>3, PTL DEF Promise!Spec

\* And so the queue keeps it.
THEOREM PromiseKept == Spec => []Promise!InOrder /\ []Promise!Truthful
BY Implementation, FirstInFirstOut, PTL DEF ImplementsPromise

=============================================================================
