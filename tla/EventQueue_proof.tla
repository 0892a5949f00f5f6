-------------------------- MODULE EventQueue_proof --------------------------
(***************************************************************************)
(* Proofs about the LIFO and the priority queue, for any numbers of calls, *)
(* consumers and priorities and any width of the counter.                  *)
(***************************************************************************)
EXTENDS EventQueue, SequenceTheorems, FiniteSetTheorems, WellFoundedInduction, TLAPS

-----------------------------------------------------------------------------
(* Queues as sequences. *)

LEMMA AppendFacts ==
    ASSUME NEW S, NEW c \in Seq(S), NEW e \in S
    PROVE  /\ Append(c, e) \in Seq(S)
           /\ Len(c) \in Nat /\ Len(Append(c, e)) = Len(c) + 1
           /\ \A i \in 1 .. Len(c) : Append(c, e)[i] = c[i]
           /\ Append(c, e)[Len(c) + 1] = e
           /\ ToSet(Append(c, e)) = ToSet(c) \cup {e}
           /\ IsInjective(c) /\ e \notin ToSet(c) => IsInjective(Append(c, e))
<1>. DEFINE a == Append(c, e)
<1>1. /\ a \in Seq(S) /\ Len(c) \in Nat /\ Len(a) = Len(c) + 1
      /\ \A i \in 1 .. Len(c) : a[i] = c[i]
      /\ a[Len(c) + 1] = e
      /\ DOMAIN c = 1 .. Len(c) /\ DOMAIN a = 1 .. Len(c) + 1
  BY AppendProperties, LenProperties
<1>. HIDE DEF a
<1>2. ToSet(a) = ToSet(c) \cup {e}
  BY <1>1 DEF ToSet
<1>3. IsInjective(c) /\ e \notin ToSet(c) => IsInjective(a)
  BY <1>1 DEF IsInjective, ToSet
<1>. QED BY <1>1, <1>2, <1>3 DEF a

\* A sequence that loses one of its places.
LEMMA RemoveAtFacts ==
    ASSUME NEW S, NEW c \in Seq(S), NEW i \in DOMAIN c
    PROVE  /\ RemoveAt(c, i) \in Seq(S) /\ c[i] \in S
           /\ Len(c) \in Nat \ {0} /\ Len(RemoveAt(c, i)) = Len(c) - 1
           /\ \A k \in 1 .. Len(c) - 1 : RemoveAt(c, i)[k] = IF k < i THEN c[k] ELSE c[k + 1]
           /\ ToSet(c) = ToSet(RemoveAt(c, i)) \cup {c[i]}
           /\ IsInjective(c) => /\ IsInjective(RemoveAt(c, i))
                                /\ c[i] \notin ToSet(RemoveAt(c, i))
<1>. DEFINE n == Len(c)
            a == SubSeq(c, 1, i - 1)
            b == SubSeq(c, i + 1, n)
            r == RemoveAt(c, i)
<1>1. n \in Nat /\ i \in 1 .. n /\ DOMAIN c = 1 .. n /\ c[i] \in S
  BY LenProperties, ElementOfSeq
<1>. HIDE DEF n
<1>2. /\ a \in Seq(S) /\ Len(a) = i - 1
      /\ \A k \in 1 .. i - 1 : a[k] = c[k]
  <2>1. /\ a \in Seq(S)
        /\ Len(a) = IF 1 <= i - 1 THEN i - 1 - 1 + 1 ELSE 0
        /\ \A k \in 1 .. i - 1 - 1 + 1 : a[k] = c[1 + k - 1]
    <3>1. \A k \in 1 .. i - 1 : k \in 1 .. Len(c)
      BY <1>1 DEF n
    <3>. QED BY <1>1, <3>1, SubSeqProperties
  <2>. QED BY <1>1, <2>1
<1>3. /\ b \in Seq(S) /\ Len(b) = n - i
      /\ \A k \in 1 .. n - i : b[k] = c[i + k]
  <2>1. /\ b \in Seq(S)
        /\ Len(b) = IF i + 1 <= n THEN n - (i + 1) + 1 ELSE 0
        /\ \A k \in 1 .. n - (i + 1) + 1 : b[k] = c[i + 1 + k - 1]
    <3>1. \A k \in i + 1 .. n : k \in 1 .. Len(c)
      BY <1>1 DEF n
    <3>. QED BY <1>1, <3>1, SubSeqProperties
  <2>. QED BY <1>1, <2>1
<1>. HIDE DEF a, b
<1>4. r = a \o b
  BY DEF RemoveAt, a, b, n
<1>. HIDE DEF r
<1>5. /\ r \in Seq(S) /\ Len(r) = n - 1 /\ DOMAIN r = 1 .. n - 1
      /\ \A k \in 1 .. n - 1 : r[k] = IF k < i THEN c[k] ELSE c[k + 1]
  <2>1. /\ r \in Seq(S) /\ Len(r) = Len(a) + Len(b)
        /\ \A k \in 1 .. Len(a) + Len(b) : r[k] = IF k <= Len(a) THEN a[k] ELSE b[k - Len(a)]
    BY <1>2, <1>3, <1>4, ConcatProperties
  <2>2. Len(a) + Len(b) = n - 1
    BY <1>1, <1>2, <1>3
  <2>3. ASSUME NEW k \in 1 .. n - 1 PROVE r[k] = IF k < i THEN c[k] ELSE c[k + 1]
    <3>1. CASE k < i
      BY <1>1, <1>2, <2>1, <2>2, <2>3, <3>1
    <3>2. CASE ~(k < i)
      <4>1. k - (i - 1) \in 1 .. n - i /\ i + (k - (i - 1)) = k + 1
        BY <1>1, <2>3, <3>2
      <4>2. r[k] = b[k - (i - 1)]
        BY <1>1, <1>2, <2>1, <2>2, <2>3, <3>2
      <4>3. b[k - (i - 1)] = c[k + 1]
        BY <1>3, <4>1
      <4>. QED BY <3>2, <4>2, <4>3
    <3>. QED BY <3>1, <3>2
  <2>. QED BY <2>1, <2>2, <2>3, LenProperties
<1>6. ToSet(c) = ToSet(r) \cup {c[i]}
  <2>1. ASSUME NEW x \in ToSet(c) PROVE x \in ToSet(r) \cup {c[i]}
    <3>1. PICK k \in 1 .. n : x = c[k]
      BY <1>1, <2>1 DEF ToSet
    <3>2. CASE k < i
      <4>1. k \in 1 .. n - 1 /\ r[k] = c[k]
        BY <1>1, <1>5, <3>1, <3>2
      <4>. QED BY <1>5, <3>1, <4>1 DEF ToSet
    <3>3. CASE k > i
      <4>1. k - 1 \in 1 .. n - 1 /\ r[k - 1] = c[k]
        BY <1>1, <1>5, <3>1, <3>3
      <4>. QED BY <1>5, <3>1, <4>1 DEF ToSet
    <3>. QED BY <1>1, <3>1, <3>2, <3>3
  <2>2. ASSUME NEW k \in 1 .. n - 1 PROVE r[k] \in ToSet(c)
    <3>1. k \in 1 .. n /\ k + 1 \in 1 .. n
      BY <1>1, <2>2
    <3>. QED BY <1>1, <1>5, <3>1 DEF ToSet
  <2>3. c[i] \in ToSet(c)
    BY DEF ToSet
  <2>. QED BY <1>5, <2>1, <2>2, <2>3 DEF ToSet
<1>7. IsInjective(c) => IsInjective(r) /\ c[i] \notin ToSet(r)
  <2>. SUFFICES ASSUME IsInjective(c) PROVE IsInjective(r) /\ c[i] \notin ToSet(r)
    OBVIOUS
  <2>1. \A j, k \in 1 .. n : c[j] = c[k] => j = k
    BY <1>1 DEF IsInjective
  <2>. DEFINE at(k) == IF k < i THEN k ELSE k + 1
  <2>2. \A k \in 1 .. n - 1 : at(k) \in 1 .. n /\ at(k) # i /\ r[k] = c[at(k)]
    BY <1>1, <1>5
  <2>3. \A j, k \in 1 .. n - 1 : at(j) = at(k) => j = k
    BY <1>1
  <2>. HIDE DEF at
  <2>4. \A j, k \in 1 .. n - 1 : r[j] = r[k] => j = k
    BY <2>1, <2>2, <2>3
  <2>5. \A k \in 1 .. n - 1 : r[k] # c[i]
    BY <1>1, <2>1, <2>2
  <2>. QED BY <1>5, <2>4, <2>5 DEF IsInjective, ToSet
<1>. QED BY <1>1, <1>5, <1>6, <1>7 DEF r, n

-----------------------------------------------------------------------------
(* The invariant of the items.                                             *)

\* The calls that pushed their item.
Entered == {"pushed", "ok"}

\* An item is in one place exactly if its call has pushed it.
Places ==
    /\ \A e \in Items : pc[e] \in Entered <=> e \in ToSet(inner) \cup ToSet(popped)
    /\ IsInjective(inner) /\ IsInjective(popped)
    /\ ToSet(inner) \cap ToSet(popped) = {}

\* The calls that took a number, in a priority queue.
Numbered == {"checked", "pushed", "ok", "cancelled"}

\* A call has a greater number than all those that had returned when it was made.
Numbers ==
    /\ kind = "priority" => \A e \in Items : pc[e] \in Numbered => idx[e] < idxCounter
    /\ \A e \in Items : \A f \in earlier[e] :
           /\ pc[f] = "ok"
           /\ kind = "priority" /\ pc[e] # "err" => idx[f] < idx[e]

\* README.md:183, the priority queue: an item is not handed out before one of at
\* least its priority whose enqueue had returned when its own was called.
NoOvertaking ==
    kind = "priority" =>
        \A i \in DOMAIN popped : \A e \in earlier[popped[i]] :
            prio[e] >= prio[popped[i]] => \E j \in 1 .. i - 1 : popped[j] = e

Inv == TypeOK /\ Places /\ Numbers /\ NoOvertaking

LEMMA InitInv == Init => Inv
<1>. SUFFICES ASSUME Init PROVE Inv
  OBVIOUS
<1>1. <<>> \in Seq(Items) /\ <<>> \in Seq(Consumers) /\ DOMAIN <<>> = {} /\ ToSet(<<>>) = {}
      /\ IsInjective(<<>>)
  BY EmptySeq DEF ToSet, IsInjective
<1>2. TypeOK
  <2>1. length \in 0 .. Usize - 1
    BY EventQueueAssumption DEF Init
  <2>. QED BY <1>1, <2>1 DEF Init, TypeOK
<1>3. Places /\ Numbers /\ NoOvertaking
  BY <1>1 DEF Init, Places, Numbers, NoOvertaking, Entered, Numbered
<1>. QED BY <1>2, <1>3 DEF Inv

-----------------------------------------------------------------------------
(* Types. *)

LEMMA WrapType == ASSUME NEW n \in Int PROVE Wrap(n) \in 0 .. Usize - 1
BY EventQueueAssumption DEF Wrap

LEMMA PopType ==
    ASSUME TypeOK, Pop
    PROVE  inner' \in Seq(Items) /\ popped' \in Seq(Items)
<1>1. PICK i \in DOMAIN inner : popped' = Append(popped, inner[i]) /\ inner' = RemoveAt(inner, i)
  BY DEF Pop
<1>. QED BY <1>1, RemoveAtFacts, AppendFacts DEF TypeOK

LEMMA EventType ==
    ASSUME TypeOK
    PROVE  /\ NextInLine \subseteq Consumers /\ Registered \subseteq Consumers
           /\ \A d \in Consumers : Deregister(d) => listeners' \in Seq(Consumers)
<1>1. \A i \in DOMAIN listeners : listeners[i] \in Consumers
  BY LenProperties, ElementOfSeq DEF TypeOK
<1>2. NextInLine \subseteq Consumers /\ Registered \subseteq Consumers
  BY <1>1 DEF NextInLine, Registered, ToSet
<1>3. ASSUME NEW d \in Consumers, Deregister(d) PROVE listeners' \in Seq(Consumers)
  BY <1>3, RemoveAtFacts DEF Deregister, TypeOK
<1>. QED BY <1>2, <1>3

LEMMA EnqueueType == ASSUME TypeOK, NEW e \in Items, Enqueue(e) PROVE TypeOK'
<1>1. CASE CheckClosed(e)
  <2>1. idx' \in [Items -> Nat] /\ idxCounter' \in Nat
    BY <1>1 DEF CheckClosed, TypeOK
  <2>2. pc' = [pc EXCEPT ![e] = "err"] \/ pc' = [pc EXCEPT ![e] = "checked"]
    BY <1>1 DEF CheckClosed, Step
  <2>3. earlier' \in [Items -> SUBSET Items]
    BY <1>1 DEF CheckClosed, TypeOK
  <2>. QED
    BY <1>1, <2>1, <2>2, <2>3 DEF CheckClosed, TypeOK, fixedVars, closeVars, eventVars
<1>2. CASE Push(e)
  BY <1>2, AppendFacts DEF Push, Step, TypeOK, fixedVars, closeVars, eventVars, historyVars
<1>3. CASE Announce(e)
  <2>1. length' \in 0 .. Usize - 1
    <3>1. length \in Int /\ length + 1 \in Int
      BY EventQueueAssumption DEF TypeOK
    <3>2. length' = length \/ length' = Wrap(length + 1)
      BY <1>3 DEF Announce
    <3>. QED BY <3>1, <3>2, WrapType DEF TypeOK
  <2>2. notified' \in SUBSET Consumers
    BY <1>3, EventType DEF Announce, NotifyOne, TypeOK
  <2>. QED BY <1>3, <2>1, <2>2 DEF Announce, Step, InTheGap, TypeOK, fixedVars, closeVars
<1>4. CASE Cancel(e)
  BY <1>4 DEF Cancel, Step, TypeOK, fixedVars, closeVars, eventVars, historyVars
<1>. QED BY <1>1, <1>2, <1>3, <1>4 DEF Enqueue

LEMMA DequeueType == ASSUME TypeOK, NEW d \in Consumers, Dequeue(d) PROVE TypeOK'
<1>. USE DEF fixedVars, enqueueVars, closeVars, eventVars, historyVars
<1>1. CASE LookAtClosed(d) \/ FindNothing(d)
  BY <1>1 DEF LookAtClosed, FindNothing, Move, TypeOK
<1>2. CASE Drain(d)
  BY <1>2, PopType DEF Drain, Move, TypeOK
<1>3. CASE Take(d)
  <2>1. length' \in 0 .. Usize - 1
    <3>1. length \in Int /\ length - 1 \in Int
      BY EventQueueAssumption DEF TypeOK
    <3>2. length' = length \/ length' = Wrap(length - 1)
      BY <1>3 DEF Take
    <3>. QED BY <3>1, <3>2, WrapType DEF TypeOK
  <2>. QED BY <1>3, <2>1, PopType DEF Take, Move, TypeOK
<1>4. CASE Listen(d)
  BY <1>4, AppendFacts DEF Listen, Move, TypeOK
<1>5. CASE Wake(d)
  BY <1>5, EventType DEF Wake, Move, TypeOK
<1>6. CASE Forget(d)
  <2>1. listeners' \in Seq(Consumers) /\ notified' \in SUBSET Consumers
    BY <1>6, EventType DEF Forget, DropListener, TypeOK
  <2>. QED BY <1>6, <2>1 DEF Forget, TypeOK
<1>. QED BY <1>1, <1>2, <1>3, <1>4, <1>5, <1>6 DEF Dequeue

LEMMA TypeStep == ASSUME TypeOK, [Next]_vars PROVE TypeOK'
<1>1. CASE SetClosed
  BY <1>1 DEF SetClosed, TypeOK, fixedVars, enqueueVars, eventVars, historyVars
<1>2. CASE WakeAll
  BY <1>2, EventType DEF WakeAll, InTheGap, TypeOK, fixedVars, enqueueVars
<1>3. CASE UNCHANGED vars
  BY <1>3 DEF vars, TypeOK
<1>. QED BY <1>1, <1>2, <1>3, EnqueueType, DequeueType DEF Next

-----------------------------------------------------------------------------
(* Items. *)

ItemsSound == Places /\ Numbers /\ NoOvertaking

\* What is in a queue, or was popped, is an item whose call pushed it.
LEMMA Elements ==
    ASSUME Inv
    PROVE  /\ ToSet(inner) \subseteq Items /\ ToSet(popped) \subseteq Items
           /\ DOMAIN inner = 1 .. Len(inner) /\ DOMAIN popped = 1 .. Len(popped)
           /\ Len(inner) \in Nat /\ Len(popped) \in Nat
           /\ \A i \in DOMAIN popped : popped[i] \in Items /\ pc[popped[i]] \in Entered
           /\ \A i \in DOMAIN inner : inner[i] \in Items /\ pc[inner[i]] \in Entered
<1>1. /\ DOMAIN inner = 1 .. Len(inner) /\ DOMAIN popped = 1 .. Len(popped)
      /\ Len(inner) \in Nat /\ Len(popped) \in Nat
  BY LenProperties DEF Inv, TypeOK
<1>2. (\A i \in DOMAIN inner : inner[i] \in Items) /\ \A i \in DOMAIN popped : popped[i] \in Items
  BY <1>1, ElementOfSeq DEF Inv, TypeOK
<1>. QED BY <1>1, <1>2 DEF Inv, Places, ToSet

LEMMA CheckClosedStep == ASSUME Inv, NEW e \in Items, CheckClosed(e) PROVE ItemsSound'
<1>1. /\ UNCHANGED <<kind, prio, inner, popped>> /\ pc[e] = "idle"
      /\ pc' = [pc EXCEPT ![e] = IF closed THEN "err" ELSE "checked"]
      /\ earlier' = [earlier EXCEPT ![e] = {f \in Items : pc[f] = "ok"}]
      /\ idx' = IF closed \/ kind = "lifo" THEN idx ELSE [idx EXCEPT ![e] = idxCounter]
      /\ idxCounter' = IF closed \/ kind = "lifo" THEN idxCounter ELSE idxCounter + 1
  BY DEF CheckClosed, Step, fixedVars
<1>2. /\ pc'[e] \in {"err", "checked"} /\ (pc'[e] = "err" <=> closed)
      /\ earlier'[e] = {f \in Items : pc[f] = "ok"}
      /\ \A f \in Items \ {e} : pc'[f] = pc[f] /\ earlier'[f] = earlier[f] /\ idx'[f] = idx[f]
      /\ kind = "priority" /\ ~closed => idx'[e] = idxCounter
      /\ idxCounter \in Nat /\ idxCounter' \in Nat /\ idxCounter <= idxCounter'
      /\ \A f \in Items : idx[f] \in Nat /\ idx'[f] \in Nat
  BY <1>1 DEF Inv, TypeOK
<1>3. Places'
  BY <1>1, <1>2 DEF Inv, Places, Entered
<1>4. Numbers'
  <2>1. kind = "priority" => \A f \in Items : pc'[f] \in Numbered => idx'[f] < idxCounter'
    BY <1>1, <1>2 DEF Inv, Numbers, Numbered
  <2>2. ASSUME NEW g \in Items, NEW f \in earlier'[g]
        PROVE  /\ pc'[f] = "ok"
               /\ kind = "priority" /\ pc'[g] # "err" => idx'[f] < idx'[g]
    <3>1. CASE g = e
      <4>1. f \in Items \ {e} /\ pc[f] = "ok"
        BY <1>1, <1>2, <2>2, <3>1
      <4>. QED BY <1>2, <3>1, <4>1 DEF Inv, Numbers, Numbered
    <3>2. CASE g # e
      <4>1. f \in earlier[g] /\ f \in Items \ {e} /\ pc[f] = "ok"
        BY <1>1, <1>2, <2>2, <3>2 DEF Inv, TypeOK, Numbers
      <4>. QED BY <1>2, <3>2, <4>1 DEF Inv, Numbers
    <3>. QED BY <3>1, <3>2
  <2>. QED BY <1>1, <2>1, <2>2 DEF Numbers
<1>5. NoOvertaking'
  <2>1. \A i \in DOMAIN popped : popped[i] \in Items \ {e}
    BY <1>1, Elements DEF Entered
  <2>. QED BY <1>1, <1>2, <2>1 DEF Inv, NoOvertaking
<1>. QED BY <1>3, <1>4, <1>5 DEF ItemsSound

\* The other steps of an enqueue number nothing.
LEMMA CallStep ==
    ASSUME Inv, NEW e \in Items, Push(e) \/ Announce(e) \/ Cancel(e)
    PROVE  ItemsSound'
<1>1. /\ UNCHANGED <<kind, prio, idx, idxCounter, earlier, popped>>
      /\ \E to \in {"pushed", "ok", "cancelled"} :
             /\ pc' = [pc EXCEPT ![e] = to]
             /\ pc[e] = IF to = "ok" THEN "pushed" ELSE "checked"
             /\ inner' = IF to = "pushed" THEN Append(inner, e) ELSE inner
  BY DEF Push, Announce, Cancel, Step, fixedVars, historyVars
<1>2. PICK to \in {"pushed", "ok", "cancelled"} :
             /\ pc' = [pc EXCEPT ![e] = to]
             /\ pc[e] = IF to = "ok" THEN "pushed" ELSE "checked"
             /\ inner' = IF to = "pushed" THEN Append(inner, e) ELSE inner
  BY <1>1
<1>3. pc'[e] = to /\ \A f \in Items \ {e} : pc'[f] = pc[f]
  BY <1>2 DEF Inv, TypeOK
<1>4. Places'
  <2>1. CASE to = "pushed"
    <3>1. e \notin ToSet(inner) /\ e \notin ToSet(popped)
      BY <1>2, <2>1 DEF Inv, Places, Entered
    <3>2. ToSet(inner') = ToSet(inner) \cup {e} /\ IsInjective(inner')
      BY <1>2, <2>1, <3>1, AppendFacts DEF Inv, TypeOK, Places
    <3>. QED BY <1>1, <1>3, <2>1, <3>1, <3>2 DEF Inv, Places, Entered
  <2>2. CASE to # "pushed"
    BY <1>1, <1>2, <1>3, <2>2 DEF Inv, Places, Entered
  <2>. QED BY <2>1, <2>2
<1>5. Numbers'
  <2>1. ASSUME kind = "priority", NEW f \in Items, pc'[f] \in Numbered PROVE idx[f] < idxCounter
    BY <1>2, <1>3, <2>1 DEF Inv, Numbers, Numbered
  <2>2. \A g \in Items : \A f \in earlier[g] : f \in Items /\ pc[f] = "ok"
    BY DEF Inv, TypeOK, Numbers
  <2>3. \A g \in Items : pc'[g] # "err" => pc[g] # "err"
    BY <1>2, <1>3
  <2>4. \A g \in Items : \A f \in earlier[g] : pc'[f] = "ok"
    BY <1>2, <1>3, <2>2
  <2>. QED BY <1>1, <2>1, <2>3, <2>4 DEF Inv, Numbers
<1>6. NoOvertaking'
  BY <1>1 DEF Inv, NoOvertaking
<1>. QED BY <1>4, <1>5, <1>6 DEF ItemsSound

\* The top of a queue goes to the end of what was popped.
LEMMA PopStep ==
    ASSUME Inv, Pop, UNCHANGED <<kind, prio, idx, idxCounter, pc, earlier>>
    PROVE  ItemsSound'
<1>1. PICK i \in DOMAIN inner :
          IsTop(i) /\ popped' = Append(popped, inner[i]) /\ inner' = RemoveAt(inner, i)
  BY DEF Pop
<1>. DEFINE x == inner[i]
<1>2. x \in Items /\ x \in ToSet(inner) /\ x \notin ToSet(popped) /\ pc[x] \in Entered
  BY Elements DEF Inv, Places, ToSet
<1>3. /\ ToSet(inner) = ToSet(inner') \cup {x}
      /\ IsInjective(inner') /\ x \notin ToSet(inner')
  BY <1>1, RemoveAtFacts DEF Inv, TypeOK, Places
<1>4. /\ Len(popped') = Len(popped) + 1 /\ popped'[Len(popped) + 1] = x
      /\ \A k \in 1 .. Len(popped) : popped'[k] = popped[k]
      /\ ToSet(popped') = ToSet(popped) \cup {x} /\ IsInjective(popped')
      /\ popped' \in Seq(Items)
  BY <1>1, <1>2, AppendFacts DEF Inv, TypeOK, Places
<1>5. Places'
  BY <1>2, <1>3, <1>4 DEF Inv, Places
<1>6. Numbers'
  BY DEF Inv, Numbers
<1>7. ASSUME kind = "priority", NEW f \in earlier[x], prio[f] >= prio[x]
      PROVE  \E k \in 1 .. Len(popped) : popped[k] = f
  <2>1. /\ f \in Items /\ pc[f] = "ok" /\ idx[f] < idx[x]
        /\ idx[f] \in Nat /\ idx[x] \in Nat /\ prio[f] \in Nat /\ prio[x] \in Nat
    BY <1>2, <1>7, EventQueueAssumption DEF Inv, TypeOK, Numbers, Entered
  <2>2. f \notin ToSet(inner)
    <3>. SUFFICES ASSUME NEW j \in DOMAIN inner, inner[j] = f PROVE FALSE
      BY DEF ToSet
    <3>1. ~Ahead(f, x)
      BY <1>1, <1>7 DEF IsTop
    <3>. QED BY <1>7, <2>1, <3>1 DEF Ahead
  <2>3. f \in ToSet(popped)
    BY <2>1, <2>2 DEF Inv, Places, Entered
  <2>. QED BY <2>3, Elements DEF ToSet
<1>8. NoOvertaking'
  <2>. SUFFICES ASSUME kind = "priority", NEW k \in 1 .. Len(popped) + 1,
                       NEW f \in earlier[popped'[k]], prio[f] >= prio[popped'[k]]
                PROVE  \E j \in 1 .. k - 1 : popped'[j] = f
    <3>1. DOMAIN popped' = 1 .. Len(popped) + 1
      BY <1>4, LenProperties
    <3>. QED BY <3>1 DEF NoOvertaking
  <2>. HIDE DEF x
  <2>1. Len(popped) \in Nat /\ DOMAIN popped = 1 .. Len(popped)
    BY Elements
  <2>2. CASE k = Len(popped) + 1
    <3>1. PICK j \in 1 .. Len(popped) : popped[j] = f
      BY <1>4, <1>7, <2>2
    <3>. QED BY <1>4, <2>1, <2>2, <3>1
  <2>3. CASE k # Len(popped) + 1
    <3>1. k \in 1 .. Len(popped) /\ popped'[k] = popped[k]
      BY <1>4, <2>1, <2>3
    <3>2. PICK j \in 1 .. k - 1 : popped[j] = f
      BY <2>1, <3>1 DEF Inv, NoOvertaking
    <3>3. j \in 1 .. Len(popped)
      BY <2>1, <3>1, <3>2
    <3>. QED BY <1>4, <3>2, <3>3
  <2>. QED BY <2>2, <2>3
<1>. QED BY <1>5, <1>6, <1>8 DEF ItemsSound

LEMMA ItemStep == ASSUME Inv, [Next]_vars PROVE ItemsSound'
<1>. USE DEF fixedVars, enqueueVars, closeVars, eventVars, historyVars
<1>1. ASSUME UNCHANGED <<kind, prio, idx, idxCounter, pc, earlier, inner, popped>>
      PROVE  ItemsSound'
  BY <1>1 DEF Inv, ItemsSound, Places, Numbers, NoOvertaking
<1>2. ASSUME NEW e \in Items, Enqueue(e) PROVE ItemsSound'
  BY <1>2, CheckClosedStep, CallStep DEF Enqueue
<1>3. ASSUME NEW d \in Consumers, Dequeue(d) PROVE ItemsSound'
  <2>1. CASE Drain(d) \/ Take(d)
    BY <1>1, <2>1, PopStep DEF Drain, Take
  <2>2. CASE LookAtClosed(d) \/ FindNothing(d) \/ Listen(d) \/ Wake(d) \/ Forget(d)
    BY <1>1, <2>2 DEF LookAtClosed, FindNothing, Listen, Wake, Forget
  <2>. QED BY <1>3, <2>1, <2>2 DEF Dequeue
<1>4. CASE SetClosed \/ WakeAll \/ UNCHANGED vars
  BY <1>1, <1>4 DEF SetClosed, WakeAll, vars
<1>. QED BY <1>2, <1>3, <1>4 DEF Next

\* Inv is an invariant of both queues.
THEOREM Invariance == Spec => []Inv
<1>1. Inv /\ [Next]_vars => Inv'
  BY TypeStep, ItemStep DEF Inv, ItemsSound
<1>. QED BY <1>1, InitInv, PTL DEF Spec

\* Ok means in the queue or handed out, Err never, and nothing twice; for all calls and
\* priorities.
THEOREM AnswersAreTrue == Spec => []AnswersTrue
<1>1. Inv => AnswersTrue
  <2>. SUFFICES ASSUME Inv PROVE AnswersTrue
    OBVIOUS
  <2>. DEFINE c == inner \o popped
  <2>1. /\ c \in Seq(Items) /\ Len(c) = Len(inner) + Len(popped)
        /\ DOMAIN c = 1 .. Len(inner) + Len(popped)
        /\ \A k \in 1 .. Len(inner) + Len(popped) :
               c[k] = IF k <= Len(inner) THEN inner[k] ELSE popped[k - Len(inner)]
    BY ConcatProperties, LenProperties DEF Inv, TypeOK
  <2>. HIDE DEF c
  <2>2. ASSUME NEW j \in DOMAIN c, NEW k \in DOMAIN c, c[j] = c[k] PROVE j = k
    <3>1. /\ j \in Int /\ k \in Int /\ Len(inner) \in Nat /\ Len(popped) \in Nat
          /\ DOMAIN inner = 1 .. Len(inner) /\ DOMAIN popped = 1 .. Len(popped)
      BY <2>1, <2>2, Elements
    <3>2. CASE j <= Len(inner) /\ k <= Len(inner)
      BY <2>1, <2>2, <3>1, <3>2 DEF Inv, Places, IsInjective
    <3>3. CASE j > Len(inner) /\ k > Len(inner)
      <4>1. j - Len(inner) \in DOMAIN popped /\ k - Len(inner) \in DOMAIN popped
        BY <2>1, <2>2, <3>1, <3>3
      <4>2. popped[j - Len(inner)] = popped[k - Len(inner)]
        BY <2>1, <2>2, <3>1, <3>3
      <4>3. j - Len(inner) = k - Len(inner)
        BY <4>1, <4>2 DEF Inv, Places, IsInjective
      <4>. QED BY <3>1, <4>3
    <3>4. \A a, b \in DOMAIN c : a <= Len(inner) /\ b > Len(inner) => c[a] # c[b]
      <4>. SUFFICES ASSUME NEW a \in DOMAIN c, NEW b \in DOMAIN c, a <= Len(inner), b > Len(inner)
                    PROVE  c[a] # c[b]
        OBVIOUS
      <4>1. a \in DOMAIN inner /\ b - Len(inner) \in DOMAIN popped
        BY <2>1, <3>1
      <4>2. c[a] = inner[a] /\ c[b] = popped[b - Len(inner)]
        BY <2>1, <3>1
      <4>3. c[a] \in ToSet(inner) /\ c[b] \in ToSet(popped)
        BY <4>1, <4>2 DEF ToSet
      <4>. QED BY <4>3 DEF Inv, Places
    <3>. QED BY <2>2, <3>1, <3>2, <3>3, <3>4
  <2>3. IsInjective(c)
    BY <2>2 DEF IsInjective
  <2>. QED BY <2>3 DEF Inv, Places, Entered, AnswersTrue, c
<1>. QED BY <1>1, Invariance, PTL

\* The priority queue's order, for any number of priorities.
THEOREM OrderKept == Spec => []NoOvertaking
<1>1. Inv => NoOvertaking
  BY DEF Inv
<1>. QED BY <1>1, Invariance, PTL

-----------------------------------------------------------------------------
(* What len() says.  A counter modulo usize is exact modulo usize if each  *)
(* step changes the two sides of the equation alike.                       *)

LEMMA WrapUnique ==
    ASSUME NEW n \in Int, NEW q \in Int, NEW r \in 0 .. Usize - 1, n = Usize * q + r
    PROVE  Wrap(n) = r
BY EventQueueAssumption DEF Wrap

LEMMA WrapAdd ==
    ASSUME NEW a \in Int, NEW b \in Int
    PROVE  Wrap(Wrap(a) + b) = Wrap(a + b)
<1>. DEFINE p == a \div Usize
            x == Wrap(a) + b
            q == x \div Usize
<1>1. Usize \in Nat \ {0}
  BY EventQueueAssumption
<1>2. p \in Int /\ Wrap(a) \in Int /\ a = Usize * p + Wrap(a)
  BY <1>1 DEF Wrap
<1>3. q \in Int /\ Wrap(x) \in 0 .. Usize - 1 /\ x = Usize * q + Wrap(x)
  <2>1. x \in Int
    BY <1>2
  <2>. QED BY <1>1, <2>1, WrapType DEF Wrap
<1>. HIDE DEF p, q
<1>4. Usize * (p + q) = Usize * p + Usize * q
  BY <1>1, <1>2, <1>3
<1>5. a + b = Usize * (p + q) + Wrap(x)
  BY <1>1, <1>2, <1>3, <1>4
<1>. QED BY <1>2, <1>3, <1>5, WrapUnique

\* The calls that length does not count yet; there are finitely many of them, since
\* their items are in sequences.
Pushed == {e \in Items : pc[e] = "pushed"}

LEMMA ElementsFinite ==
    ASSUME NEW S, NEW c \in Seq(S)
    PROVE  IsFiniteSet(ToSet(c))
<1>1. DOMAIN c = 1 .. Len(c) /\ Len(c) \in Nat /\ c \in [1 .. Len(c) -> S]
  BY LenProperties
<1>2. c \in Surjection(1 .. Len(c), ToSet(c))
  BY <1>1 DEF Surjection, ToSet
<1>3. IsFiniteSet(1 .. Len(c))
  BY <1>1, FS_Interval
<1>. QED BY <1>2, <1>3, FS_Surjection

LEMMA PushedFinite == ASSUME Inv PROVE IsFiniteSet(Pushed) /\ Cardinality(Pushed) \in Nat
<1>1. IsFiniteSet(ToSet(inner) \cup ToSet(popped))
  BY ElementsFinite, FS_Union DEF Inv, TypeOK
<1>2. Pushed \subseteq ToSet(inner) \cup ToSet(popped)
  BY DEF Pushed, Inv, Places, Entered
<1>. QED BY <1>1, <1>2, FS_Subset, FS_CardinalityType

\* The equation that holds of the priority queue at every moment before close().
LenExact == Wrap(length + Cardinality(Pushed)) = Wrap(Len(inner))

\* A consumer that drains has seen the queue closed.
LenInv ==
    /\ kind = "priority" /\ ~closed => LenExact
    /\ \A d \in Consumers : consumer[d] = "draining" => closed

\* How a step changes the three numbers.
LenMoves(dl, dm) ==
    /\ length' = Wrap(length + dl)
    /\ Cardinality(Pushed') = Cardinality(Pushed) + dm
    /\ Len(inner') = Len(inner) + (dl + dm)

LEMMA MoveKeepsLen ==
    ASSUME Inv, LenExact, NEW dl \in Int, NEW dm \in Int, LenMoves(dl, dm)
    PROVE  LenExact'
<1>. DEFINE m == Cardinality(Pushed)
            n == Len(inner)
<1>1. length \in Int /\ m \in Int /\ n \in Int
  BY PushedFinite, LenProperties, EventQueueAssumption DEF Inv, TypeOK
<1>2. Wrap(length + m) = Wrap(n)
  BY DEF LenExact
<1>3. Wrap(length' + Cardinality(Pushed')) = Wrap(Wrap(length + dl) + (m + dm))
  BY DEF LenMoves
<1>4. Wrap(Len(inner')) = Wrap(n + (dl + dm))
  BY DEF LenMoves
<1>. HIDE DEF m, n
<1>5. Wrap(Wrap(length + dl) + (m + dm)) = Wrap((length + dl) + (m + dm))
  BY <1>1, WrapAdd
<1>6. (length + dl) + (m + dm) = (length + m) + (dl + dm)
  BY <1>1
<1>7. Wrap((length + m) + (dl + dm)) = Wrap(Wrap(length + m) + (dl + dm))
  BY <1>1, WrapAdd
<1>8. Wrap(n + (dl + dm)) = Wrap(Wrap(n) + (dl + dm))
  BY <1>1, WrapAdd
<1>9. Wrap(length' + Cardinality(Pushed')) = Wrap(Len(inner'))
  BY <1>2, <1>3, <1>4, <1>5, <1>6, <1>7, <1>8
<1>. QED BY <1>9 DEF LenExact

LEMMA PopLength == ASSUME Inv, Pop PROVE Len(inner') = Len(inner) - 1
BY RemoveAtFacts DEF Pop, Inv, TypeOK

LEMMA EnqueueLen ==
    ASSUME Inv, LenExact, kind = "priority", NEW e \in Items, Push(e) \/ Announce(e)
    PROVE  LenExact'
<1>. USE DEF fixedVars, closeVars
<1>1. length \in 0 .. Usize - 1 /\ Len(inner) \in Nat
  BY LenProperties DEF Inv, TypeOK
<1>2. CASE Push(e)
  <2>1. Pushed' = Pushed \cup {e} /\ e \notin Pushed
    BY <1>2 DEF Push, Step, Pushed, Inv, TypeOK
  <2>2. Cardinality(Pushed') = Cardinality(Pushed) + 1
    BY <2>1, PushedFinite, FS_AddElement
  <2>3. Len(inner') = Len(inner) + 1
    BY <1>2, AppendFacts DEF Push, Inv, TypeOK
  <2>4. Wrap(length + 0) = length
    BY <1>1, EventQueueAssumption DEF Wrap
  <2>5. LenMoves(0, 1)
    BY <1>1, <1>2, <2>2, <2>3, <2>4 DEF Push, LenMoves
  <2>. QED BY <1>2, <2>5, MoveKeepsLen DEF Push
<1>3. CASE Announce(e)
  <2>1. Pushed' = Pushed \ {e} /\ e \in Pushed
    BY <1>3 DEF Announce, Step, Pushed, Inv, TypeOK
  <2>2. Cardinality(Pushed') = Cardinality(Pushed) - 1
    BY <2>1, PushedFinite, FS_RemoveElement
  <2>3. LenMoves(1, -1)
    BY <1>1, <1>3, <2>2, PushedFinite DEF Announce, LenMoves
  <2>. QED BY <1>3, <2>3, MoveKeepsLen DEF Announce
<1>. QED BY <1>2, <1>3

LEMMA TakeLen ==
    ASSUME Inv, LenExact, kind = "priority", NEW d \in Consumers, Take(d)
    PROVE  LenExact'
<1>1. length \in 0 .. Usize - 1 /\ Len(inner) \in Nat
  BY LenProperties DEF Inv, TypeOK
<1>2. Pushed' = Pushed /\ Cardinality(Pushed) \in Nat
  BY PushedFinite DEF Take, Pushed, enqueueVars
<1>3. Len(inner') = Len(inner) - 1
  BY PopLength DEF Take
<1>4. LenMoves(-1, 0)
  BY <1>1, <1>2, <1>3 DEF Take, LenMoves
<1>. QED BY <1>4, MoveKeepsLen

LEMMA LenStep == ASSUME Inv, LenInv, [Next]_vars PROVE LenInv'
<1>. USE DEF fixedVars, enqueueVars, closeVars, eventVars, historyVars
<1>1. kind' = kind /\ (closed => closed')
  BY DEF Next, Enqueue, Dequeue, CheckClosed, Push, Announce, Cancel, LookAtClosed, Drain, Take,
     FindNothing, Listen, Wake, Forget, SetClosed, WakeAll, vars
<1>2. \A d \in Consumers : consumer'[d] = "draining" => closed'
  <2>1. \A d \in Consumers : consumer'[d] = "draining" => consumer[d] = "draining" \/ closed
    BY DEF Next, Enqueue, Dequeue, CheckClosed, Push, Announce, Cancel, LookAtClosed, Drain, Take,
       FindNothing, Listen, Wake, Forget, SetClosed, WakeAll, vars, Move, Inv, TypeOK
  <2>. QED BY <1>1, <2>1 DEF LenInv
<1>3. ASSUME kind = "priority", ~closed' PROVE LenExact'
  <2>1. LenExact /\ ~closed
    BY <1>1, <1>3 DEF LenInv
  <2>2. ASSUME UNCHANGED <<length, inner>>, Pushed' = Pushed PROVE LenExact'
    BY <2>1, <2>2 DEF LenExact
  <2>3. ASSUME NEW e \in Items, CheckClosed(e) \/ Cancel(e) PROVE LenExact'
    <3>1. Pushed' = Pushed
      BY <2>3 DEF CheckClosed, Cancel, Step, Pushed, Inv, TypeOK
    <3>. QED BY <2>2, <2>3, <3>1 DEF CheckClosed, Cancel
  <2>4. ASSUME NEW d \in Consumers,
               LookAtClosed(d) \/ FindNothing(d) \/ Listen(d) \/ Wake(d) \/ Forget(d)
        PROVE  LenExact'
    BY <2>2, <2>4 DEF LookAtClosed, FindNothing, Listen, Wake, Forget, Pushed
  <2>5. ASSUME NEW d \in Consumers, Drain(d) PROVE LenExact'
    BY <2>1, <2>5 DEF LenInv, Drain, Move
  <2>6. CASE SetClosed \/ WakeAll \/ UNCHANGED vars
    BY <2>2, <2>6 DEF SetClosed, WakeAll, vars, Pushed
  <2>. QED BY <1>3, <2>1, <2>3, <2>4, <2>5, <2>6, EnqueueLen, TakeLen DEF Next, Enqueue, Dequeue
<1>. QED BY <1>1, <1>2, <1>3 DEF LenInv

\* Before close(), when no enqueue is between the heap and the counter, len() of the
\* priority queue is the number of items, for any width of usize: however a dequeue
\* overtook the counting in of what it took.
THEOREM LengthExact == Spec => []LengthSound
<1>1. Init => LenInv
  <2>. SUFFICES ASSUME Init PROVE LenInv
    OBVIOUS
  <2>1. Pushed = {} /\ length = 0 /\ Len(inner) = 0
    BY EmptySeq DEF Init, Pushed
  <2>. QED BY <2>1, FS_EmptySet DEF Init, LenInv, LenExact
<1>2. Inv /\ LenInv /\ [Next]_vars => LenInv'
  BY LenStep
<1>3. Inv /\ LenInv => LengthSound
  <2>. SUFFICES ASSUME Inv, kind = "priority", ~closed, LenExact, Pushed = {}
                PROVE  length = Wrap(Len(inner))
    BY DEF LenInv, LengthSound, LenSettled, Inv, Pushed
  <2>1. length \in 0 .. Usize - 1
    BY DEF Inv, TypeOK
  <2>2. Wrap(length + 0) = Wrap(Len(inner))
    BY FS_EmptySet DEF LenExact
  <2>3. Wrap(length + 0) = length
    BY <2>1, EventQueueAssumption DEF Wrap
  <2>. QED BY <2>2, <2>3
<1>. QED BY <1>1, <1>2, <1>3, Invariance, PTL DEF Spec

-----------------------------------------------------------------------------
(* Who looks at an accepted item.                                          *)

\* The items in the queue whose enqueue has returned.
Accepted == {e \in ToSet(inner) : pc[e] = "ok"}

\* The event's listeners are the consumers that listen, once each; and as long as no
\* notification was wasted, no item was accepted while a consumer was in the gap.
EventSound ==
    /\ IsInjective(listeners)
    /\ \A d \in Consumers : consumer[d] = "listening" <=> d \in Registered
    /\ notified \subseteq Registered
    /\ ~missed /\ InTheGap => Accepted = {}
    /\ NoSleeperBeside

LEMMA InitEvent == Init => EventSound
<1>. SUFFICES ASSUME Init PROVE EventSound
  OBVIOUS
<1>1. Registered = {} /\ IsInjective(listeners) /\ Accepted = {}
  BY EmptySeq DEF Init, Registered, Accepted, ToSet, IsInjective
<1>. QED BY <1>1 DEF Init, EventSound, InTheGap, NoSleeperBeside, Accepted

LEMMA LeastNatural ==
    ASSUME NEW K \in SUBSET Nat, K # {}
    PROVE  \E k \in K : \A j \in K : k <= j
<1>. DEFINE R == OpToRel(<, Nat)
<1>1. IsWellFoundedOn(R, Nat) /\ K \subseteq Nat
  BY NatLessThanWellFounded, Zenon
<1>2. \A j, k \in Nat : j < k => <<j, k>> \in R
  BY Zenon DEF OpToRel
<1>. HIDE DEF R
<1>3. PICK k \in K : \A j \in K : <<j, k>> \notin R
  BY <1>1, WFMin, Zenon
<1>4. ASSUME NEW j \in K PROVE k <= j
  <2>1. j \in Nat /\ k \in Nat /\ ~(j < k)
    BY <1>2, <1>3
  <2>. QED BY <2>1
<1>. QED BY <1>4

\* If some listener is not notified, the oldest of these is next in line.
LEMMA SomeoneInLine ==
    ASSUME TypeOK, Registered \ notified # {}
    PROVE  NextInLine # {}
<1>1. DOMAIN listeners = 1 .. Len(listeners) /\ Len(listeners) \in Nat
  BY LenProperties DEF TypeOK
<1>. DEFINE K == {k \in 1 .. Len(listeners) : listeners[k] \notin notified}
<1>2. K # {} /\ K \in SUBSET Nat
  BY <1>1 DEF Registered, ToSet
<1>3. PICK k \in K : \A j \in K : k <= j
  BY <1>2, LeastNatural
<1>4. \A j \in 1 .. k - 1 : listeners[j] \in notified
  BY <1>1, <1>3
<1>5. listeners[k] \in NextInLine
  BY <1>1, <1>3, <1>4 DEF NextInLine
<1>. QED BY <1>5

LEMMA NextIsRegistered == NextInLine \subseteq Registered \ notified
BY DEF NextInLine, Registered, ToSet

\* A listener that is removed was there once.
LEMMA Deregistered ==
    ASSUME TypeOK, EventSound, NEW d \in Consumers, Deregister(d)
    PROVE  /\ d \in Registered /\ Registered' = Registered \ {d}
           /\ IsInjective(listeners')
<1>1. PICK i \in DOMAIN listeners : listeners[i] = d /\ listeners' = RemoveAt(listeners, i)
  BY DEF Deregister
<1>. QED BY <1>1, RemoveAtFacts DEF TypeOK, EventSound, Registered

LEMMA EnqueueEvent == ASSUME Inv, EventSound, NEW e \in Items, Enqueue(e) PROVE EventSound'
<1>. USE DEF fixedVars, closeVars, eventVars, historyVars
<1>1. UNCHANGED <<consumer, listeners>> /\ Registered' = Registered
  BY DEF Enqueue, CheckClosed, Push, Announce, Cancel, Registered
<1>2. IsInjective(listeners') /\ \A d \in Consumers : consumer'[d] = "listening" <=> d \in Registered'
  BY <1>1 DEF EventSound
<1>3. CASE Announce(e)
  <2>1. /\ notified' = IF notified = {} THEN NextInLine ELSE notified
        /\ missed' = (missed \/ InTheGap)
    BY <1>3 DEF Announce, NotifyOne
  <2>2. notified' \subseteq Registered'
    BY <1>1, <2>1, NextIsRegistered DEF EventSound
  <2>3. ~missed' => ~InTheGap'
    BY <1>1, <2>1 DEF InTheGap
  <2>4. ASSUME ~missed', notified' = {}
        PROVE  \/ \E d \in Consumers : consumer'[d] \in {"idle", "draining", "looking"}
               \/ AllGone'
    <3>1. Registered = {}
      BY <2>1, <2>4, SomeoneInLine DEF Inv
    <3>2. \A d \in Consumers : consumer[d] \notin {"empty", "listening"}
      BY <2>1, <2>4, <3>1 DEF EventSound, InTheGap
    <3>. QED BY <1>1, <3>2 DEF AllGone, Inv, TypeOK
  <2>5. NoSleeperBeside'
    <3>1. notified' \subseteq Consumers
      BY <1>1, <2>2, EventType DEF Inv
    <3>. QED BY <1>2, <2>2, <2>4, <3>1 DEF NoSleeperBeside
  <2>. QED BY <1>2, <2>2, <2>3, <2>5 DEF EventSound
<1>4. CASE CheckClosed(e) \/ Push(e) \/ Cancel(e)
  <2>1. UNCHANGED <<notified, missed>>
    BY <1>4 DEF CheckClosed, Push, Cancel
  <2>2. Accepted' = Accepted
    <3>1. \A f \in Items : pc'[f] = "ok" <=> pc[f] = "ok"
      BY <1>4 DEF CheckClosed, Push, Cancel, Step, Inv, TypeOK
    <3>2. CASE Push(e)
      <4>1. ToSet(inner') = ToSet(inner) \cup {e} /\ pc'[e] # "ok"
        BY <3>2, AppendFacts DEF Push, Step, Inv, TypeOK
      <4>. QED BY <3>1, <4>1, Elements DEF Accepted
    <3>3. CASE ~Push(e)
      BY <1>4, <3>1, <3>3, Elements DEF CheckClosed, Cancel, Accepted
    <3>. QED BY <3>2, <3>3
  <2>. QED BY <1>1, <1>2, <2>1, <2>2
           DEF EventSound, InTheGap, NoSleeperBeside, Accepted, AllGone
<1>. QED BY <1>3, <1>4 DEF Enqueue

LEMMA DequeueEvent == ASSUME Inv, EventSound, NEW d \in Consumers, Dequeue(d) PROVE EventSound'
<1>. USE DEF fixedVars, enqueueVars, closeVars, eventVars, historyVars
<1>1. /\ UNCHANGED pc /\ Accepted' \subseteq Accepted
  <2>1. UNCHANGED pc
    BY DEF Dequeue, LookAtClosed, Drain, Take, FindNothing, Listen, Wake, Forget
  <2>2. ToSet(inner') \subseteq ToSet(inner)
    <3>1. Pop => ToSet(inner') \subseteq ToSet(inner)
      BY RemoveAtFacts DEF Pop, Inv, TypeOK
    <3>. QED BY <3>1 DEF Dequeue, LookAtClosed, Drain, Take, FindNothing, Listen, Wake, Forget
  <2>. QED BY <2>1, <2>2 DEF Accepted
<1>2. /\ consumer' = [consumer EXCEPT ![d] = consumer'[d]]
      /\ \A b \in Consumers \ {d} : consumer'[b] = consumer[b]
  BY DEF Dequeue, LookAtClosed, Drain, Take, FindNothing, Listen, Wake, Forget, Move, Inv, TypeOK
<1>3. CASE LookAtClosed(d) \/ Drain(d) \/ Take(d)
  <2>1. /\ UNCHANGED <<listeners, notified, missed>>
        /\ consumer[d] \in {"idle", "draining", "looking"}
        /\ consumer'[d] \in {"idle", "draining", "looking"}
    BY <1>3 DEF LookAtClosed, Drain, Take, Move, Inv, TypeOK
  <2>. QED BY <1>1, <1>2, <2>1 DEF EventSound, InTheGap, NoSleeperBeside, Registered
<1>4. CASE FindNothing(d)
  <2>1. /\ UNCHANGED <<listeners, notified, missed>> /\ inner' = <<>>
        /\ consumer[d] = "looking" /\ consumer'[d] = "empty"
    BY <1>4 DEF FindNothing, Move, Inv, TypeOK
  <2>2. Accepted' = {}
    BY <2>1, EmptySeq DEF Accepted, ToSet
  <2>. QED BY <1>2, <2>1, <2>2 DEF EventSound, NoSleeperBeside, Accepted, Registered
<1>5. CASE Listen(d)
  <2>1. /\ UNCHANGED <<inner, notified, missed>> /\ listeners' = Append(listeners, d)
        /\ consumer[d] = "empty" /\ consumer'[d] = "listening"
    BY <1>5 DEF Listen, Move, Inv, TypeOK
  <2>2. d \notin ToSet(listeners)
    BY <2>1 DEF EventSound, Registered
  <2>3. Registered' = Registered \cup {d} /\ IsInjective(listeners')
    BY <2>1, <2>2, AppendFacts DEF Inv, TypeOK, EventSound, Registered
  <2>4. \A b \in Consumers : consumer'[b] = "listening" <=> b \in Registered'
    BY <1>2, <2>1, <2>3 DEF EventSound
  <2>5. InTheGap' => InTheGap
    BY <2>1 DEF InTheGap
  <2>6. NoSleeperBeside'
    <3>1. ~AllGone /\ notified \subseteq Consumers
      BY <2>1, EventType DEF AllGone, EventSound, Inv
    <3>2. \A b \in Consumers :
              /\ consumer[b] \in {"idle", "draining", "looking"} => consumer'[b] = consumer[b]
              /\ consumer[b] = "listening" => consumer'[b] = "listening"
      BY <1>2, <2>1
    <3>. QED BY <1>1, <2>1, <3>1, <3>2 DEF EventSound, NoSleeperBeside, Accepted
  <2>. QED BY <1>1, <2>1, <2>3, <2>4, <2>5, <2>6 DEF EventSound
<1>6. CASE Wake(d)
  <2>1. /\ UNCHANGED <<inner, missed>> /\ notified' = notified \ {d} /\ Deregister(d)
        /\ consumer[d] = "listening" /\ consumer'[d] = "idle"
    BY <1>6 DEF Wake, Move, Inv, TypeOK
  <2>2. Registered' = Registered \ {d} /\ IsInjective(listeners')
    BY <2>1, Deregistered DEF Inv
  <2>. QED BY <1>1, <1>2, <2>1, <2>2 DEF EventSound, InTheGap, NoSleeperBeside
<1>7. CASE Forget(d)
  <2>1. consumer'[d] = "gone" /\ inner' = inner /\ (InTheGap' => InTheGap) /\ (missed => missed')
    BY <1>2, <1>7 DEF Forget, InTheGap, Inv, TypeOK
  <2>2. CASE consumer[d] = "listening"
    <3>1. /\ missed' = missed /\ Deregister(d)
          /\ notified' = IF notified = {d} THEN NextInLine ELSE notified \ {d}
      BY <1>7, <2>2 DEF Forget, DropListener, Inv, TypeOK
    <3>2. Registered' = Registered \ {d} /\ IsInjective(listeners')
      BY <3>1, Deregistered DEF Inv
    <3>3. notified' \subseteq Registered'
      BY <3>1, <3>2, NextIsRegistered DEF EventSound
    <3>4. \A b \in Consumers : consumer'[b] = "listening" <=> b \in Registered'
      BY <1>2, <2>1, <3>2 DEF EventSound
    <3>5. ASSUME ~missed, Accepted # {}, notified' = {},
                 \A b \in Consumers : consumer'[b] \notin {"idle", "draining", "looking"}
          PROVE  AllGone'
      <4>1. notified = {} \/ notified = {d}
        BY <3>1, <3>5
      <4>2. notified # {}
        BY <1>2, <2>2, <3>5 DEF EventSound, NoSleeperBeside, Accepted, AllGone
      <4>3. Registered' = {}
        <5>1. SUFFICES ASSUME NEW b \in Registered, b # d PROVE FALSE
          BY <3>2
        <5>2. NextInLine = {}
          BY <3>1, <3>5, <4>1, <4>2
        <5>. QED BY <4>1, <4>2, <5>1, <5>2, SomeoneInLine DEF Inv
      <4>4. \A b \in Consumers : consumer'[b] # "empty"
        BY <2>1, <3>5 DEF EventSound, InTheGap
      <4>. QED BY <1>2, <3>4, <3>5, <4>3, <4>4, DequeueType DEF AllGone, Inv, TypeOK
    <3>6. NoSleeperBeside'
      BY <1>1, <3>1, <3>3, <3>4, <3>5, DequeueType DEF NoSleeperBeside, Accepted, Inv, TypeOK
    <3>. QED BY <1>1, <2>1, <3>1, <3>2, <3>3, <3>4, <3>6 DEF EventSound
  <2>3. CASE consumer[d] # "listening"
    <3>1. UNCHANGED <<listeners, notified>> /\ (~missed' => inner = <<>>)
      BY <1>7, <2>3 DEF Forget
    <3>2. ~missed' => Accepted' = {}
      BY <2>1, <3>1, EmptySeq DEF Accepted, ToSet
    <3>3. \A b \in Consumers : consumer'[b] = "listening" <=> b \in Registered'
      BY <1>2, <2>1, <2>3, <3>1 DEF EventSound, Registered
    <3>. QED BY <3>1, <3>2, <3>3 DEF EventSound, NoSleeperBeside, Accepted, Registered
  <2>. QED BY <2>2, <2>3
<1>. QED BY <1>3, <1>4, <1>5, <1>6, <1>7 DEF Dequeue

LEMMA CloseEvent ==
    ASSUME EventSound, SetClosed \/ WakeAll \/ UNCHANGED vars
    PROVE  EventSound'
<1>. USE DEF fixedVars, enqueueVars, eventVars, historyVars
<1>1. /\ UNCHANGED <<pc, consumer, inner, listeners>>
      /\ notified' \in {notified, Registered}
      /\ missed' = missed \/ missed' = (missed \/ InTheGap)
  BY DEF SetClosed, WakeAll, vars
<1>2. missed => missed'
  BY <1>1
<1>3. UNCHANGED <<InTheGap, Accepted, Registered, AllGone>>
  BY <1>1 DEF InTheGap, Accepted, Registered, AllGone
<1>4. \A d \in notified : d \in notified'
  BY <1>1 DEF EventSound
<1>. QED BY <1>1, <1>2, <1>3, <1>4 DEF EventSound, NoSleeperBeside, Accepted

\* Unless a notification was wasted, an accepted item has somebody who will look, for any
\* numbers of calls and consumers; and it is in one place.
THEOREM SleepersAreWoken == Spec => []AcceptedSafe
<1>1. Inv /\ EventSound /\ [Next]_vars => EventSound'
  BY EnqueueEvent, DequeueEvent, CloseEvent DEF Next
<1>2. EventSound => NoSleeperBeside
  BY DEF EventSound
<1>. QED BY <1>1, <1>2, InitEvent, Invariance, AnswersAreTrue, PTL DEF Spec, AcceptedSafe

-----------------------------------------------------------------------------
(* The abstract queue.  The items are in the order of the calls: none that *)
(* is at a place, or behind it, had been accepted when the call of that    *)
(* place was made.                                                         *)

Ordered ==
    \A i \in 1 .. Len(inner) : \A j \in i .. Len(inner) : inner[j] \notin earlier[inner[i]]

LEMMA InitOrdered == Init => Ordered
<1>. SUFFICES ASSUME Init PROVE Ordered
  OBVIOUS
<1>1. Len(inner) = 0
  BY EmptySeq DEF Init
<1>. QED BY <1>1 DEF Ordered

LEMMA PopOrdered == ASSUME Inv, Ordered, Pop, UNCHANGED earlier PROVE Ordered'
<1>1. PICK k \in DOMAIN inner : inner' = RemoveAt(inner, k)
  BY DEF Pop
<1>2. /\ Len(inner) \in Nat \ {0} /\ Len(inner') = Len(inner) - 1 /\ k \in 1 .. Len(inner)
      /\ \A i \in 1 .. Len(inner) - 1 : inner'[i] = IF i < k THEN inner[i] ELSE inner[i + 1]
  <2>1. inner \in Seq(Items) /\ DOMAIN inner = 1 .. Len(inner)
    BY LenProperties DEF Inv, TypeOK
  <2>2. /\ Len(inner) \in Nat \ {0} /\ Len(RemoveAt(inner, k)) = Len(inner) - 1
        /\ \A i \in 1 .. Len(inner) - 1 :
               RemoveAt(inner, k)[i] = IF i < k THEN inner[i] ELSE inner[i + 1]
    BY <2>1, RemoveAtFacts
  <2>. QED BY <1>1, <2>1, <2>2
<1>. SUFFICES ASSUME NEW i \in 1 .. Len(inner'), NEW j \in i .. Len(inner')
              PROVE  inner'[j] \notin earlier[inner'[i]]
  BY DEF Ordered
<1>. DEFINE a == IF i < k THEN i ELSE i + 1
            b == IF j < k THEN j ELSE j + 1
<1>3. a \in 1 .. Len(inner) /\ b \in a .. Len(inner)
  BY <1>2
<1>4. inner'[i] = inner[a] /\ inner'[j] = inner[b]
  BY <1>2
<1>. QED BY <1>3, <1>4 DEF Ordered

LEMMA OrderedStep == ASSUME Inv, Ordered, [Next]_vars PROVE Ordered'
<1>. USE DEF fixedVars, enqueueVars, closeVars, eventVars, historyVars
<1>1. ASSUME UNCHANGED <<earlier, inner>> PROVE Ordered'
  BY <1>1 DEF Ordered
<1>2. ASSUME NEW e \in Items, CheckClosed(e) PROVE Ordered'
  <2>1. /\ pc[e] = "idle" /\ UNCHANGED inner
        /\ \A f \in Items \ {e} : earlier'[f] = earlier[f]
    BY <1>2 DEF CheckClosed, Step, Inv, TypeOK
  <2>2. \A i \in 1 .. Len(inner) : inner[i] \in Items \ {e}
    BY <2>1, Elements DEF Entered
  <2>. QED BY <2>1, <2>2 DEF Ordered
<1>3. ASSUME NEW e \in Items, Push(e) PROVE Ordered'
  <2>1. pc[e] = "checked" /\ inner' = Append(inner, e) /\ UNCHANGED earlier
    BY <1>3 DEF Push, Step
  <2>2. /\ Len(inner) \in Nat /\ Len(inner') = Len(inner) + 1 /\ inner'[Len(inner) + 1] = e
        /\ \A i \in 1 .. Len(inner) : inner'[i] = inner[i]
    BY <2>1, AppendFacts DEF Inv, TypeOK
  <2>3. \A g \in Items : e \notin earlier[g]
    BY <2>1 DEF Inv, Numbers
  <2>4. ASSUME NEW i \in 1 .. Len(inner'), NEW j \in i .. Len(inner')
        PROVE  inner'[j] \notin earlier[inner'[i]]
    <3>1. inner'[i] \in Items
      BY <2>2, Elements
    <3>2. CASE j = Len(inner) + 1
      BY <2>2, <2>3, <3>1, <3>2
    <3>3. CASE j # Len(inner) + 1
      <4>1. i \in 1 .. Len(inner) /\ j \in i .. Len(inner) /\ j \in 1 .. Len(inner)
        BY <2>2, <3>3
      <4>. QED BY <2>2, <4>1 DEF Ordered
    <3>. QED BY <3>2, <3>3
  <2>. QED BY <2>1, <2>4 DEF Ordered
<1>4. ASSUME NEW e \in Items, Announce(e) \/ Cancel(e) PROVE Ordered'
  BY <1>1, <1>4 DEF Announce, Cancel
<1>5. ASSUME NEW d \in Consumers, Dequeue(d) PROVE Ordered'
  BY <1>1, <1>5, PopOrdered
     DEF Dequeue, LookAtClosed, Drain, Take, FindNothing, Listen, Wake, Forget
<1>6. CASE SetClosed \/ WakeAll \/ UNCHANGED vars
  BY <1>1, <1>6 DEF SetClosed, WakeAll, vars
<1>. QED BY <1>2, <1>3, <1>4, <1>5, <1>6 DEF Next, Enqueue

\* An enqueue changes the answer of no other call.
LEMMA AnswerMoves ==
    ASSUME Inv, NEW e \in Items, NEW from, NEW to, Step(e, from, to)
    PROVE  /\ pc' = [pc EXCEPT ![e] = to] /\ pc[e] = from /\ pc'[e] = to
           /\ Answer' = [Answer EXCEPT ![e] = Answer'[e]]
<1>1. pc' = [pc EXCEPT ![e] = to] /\ pc[e] = from /\ pc'[e] = to
  BY DEF Step, Inv, TypeOK
<1>2. \A f \in Items \ {e} : Answer'[f] = Answer[f]
  BY <1>1 DEF Answer, Inv, TypeOK
<1>3. Answer = [f \in Items |-> Answer[f]] /\ Answer' = [f \in Items |-> Answer'[f]]
  BY DEF Answer
<1>. QED BY <1>1, <1>2, <1>3

LEMMA EnqueueImplements ==
    ASSUME Inv, NEW e \in Items, Enqueue(e)
    PROVE  [Promise!Next]_(Promise!vars)
<1>. USE DEF fixedVars, closeVars, eventVars, historyVars
<1>1. UNCHANGED <<kind, prio, popped>>
  BY DEF Enqueue, CheckClosed, Push, Announce, Cancel
<1>2. CASE CheckClosed(e)
  <2>1. PICK to \in {"err", "checked"} : Step(e, "idle", to)
    BY <1>2 DEF CheckClosed
  <2>2. /\ Answer' = [Answer EXCEPT ![e] = Answer'[e]]
        /\ Answer[e] = "new" /\ Answer'[e] \in {"waiting", "err"}
    BY <2>1, AnswerMoves DEF Answer
  <2>3. \A f \in Items : Answer[f] = "ok" <=> pc[f] = "ok"
    BY DEF Answer, Inv, TypeOK
  <2>4. Place' = Place /\ earlier' = [earlier EXCEPT ![e] = {f \in Items : Answer[f] = "ok"}]
    BY <1>2, <2>3 DEF CheckClosed, Place
  <2>5. Promise!Call(e, Answer'[e])
    BY <1>1, <2>2, <2>4 DEF Promise!Call
  <2>. QED BY <2>2, <2>5 DEF Promise!Next
<1>3. CASE Push(e)
  <2>1. Answer' = [Answer EXCEPT ![e] = Answer'[e]] /\ Answer[e] = "waiting" /\ Answer'[e] = "waiting"
    BY <1>3, AnswerMoves DEF Push, Answer
  <2>2. Answer' = Answer /\ UNCHANGED earlier
    BY <1>3, <2>1 DEF Answer, Push
  <2>3. e \notin ToSet(inner) \cup ToSet(popped)
    BY <1>3, AnswerMoves DEF Push, Inv, Places, Entered
  <2>4. ToSet(inner') = ToSet(inner) \cup {e}
    BY <1>3, AppendFacts DEF Push, Inv, TypeOK
  <2>5. Place[e] = "out" /\ Place' = [Place EXCEPT ![e] = "queued"]
    BY <1>1, <2>3, <2>4 DEF Place
  <2>6. Promise!Publish(e)
    BY <1>1, <2>1, <2>2, <2>5 DEF Promise!Publish
  <2>. QED BY <2>6 DEF Promise!Next
<1>4. CASE Announce(e)
  <2>1. Answer' = [Answer EXCEPT ![e] = Answer'[e]] /\ Answer[e] = "waiting" /\ Answer'[e] = "ok"
    BY <1>4, AnswerMoves DEF Announce, Answer
  <2>2. Place' = Place /\ UNCHANGED earlier
    BY <1>4 DEF Announce, Place
  <2>3. Place[e] # "out"
    <3>1. e \in ToSet(inner) \cup ToSet(popped)
      BY <1>4, AnswerMoves DEF Announce, Inv, Places, Entered
    <3>. QED BY <3>1 DEF Place
  <2>4. Promise!Return(e, "ok")
    BY <1>1, <2>1, <2>2, <2>3 DEF Promise!Return
  <2>. QED BY <2>4 DEF Promise!Next
<1>5. CASE Cancel(e)
  <2>1. Answer' = [Answer EXCEPT ![e] = Answer'[e]] /\ Answer[e] = "waiting" /\ Answer'[e] = "dropped"
    BY <1>5, AnswerMoves DEF Cancel, Answer
  <2>2. Place' = Place /\ UNCHANGED earlier
    BY <1>5 DEF Cancel, Place
  <2>3. Promise!Drop(e)
    BY <1>1, <2>1, <2>2 DEF Promise!Drop
  <2>. QED BY <2>3 DEF Promise!Next
<1>. QED BY <1>2, <1>3, <1>4, <1>5 DEF Enqueue

\* What is popped is what no other item in the queue must precede, in both queues.
LEMMA PopImplements ==
    ASSUME Inv, Ordered, Pop, UNCHANGED <<kind, prio, pc, earlier>>
    PROVE  Promise!Next
<1>1. PICK i \in DOMAIN inner :
          IsTop(i) /\ popped' = Append(popped, inner[i]) /\ inner' = RemoveAt(inner, i)
  BY DEF Pop
<1>. DEFINE x == inner[i]
<1>2. x \in Items /\ x \in ToSet(inner) /\ x \notin ToSet(popped) /\ pc[x] \in Entered
  BY Elements DEF Inv, Places, ToSet
<1>3. ToSet(inner) = ToSet(inner') \cup {x} /\ x \notin ToSet(inner')
  BY <1>1, RemoveAtFacts DEF Inv, TypeOK, Places
<1>4. ToSet(popped') = ToSet(popped) \cup {x}
  BY <1>1, <1>2, AppendFacts DEF Inv, TypeOK
<1>5. Place[x] = "queued" /\ Place' = [Place EXCEPT ![x] = "taken"]
  BY <1>2, <1>3, <1>4 DEF Place
<1>6. ASSUME NEW f \in Items, Place[f] = "queued" PROVE ~Promise!GoesFirst(f, x)
  <2>1. PICK j \in DOMAIN inner : inner[j] = f
    BY <1>6 DEF Place, ToSet
  <2>2. CASE kind = "lifo"
    <3>1. j \in 1 .. Len(inner) /\ i = Len(inner) /\ i \in j .. Len(inner)
      BY <1>1, <2>1, <2>2, Elements DEF IsTop
    <3>2. x \notin earlier[f]
      BY <2>1, <3>1 DEF Ordered
    <3>. QED BY <2>2, <3>2 DEF Promise!GoesFirst
  <2>3. CASE kind = "priority"
    <3>1. ~Ahead(f, x)
      BY <1>1, <2>1, <2>3 DEF IsTop
    <3>2. f \in earlier[x] => idx[f] < idx[x]
      BY <1>2, <2>3 DEF Inv, Numbers, Entered
    <3>. QED BY <2>3, <3>1, <3>2 DEF Ahead, Promise!GoesFirst
  <2>. QED BY <2>2, <2>3 DEF Inv, TypeOK
<1>7. Answer' = Answer
  BY DEF Answer
<1>8. Promise!Take(x)
  BY <1>5, <1>6, <1>7 DEF Promise!Take
<1>. QED BY <1>2, <1>8 DEF Promise!Next

\* The LIFO queue hands out last in, first out, the priority queue by priority and then
\* first in, first out, once each, for any numbers of calls, consumers and priorities.
THEOREM Implementation == Spec => ImplementsPromise
<1>. USE DEF fixedVars, enqueueVars, closeVars, eventVars, historyVars
<1>1. Init => Promise!Init
  <2>. SUFFICES ASSUME Init PROVE Promise!Init
    OBVIOUS
  <2>1. ToSet(inner) = {} /\ ToSet(popped) = {}
    BY EmptySeq DEF Init, ToSet
  <2>2. Answer = [e \in Items |-> "new"] /\ Place = [e \in Items |-> "out"]
    BY <2>1 DEF Init, Answer, Place
  <2>. QED BY <2>2, EventQueueAssumption DEF Init, Promise!Init
<1>2. Inv /\ Ordered /\ [Next]_vars => [Promise!Next]_(Promise!vars)
  <2>. SUFFICES ASSUME Inv, Ordered, [Next]_vars PROVE [Promise!Next]_(Promise!vars)
    OBVIOUS
  <2>1. ASSUME UNCHANGED <<kind, prio, pc, earlier, inner, popped>>
        PROVE  [Promise!Next]_(Promise!vars)
    BY <2>1 DEF Promise!vars, Answer, Place
  <2>2. ASSUME NEW d \in Consumers, Dequeue(d) PROVE [Promise!Next]_(Promise!vars)
    BY <2>1, <2>2, PopImplements
       DEF Dequeue, LookAtClosed, Drain, Take, FindNothing, Listen, Wake, Forget
  <2>3. CASE SetClosed \/ WakeAll \/ UNCHANGED vars
    BY <2>1, <2>3 DEF SetClosed, WakeAll, vars
  <2>. QED BY <2>2, <2>3, EnqueueImplements DEF Next
<1>3. Inv /\ Ordered /\ [Next]_vars => Ordered'
  BY OrderedStep
<1>. QED BY <1>1, <1>2, <1>3, InitOrdered, Invariance, PTL DEF Spec, Promise!Spec, ImplementsPromise

=============================================================================
