------------------------- MODULE RingRuntime_proofs -------------------------
(***************************************************************************)
(* The executor's slots and workers, for any number of calls and slots.    *)
(***************************************************************************)
EXTENDS RingRuntime, FiniteSetTheorems, TLAPS

Busy == {"spawning", "running", "killing", "aborting"}

\* Where a call stands says whether its worker is alive, and that it may have one.
CallsInOrder ==
    \A c \in Calls :
        /\ process[c] = "alive" <=> pc[c] = "running"
        /\ pc[c] \in {"idle", "authorizing"} => process[c] = "none"
        /\ pc[c] \in Busy \cup {"waiting"} \/ process[c] # "none" =>
               c \in permitted /\ ring[c] \in {"ring1", "ring2"}

\* The queue holds the calls that wait, each of them once.
QueueInOrder ==
    /\ \A i \in DOMAIN waiters : pc[waiters[i]] = "waiting"
    /\ \A c \in Calls : pc[c] = "waiting" => \E i \in DOMAIN waiters : waiters[i] = c
    /\ \A i, j \in DOMAIN waiters : waiters[i] = waiters[j] => i = j

SlotsInOrder ==
    /\ free + Cardinality(Holders) = MaxConcurrency
    /\ free > 0 => waiters = <<>>

RuntimeIInv == RuntimeTypeOK /\ CallsInOrder /\ QueueInOrder /\ SlotsInOrder

-----------------------------------------------------------------------------
(* Slots                                                                    *)

\* The calls that hold a slot can be counted.
LEMMA HoldersFinite == IsFiniteSet(Holders) /\ Cardinality(Holders) \in Nat
<1>1. Holders \in SUBSET Calls
  BY DEF Holders, With
<1>2. IsFiniteSet(Holders)
  BY <1>1, RuntimeAssumption, FS_Subset
<1> QED
  BY <1>2, FS_CardinalityType

\* A call that takes a free slot adds one to its holders.
LEMMA HolderJoins ==
    ASSUME RuntimeTypeOK, NEW c \in Calls, pc[c] \notin Busy, pc' = [pc EXCEPT ![c] = "spawning"]
    PROVE  Cardinality(Holders)' = Cardinality(Holders) + 1
<1>1. Holders' = Holders \cup {c}
  BY DEF RuntimeTypeOK, Holders, With, Busy
<1>2. c \notin Holders
  BY DEF Holders, With, Busy
<1> QED
  BY <1>1, <1>2, HoldersFinite, FS_AddElement

\* The holders stay the same when a call moves on within or without a slot.
LEMMA HoldersStay ==
    ASSUME RuntimeTypeOK, NEW c \in Calls, NEW label,
           pc' = [pc EXCEPT ![c] = label], pc[c] \in Busy <=> label \in Busy
    PROVE  Cardinality(Holders)' = Cardinality(Holders)
<1>1. Holders' = Holders
  BY DEF RuntimeTypeOK, Holders, With, Busy
<1> QED
  BY <1>1

\* The first of a queue waits, and the rest of the queue is in order.
LEMMA QueueFacts ==
    ASSUME RuntimeTypeOK, QueueInOrder, waiters # <<>>
    PROVE  /\ Head(waiters) \in Calls /\ pc[Head(waiters)] = "waiting"
           /\ Tail(waiters) \in Seq(Calls)
           /\ DOMAIN Tail(waiters) = 1 .. (Len(waiters) - 1)
           /\ DOMAIN waiters = 1 .. Len(waiters) /\ Len(waiters) \in Nat \ {0}
           /\ Head(waiters) = waiters[1]
           /\ \A i \in DOMAIN Tail(waiters) : Tail(waiters)[i] = waiters[i + 1]
<1>1. waiters \in Seq(Calls) /\ Len(waiters) \in Nat \ {0}
  BY DEF RuntimeTypeOK
<1>2. Head(waiters) = waiters[1] /\ 1 \in DOMAIN waiters /\ waiters[1] \in Calls
  BY <1>1
<1> QED
  BY <1>1, <1>2 DEF QueueInOrder

\* When a call ends that held a slot, the slot is free or has its next owner,
\* and queue and slots are in order.
LEMMA SlotReturned ==
    ASSUME RuntimeIInv, NEW c \in Calls, NEW end \in Ended, pc[c] \in Busy, Leave(c, end)
    PROVE  /\ pc' \in [Calls -> PCs] /\ free' \in 0 .. MaxConcurrency /\ waiters' \in Seq(Calls)
           /\ pc'[c] = end
           /\ \A d \in Calls \ {c} :
                  pc'[d] = pc[d] \/ (pc[d] = "waiting" /\ pc'[d] = "spawning")
           /\ QueueInOrder'
           /\ SlotsInOrder'
<1> USE RuntimeAssumption DEF RuntimeIInv, RuntimeTypeOK
<1>1. c \in Holders /\ Cardinality(Holders) >= 1
  <2>1. c \in Holders
    BY DEF Holders, With, Busy
  <2>2. Cardinality(Holders) # 0
    BY <2>1, HoldersFinite, FS_EmptySet
  <2> QED
    BY <2>1, <2>2, HoldersFinite
<1>2. CASE waiters = <<>>
  <2>1. pc' = [pc EXCEPT ![c] = end] /\ free' = free + 1 /\ waiters' = <<>>
    BY <1>2 DEF Leave, Handed, ReturnSlot
  <2>2. Cardinality(Holders)' = Cardinality(Holders) - 1
    <3>1. Holders' = Holders \ {c}
      BY <2>1 DEF Holders, With, Busy, Ended
    <3> QED
      BY <1>1, <3>1, HoldersFinite, FS_RemoveElement
  <2>3. free' \in 0 .. MaxConcurrency /\ SlotsInOrder'
    BY <1>1, <2>1, <2>2, HoldersFinite DEF SlotsInOrder
  <2>4. QueueInOrder'
    BY <1>2, <2>1 DEF QueueInOrder, Ended
  <2> QED
    BY <2>1, <2>3, <2>4 DEF PCs
<1>3. CASE waiters # <<>>
  <2> DEFINE next == Head(waiters)
  <2>1. pc' = [[pc EXCEPT ![c] = end] EXCEPT ![next] = "spawning"]
        /\ free' = free /\ waiters' = Tail(waiters)
    BY <1>3 DEF Leave, Handed, ReturnSlot
  <2>2. next \in Calls /\ pc[next] = "waiting" /\ next # c
    BY <1>3, QueueFacts DEF Busy
  <2> HIDE DEF next
  <2>3. pc' \in [Calls -> PCs] /\ pc'[c] = end /\ pc'[next] = "spawning"
        /\ \A d \in Calls \ {c, next} : pc'[d] = pc[d]
    BY <2>1, <2>2 DEF PCs, Ended
  <2>4. Cardinality(Holders)' = Cardinality(Holders)
    <3>1. Holders' = (Holders \ {c}) \cup {next}
      BY <2>2, <2>3 DEF Holders, With, Busy, Ended
    <3>2. next \notin Holders
      BY <2>2 DEF Holders, With
    <3>3. IsFiniteSet(Holders \ {c}) /\ Cardinality(Holders \ {c}) = Cardinality(Holders) - 1
      BY <1>1, HoldersFinite, FS_RemoveElement
    <3>4. Cardinality((Holders \ {c}) \cup {next}) = Cardinality(Holders \ {c}) + 1
      BY <3>2, <3>3, FS_AddElement
    <3> QED
      BY <3>1, <3>3, <3>4, HoldersFinite
  <2>5. SlotsInOrder' /\ free' = 0
    BY <1>3, <2>1, <2>4 DEF SlotsInOrder
  <2>6. QueueInOrder'
    <3>1. \A i \in DOMAIN waiters' : i + 1 \in DOMAIN waiters /\ waiters'[i] = waiters[i + 1]
                                     /\ waiters[i + 1] # next /\ waiters[i + 1] \in Calls
      BY <1>3, <2>1, QueueFacts DEF QueueInOrder, next
    <3>2. \A i \in DOMAIN waiters' : pc'[waiters'[i]] = "waiting"
      BY <2>2, <2>3, <3>1 DEF QueueInOrder, Busy
    <3>3. ASSUME NEW d \in Calls, pc'[d] = "waiting"
          PROVE  \E i \in DOMAIN waiters' : waiters'[i] = d
      <4>1. d # c /\ d # next /\ pc[d] = "waiting"
        BY <2>3, <3>3 DEF Ended
      <4>2. PICK j \in DOMAIN waiters : waiters[j] = d
        BY <4>1 DEF QueueInOrder
      <4>3. j - 1 \in DOMAIN waiters' /\ (j - 1) + 1 = j
        BY <1>3, <2>1, <4>1, <4>2, QueueFacts DEF next
      <4> QED
        BY <3>1, <4>2, <4>3
    <3>4. \A i, j \in DOMAIN waiters' : waiters'[i] = waiters'[j] => i = j
      <4>1. DOMAIN waiters' \subseteq Nat
        BY <1>3, <2>1, QueueFacts
      <4> QED
        BY <3>1, <4>1 DEF QueueInOrder
    <3> QED
      BY <3>2, <3>3, <3>4 DEF QueueInOrder
  <2>7. waiters' \in Seq(Calls)
    BY <1>3, <2>1, QueueFacts
  <2> QED
    BY <2>1, <2>2, <2>3, <2>5, <2>6, <2>7
<1> QED
  BY <1>2, <1>3

\* When a call moves on within a slot or without one, queue and slots stay in order.
LEMMA SlotKept ==
    ASSUME RuntimeIInv, NEW c \in Calls, NEW label \in PCs \ {"waiting"}, pc[c] # "waiting",
           pc' = [pc EXCEPT ![c] = label], UNCHANGED slotVars, pc[c] \in Busy <=> label \in Busy
    PROVE  QueueInOrder' /\ SlotsInOrder'
<1> USE DEF RuntimeIInv, slotVars
<1>1. Cardinality(Holders)' = Cardinality(Holders)
  BY HoldersStay
<1>2. SlotsInOrder'
  BY <1>1 DEF SlotsInOrder
<1>3. QueueInOrder'
  BY DEF RuntimeTypeOK, QueueInOrder
<1> QED
  BY <1>2, <1>3

\* What is left of a sequence without its i-th element.
LEMMA RemoveAtFacts ==
    ASSUME NEW S, NEW s \in Seq(S), NEW i \in DOMAIN s
    PROVE  /\ RemoveAt(s, i) \in Seq(S)
           /\ DOMAIN RemoveAt(s, i) = 1 .. (Len(s) - 1)
           /\ \A j \in 1 .. (Len(s) - 1) :
                  RemoveAt(s, i)[j] = IF j < i THEN s[j] ELSE s[j + 1]
<1> DEFINE before == SubSeq(s, 1, i - 1)
<1> DEFINE after == SubSeq(s, i + 1, Len(s))
<1>1. i \in 1 .. Len(s) /\ Len(s) \in Nat
  OBVIOUS
<1>2. /\ before \in Seq(S) /\ Len(before) = i - 1
      /\ \A j \in 1 .. (i - 1) : before[j] = s[j]
  BY <1>1
<1>3. /\ after \in Seq(S) /\ Len(after) = Len(s) - i
      /\ \A j \in 1 .. (Len(s) - i) : after[j] = s[i + j]
  BY <1>1
<1>4. RemoveAt(s, i) = before \o after
  BY DEF RemoveAt
<1> HIDE DEF before, after
<1>5. before \o after \in Seq(S) /\ Len(before \o after) = Len(s) - 1
  BY <1>1, <1>2, <1>3
<1>6. ASSUME NEW j \in 1 .. (Len(s) - 1)
      PROVE  (before \o after)[j] = IF j < i THEN s[j] ELSE s[j + 1]
  BY <1>1, <1>2, <1>3
<1> QED
  BY <1>1, <1>4, <1>5, <1>6

\* When a call joins the queue, queue and slots stay in order.
LEMMA QueueJoined ==
    ASSUME RuntimeIInv, NEW c \in Calls, pc[c] \notin Busy \cup {"waiting"}, free = 0,
           pc' = [pc EXCEPT ![c] = "waiting"], waiters' = Append(waiters, c), free' = free
    PROVE  waiters' \in Seq(Calls) /\ QueueInOrder' /\ SlotsInOrder'
<1> USE DEF RuntimeIInv
<1>1. Cardinality(Holders)' = Cardinality(Holders)
  BY HoldersStay DEF Busy
<1>2. SlotsInOrder'
  BY <1>1 DEF SlotsInOrder
<1>3. /\ waiters \in Seq(Calls) /\ Len(waiters) \in Nat /\ waiters' \in Seq(Calls)
      /\ DOMAIN waiters = 1 .. Len(waiters) /\ DOMAIN waiters' = 1 .. (Len(waiters) + 1)
      /\ waiters'[Len(waiters) + 1] = c
      /\ \A i \in DOMAIN waiters :
             waiters'[i] = waiters[i] /\ waiters[i] \in Calls /\ waiters[i] # c
  BY DEF RuntimeTypeOK, QueueInOrder
<1>4. \A i \in DOMAIN waiters' : i = Len(waiters) + 1 \/ i \in DOMAIN waiters
  BY <1>3
<1>5. \A i \in DOMAIN waiters' : pc'[waiters'[i]] = "waiting"
  BY <1>3, <1>4 DEF RuntimeTypeOK, QueueInOrder
<1>6. \A d \in Calls : pc'[d] = "waiting" => \E i \in DOMAIN waiters' : waiters'[i] = d
  <2> SUFFICES ASSUME NEW d \in Calls, pc'[d] = "waiting"
               PROVE  \E i \in DOMAIN waiters' : waiters'[i] = d
    OBVIOUS
  <2>1. CASE d = c
    <3>1. Len(waiters) + 1 \in DOMAIN waiters'
      BY <1>3
    <3> QED
      BY <1>3, <2>1, <3>1
  <2>2. CASE d # c
    <3>1. PICK i \in DOMAIN waiters : waiters[i] = d
      BY <2>2 DEF RuntimeTypeOK, QueueInOrder
    <3>2. i \in DOMAIN waiters'
      BY <1>3
    <3> QED
      BY <1>3, <3>1, <3>2
  <2> QED
    BY <2>1, <2>2
<1>7. \A i, j \in DOMAIN waiters' : waiters'[i] = waiters'[j] => i = j
  BY <1>3, <1>4 DEF QueueInOrder
<1> QED
  BY <1>2, <1>3, <1>5, <1>6, <1>7 DEF QueueInOrder

\* When a call that waits is cancelled, queue and slots stay in order.
LEMMA QueueLeft ==
    ASSUME RuntimeIInv, NEW c \in Calls, CancelWaiting(c)
    PROVE  waiters' \in Seq(Calls) /\ QueueInOrder' /\ SlotsInOrder'
<1> USE DEF RuntimeIInv
<1>1. Cardinality(Holders)' = Cardinality(Holders)
  BY HoldersStay DEF CancelWaiting, Busy
<1>2. PICK k \in DOMAIN waiters : waiters[k] = c /\ waiters' = RemoveAt(waiters, k)
  BY DEF CancelWaiting
<1>3. waiters \in Seq(Calls) /\ Len(waiters) \in Nat /\ DOMAIN waiters = 1 .. Len(waiters)
  BY DEF RuntimeTypeOK
<1>4. /\ waiters' \in Seq(Calls) /\ DOMAIN waiters' = 1 .. (Len(waiters) - 1)
      /\ \A j \in DOMAIN waiters' :
             waiters'[j] = IF j < k THEN waiters[j] ELSE waiters[j + 1]
  BY <1>2, <1>3, RemoveAtFacts
<1> DEFINE From(j) == IF j < k THEN j ELSE j + 1
<1>5. \A j \in DOMAIN waiters' : /\ From(j) \in DOMAIN waiters /\ From(j) # k
                                 /\ waiters'[j] = waiters[From(j)]
  BY <1>3, <1>4
<1>6. free = 0 /\ SlotsInOrder'
  <2>1. waiters # <<>>
    BY <1>2, <1>3
  <2>2. free = 0
    BY <2>1 DEF SlotsInOrder, RuntimeTypeOK
  <2> QED
    BY <1>1, <2>2 DEF SlotsInOrder, CancelWaiting
<1>7. pc' = [pc EXCEPT ![c] = "cancelled"] /\ pc \in [Calls -> PCs]
  BY DEF CancelWaiting, RuntimeTypeOK
<1>8. \A j \in DOMAIN waiters' : pc'[waiters'[j]] = "waiting"
  BY <1>2, <1>3, <1>5, <1>7 DEF QueueInOrder
<1>9. ASSUME NEW d \in Calls, pc'[d] = "waiting"
      PROVE  \E j \in DOMAIN waiters' : waiters'[j] = d
  <2>1. d # c /\ pc[d] = "waiting"
    BY <1>7, <1>9
  <2>2. PICK i \in DOMAIN waiters : waiters[i] = d
    BY <2>1 DEF QueueInOrder
  <2>3. i # k
    BY <1>2, <2>1, <2>2
  <2>4. CASE i < k
    <3>1. i \in DOMAIN waiters'
      BY <1>2, <1>3, <1>4, <2>4
    <3> QED
      BY <1>4, <2>2, <2>4, <3>1
  <2>5. CASE i > k
    <3>1. i - 1 \in DOMAIN waiters' /\ ~(i - 1 < k) /\ (i - 1) + 1 = i
      BY <1>2, <1>3, <1>4, <2>5
    <3> QED
      BY <1>4, <2>2, <3>1
  <2> QED
    BY <1>3, <2>3, <2>4, <2>5
<1>10. \A i, j \in DOMAIN waiters' : waiters'[i] = waiters'[j] => i = j
  <2> SUFFICES ASSUME NEW i \in DOMAIN waiters', NEW j \in DOMAIN waiters',
                      waiters'[i] = waiters'[j]
               PROVE  i = j
    OBVIOUS
  <2>1. From(i) = From(j)
    BY <1>5 DEF QueueInOrder
  <2> QED
    BY <1>3, <1>4, <2>1
<1> QED
  BY <1>4, <1>6, <1>8, <1>9, <1>10 DEF QueueInOrder
-----------------------------------------------------------------------------
(* Initial states and steps                                                 *)

\* All slots are free initially, and no call has begun.
LEMMA InitHolds == Init => RuntimeIInv
<1> SUFFICES ASSUME Init PROVE RuntimeIInv
  OBVIOUS
<1>1. RuntimeTypeOK /\ CallsInOrder /\ QueueInOrder
  BY RuntimeAssumption DEF Init, RuntimeTypeOK, CallsInOrder, QueueInOrder, PCs, Rings, Busy
<1>2. Cardinality(Holders) = 0
  <2>1. Holders = {}
    BY DEF Init, Holders, With
  <2> QED
    BY <2>1, FS_EmptySet
<1> QED
  BY <1>1, <1>2, RuntimeAssumption DEF Init, SlotsInOrder, RuntimeIInv

\* A call that holds a slot ends: its worker is gone, killed, or never was.
LEMMA HolderLeaves ==
    ASSUME RuntimeIInv, NEW c \in Calls, NEW end \in Ended, pc[c] \in Busy, Leave(c, end),
           NEW state \in {"none", "killed", "dead"}, process' = [process EXCEPT ![c] = state]
    PROVE  RuntimeIInv'
<1>1. /\ pc' \in [Calls -> PCs] /\ free' \in 0 .. MaxConcurrency /\ waiters' \in Seq(Calls)
      /\ pc'[c] = end
      /\ \A d \in Calls \ {c} :
             pc'[d] = pc[d] \/ (pc[d] = "waiting" /\ pc'[d] = "spawning")
      /\ QueueInOrder' /\ SlotsInOrder'
  BY SlotReturned
<1>2. ring' = ring /\ permitted' = permitted
  BY DEF Leave
<1>3. RuntimeTypeOK'
  BY <1>1, <1>2 DEF RuntimeIInv, RuntimeTypeOK
<1>4. CallsInOrder'
  <2> SUFFICES ASSUME NEW d \in Calls
               PROVE  /\ process'[d] = "alive" <=> pc'[d] = "running"
                      /\ pc'[d] \in {"idle", "authorizing"} => process'[d] = "none"
                      /\ pc'[d] \in Busy \cup {"waiting"} \/ process'[d] # "none" =>
                             d \in permitted' /\ ring'[d] \in {"ring1", "ring2"}
    BY DEF CallsInOrder
  <2>1. CASE d = c
    BY <1>1, <1>2, <2>1 DEF RuntimeIInv, RuntimeTypeOK, CallsInOrder, Ended, Busy
  <2>2. CASE d # c
    BY <1>1, <1>2, <2>2 DEF RuntimeIInv, RuntimeTypeOK, CallsInOrder, Busy
  <2> QED
    BY <2>1, <2>2
<1> QED
  BY <1>1, <1>3, <1>4 DEF RuntimeIInv

\* A call without a slot moves on or ends, or one with a slot keeps it.
LEMMA CallMoves ==
    ASSUME RuntimeIInv, NEW c \in Calls,
           pc' = [pc EXCEPT ![c] = pc'[c]],
           process' = [process EXCEPT ![c] = process'[c]],
           ring' = [ring EXCEPT ![c] = ring'[c]],
           permitted' \in {permitted, permitted \cup {c}},
           UNCHANGED slotVars,
           pc[c] # "waiting", pc'[c] \in PCs \ {"waiting"}, pc[c] \in Busy <=> pc'[c] \in Busy,
           process'[c] \in {"none", "alive", "killed", "dead"},
           process'[c] = "alive" <=> pc'[c] = "running",
           process'[c] = "none" \/ pc'[c] \in Busy,
           ring'[c] \in Rings, pc'[c] \in Busy => ring'[c] = ring[c]
    PROVE  RuntimeIInv'
<1>1. QueueInOrder' /\ SlotsInOrder'
  BY SlotKept
<1>2. RuntimeTypeOK'
  BY DEF RuntimeIInv, RuntimeTypeOK, slotVars
<1>3. CallsInOrder'
  BY DEF RuntimeIInv, RuntimeTypeOK, CallsInOrder, Busy
<1> QED
  BY <1>1, <1>2, <1>3 DEF RuntimeIInv

\* Every step keeps the invariant.
LEMMA NextHolds == RuntimeIInv /\ [Next]_vars => RuntimeIInv'
<1> SUFFICES ASSUME RuntimeIInv, [Next]_vars PROVE RuntimeIInv'
  OBVIOUS
<1>types. /\ pc \in [Calls -> PCs] /\ ring \in [Calls -> Rings]
          /\ process \in [Calls -> {"none", "alive", "killed", "dead"}]
          /\ \A d \in Calls : process' = process => process' = [process EXCEPT ![d] = process[d]]
  BY DEF RuntimeIInv, RuntimeTypeOK
<1>workers. \A d \in Calls :
               /\ process[d] = "alive" <=> pc[d] = "running"
               /\ pc[d] \in {"idle", "authorizing"} => process[d] = "none"
  BY DEF RuntimeIInv, CallsInOrder
<1>1. ASSUME NEW c \in Calls, NEW r \in Rings, Invoke(c, r) PROVE RuntimeIInv'
  <2>1. process[c] = "none"
    BY <1>1, <1>workers DEF Invoke
  <2> QED
    BY <1>1, <2>1, <1>types, CallMoves DEF Invoke, PCs, Busy
<1>2. ASSUME NEW c \in Calls, Authorized(c) PROVE RuntimeIInv'
  <2>1. pc[c] = "authorizing" /\ process[c] = "none"
    BY <1>2, <1>workers
       DEF Authorized, Refused, RouteDenied, RouteInMemory, RouteToWorker, PayloadDenied, Permitted
  <2>2. CASE Refused(c)
    BY <2>1, <2>2, <1>types, CallMoves DEF Refused, PCs, Ended, Busy
  <2>3. CASE RouteDenied(c)
    BY <2>1, <2>3, <1>types, CallMoves DEF RouteDenied, Permitted, PCs, Ended, Busy
  <2>4. CASE RouteInMemory(c)
    BY <2>1, <2>4, <1>types, CallMoves DEF RouteInMemory, Permitted, PCs, Ended, Busy
  <2>5. CASE PayloadDenied(c)
    BY <2>1, <2>5, <1>types, CallMoves DEF PayloadDenied, Permitted, PCs, Ended, Busy
  <2>6. CASE RouteToWorker(c)
    <3>1. /\ ring[c] \in {"ring1", "ring2"} /\ permitted' = permitted \cup {c}
          /\ ring' = ring /\ process' = process
          /\ pc' = [pc EXCEPT ![c] = "spawning"] \/ pc' = [pc EXCEPT ![c] = "waiting"]
      BY <2>6 DEF RouteToWorker, Permitted
    <3>2. CallsInOrder'
      BY <2>1, <3>1, <1>types DEF RuntimeIInv, CallsInOrder, RuntimeTypeOK, Busy
    <3>3. CASE free > 0
      <4>1. pc' = [pc EXCEPT ![c] = "spawning"] /\ free' = free - 1 /\ waiters' = waiters
        BY <2>6, <3>3 DEF RouteToWorker
      <4>2. Cardinality(Holders)' = Cardinality(Holders) + 1
        BY <2>1, <4>1, HolderJoins DEF RuntimeIInv, Busy
      <4>3. SlotsInOrder' /\ free' \in 0 .. MaxConcurrency
        BY <3>3, <4>1, <4>2, HoldersFinite, RuntimeAssumption
           DEF RuntimeIInv, RuntimeTypeOK, SlotsInOrder
      <4>4. QueueInOrder'
        BY <2>1, <4>1, <1>types DEF RuntimeIInv, RuntimeTypeOK, QueueInOrder
      <4>5. RuntimeTypeOK'
        BY <3>1, <4>1, <4>3 DEF RuntimeIInv, RuntimeTypeOK, PCs
      <4> QED
        BY <3>2, <4>3, <4>4, <4>5 DEF RuntimeIInv
    <3>4. CASE ~(free > 0)
      <4>1. pc' = [pc EXCEPT ![c] = "waiting"] /\ waiters' = Append(waiters, c) /\ free' = free
        BY <2>6, <3>4 DEF RouteToWorker
      <4>2. free = 0
        BY <3>4, RuntimeAssumption DEF RuntimeIInv, RuntimeTypeOK
      <4>3. waiters' \in Seq(Calls) /\ QueueInOrder' /\ SlotsInOrder'
        BY <2>1, <4>1, <4>2, QueueJoined DEF Busy
      <4>4. RuntimeTypeOK'
        BY <3>1, <4>1, <4>3 DEF RuntimeIInv, RuntimeTypeOK, PCs
      <4> QED
        BY <3>2, <4>3, <4>4 DEF RuntimeIInv
    <3> QED
      BY <3>3, <3>4
  <2> QED
    BY <1>2, <2>2, <2>3, <2>4, <2>5, <2>6 DEF Authorized
<1>3. ASSUME NEW c \in Calls, Spawn(c) PROVE RuntimeIInv'
  BY <1>3, <1>types, CallMoves DEF Spawn, PCs, Busy
<1>4. ASSUME NEW c \in Calls, SpawnFails(c) \/ CancelSpawning(c) PROVE RuntimeIInv'
  <2>1. /\ pc[c] = "spawning" /\ process' = process
        /\ \E end \in {"denied", "cancelled"} : Leave(c, end)
    BY <1>4 DEF SpawnFails, CancelSpawning
  <2>2. process[c] # "alive"
    BY <2>1, <1>workers
  <2> QED
    BY <2>1, <2>2, <1>types, HolderLeaves DEF Ended, Busy
<1>5. ASSUME NEW c \in Calls, WorkerExits(c) PROVE RuntimeIInv'
  BY <1>5, HolderLeaves DEF WorkerExits, Ended, Busy
<1>6. ASSUME NEW c \in Calls, GiveUp(c) PROVE RuntimeIInv'
  BY <1>6, <1>types, CallMoves DEF GiveUp, PCs, Busy
<1>7. ASSUME NEW c \in Calls, CancelRunning(c) PROVE RuntimeIInv'
  BY <1>7, <1>types, CallMoves DEF CancelRunning, PCs, Busy
<1>8. ASSUME NEW c \in Calls, Reap(c) PROVE RuntimeIInv'
  <2>1. pc[c] \in Busy /\ \E end \in Ended : Leave(c, end)
    BY <1>8 DEF Reap, Busy, Ended
  <2> QED
    BY <1>8, <2>1, HolderLeaves DEF Reap
<1>9. ASSUME NEW c \in Calls, CancelKilling(c) PROVE RuntimeIInv'
  <2>1. pc[c] \in {"killing", "aborting"} /\ process[c] # "alive"
    BY <1>9, <1>workers DEF CancelKilling
  <2> QED
    BY <1>9, <2>1, <1>types, HolderLeaves DEF CancelKilling, Busy, Ended
<1>10. ASSUME NEW c \in Calls, CancelAuthorizing(c) PROVE RuntimeIInv'
  <2>1. process[c] = "none"
    BY <1>10, <1>workers DEF CancelAuthorizing
  <2> QED
    BY <1>10, <2>1, <1>types, CallMoves DEF CancelAuthorizing, PCs, Ended, Busy
<1>11. ASSUME NEW c \in Calls, CancelWaiting(c) PROVE RuntimeIInv'
  <2>1. waiters' \in Seq(Calls) /\ QueueInOrder' /\ SlotsInOrder'
    BY <1>11, QueueLeft
  <2>2. RuntimeTypeOK'
    BY <1>11, <2>1 DEF CancelWaiting, RuntimeIInv, RuntimeTypeOK, PCs, Ended
  <2>3. CallsInOrder'
    BY <1>11 DEF CancelWaiting, RuntimeIInv, RuntimeTypeOK, CallsInOrder, Busy
  <2> QED
    BY <2>1, <2>2, <2>3 DEF RuntimeIInv
<1>12. CASE UNCHANGED vars
  BY <1>12 DEF vars, slotVars, RuntimeIInv, RuntimeTypeOK, CallsInOrder, QueueInOrder,
               SlotsInOrder, Holders, With
<1> QED
  BY <1>1, <1>2, <1>3, <1>4, <1>5, <1>6, <1>7, <1>8, <1>9, <1>10, <1>11, <1>12
     DEF Next, Spawned, Cancel

\* The invariant holds at all times.
LEMMA InvariantHolds == Spec => []RuntimeIInv
  BY InitHolds, NextHolds, PTL DEF Spec
-----------------------------------------------------------------------------
(* The properties                                                           *)

\* The runtime's variables keep their types, for any number of calls and slots.
THEOREM TypeCorrect == Spec => []RuntimeTypeOK
  BY InvariantHolds, PTL DEF RuntimeIInv

\* Workers only run for permitted calls of tools of ring 1 and 2.
THEOREM WorkersAreAuthorized == Spec => []WorkersAuthorized
<1>1. RuntimeIInv => WorkersAuthorized
  BY DEF RuntimeIInv, CallsInOrder, WorkersAuthorized
<1> QED
  BY <1>1, InvariantHolds, PTL

\* A living worker's call holds a slot, and there are only so many slots.
THEOREM WorkersAreCapped == Spec => []WorkersCapped
<1>1. RuntimeIInv => WorkersCapped
  <2> SUFFICES ASSUME RuntimeIInv PROVE WorkersCapped
    OBVIOUS
  <2> DEFINE alive == {c \in Calls : process[c] = "alive"}
  <2>1. alive \in SUBSET Holders
    BY DEF RuntimeIInv, CallsInOrder, Holders, With
  <2>2. IsFiniteSet(alive) /\ Cardinality(alive) <= Cardinality(Holders)
    BY <2>1, HoldersFinite, FS_Subset
  <2>3. Cardinality(alive) \in Nat
    BY <2>2, FS_CardinalityType
  <2>4. Cardinality(alive) <= MaxConcurrency
    <3> HIDE DEF alive
    <3> QED
      BY <2>2, <2>3, HoldersFinite, RuntimeAssumption
         DEF RuntimeIInv, RuntimeTypeOK, SlotsInOrder
  <2>5. \A c \in Calls : pc[c] \in Ended => process[c] # "alive"
    BY DEF RuntimeIInv, CallsInOrder, Ended
  <2> QED
    BY <2>4, <2>5 DEF WorkersCapped
<1> QED
  BY <1>1, InvariantHolds, PTL

\* No slot is lost or doubled, and the queue holds exactly the calls that wait.
THEOREM SlotsAreAccounted == Spec => []SlotsAccounted
<1>1. RuntimeIInv => SlotsAccounted
  <2> SUFFICES ASSUME RuntimeIInv PROVE SlotsAccounted
    OBVIOUS
  <2>1. waiters \in Seq(Calls) /\ Len(waiters) \in Nat /\ DOMAIN waiters = 1 .. Len(waiters)
    BY DEF RuntimeIInv, RuntimeTypeOK
  <2>2. ToSet(waiters) = With({"waiting"})
    BY <2>1 DEF RuntimeIInv, QueueInOrder, ToSet, With
  <2>3. waiters \in Bijection(1 .. Len(waiters), ToSet(waiters))
    <3>1. waiters \in [1 .. Len(waiters) -> ToSet(waiters)]
      BY <2>1 DEF ToSet
    <3>2. \A i, j \in 1 .. Len(waiters) : waiters[i] = waiters[j] => i = j
      BY <2>1 DEF RuntimeIInv, QueueInOrder
    <3>3. \A c \in ToSet(waiters) : \E i \in 1 .. Len(waiters) : waiters[i] = c
      BY <2>1 DEF ToSet
    <3> QED
      BY <3>1, <3>2, <3>3 DEF Bijection, Injection, Surjection, IsInjective
  <2>4. IsFiniteSet(1 .. Len(waiters)) /\ Cardinality(1 .. Len(waiters)) = Len(waiters)
    BY <2>1, FS_Interval
  <2>5. Len(waiters) = Cardinality(ToSet(waiters))
    BY <2>3, <2>4, FS_Bijection DEF ExistsBijection
  <2> QED
    BY <2>2, <2>5 DEF RuntimeIInv, SlotsInOrder, SlotsAccounted
<1> QED
  BY <1>1, InvariantHolds, PTL
=============================================================================
