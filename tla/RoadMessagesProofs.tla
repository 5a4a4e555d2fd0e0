-------------------------- MODULE RoadMessagesProofs --------------------------
(***************************************************************************)
(* For any messages, in any number: until one of them is five minutes old, *)
(* a sign has at most one entry, and every queued entry is in the cache;   *)
(* at any time, a message is shown no more often than it was queued for.   *)
(***************************************************************************)
EXTENDS RoadMessages, WellFoundedInduction, FiniteSetTheorems, TLAPS

Entries == [priority : Nat, counter : Nat, item : Item]

\* An entry for a message that was received.
Known(e) == e \in Entries /\ e.item \in DOMAIN received

\* Types, and the positions of the threads while no message is old: nothing is removed from
\* the queue behind its back, nothing is taken out of the cache.
Types ==
    /\ received \in Seq(Event) /\ Len(received) <= MaxMessages
    /\ repeat \in [Item -> Nat] /\ counter \in Nat
    /\ queue \in Seq(Entries) /\ \A k \in DOMAIN queue : queue[k].item \in DOMAIN received
    /\ cache \in [Device -> Entries \cup {None}]
    /\ mqtt \in [pc : {"idle", "push", "cache", "dead"}, message : 0 .. MaxMessages,
                 item : 0 .. MaxMessages, existing : {None}]
    /\ mqtt.pc # "idle" => mqtt.item \in DOMAIN received /\ mqtt.message = mqtt.item
    /\ ui \in [pc : {"idle", "get", "fade", "look", "show", "dead"}, entry : Entries \cup {None}]
    /\ ui.pc \notin {"idle", "get"} => Known(ui.entry)

\* The sign of an item is in the cache, or the MQTT thread is on the way to put it there.
InCache(i) ==
    cache[DeviceOf(i)] # None \/ (mqtt.pc \in {"cache", "dead"} /\ mqtt.item = i)

\* Whatever is or will be queued again is in the cache; what is about to be queued is not.
Cached ==
    /\ \A k \in DOMAIN queue : InCache(queue[k].item)
    /\ ui.pc = "fade" => InCache(ui.entry.item)
    /\ mqtt.pc = "push" => cache[DeviceOf(mqtt.item)] = None

\* One entry for a sign, in the queue or in the hands of the UI thread.
Single ==
    /\ \A j, k \in DOMAIN queue : DeviceOf(queue[j].item) = DeviceOf(queue[k].item) => j = k
    /\ ui.pc = "fade" =>
          \A k \in DOMAIN queue : DeviceOf(queue[k].item) # DeviceOf(ui.entry.item)

Quiet == Types /\ Cached /\ Single

\* The inductive invariant.
FreshInv == old = {} => Quiet

-------------------------------------------------------------------------------
\* The least of a set of numbers exists.
LEMMA LeastExists ==
    ASSUME NEW I \in SUBSET Nat, I # {}
    PROVE  \E i \in I : \A j \in I : i <= j
<1>1. PICK i \in I : \A j \in I : <<j, i>> \notin OpToRel(<, Nat)
  BY NatLessThanWellFounded, WFMin
<1>2. \A j \in I : ~(j < i)
  BY <1>1 DEF OpToRel
<1>3. QED
  BY <1>2

\* Two sequences, one after the other.
LEMMA Joined ==
    ASSUME NEW S, NEW a \in Seq(S), NEW b \in Seq(S)
    PROVE  /\ a \o b \in Seq(S) /\ DOMAIN (a \o b) = 1 .. Len(a) + Len(b)
           /\ \A j \in 1 .. Len(a) + Len(b) : (a \o b)[j] = IF j <= Len(a) THEN a[j] ELSE b[j - Len(a)]
  OBVIOUS

\* The first occurrence of an entry is removed; the entries behind it move up.
LEMMA RemovedOne ==
    ASSUME NEW S, NEW q \in Seq(S), NEW e, Contains(q, e)
    PROVE  \E i \in DOMAIN q :
              /\ q[i] = e
              /\ RemoveFirst(q, e) \in Seq(S)
              /\ DOMAIN RemoveFirst(q, e) = 1 .. Len(q) - 1
              /\ \A j \in 1 .. Len(q) - 1 : RemoveFirst(q, e)[j] = IF j < i THEN q[j] ELSE q[j + 1]
<1> DEFINE I == {j \in 1 .. Len(q) : q[j] = e}
<1>1. PICK i \in I : \A j \in I : i <= j
  <2>1. I \in SUBSET Nat /\ I # {}
    BY DEF Contains
  <2>2. QED
    BY <2>1, LeastExists
<1>2. Min(I) = i
  BY <1>1 DEF Min
<1>3. SelectInSeq(q, LAMBDA v : v = e) = i
  BY <1>1, <1>2 DEF SelectInSeq
<1>4. RemoveFirst(q, e) = SubSeq(q, 1, i - 1) \o SubSeq(q, i + 1, Len(q))
  BY <1>1, <1>3 DEF RemoveFirst, RemoveAt, Contains
<1> HIDE DEF I
<1>5. i \in 1 .. Len(q) /\ q[i] = e /\ Len(q) \in Nat
  BY <1>1 DEF I
<1>6. /\ SubSeq(q, 1, i - 1) \in Seq(S) /\ Len(SubSeq(q, 1, i - 1)) = i - 1
      /\ \A j \in 1 .. i - 1 : SubSeq(q, 1, i - 1)[j] = q[j]
  BY <1>5
<1>7. /\ SubSeq(q, i + 1, Len(q)) \in Seq(S) /\ Len(SubSeq(q, i + 1, Len(q))) = Len(q) - i
      /\ \A j \in 1 .. Len(q) - i : SubSeq(q, i + 1, Len(q))[j] = q[i + j]
  BY <1>5
<1> DEFINE a == SubSeq(q, 1, i - 1)
           b == SubSeq(q, i + 1, Len(q))
<1> HIDE DEF a, b
<1>8. /\ RemoveFirst(q, e) = a \o b /\ a \in Seq(S) /\ b \in Seq(S)
      /\ Len(a) = i - 1 /\ Len(b) = Len(q) - i
      /\ \A j \in 1 .. i - 1 : a[j] = q[j]
      /\ \A j \in 1 .. Len(q) - i : b[j] = q[i + j]
  BY <1>4, <1>6, <1>7 DEF a, b
<1>9. /\ a \o b \in Seq(S) /\ DOMAIN (a \o b) = 1 .. Len(q) - 1
      /\ \A j \in 1 .. Len(q) - 1 : (a \o b)[j] = IF j <= Len(a) THEN a[j] ELSE b[j - Len(a)]
  <2>1. Len(a) + Len(b) = Len(q) - 1
    BY <1>5, <1>8
  <2>2. QED
    BY <1>8, <2>1, Joined
<1>10. \A j \in 1 .. Len(q) - 1 : (a \o b)[j] = IF j < i THEN q[j] ELSE q[j + 1]
  <2> SUFFICES ASSUME NEW j \in 1 .. Len(q) - 1
               PROVE  (a \o b)[j] = IF j < i THEN q[j] ELSE q[j + 1]
    OBVIOUS
  <2>1. CASE j < i
    BY <1>5, <1>8, <1>9, <2>1
  <2>2. CASE ~(j < i)
    <3>1. j - (i - 1) \in 1 .. Len(q) - i /\ i + (j - (i - 1)) = j + 1 /\ ~(j <= i - 1)
      BY <1>5, <2>2
    <3>2. QED
      BY <1>8, <1>9, <2>2, <3>1
  <2>3. QED
    BY <2>1, <2>2
<1>11. QED
  BY <1>5, <1>8, <1>9, <1>10

\* What pq.put does to the queue.
LEMMA QueueEnd ==
    ASSUME NEW S, NEW q \in Seq(S), NEW e \in S
    PROVE  /\ Append(q, e) \in Seq(S)
           /\ DOMAIN Append(q, e) = DOMAIN q \cup {Len(q) + 1}
           /\ \A i \in DOMAIN q : Append(q, e)[i] = q[i]
           /\ Append(q, e)[Len(q) + 1] = e
           /\ Len(q) + 1 \notin DOMAIN q
  OBVIOUS

\* A new message does not change the sign of an older one.
LEMMA SignsStay ==
    ASSUME NEW e \in Event, Types, received' = Append(received, e)
    PROVE  /\ received' \in Seq(Event) /\ DOMAIN received' = DOMAIN received \cup {Len(received) + 1}
           /\ \A i \in DOMAIN received : received'[i] = received[i]
           /\ received'[Len(received) + 1] = e
           /\ Len(received') = Len(received) + 1
           /\ Len(received) + 1 \notin DOMAIN received
<1>1. received \in Seq(Event)
  BY DEF Types
<1>2. /\ received' \in Seq(Event) /\ Len(received') = Len(received) + 1
      /\ DOMAIN received' = DOMAIN received \cup {Len(received) + 1}
      /\ \A i \in DOMAIN received : received'[i] = received[i]
      /\ received'[Len(received) + 1] = e /\ Len(received) + 1 \notin DOMAIN received
  BY <1>1, QueueEnd
<1>3. QED
  BY <1>2

\* Signs are those of the events.
LEMMA SignsExist == Types => \A i \in DOMAIN received : DeviceOf(i) \in Device /\ i \in Item
<1> SUFFICES ASSUME Types, NEW i \in DOMAIN received PROVE DeviceOf(i) \in Device /\ i \in Item
  OBVIOUS
<1>1. received[i] \in Event
  BY DEF Types
<1>2. i \in 1 .. MaxMessages
  BY RoadAssumption DEF Types
<1>3. QED
  BY <1>1, <1>2 DEF DeviceOf, Device, Item

-------------------------------------------------------------------------------
\* MsgPriorityQueue.put: on_message up to its first call of the queue.
LEMMA ReceiveStep ==
    ASSUME RoadAssumption, Quiet, old = {}, NEW e \in Event, Receive(e)
    PROVE  Quiet'
<1> DEFINE n == Len(received) + 1
<1>1. /\ DOMAIN received' = DOMAIN received \cup {n} /\ received' \in Seq(Event)
      /\ \A i \in DOMAIN received : received'[i] = received[i]
      /\ received'[n] = e /\ Len(received') = n /\ n \notin DOMAIN received
  BY SignsStay DEF Receive, Quiet
<1>2. e.device \in Device /\ e.repeat \in Nat /\ n \in 1 .. MaxMessages
  BY RoadAssumption DEF Device, Receive, Quiet, Types
<1>3. CASE cache[e.device] = None
  <2>1. mqtt' = [pc |-> "push", message |-> n, item |-> n, existing |-> None] /\ counter' = counter
    BY <1>3 DEF Receive
  <2>2. Types'
    <3>1. /\ repeat' \in [Item -> Nat] /\ counter' \in Nat
          /\ UNCHANGED <<queue, cache, ui>>
      BY <1>2, <2>1 DEF Receive, Quiet, Types, Item
    <3>2. /\ mqtt' \in [pc : {"idle", "push", "cache", "dead"}, message : 0 .. MaxMessages,
                         item : 0 .. MaxMessages, existing : {None}]
          /\ mqtt'.pc # "idle" => mqtt'.item = n /\ mqtt'.message = n
      BY <1>2, <2>1 DEF Quiet, Types
    <3>3. QED
      BY <1>1, <1>2, <3>1, <3>2 DEF Quiet, Types, Known
  <2>3. Cached'
    BY <1>1, <1>3, <2>1 DEF Receive, Quiet, Types, Cached, InCache, Known, DeviceOf
  <2>4. Single'
    BY <1>1, <2>1 DEF Receive, Quiet, Types, Single, Known, DeviceOf
  <2>5. QED
    BY <2>2, <2>3, <2>4 DEF Quiet
<1>4. CASE cache[e.device] # None
  <2>1. mqtt' = mqtt /\ mqtt.pc = "idle" /\ counter' = counter + 1
    BY <1>4 DEF Receive
  <2>2. Types'
    <3>1. /\ repeat' \in [Item -> Nat] /\ counter' \in Nat
          /\ UNCHANGED <<queue, cache, ui>>
      BY <1>2, <2>1 DEF Receive, Quiet, Types, Item
    <3>2. /\ mqtt' \in [pc : {"idle", "push", "cache", "dead"}, message : 0 .. MaxMessages,
                         item : 0 .. MaxMessages, existing : {None}]
          /\ mqtt'.pc # "idle" => mqtt'.item = n /\ mqtt'.message = n
      BY <1>2, <2>1 DEF Quiet, Types
    <3>3. QED
      BY <1>1, <1>2, <3>1, <3>2 DEF Quiet, Types, Known
  <2>3. Cached'
    BY <1>1, <2>1 DEF Receive, Quiet, Types, Cached, InCache, Known, DeviceOf
  <2>4. Single'
    BY <1>1, <2>1 DEF Receive, Quiet, Types, Single, Known, DeviceOf
  <2>5. QED
    BY <2>2, <2>3, <2>4 DEF Quiet
<1>5. QED
  BY <1>3, <1>4

\* pq.put: the sign was not in the cache, so it has no other entry.
LEMMA PutPushStep ==
    ASSUME RoadAssumption, Quiet, old = {}, PutPush
    PROVE  Quiet'
<1> DEFINE e == Entry(received[mqtt.message].priority, counter, mqtt.item)
<1>1. /\ mqtt.pc = "push" /\ mqtt.item \in DOMAIN received /\ mqtt.message = mqtt.item
      /\ queue' = Append(queue, e) /\ UNCHANGED <<received, repeat, cache, counter, ui>>
      /\ mqtt' = [mqtt EXCEPT !.pc = "cache"] \/ mqtt' = [mqtt EXCEPT !.pc = "dead"]
  BY DEF PutPush, Quiet, Types
<1>2. e \in Entries /\ e.item = mqtt.item
  BY <1>1, RoadAssumption, SignsExist DEF Entry, Entries, Quiet, Types
<1>3. /\ mqtt' \in [pc : {"cache", "dead"}, message : 0 .. MaxMessages, item : 0 .. MaxMessages,
                    existing : {None}]
      /\ mqtt'.item = mqtt.item /\ mqtt'.message = mqtt.message
  BY <1>1 DEF Quiet, Types
<1> HIDE DEF e
<1>4. /\ queue' \in Seq(Entries) /\ DOMAIN queue' = DOMAIN queue \cup {Len(queue) + 1}
      /\ \A i \in DOMAIN queue : queue'[i] = queue[i]
      /\ queue'[Len(queue) + 1] = e /\ Len(queue) + 1 \notin DOMAIN queue
  BY <1>1, <1>2, QueueEnd DEF Quiet, Types
<1>5. \A i \in DOMAIN received : DeviceOf(i)' = DeviceOf(i)
  BY <1>1 DEF DeviceOf
<1>6. /\ \A k \in DOMAIN queue : DeviceOf(queue[k].item) # DeviceOf(mqtt.item)
      /\ ui.pc = "fade" => DeviceOf(ui.entry.item) # DeviceOf(mqtt.item)
  BY <1>1 DEF Quiet, Cached, InCache
<1>7. Types'
  BY <1>1, <1>2, <1>3, <1>4 DEF Quiet, Types, Known
<1>8. Cached'
  BY <1>1, <1>2, <1>3, <1>4, <1>5 DEF Quiet, Types, Cached, InCache, Known
<1>9. Single'
  BY <1>1, <1>2, <1>4, <1>5, <1>6 DEF Quiet, Types, Single, Known
<1>10. QED
  BY <1>7, <1>8, <1>9 DEF Quiet

\* The message enters the cache.
LEMMA PutCacheStep ==
    ASSUME RoadAssumption, Quiet, old = {}, PutCache
    PROVE  Quiet'
<1> DEFINE e == Entry(received[mqtt.message].priority, counter, mqtt.item)
<1>1. /\ mqtt.pc = "cache" /\ mqtt.item \in DOMAIN received /\ mqtt.message = mqtt.item
      /\ UNCHANGED <<received, repeat, queue, ui>> /\ counter' = counter + 1
      /\ cache' = [cache EXCEPT ![DeviceOf(mqtt.item)] = e]
      /\ mqtt' = [mqtt EXCEPT !.pc = "idle", !.existing = None]
  BY DEF PutCache, Quiet, Types
<1>2. e \in Entries /\ e # None
  BY <1>1, RoadAssumption, SignsExist DEF Entry, Entries, Quiet, Types, Item
<1> HIDE DEF e
<1>3. \A i \in DOMAIN received : DeviceOf(i)' = DeviceOf(i) /\ DeviceOf(i) \in Device
  BY <1>1, SignsExist DEF DeviceOf, Quiet
<1>4. /\ cache' \in [Device -> Entries \cup {None}] /\ cache'[DeviceOf(mqtt.item)] # None
      /\ \A d \in Device : cache[d] # None => cache'[d] # None
  BY <1>1, <1>2, <1>3 DEF Quiet, Types
<1>5. Types'
  <2>1. /\ mqtt' \in [pc : {"idle"}, message : 0 .. MaxMessages, item : 0 .. MaxMessages,
                       existing : {None}]
        /\ counter' \in Nat
    <3>1. /\ mqtt.message \in 0 .. MaxMessages /\ mqtt.item \in 0 .. MaxMessages
          /\ counter \in Nat
      BY DEF Quiet, Types
    <3>2. mqtt' = [pc |-> "idle", message |-> mqtt.message, item |-> mqtt.item, existing |-> None]
      BY <1>1 DEF Quiet, Types
    <3>3. QED
      BY <1>1, <3>1, <3>2
  <2>2. QED
    BY <1>1, <1>4, <2>1 DEF Quiet, Types, Known
<1>6. Cached'
  BY <1>1, <1>3, <1>4 DEF Quiet, Types, Cached, InCache, Known
<1>7. Single'
  BY <1>1, <1>3 DEF Quiet, Types, Single, Known
<1>8. QED
  BY <1>5, <1>6, <1>7 DEF Quiet

-------------------------------------------------------------------------------
\* pq.get: the only entry of a sign goes into the hands of the UI thread.
LEMMA GetPopStep ==
    ASSUME Quiet, old = {}, GetPop
    PROVE  Quiet'
<1>1. PICK e \in Heads(queue) :
         /\ queue' = RemoveFirst(queue, e)
         /\ ui' = [pc |-> "fade", entry |-> e] \/ ui' = [pc |-> "dead", entry |-> e]
  BY DEF GetPop
<1>2. Contains(queue, e) /\ queue \in Seq(Entries)
  BY <1>1 DEF Heads, ToSet, Contains, Quiet, Types
<1>3. PICK i \in DOMAIN queue :
         /\ queue[i] = e /\ queue' \in Seq(Entries) /\ DOMAIN queue' = 1 .. Len(queue) - 1
         /\ \A j \in 1 .. Len(queue) - 1 : queue'[j] = IF j < i THEN queue[j] ELSE queue[j + 1]
  BY <1>1, <1>2, RemovedOne
<1>4. \A j \in DOMAIN queue' : \E k \in DOMAIN queue \ {i} : queue'[j] = queue[k]
  BY <1>2, <1>3
<1>5. \A j, k \in DOMAIN queue' : j # k =>
         \E a, b \in DOMAIN queue : a # b /\ queue'[j] = queue[a] /\ queue'[k] = queue[b]
  <2> SUFFICES ASSUME NEW j \in DOMAIN queue', NEW k \in DOMAIN queue', j # k
               PROVE  \E a, b \in DOMAIN queue : a # b /\ queue'[j] = queue[a] /\ queue'[k] = queue[b]
    OBVIOUS
  <2> DEFINE At(x) == IF x < i THEN x ELSE x + 1
  <2>1. At(j) \in DOMAIN queue /\ At(k) \in DOMAIN queue /\ At(j) # At(k)
    BY <1>2, <1>3
  <2>2. queue'[j] = queue[At(j)] /\ queue'[k] = queue[At(k)]
    BY <1>3
  <2>3. QED
    BY <2>1, <2>2
<1>6. UNCHANGED <<received, repeat, cache, counter, mqtt>> /\ ui'.entry = e /\ ui'.pc \in {"fade", "dead"}
  BY <1>1 DEF GetPop
<1>7. e \in Entries /\ e.item \in DOMAIN received
  BY <1>2, <1>3 DEF Quiet, Types
<1>8. Types'
  BY <1>1, <1>3, <1>4, <1>6, <1>7 DEF Quiet, Types, Known
<1>9. Cached'
  <2>1. \A k \in DOMAIN queue' : InCache(queue[k].item)'
    BY <1>4, <1>6 DEF Quiet, Types, Cached, InCache, DeviceOf
  <2>2. InCache(ui.entry.item)'
    BY <1>3, <1>6, <1>7 DEF Quiet, Cached, InCache, DeviceOf
  <2>3. mqtt'.pc = "push" => cache'[DeviceOf(mqtt.item)'] = None
    BY <1>6 DEF Quiet, Types, Cached, DeviceOf
  <2>4. QED
    BY <2>1, <2>2, <2>3 DEF Cached
<1>10. Single'
  <2>1. \A j, k \in DOMAIN queue' : DeviceOf(queue[j].item)' = DeviceOf(queue[k].item)' => j = k
    BY <1>5, <1>6 DEF Quiet, Types, Single, DeviceOf
  <2>2. \A k \in DOMAIN queue' : DeviceOf(queue[k].item)' # DeviceOf(ui.entry.item)'
    BY <1>3, <1>4, <1>6, <1>7 DEF Quiet, Types, Single, DeviceOf
  <2>3. QED
    BY <2>1, <2>2 DEF Single
<1>11. QED
  BY <1>8, <1>9, <1>10 DEF Quiet

\* The entry goes back into the queue, with another priority and counter.
LEMMA GetFadeStep ==
    ASSUME RoadAssumption, Quiet, old = {}, GetFade
    PROVE  Quiet'
<1> DEFINE e == Entry(ui.entry.priority + 2, counter + 1, ui.entry.item)
<1>1. /\ ui.pc = "fade" /\ Known(ui.entry) /\ repeat[ui.entry.item] > 0
      /\ queue' = Append(queue, e) /\ counter' = counter + 1
      /\ UNCHANGED <<received, cache, mqtt>>
      /\ repeat' = [repeat EXCEPT ![ui.entry.item] = @ - 1]
      /\ ui' = [ui EXCEPT !.pc = "look"] \/ ui' = [ui EXCEPT !.pc = "dead"]
  BY DEF GetFade, UiGoto, Quiet, Types
<1>2. e \in Entries /\ e.item = ui.entry.item /\ ui.entry.item \in DOMAIN received
  BY <1>1 DEF Entry, Entries, Known, Quiet, Types
<1>3. ui' \in [pc : {"look", "dead"}, entry : Entries \cup {None}] /\ ui'.entry = ui.entry
  BY <1>1 DEF Quiet, Types
<1> HIDE DEF e
<1>4. /\ queue' \in Seq(Entries) /\ DOMAIN queue' = DOMAIN queue \cup {Len(queue) + 1}
      /\ \A i \in DOMAIN queue : queue'[i] = queue[i]
      /\ queue'[Len(queue) + 1] = e /\ Len(queue) + 1 \notin DOMAIN queue
  BY <1>1, <1>2, QueueEnd DEF Quiet, Types
<1>5. \A i \in DOMAIN received : DeviceOf(i)' = DeviceOf(i)
  BY <1>1 DEF DeviceOf
<1>6. Types'
  <2>1. ui.entry.item \in Item /\ repeat[ui.entry.item] - 1 \in Nat
    BY <1>1 DEF Known, Entries, Quiet, Types
  <2>2. repeat' \in [Item -> Nat]
    BY <1>1, <2>1 DEF Quiet, Types
  <2>3. QED
    BY <1>1, <1>2, <1>3, <1>4, <2>2 DEF Quiet, Types, Known
<1>7. Cached'
  BY <1>1, <1>2, <1>3, <1>4, <1>5 DEF Quiet, Types, Cached, InCache
<1>8. Single'
  BY <1>1, <1>2, <1>3, <1>4, <1>5 DEF Quiet, Types, Single
<1>9. QED
  BY <1>6, <1>7, <1>8 DEF Quiet

\* The other steps of get change the position of the UI thread only.
LEMMA UiStep ==
    ASSUME Quiet, UNCHANGED <<received, repeat, queue, cache, counter, mqtt>>,
           ui' = [ui EXCEPT !.pc = ui'.pc], ui'.pc \in {"idle", "get", "look", "show", "dead"},
           ui.pc = "idle" => ui'.pc = "get", ui.pc # "get"
    PROVE  Quiet'
<1>1. /\ ui' \in [pc : {"idle", "get", "look", "show", "dead"}, entry : Entries \cup {None}]
      /\ ui'.entry = ui.entry
  BY DEF Quiet, Types
<1>2. Types'
  BY <1>1 DEF Quiet, Types, Known
<1>3. Cached' /\ Single'
  BY <1>1 DEF Quiet, Cached, Single, InCache, DeviceOf
<1>4. QED
  BY <1>2, <1>3 DEF Quiet

-------------------------------------------------------------------------------
\* The invariant holds before the first message.
LEMMA InitFresh == RoadAssumption /\ Init => FreshInv
<1> SUFFICES ASSUME RoadAssumption, Init PROVE Quiet
  BY DEF FreshInv
<1>1. received \in Seq(Event) /\ Len(received) = 0 /\ queue \in Seq(Entries) /\ DOMAIN queue = {}
  BY DEF Init
<1>2. Types
  BY <1>1, RoadAssumption DEF Init, Types
<1>3. Cached /\ Single
  BY <1>1 DEF Init, Cached, Single
<1>4. QED
  BY <1>2, <1>3 DEF Quiet

\* Every step of the two threads keeps it; time only makes messages old.
LEMMA FreshStep == RoadAssumption /\ FreshInv /\ [Next]_vars => FreshInv'
<1> SUFFICES ASSUME RoadAssumption, FreshInv, [Next]_vars, old' = {} PROVE Quiet'
  BY DEF FreshInv
<1>1. old = {}
  <2>1. CASE Age
    BY <2>1 DEF Age
  <2>2. CASE ~Age
    BY <2>2 DEF Next, Put, Get, Receive, RemoveExisting, PutPush, PutCache, NotEmpty, GetPop, GetFade,
                GetLast, GetLook, GetForget, Show, vars
  <2>3. QED
    BY <2>1, <2>2
<1>2. Quiet
  BY <1>1 DEF FreshInv
<1>3. ASSUME NEW e \in Event, Receive(e) PROVE Quiet'
  BY <1>1, <1>2, <1>3, ReceiveStep
<1>4. CASE RemoveExisting
  BY <1>2, <1>4 DEF RemoveExisting, Quiet, Types
<1>5. CASE PutPush
  BY <1>1, <1>2, <1>5, PutPushStep
<1>6. CASE PutCache
  BY <1>1, <1>2, <1>6, PutCacheStep
<1>7. CASE NotEmpty \/ GetPop
  <2>1. CASE NotEmpty
    <3>1. ui' = [ui EXCEPT !.pc = "get"] /\ ui.pc = "idle" /\ ui'.pc = "get"
      BY <1>2, <2>1 DEF NotEmpty, UiGoto, Quiet, Types
    <3>2. QED
      BY <1>2, <2>1, <3>1, UiStep DEF NotEmpty
  <2>2. QED
    BY <1>1, <1>2, <1>7, <2>1, GetPopStep
<1>8. CASE GetFade
  BY <1>1, <1>2, <1>8, GetFadeStep
<1>9. CASE GetLast
  <2>1. ui' = [ui EXCEPT !.pc = "look"] /\ ui.pc = "fade" /\ ui'.pc = "look"
    BY <1>2, <1>9 DEF GetLast, UiGoto, Quiet, Types
  <2>2. QED
    BY <1>2, <1>9, <2>1, UiStep DEF GetLast
<1>10. CASE GetLook
  <2>1. /\ ui.pc = "look" /\ ui'.pc \in {"show", "dead"} /\ ui' = [ui EXCEPT !.pc = ui'.pc]
    <3>1. ui' = [ui EXCEPT !.pc = "show"] \/ ui' = [ui EXCEPT !.pc = "dead"]
      BY <1>1, <1>10 DEF GetLook, UiGoto
    <3>2. QED
      BY <1>2, <1>10, <3>1 DEF GetLook, Quiet, Types
  <2>2. QED
    BY <1>2, <1>10, <2>1, UiStep DEF GetLook
<1>11. CASE GetForget
  BY <1>2, <1>11 DEF GetForget, UiGoto, Quiet, Types
<1>12. CASE Show
  <2>1. ui' = [ui EXCEPT !.pc = "idle"] /\ ui.pc = "show" /\ ui'.pc = "idle"
    BY <1>2, <1>12 DEF Show, UiGoto, Quiet, Types
  <2>2. QED
    BY <1>2, <1>12, <2>1, UiStep DEF Show
<1>13. CASE Age
  BY <1>13 DEF Age
<1>14. CASE UNCHANGED vars
  BY <1>2, <1>14 DEF vars, Quiet, Types, Cached, Single, InCache, DeviceOf, Known
<1>15. QED
  BY <1>3, <1>4, <1>5, <1>6, <1>7, <1>8, <1>9, <1>10, <1>11, <1>12, <1>13, <1>14 DEF Next, Put, Get

\* The invariant is one.
THEOREM FreshInvariant == Spec => []FreshInv
<1>1. QED
  BY InitFresh, FreshStep, RoadAssumption, PTL DEF Spec

\* However the two threads interleave, a sign has at most one entry until a message is five
\* minutes old (MsgPriorityQueue.put ignores a message for a sign that is cached).
THEOREM OnePerDeviceHolds == Spec => []OnePerDevice
<1>1. FreshInv => OnePerDevice
  <2> SUFFICES ASSUME old = {}, Quiet, NEW d \in Device
               PROVE  LET w == Waiting(d)
                      IN  /\ \A j, k \in w[1] : j = k
                          /\ \A s, t \in w[2] : s = t
                          /\ w[1] = {} \/ w[2] = {}
    BY DEF FreshInv, OnePerDevice
  <2>1. mqtt.pc = "push" =>
           /\ \A k \in DOMAIN queue : DeviceOf(queue[k].item) # DeviceOf(mqtt.item)
           /\ ui.pc = "fade" => DeviceOf(ui.entry.item) # DeviceOf(mqtt.item)
    BY DEF Quiet, Cached, InCache
  <2>2. QED
    BY <2>1 DEF Waiting, Quiet, Single
<1>2. QED
  BY <1>1, FreshInvariant, PTL

\* Until a message is five minutes old, get finds what it takes from the queue in the cache,
\* unless put has not yet entered it.
THEOREM QueuedIsCachedHolds == Spec => []QueuedIsCached
<1>1. FreshInv => QueuedIsCached
  BY DEF FreshInv, QueuedIsCached, Quiet, Cached, InCache
<1>2. QED
  BY <1>1, FreshInvariant, PTL
-------------------------------------------------------------------------------
(* How often a message is shown, whatever its age.                            *)

MqttPC == {"idle", "remove", "push", "cache", "dead"}
Showing == {"fade", "look", "clear", "forget", "show"}
Polling == {"idle", "get"}

\* Types, also of the states in which messages are old.
Shape ==
    /\ received \in Seq(Event) /\ Len(received) <= MaxMessages
    /\ repeat \in [Item -> Nat] /\ counter \in Nat
    /\ shown \in [Item -> Nat] /\ requeued \in [Item -> Nat]
    /\ \A i \in Item : i \notin DOMAIN received => shown[i] = 0
    /\ queue \in Seq(Entries) /\ \A k \in DOMAIN queue : queue[k].item \in DOMAIN received
    /\ cache \in [Device -> Entries \cup {None}]
    /\ \A d \in Device : cache[d] # None => Known(cache[d])
    /\ mqtt \in [pc : MqttPC, message : 0 .. MaxMessages, item : 0 .. MaxMessages,
                 existing : Entries \cup {None}]
    /\ mqtt.pc # "idle" => mqtt.item \in DOMAIN received /\ mqtt.message \in DOMAIN received
    /\ mqtt.pc = "remove" => Known(mqtt.existing)
    /\ ui \in [pc : Showing \cup Polling \cup {"dead"}, entry : Entries \cup {None}]
    /\ ui.pc \notin Polling => Known(ui.entry)

\* The entries of an item in the queue, and in the hands of the two threads.
Places(q, i) == {k \in DOMAIN q : q[k].item = i}
Copies(q, i) == Cardinality(Places(q, i))
WithUi(i)    == IF ui.pc \in Showing /\ ui.entry.item = i THEN 1 ELSE 0
WithMqtt(i)  == IF mqtt.pc = "push" /\ mqtt.item = i THEN 1 ELSE 0

\* What was shown, what may still fade, and what is on its way to the display.
Claims(i) == shown[i] + repeat[i] + Copies(queue, i) + WithUi(i) + WithMqtt(i)

ShowInv == Shape /\ \A i \in DOMAIN received : Claims(i) <= received[i].repeat + 1 + requeued[i]

\* An entry at the end adds one place to those of its item.
LEMMA CopiesEnd ==
    ASSUME NEW q \in Seq(Entries), NEW e \in Entries, NEW i
    PROVE  /\ Copies(q, i) \in Nat
           /\ Copies(Append(q, e), i) = Copies(q, i) + (IF e.item = i THEN 1 ELSE 0)
<1>1. IsFiniteSet(DOMAIN q)
  <2>1. DOMAIN q = 1 .. Len(q) /\ Len(q) \in Int
    OBVIOUS
  <2>2. QED
    BY <2>1, FS_Interval
<1>2. Places(q, i) \in SUBSET DOMAIN q
  BY DEF Places
<1>3. IsFiniteSet(Places(q, i)) /\ Copies(q, i) \in Nat
  BY <1>1, <1>2, FS_Subset, FS_CardinalityType DEF Copies
<1>4. CASE e.item = i
  <2>1. Places(Append(q, e), i) = Places(q, i) \cup {Len(q) + 1} /\ Len(q) + 1 \notin Places(q, i)
    BY <1>4, QueueEnd DEF Places
  <2>2. QED
    BY <1>3, <1>4, <2>1, FS_AddElement DEF Copies
<1>5. CASE e.item # i
  <2>1. Places(Append(q, e), i) = Places(q, i)
    BY <1>5, QueueEnd DEF Places
  <2>2. QED
    BY <1>3, <1>5, <2>1 DEF Copies
<1>6. QED
  BY <1>4, <1>5

\* Removing an entry takes one place from those of its item.
LEMMA CopiesRemoved ==
    ASSUME NEW q \in Seq(Entries), NEW e \in Entries, NEW i
    PROVE  LET r == RemoveFirst(q, e)
           IN  /\ r \in Seq(Entries) /\ Copies(r, i) \in Nat /\ Copies(q, i) \in Nat
               /\ \A k \in DOMAIN r : \E j \in DOMAIN q : r[k] = q[j]
               /\ Copies(r, i) <= Copies(q, i)
               /\ Contains(q, e) /\ e.item = i => Copies(r, i) + 1 <= Copies(q, i)
<1> DEFINE r == RemoveFirst(q, e)
<1>1. Copies(q, i) \in Nat
  BY CopiesEnd
<1>2. CASE ~Contains(q, e)
  <2>1. r = q
    BY <1>2 DEF RemoveFirst, Contains
  <2>2. QED
    BY <1>1, <1>2, <2>1
<1>3. CASE Contains(q, e)
  <2>1. PICK p \in DOMAIN q :
           /\ q[p] = e /\ r \in Seq(Entries) /\ DOMAIN r = 1 .. Len(q) - 1
           /\ \A j \in 1 .. Len(q) - 1 : r[j] = IF j < p THEN q[j] ELSE q[j + 1]
    BY <1>3, RemovedOne
  <2> HIDE DEF r
  <2> DEFINE from == [k \in Places(r, i) |-> IF k < p THEN k ELSE k + 1]
             rest == Places(q, i) \ {p}
  <2>2. IsFiniteSet(Places(q, i))
    <3>1. DOMAIN q = 1 .. Len(q) /\ Len(q) \in Int
      OBVIOUS
    <3>2. IsFiniteSet(DOMAIN q)
      BY <3>1, FS_Interval
    <3>3. Places(q, i) \in SUBSET DOMAIN q
      BY DEF Places
    <3>4. QED
      BY <3>2, <3>3, FS_Subset
  <2>3. from \in Injection(Places(r, i), rest)
    <3>1. DOMAIN q = 1 .. Len(q) /\ Len(q) \in Nat /\ p \in Nat
      BY <2>1
    <3>2. ASSUME NEW k \in Places(r, i) PROVE from[k] \in rest
      <4>1. k \in 1 .. Len(q) - 1 /\ r[k].item = i
        BY <2>1 DEF Places
      <4>2. from[k] \in DOMAIN q /\ from[k] # p /\ q[from[k]] = r[k]
        BY <2>1, <3>1, <4>1
      <4>3. QED
        BY <4>1, <4>2 DEF Places
    <3>3. ASSUME NEW j \in Places(r, i), NEW k \in Places(r, i), from[j] = from[k] PROVE j = k
      <4>1. j \in Nat /\ k \in Nat
        BY <2>1, <3>1 DEF Places
      <4>2. QED
        BY <3>1, <3>3, <4>1
    <3>4. QED
      BY <3>2, <3>3 DEF Injection, IsInjective
  <2>4. IsFiniteSet(rest) /\ Cardinality(rest) = IF p \in Places(q, i) THEN Copies(q, i) - 1 ELSE Copies(q, i)
    BY <2>2, FS_RemoveElement DEF Copies
  <2>5. Cardinality(Places(r, i)) <= Cardinality(rest) /\ IsFiniteSet(Places(r, i))
    BY <2>3, <2>4, FS_Injection
  <2>6. Copies(r, i) \in Nat /\ Copies(r, i) <= Cardinality(rest)
    BY <2>5, FS_CardinalityType DEF Copies
  <2>7. e.item = i => p \in Places(q, i)
    BY <2>1 DEF Places
  <2>8. \A k \in DOMAIN r : \E j \in DOMAIN q : r[k] = q[j]
    <3>1. DOMAIN q = 1 .. Len(q) /\ Len(q) \in Nat /\ p \in Nat
      BY <2>1
    <3>2. \A k \in 1 .. Len(q) - 1 : k \in DOMAIN q /\ k + 1 \in DOMAIN q
      BY <3>1
    <3>3. QED
      BY <2>1, <3>2
  <2>9. QED
    BY <1>1, <2>1, <2>4, <2>6, <2>7, <2>8 DEF r
<1>4. QED
  BY <1>2, <1>3

\* What the steps do to the claims of an item.
LEMMA ClaimsAreNumbers ==
    ASSUME RoadAssumption, Shape, NEW i \in DOMAIN received
    PROVE  /\ i \in Item /\ shown[i] \in Nat /\ repeat[i] \in Nat /\ requeued[i] \in Nat
           /\ Copies(queue, i) \in Nat /\ received[i].repeat \in Nat
<1>1. i \in 1 .. Len(received) /\ received[i] \in Event /\ Len(received) \in Nat
  BY DEF Shape, Polling
<1>2. i \in Item
  BY <1>1, RoadAssumption DEF Shape, Polling, Item
<1>3. Copies(queue, i) \in Nat
  <2>1. DOMAIN queue = 1 .. Len(queue) /\ Len(queue) \in Int
    BY DEF Shape, Polling
  <2>2. IsFiniteSet(DOMAIN queue) /\ Places(queue, i) \in SUBSET DOMAIN queue
    BY <2>1, FS_Interval DEF Places
  <2>3. QED
    BY <2>2, FS_Subset, FS_CardinalityType DEF Copies
<1>4. QED
  BY <1>1, <1>2, <1>3, RoadAssumption DEF Shape, Polling

\* on_message: a new item, with nothing shown and nothing queued.
LEMMA ReceiveShown ==
    ASSUME RoadAssumption, ShowInv, NEW e \in Event, Receive(e)
    PROVE  ShowInv'
<1> DEFINE n == Len(received) + 1
<1>1. /\ DOMAIN received' = DOMAIN received \cup {n} /\ received' \in Seq(Event)
      /\ \A i \in DOMAIN received : received'[i] = received[i]
      /\ received'[n] = e /\ Len(received') = n /\ n \notin DOMAIN received
  <2>1. received \in Seq(Event) /\ received' = Append(received, e)
    BY DEF Receive, ShowInv, Shape, Polling
  <2>2. QED
    BY <2>1, QueueEnd
<1>2. /\ e.device \in Device /\ e.repeat \in Nat /\ n \in 1 .. MaxMessages /\ n \in Item
      /\ mqtt.pc = "idle" /\ UNCHANGED <<queue, cache, ui, shown, requeued>>
      /\ repeat' = [repeat EXCEPT ![n] = e.repeat]
  BY RoadAssumption DEF Device, Receive, ShowInv, Shape, Polling, Item
<1>3. /\ repeat' \in [Item -> Nat] /\ repeat'[n] = e.repeat
      /\ \A i \in DOMAIN received : repeat'[i] = repeat[i]
  BY <1>1, <1>2, ClaimsAreNumbers DEF ShowInv, Shape, Polling
<1>4. \/ /\ mqtt' = [pc |-> "push", message |-> n, item |-> n, existing |-> None]
         /\ counter' = counter
      \/ /\ mqtt' = [pc |-> "remove", message |-> n, item |-> n, existing |-> cache[e.device]]
         /\ cache[e.device] # None /\ counter' = counter
      \/ mqtt' = mqtt /\ counter' = counter + 1
  BY DEF Receive
<1>5. /\ mqtt' \in [pc : MqttPC, message : 0 .. MaxMessages, item : 0 .. MaxMessages,
                    existing : Entries \cup {None}]
      /\ mqtt'.pc # "idle" => mqtt'.item = n /\ mqtt'.message = n
      /\ mqtt'.pc = "remove" => Known(mqtt'.existing)
  <2>1. CASE mqtt' = [pc |-> "push", message |-> n, item |-> n, existing |-> None]
    BY <1>2, <2>1 DEF MqttPC
  <2>2. CASE /\ mqtt' = [pc |-> "remove", message |-> n, item |-> n, existing |-> cache[e.device]]
             /\ cache[e.device] # None
    <3>1. Known(cache[e.device]) /\ cache[e.device] \in Entries
      BY <1>2, <2>2 DEF ShowInv, Shape, Polling, Known
    <3>2. QED
      BY <1>2, <2>2, <3>1 DEF MqttPC
  <2>3. CASE mqtt' = mqtt
    BY <1>2, <2>3 DEF ShowInv, Shape, Polling
  <2>4. QED
    BY <1>4, <2>1, <2>2, <2>3
<1>6. counter' \in Nat
  BY <1>4 DEF ShowInv, Shape, Polling
<1>7. \A x \in Entries : Known(x) => Known(x)'
  BY <1>1 DEF Known
<1>8. Shape'
  <2>1. Shape
    BY DEF ShowInv
  <2>2. /\ received' \in Seq(Event) /\ Len(received') <= MaxMessages
        /\ repeat' \in [Item -> Nat] /\ counter' \in Nat
    BY <1>1, <1>2, <1>3, <1>6
  <2>3. /\ shown' \in [Item -> Nat] /\ requeued' \in [Item -> Nat]
        /\ \A i \in Item : i \notin DOMAIN received' => shown'[i] = 0
    BY <1>1, <1>2, <2>1 DEF Shape
  <2>4. /\ queue' \in Seq(Entries) /\ \A k \in DOMAIN queue' : queue'[k].item \in DOMAIN received'
    BY <1>1, <1>2, <2>1 DEF Shape
  <2>5. \A x : Known(x) => Known(x)'
    BY <1>1 DEF Known
  <2>6. /\ cache' \in [Device -> Entries \cup {None}]
        /\ \A d \in Device : cache'[d] # None => Known(cache[d])'
    BY <1>2, <2>1, <2>5 DEF Shape
  <2>7. /\ ui' \in [pc : Showing \cup Polling \cup {"dead"}, entry : Entries \cup {None}]
        /\ ui'.pc \notin Polling => Known(ui.entry)'
    BY <1>2, <2>1, <2>5 DEF Shape
  <2>8. mqtt'.pc # "idle" => mqtt'.item \in DOMAIN received' /\ mqtt'.message \in DOMAIN received'
    BY <1>1, <1>5
  <2>9. mqtt'.pc = "remove" => Known(mqtt.existing)'
    BY <1>1, <1>5 DEF Known
  <2>10. QED
    BY <1>5, <2>2, <2>3, <2>4, <2>6, <2>7, <2>8, <2>9 DEF Shape
<1>9. ASSUME NEW i \in DOMAIN received' PROVE Claims(i)' <= received'[i].repeat + 1 + requeued'[i]
  <2>1. CASE i = n
    <3>1. Places(queue, i) = {}
      BY <1>1, <2>1 DEF ShowInv, Shape, Polling, Places
    <3>2. Copies(queue, i)' = 0
      BY <1>2, <3>1, FS_EmptySet DEF Copies, Places
    <3>3. WithUi(i)' = 0
      BY <1>1, <1>2, <2>1 DEF ShowInv, Shape, WithUi, Known, Showing, Polling
    <3>4. WithMqtt(i)' \in {0, 1}
      BY DEF WithMqtt
    <3>5. shown'[i] = 0
      BY <1>1, <1>2, <2>1 DEF ShowInv, Shape, Polling
    <3>6. requeued'[i] \in Nat
      BY <1>2, <2>1 DEF ShowInv, Shape, Polling
    <3>7. QED
      BY <1>1, <1>2, <1>3, <2>1, <3>2, <3>3, <3>4, <3>5, <3>6 DEF Claims
  <2>2. CASE i \in DOMAIN received
    <3>1. WithMqtt(i)' = 0 /\ WithMqtt(i) = 0
      BY <1>1, <1>2, <1>5, <2>2 DEF WithMqtt
    <3>2. Copies(queue, i)' = Copies(queue, i) /\ WithUi(i)' = WithUi(i)
      BY <1>2 DEF Copies, Places, WithUi
    <3>3. QED
      BY <1>1, <1>2, <1>3, <2>2, <3>1, <3>2 DEF Claims, ShowInv
  <2>3. QED
    BY <1>1, <2>1, <2>2
<1>10. QED
  BY <1>8, <1>9 DEF ShowInv

\* The entry found leaves the queue; its item is about to be queued once more.
LEMMA RemoveExistingShown ==
    ASSUME RoadAssumption, ShowInv, RemoveExisting
    PROVE  ShowInv'
<1> DEFINE x == mqtt.existing
<1>1. /\ mqtt.pc = "remove" /\ Known(x) /\ x \in Entries /\ x.item \in DOMAIN received
      /\ queue \in Seq(Entries) /\ queue' = RemoveFirst(queue, x)
      /\ mqtt' = [mqtt EXCEPT !.pc = "push", !.item = x.item]
      /\ requeued' = [requeued EXCEPT ![x.item] = @ + 1]
      /\ UNCHANGED <<received, repeat, cache, counter, ui, shown>>
  BY DEF RemoveExisting, ShowInv, Shape, Polling, Known
<1>2. x.item \in Item /\ x.item \in 0 .. MaxMessages /\ requeued[x.item] \in Nat
  BY <1>1, ClaimsAreNumbers DEF ShowInv, Item
<1>3. /\ mqtt' \in [pc : MqttPC, message : 0 .. MaxMessages, item : 0 .. MaxMessages,
                    existing : Entries \cup {None}]
      /\ mqtt'.pc = "push" /\ mqtt'.item = x.item /\ mqtt'.message \in DOMAIN received
  BY <1>1, <1>2 DEF ShowInv, Shape, Polling, MqttPC
<1>4. /\ requeued' \in [Item -> Nat] /\ requeued'[x.item] = requeued[x.item] + 1
      /\ \A i \in Item : i # x.item => requeued'[i] = requeued[i]
  BY <1>1, <1>2 DEF ShowInv, Shape, Polling
<1> HIDE DEF x
<1>5. \A i \in Item : Copies(queue, i)' \in Nat /\ Copies(queue, i)' <= Copies(queue, i)
  <2>1. \A i \in Item : Copies(queue, i)' = Copies(RemoveFirst(queue, x), i)
    BY <1>1 DEF Copies, Places
  <2>2. QED
    BY <1>1, <2>1, CopiesRemoved
<1>6. queue' \in Seq(Entries) /\ \A k \in DOMAIN queue' : queue'[k].item \in DOMAIN received
  <2>1. queue' \in Seq(Entries) /\ \A k \in DOMAIN queue' : \E j \in DOMAIN queue : queue'[k] = queue[j]
    BY <1>1, CopiesRemoved
  <2>2. QED
    BY <2>1 DEF ShowInv, Shape, Polling
<1>7. Shape'
  BY <1>1, <1>3, <1>4, <1>6 DEF ShowInv, Shape, Polling, Known
<1>8. ASSUME NEW i \in DOMAIN received PROVE Claims(i)' <= received[i].repeat + 1 + requeued'[i]
  <2>1. WithMqtt(i) = 0 /\ WithMqtt(i)' = (IF x.item = i THEN 1 ELSE 0)
    BY <1>1, <1>3 DEF WithMqtt
  <2>2. WithUi(i)' = WithUi(i) /\ WithUi(i) \in Nat
    BY <1>1 DEF WithUi
  <2>3. /\ i \in Item /\ shown[i] \in Nat /\ repeat[i] \in Nat /\ requeued[i] \in Nat
        /\ Copies(queue, i) \in Nat /\ received[i].repeat \in Nat
    BY ClaimsAreNumbers DEF ShowInv
  <2>4. /\ shown[i] + repeat[i] + Copies(queue, i) + WithUi(i) + WithMqtt(i)
               <= received[i].repeat + 1 + requeued[i]
        /\ requeued'[i] = requeued[i] + (IF x.item = i THEN 1 ELSE 0)
    BY <1>4, <2>3 DEF ShowInv, Claims
  <2>5. Copies(queue, i)' \in Nat /\ Copies(queue, i)' <= Copies(queue, i)
    BY <1>5, <2>3
  <2>6. Claims(i)' = shown[i] + repeat[i] + Copies(queue, i)' + WithUi(i)' + WithMqtt(i)'
    BY <1>1 DEF Claims
  <2>7. QED
    BY <2>1, <2>2, <2>3, <2>4, <2>5, <2>6
<1>9. QED
  BY <1>1, <1>7, <1>8 DEF ShowInv

\* The entry that the MQTT thread held is in the queue.
LEMMA PutPushShown ==
    ASSUME RoadAssumption, ShowInv, PutPush
    PROVE  ShowInv'
<1> DEFINE x == Entry(received[mqtt.message].priority, counter, mqtt.item)
<1>1. /\ mqtt.pc = "push" /\ mqtt.item \in DOMAIN received /\ mqtt.message \in DOMAIN received
      /\ queue \in Seq(Entries) /\ queue' = Append(queue, x)
      /\ mqtt' = [mqtt EXCEPT !.pc = "cache"] \/ mqtt' = [mqtt EXCEPT !.pc = "dead"]
      /\ UNCHANGED <<received, repeat, cache, counter, ui, shown, requeued>>
  BY DEF PutPush, ShowInv, Shape, Polling
<1>2. x \in Entries /\ x.item = mqtt.item
  <2>1. received[mqtt.message] \in Event /\ mqtt.item \in Item /\ counter \in Nat
    BY <1>1, ClaimsAreNumbers DEF ShowInv, Shape, Polling
  <2>2. QED
    BY <2>1, RoadAssumption DEF Entry, Entries
<1> HIDE DEF x
<1>3. /\ mqtt' \in [pc : MqttPC, message : 0 .. MaxMessages, item : 0 .. MaxMessages,
                    existing : Entries \cup {None}]
      /\ mqtt'.pc \in {"cache", "dead"} /\ mqtt'.item = mqtt.item /\ mqtt'.message = mqtt.message
  BY <1>1 DEF ShowInv, Shape, Polling, MqttPC
<1>4. /\ queue' \in Seq(Entries) /\ DOMAIN queue' = DOMAIN queue \cup {Len(queue) + 1}
      /\ \A k \in DOMAIN queue : queue'[k] = queue[k]
      /\ queue'[Len(queue) + 1] = x
  BY <1>1, <1>2, QueueEnd
<1>5. Shape'
  BY <1>1, <1>2, <1>3, <1>4 DEF ShowInv, Shape, Polling, Known
<1>6. ASSUME NEW i \in DOMAIN received PROVE Claims(i)' = Claims(i)
  <2>1. WithMqtt(i)' = 0 /\ WithMqtt(i) = (IF x.item = i THEN 1 ELSE 0)
    BY <1>1, <1>2, <1>3 DEF WithMqtt
  <2>2. WithUi(i)' = WithUi(i) /\ WithUi(i) \in Nat
    BY <1>1 DEF WithUi
  <2>3. Copies(queue, i)' = Copies(queue, i) + (IF x.item = i THEN 1 ELSE 0) /\ Copies(queue, i) \in Nat
    <3>1. Copies(queue, i)' = Copies(Append(queue, x), i)
      BY <1>1 DEF Copies, Places
    <3>2. QED
      BY <1>1, <1>2, <3>1, CopiesEnd
  <2>4. shown[i] \in Nat /\ repeat[i] \in Nat
    BY ClaimsAreNumbers DEF ShowInv
  <2>5. QED
    BY <1>1, <2>1, <2>2, <2>3, <2>4 DEF Claims
<1>7. QED
  BY <1>1, <1>5, <1>6 DEF ShowInv

\* The cache and the counter show nothing.
LEMMA PutCacheShown ==
    ASSUME RoadAssumption, ShowInv, PutCache
    PROVE  ShowInv'
<1> DEFINE x == Entry(received[mqtt.message].priority, counter, mqtt.item)
<1>1. /\ mqtt.pc = "cache" /\ mqtt.item \in DOMAIN received /\ mqtt.message \in DOMAIN received
      /\ cache' = [cache EXCEPT ![DeviceOf(mqtt.item)] = x] /\ counter' = counter + 1
      /\ mqtt' = [mqtt EXCEPT !.pc = "idle", !.existing = None]
      /\ UNCHANGED <<received, repeat, queue, ui, shown, requeued>>
  BY DEF PutCache, ShowInv, Shape, Polling
<1>2. Known(x)
  <2>1. received[mqtt.message] \in Event /\ mqtt.item \in Item /\ counter \in Nat
    BY <1>1, ClaimsAreNumbers DEF ShowInv, Shape, Polling
  <2>2. QED
    BY <1>1, <2>1, RoadAssumption DEF Entry, Entries, Known
<1> HIDE DEF x
<1>3. /\ mqtt' \in [pc : MqttPC, message : 0 .. MaxMessages, item : 0 .. MaxMessages,
                    existing : Entries \cup {None}]
      /\ mqtt'.pc = "idle"
  BY <1>1 DEF ShowInv, Shape, Polling, MqttPC
<1>4. /\ cache' \in [Device -> Entries \cup {None}]
      /\ \A d \in Device : cache'[d] # None => Known(cache'[d])
  BY <1>1, <1>2 DEF ShowInv, Shape, Polling, Known
<1>5. counter' \in Nat
  BY <1>1 DEF ShowInv, Shape, Polling
<1>6. Shape'
  BY <1>1, <1>3, <1>4, <1>5 DEF ShowInv, Shape, Polling, Known
<1>7. \A i \in DOMAIN received : Claims(i)' = Claims(i)
  BY <1>1, <1>3 DEF Claims, Copies, Places, WithUi, WithMqtt
<1>8. QED
  BY <1>1, <1>6, <1>7 DEF ShowInv

\* An entry of the queue comes into the hands of the UI thread, or is lost with it.
LEMMA GetPopShown ==
    ASSUME RoadAssumption, ShowInv, GetPop
    PROVE  ShowInv'
<1>1. PICK x \in Heads(queue) :
         /\ queue' = RemoveFirst(queue, x)
         /\ ui' = [pc |-> "fade", entry |-> x] \/ ui' = [pc |-> "dead", entry |-> x]
  BY DEF GetPop
<1>2. /\ ui.pc = "get" /\ queue \in Seq(Entries)
      /\ UNCHANGED <<received, repeat, cache, counter, mqtt, shown, requeued>>
  BY DEF GetPop, ShowInv, Shape, Polling
<1>3. Contains(queue, x) /\ Known(x)
  BY <1>1, <1>2 DEF Heads, ToSet, Contains, ShowInv, Shape, Polling, Known
<1>4. x \in Entries /\ x.item \in DOMAIN received
  BY <1>3 DEF Known
<1>5. /\ ui' \in [pc : Showing \cup Polling \cup {"dead"}, entry : Entries \cup {None}]
      /\ ui'.entry = x
  BY <1>1, <1>4 DEF Showing, Polling
<1>6. queue' \in Seq(Entries) /\ \A k \in DOMAIN queue' : queue'[k].item \in DOMAIN received
  <2>1. queue' \in Seq(Entries) /\ \A k \in DOMAIN queue' : \E j \in DOMAIN queue : queue'[k] = queue[j]
    BY <1>1, <1>2, <1>4, CopiesRemoved
  <2>2. QED
    BY <2>1 DEF ShowInv, Shape, Polling
<1>7. Shape'
  BY <1>2, <1>3, <1>5, <1>6 DEF ShowInv, Shape, Polling, Known
<1>8. ASSUME NEW i \in DOMAIN received PROVE Claims(i)' <= received[i].repeat + 1 + requeued[i]
  <2>1. WithUi(i) = 0 /\ WithUi(i)' \in Nat /\ WithUi(i)' <= (IF x.item = i THEN 1 ELSE 0)
    BY <1>2, <1>5 DEF WithUi, Showing, Polling
  <2>2. WithMqtt(i)' = WithMqtt(i) /\ WithMqtt(i) \in Nat
    BY <1>2 DEF WithMqtt
  <2>3. /\ Copies(queue, i)' \in Nat /\ Copies(queue, i) \in Nat
        /\ Copies(queue, i)' + (IF x.item = i THEN 1 ELSE 0) <= Copies(queue, i)
    <3>1. Copies(queue, i)' = Copies(RemoveFirst(queue, x), i)
      BY <1>1 DEF Copies, Places
    <3>2. QED
      BY <1>2, <1>3, <1>4, <3>1, CopiesRemoved
  <2>4. /\ shown[i] \in Nat /\ repeat[i] \in Nat /\ requeued[i] \in Nat
        /\ received[i].repeat \in Nat
    BY ClaimsAreNumbers DEF ShowInv
  <2>5. shown[i] + repeat[i] + Copies(queue, i) + WithUi(i) + WithMqtt(i)
            <= received[i].repeat + 1 + requeued[i]
    BY DEF ShowInv, Claims
  <2>6. Claims(i)' = shown[i] + repeat[i] + Copies(queue, i)' + WithUi(i)' + WithMqtt(i)'
    BY <1>2 DEF Claims
  <2>7. QED
    BY <2>1, <2>2, <2>3, <2>4, <2>5, <2>6
<1>9. QED
  BY <1>2, <1>7, <1>8 DEF ShowInv

\* One repetition less, one entry more.
LEMMA GetFadeShown ==
    ASSUME RoadAssumption, ShowInv, GetFade
    PROVE  ShowInv'
<1> DEFINE x == Entry(ui.entry.priority + 2, counter + 1, ui.entry.item)
<1>1. /\ ui.pc = "fade" /\ Known(ui.entry) /\ repeat[ui.entry.item] > 0
      /\ queue \in Seq(Entries) /\ queue' = Append(queue, x) /\ counter' = counter + 1
      /\ repeat' = [repeat EXCEPT ![ui.entry.item] = @ - 1]
      /\ ui' = [ui EXCEPT !.pc = "look"] \/ ui' = [ui EXCEPT !.pc = "dead"]
      /\ UNCHANGED <<received, cache, mqtt, shown, requeued>>
  BY DEF GetFade, UiGoto, ShowInv, Shape, Polling
<1>2. x \in Entries /\ x.item = ui.entry.item /\ x.item \in DOMAIN received /\ x.item \in Item
  <2>1. ui.entry \in Entries /\ ui.entry.item \in DOMAIN received
    BY <1>1 DEF Known
  <2>2. ui.entry.priority + 2 \in Nat /\ ui.entry.item \in Item /\ counter + 1 \in Nat
    <3>1. ui.entry.priority \in Nat /\ ui.entry.item \in Item
      BY <2>1 DEF Entries
    <3>2. counter \in Nat
      BY DEF ShowInv, Shape
    <3>3. QED
      BY <3>1, <3>2
  <2>3. QED
    BY <2>1, <2>2 DEF Entry, Entries
<1>3. /\ ui' \in [pc : Showing \cup Polling \cup {"dead"}, entry : Entries \cup {None}]
      /\ ui'.entry = ui.entry
  BY <1>1 DEF ShowInv, Shape, Showing, Polling
<1> HIDE DEF x
<1>4. /\ repeat' \in [Item -> Nat]
      /\ \A i \in Item : repeat'[i] = repeat[i] - (IF x.item = i THEN 1 ELSE 0)
  <2>1. repeat[x.item] - 1 \in Nat
    BY <1>1, <1>2 DEF ShowInv, Shape, Polling
  <2>2. repeat' = [repeat EXCEPT ![x.item] = repeat[x.item] - 1] /\ repeat \in [Item -> Nat]
    BY <1>1, <1>2 DEF ShowInv, Shape, Polling
  <2>3. QED
    BY <1>2, <2>1, <2>2
<1>5. /\ queue' \in Seq(Entries) /\ DOMAIN queue' = DOMAIN queue \cup {Len(queue) + 1}
      /\ \A k \in DOMAIN queue : queue'[k] = queue[k]
      /\ queue'[Len(queue) + 1] = x
  BY <1>1, <1>2, QueueEnd
<1>6. counter' \in Nat
  BY <1>1 DEF ShowInv, Shape, Polling
<1>7. Shape'
  BY <1>1, <1>2, <1>3, <1>4, <1>5, <1>6 DEF ShowInv, Shape, Polling, Known
<1>8. ASSUME NEW i \in DOMAIN received PROVE Claims(i)' <= received[i].repeat + 1 + requeued[i]
  <2>1. WithUi(i)' \in Nat /\ WithUi(i) \in Nat /\ WithUi(i)' <= WithUi(i)
    BY <1>1, <1>3 DEF WithUi, Showing, Polling
  <2>2. WithMqtt(i)' = WithMqtt(i) /\ WithMqtt(i) \in Nat
    BY <1>1 DEF WithMqtt
  <2>3. Copies(queue, i)' = Copies(queue, i) + (IF x.item = i THEN 1 ELSE 0) /\ Copies(queue, i) \in Nat
    <3>1. Copies(queue, i)' = Copies(Append(queue, x), i)
      BY <1>1 DEF Copies, Places
    <3>2. QED
      BY <1>1, <1>2, <3>1, CopiesEnd
  <2>4. /\ i \in Item /\ shown[i] \in Nat /\ repeat[i] \in Nat /\ requeued[i] \in Nat
        /\ received[i].repeat \in Nat
    BY ClaimsAreNumbers DEF ShowInv
  <2>5. repeat'[i] = repeat[i] - (IF x.item = i THEN 1 ELSE 0)
    BY <1>4, <2>4
  <2>6. shown[i] + repeat[i] + Copies(queue, i) + WithUi(i) + WithMqtt(i)
            <= received[i].repeat + 1 + requeued[i]
    BY DEF ShowInv, Claims
  <2>7. Claims(i)' = shown[i] + repeat'[i] + Copies(queue, i)' + WithUi(i)' + WithMqtt(i)'
    BY <1>1 DEF Claims
  <2>8. QED
    BY <2>1, <2>2, <2>3, <2>4, <2>5, <2>6, <2>7
<1>9. QED
  BY <1>1, <1>7, <1>8 DEF ShowInv

\* Up to the display the UI thread keeps its entry, or ends with it.
LEMMA GetStepShown ==
    ASSUME RoadAssumption, ShowInv,
           UNCHANGED <<received, repeat, queue, counter, mqtt, shown, requeued>>,
           ui.pc \in Showing, NEW to \in Showing \cup {"dead"}, ui' = [ui EXCEPT !.pc = to],
           cache' \in [Device -> Entries \cup {None}],
           \A d \in Device : cache'[d] # None => cache'[d] = cache[d]
    PROVE  ShowInv'
<1>1. /\ ui' \in [pc : Showing \cup Polling \cup {"dead"}, entry : Entries \cup {None}]
      /\ ui'.entry = ui.entry /\ ui'.pc = to /\ ui.pc \notin Polling
  BY DEF ShowInv, Shape, Showing, Polling
<1>2. Shape'
  BY <1>1 DEF ShowInv, Shape, Polling, Known
<1>3. ASSUME NEW i \in DOMAIN received PROVE Claims(i)' <= received[i].repeat + 1 + requeued[i]
  <2>1. WithUi(i)' \in Nat /\ WithUi(i) \in Nat /\ WithUi(i)' <= WithUi(i)
    BY <1>1 DEF WithUi
  <2>2. WithMqtt(i)' = WithMqtt(i) /\ WithMqtt(i) \in Nat /\ Copies(queue, i)' = Copies(queue, i)
    BY DEF WithMqtt, Copies, Places
  <2>3. /\ shown[i] \in Nat /\ repeat[i] \in Nat /\ requeued[i] \in Nat
        /\ Copies(queue, i) \in Nat /\ received[i].repeat \in Nat
    BY ClaimsAreNumbers DEF ShowInv
  <2>4. Claims(i) <= received[i].repeat + 1 + requeued[i]
    BY DEF ShowInv
  <2>5. QED
    BY <2>1, <2>2, <2>3, <2>4 DEF Claims
<1>4. QED
  BY <1>2, <1>3 DEF ShowInv

\* The message is shown.
LEMMA ShowShown ==
    ASSUME RoadAssumption, ShowInv, Show
    PROVE  ShowInv'
<1> DEFINE x == ui.entry
<1>1. /\ ui.pc = "show" /\ Known(x) /\ x.item \in Item /\ x.item \in DOMAIN received
      /\ ui' = [ui EXCEPT !.pc = "idle"]
      /\ shown' = [shown EXCEPT ![x.item] = @ + 1]
      /\ UNCHANGED <<received, repeat, queue, cache, counter, mqtt, requeued>>
  BY DEF Show, UiGoto, ShowInv, Shape, Polling, Known, Entries
<1> HIDE DEF x
<1>2. /\ ui' \in [pc : Showing \cup Polling \cup {"dead"}, entry : Entries \cup {None}]
      /\ ui'.pc = "idle"
  BY <1>1 DEF ShowInv, Shape, Polling
<1>3. /\ shown' \in [Item -> Nat]
      /\ \A i \in Item : shown'[i] = shown[i] + (IF x.item = i THEN 1 ELSE 0)
  BY <1>1 DEF ShowInv, Shape, Polling
<1>4. \A i \in Item : i \notin DOMAIN received => shown'[i] = 0
  BY <1>1, <1>3 DEF ShowInv, Shape, Polling
<1>5. Shape'
  BY <1>1, <1>2, <1>3, <1>4 DEF ShowInv, Shape, Polling, Known
<1>6. ASSUME NEW i \in DOMAIN received PROVE Claims(i)' = Claims(i)
  <2>1. WithUi(i)' = 0 /\ WithUi(i) = (IF x.item = i THEN 1 ELSE 0)
    BY <1>1, <1>2 DEF WithUi, Showing, Polling, x
  <2>2. WithMqtt(i)' = WithMqtt(i) /\ WithMqtt(i) \in Nat /\ Copies(queue, i)' = Copies(queue, i)
    BY <1>1 DEF WithMqtt, Copies, Places
  <2>3. i \in Item /\ shown[i] \in Nat /\ repeat[i] \in Nat /\ Copies(queue, i) \in Nat
    BY ClaimsAreNumbers DEF ShowInv
  <2>4. shown'[i] = shown[i] + (IF x.item = i THEN 1 ELSE 0)
    BY <1>3, <2>3
  <2>5. QED
    BY <1>1, <2>1, <2>2, <2>3, <2>4 DEF Claims
<1>7. QED
  BY <1>1, <1>5, <1>6 DEF ShowInv

\* Nothing is claimed before the first message.
LEMMA InitShown == RoadAssumption /\ Init => ShowInv
<1> SUFFICES ASSUME RoadAssumption, Init PROVE ShowInv
  OBVIOUS
<1>1. received \in Seq(Event) /\ Len(received) = 0 /\ queue \in Seq(Entries)
      /\ DOMAIN queue = {} /\ DOMAIN received = {}
  BY DEF Init
<1>2. Shape
  BY <1>1, RoadAssumption DEF Init, Shape, Polling, MqttPC
<1>3. QED
  BY <1>1, <1>2 DEF ShowInv

\* Every step keeps the account.
LEMMA ShowStep == RoadAssumption /\ ShowInv /\ [Next]_vars => ShowInv'
<1> SUFFICES ASSUME RoadAssumption, ShowInv, [Next]_vars PROVE ShowInv'
  OBVIOUS
<1>1. /\ ui = [pc |-> ui.pc, entry |-> ui.entry] /\ cache \in [Device -> Entries \cup {None}]
  BY DEF ShowInv, Shape, Polling
<1>2. ASSUME NEW e \in Event, Receive(e) PROVE ShowInv'
  BY <1>2, ReceiveShown
<1>3. CASE RemoveExisting
  BY <1>3, RemoveExistingShown
<1>4. CASE PutPush
  BY <1>4, PutPushShown
<1>5. CASE PutCache
  BY <1>5, PutCacheShown
<1>6. CASE NotEmpty \/ GetPop
  <2>1. CASE NotEmpty
    <3>1. ui.pc = "idle" /\ ui' = [ui EXCEPT !.pc = "get"]
          /\ UNCHANGED <<received, repeat, queue, cache, counter, mqtt, shown, requeued>>
      BY <2>1 DEF NotEmpty, UiGoto
    <3>2. ui'.pc = "get" /\ ui' \in [pc : Polling, entry : Entries \cup {None}]
      BY <3>1 DEF ShowInv, Shape, Polling
    <3>3. Shape'
      BY <3>1, <3>2 DEF ShowInv, Shape, Known, Polling
    <3>4. \A i : Claims(i)' = Claims(i)
      BY <3>1, <3>2 DEF Claims, Copies, Places, WithUi, WithMqtt, Showing
    <3>5. QED
      BY <3>1, <3>3, <3>4 DEF ShowInv
  <2>2. QED
    BY <1>6, <2>1, GetPopShown
<1>7. CASE GetFade
  BY <1>7, GetFadeShown
<1>8. CASE GetLast
  <2>1. /\ ui.pc \in Showing /\ "look" \in Showing /\ ui' = [ui EXCEPT !.pc = "look"]
        /\ UNCHANGED <<received, repeat, queue, cache, counter, mqtt, shown, requeued>>
    BY <1>8 DEF GetLast, UiGoto, Showing, Polling
  <2>2. QED
    BY <1>1, <2>1, GetStepShown
<1>9. CASE GetLook
  <2>1. /\ ui.pc \in Showing
        /\ \E to \in Showing \cup {"dead"} : ui' = [ui EXCEPT !.pc = to]
        /\ UNCHANGED <<received, repeat, queue, cache, counter, mqtt, shown, requeued>>
    BY <1>9 DEF GetLook, UiGoto, Showing, Polling
  <2>2. PICK to \in Showing \cup {"dead"} : ui' = [ui EXCEPT !.pc = to]
    BY <2>1
  <2>3. QED
    BY <1>1, <2>1, <2>2, GetStepShown
<1>10. CASE GetForget
  <2>1. /\ ui.pc \in Showing /\ "show" \in Showing /\ ui' = [ui EXCEPT !.pc = "show"]
        /\ UNCHANGED <<received, repeat, queue, counter, mqtt, shown, requeued>>
    BY <1>10 DEF GetForget, UiGoto, Showing, Polling
  <2>2. /\ cache' \in [Device -> Entries \cup {None}]
        /\ \A d \in Device : cache'[d] # None => cache'[d] = cache[d]
    BY <1>1, <1>10 DEF GetForget
  <2>3. QED
    BY <2>1, <2>2, GetStepShown
<1>11. CASE Show
  BY <1>11, ShowShown
<1>12. CASE Age
  BY <1>12 DEF Age, ShowInv, Shape, Polling, Known, Claims, Copies, Places, WithUi, WithMqtt
<1>13. CASE UNCHANGED vars
  BY <1>13 DEF vars, ShowInv, Shape, Polling, Known, Claims, Copies, Places, WithUi, WithMqtt
<1>14. QED
  BY <1>2, <1>3, <1>4, <1>5, <1>6, <1>7, <1>8, <1>9, <1>10, <1>11, <1>12, <1>13 DEF Next, Put, Get

\* A message is shown at most once more than it is to be repeated, plus once for every time
\* MsgPriorityQueue.put queues it in place of a new one, in every interleaving.
THEOREM ShownAtMostHolds == Spec => []ShownAtMost
<1>1. RoadAssumption /\ ShowInv => ShownAtMost
  <2> SUFFICES ASSUME RoadAssumption, ShowInv, NEW i \in DOMAIN received
               PROVE  shown[i] <= received[i].repeat + 1 + requeued[i]
    BY DEF ShownAtMost
  <2>1. /\ shown[i] \in Nat /\ repeat[i] \in Nat /\ requeued[i] \in Nat
        /\ Copies(queue, i) \in Nat /\ received[i].repeat \in Nat
    BY ClaimsAreNumbers DEF ShowInv
  <2>2. WithUi(i) \in Nat /\ WithMqtt(i) \in Nat
    BY DEF WithUi, WithMqtt
  <2>3. QED
    BY <2>1, <2>2 DEF ShowInv, Claims
<1>2. QED
  BY <1>1, InitShown, ShowStep, RoadAssumption, PTL DEF Spec
===============================================================================
