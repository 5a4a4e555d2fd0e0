------------------------------ MODULE RoadMessages -----------------------------
(***************************************************************************)
(* The road messages of the demonstration vehicle (Demo/mqtt_sub_v3.py):   *)
(* MsgPriorityQueue, filled by the MQTT thread (MqttHandler.on_message)    *)
(* and emptied by the user interface (UserInterface.run).  Its cache keeps *)
(* the message accepted last for every sign ("device"); a further message  *)
(* for a sign is ignored until the cached one is five minutes old.  A      *)
(* message is shown repeat + 1 times, with a priority that fades.          *)
(*                                                                         *)
(* queue.PriorityQueue has a mutex of its own; cache and counter have      *)
(* none.  A step of a thread runs to its next call into the queue.  The    *)
(* heap is abstracted to its entries: while no entry was removed from its  *)
(* middle it hands out a least one, and comparing two entries of the same  *)
(* priority and counter raises TypeError, if they are compared at all.     *)
(***************************************************************************)
EXTENDS Integers, Sequences, SequencesExt

CONSTANTS
    Event,       \* what is published: [device, priority, repeat]
    MaxMessages, \* bound: messages received
    None

ASSUME RoadAssumption ==
    /\ \A e \in Event : e.priority \in Nat /\ e.repeat \in Nat
    /\ MaxMessages \in Nat
    /\ None \notin [priority : Nat, counter : Nat, item : Nat]

VARIABLES
    received,  \* the messages received; an item is the index of one
    old,       \* the items published more than five minutes ago
    repeat,    \* per item: item['repeat'], shared by queue and cache
    queue,     \* pq: entries [priority, counter, item], in no particular order
    ordered,   \* the heap is one: nothing was removed behind its back
    cache,     \* message_cache: the entry of a device, or None
    counter,   \* MsgPriorityQueue.counter
    mqtt,      \* the MQTT thread: where it is, the message, the item, the entry it found
    ui,        \* the UI thread: where it is, the entry it took
    shown,     \* history: how often an item was shown
    requeued   \* history: how often put queued an item again

vars == <<received, old, repeat, queue, ordered, cache, counter, mqtt, ui, shown, requeued>>

Device == {e.device : e \in Event}
Item == 1..MaxMessages

DeviceOf(i) == received[i].device
Entry(p, c, i) == [priority |-> p, counter |-> c, item |-> i]

-------------------------------------------------------------------------------
(* The queue.                                                                 *)

Before(a, b) == a.priority < b.priority \/ (a.priority = b.priority /\ a.counter < b.counter)

\* Two entries that cannot be compared: the items are dictionaries.
Clash(q) ==
    \E a, b \in ToSet(q) : a.priority = b.priority /\ a.counter = b.counter /\ a.item # b.item

\* The entries that get() may return.
Heads(q) == {e \in ToSet(q) : ordered => \A f \in ToSet(q) : ~Before(f, e)}

-------------------------------------------------------------------------------
(* MsgPriorityQueue.put, in the MQTT thread.                                  *)

\* Fault: the cache is not asked.
ReceiveAlways(e) ==
    LET n == Len(received) + 1
    IN  /\ mqtt.pc = "idle"
        /\ n <= MaxMessages
        /\ received' = Append(received, e)
        /\ repeat' = [repeat EXCEPT ![n] = e.repeat]
        /\ mqtt' = [pc |-> "push", message |-> n, item |-> n, existing |-> None]
        /\ UNCHANGED <<old, queue, ordered, cache, counter, ui, shown, requeued>>

\* on_message, and put up to its first call: a sign with a message that is not old yet gets
\* no other.
Receive(e) ==
    LET n     == Len(received) + 1
        found == cache[e.device]
    IN  /\ mqtt.pc = "idle"
        /\ n <= MaxMessages
        /\ received' = Append(received, e)
        /\ repeat' = [repeat EXCEPT ![n] = e.repeat]
        /\ \/ /\ found = None
              /\ mqtt' = [pc |-> "push", message |-> n, item |-> n, existing |-> None]
              /\ UNCHANGED counter
           \/ /\ found # None /\ found.item \in old
              /\ mqtt' = [pc |-> "remove", message |-> n, item |-> n, existing |-> found]
              /\ UNCHANGED counter
           \/ /\ found # None /\ found.item \notin old
              /\ counter' = counter + 1
              /\ UNCHANGED mqtt
        /\ UNCHANGED <<old, queue, ordered, cache, ui, shown, requeued>>

\* The entry found is removed from the list inside the queue, if it is still there.  The
\* variable item names the cached message from here on, no longer the one received.
RemoveExisting ==
    /\ mqtt.pc = "remove"
    /\ queue' = RemoveFirst(queue, mqtt.existing)
    /\ ordered' = (ordered /\ ~Contains(queue, mqtt.existing))
    /\ mqtt' = [mqtt EXCEPT !.pc = "push", !.item = mqtt.existing.item]
    /\ requeued' = [requeued EXCEPT ![mqtt.existing.item] = @ + 1]
    /\ UNCHANGED <<received, old, repeat, cache, counter, ui, shown>>

\* pq.put, which inserts before it compares; only KeyError is caught in on_message.
PutPush ==
    /\ mqtt.pc = "push"
    /\ queue' = Append(queue, Entry(received[mqtt.message].priority, counter, mqtt.item))
    /\ \/ mqtt' = [mqtt EXCEPT !.pc = "cache"]
       \/ Clash(queue') /\ mqtt' = [mqtt EXCEPT !.pc = "dead"]
    /\ UNCHANGED <<received, old, repeat, ordered, cache, counter, ui, shown, requeued>>

PutCache ==
    /\ mqtt.pc = "cache"
    /\ cache' = [cache EXCEPT ![DeviceOf(mqtt.item)] =
                    Entry(received[mqtt.message].priority, counter, mqtt.item)]
    /\ counter' = counter + 1
    /\ mqtt' = [mqtt EXCEPT !.pc = "idle", !.existing = None]
    /\ UNCHANGED <<received, old, repeat, queue, ordered, ui, shown, requeued>>

-------------------------------------------------------------------------------
(* MsgPriorityQueue.get and the display, in the UI thread.                    *)

UiGoto(from, to) == ui.pc = from /\ ui' = [ui EXCEPT !.pc = to]

\* read_from_queue_and_display: with an empty queue it only draws the display again.
NotEmpty ==
    /\ queue # << >>
    /\ UiGoto("idle", "get")
    /\ UNCHANGED <<received, old, repeat, queue, ordered, cache, counter, mqtt, shown, requeued>>

\* Fault: the last message of the queue is left in it.
GetPopUnlessLast ==
    /\ ui.pc = "get" /\ Len(queue) > 1
    /\ \E e \in Heads(queue) :
           /\ queue' = RemoveFirst(queue, e)
           /\ ui' = [pc |-> "fade", entry |-> e]
    /\ UNCHANGED <<received, old, repeat, ordered, cache, counter, mqtt, shown, requeued>>

\* pq.get, which blocks while the queue is empty.
GetPop ==
    /\ ui.pc = "get"
    /\ \E e \in Heads(queue) :
           /\ queue' = RemoveFirst(queue, e)
           /\ \/ ui' = [pc |-> "fade", entry |-> e]
              \/ Clash(queue) /\ ui' = [pc |-> "dead", entry |-> e]
    /\ UNCHANGED <<received, old, repeat, ordered, cache, counter, mqtt, shown, requeued>>

\* Fault: the number of repetitions is not reduced.
GetFadeForever ==
    /\ ui.pc = "fade"
    /\ LET e == ui.entry
       IN  /\ repeat[e.item] > 0
           /\ counter' = counter + 1
           /\ queue' = Append(queue, Entry(e.priority, counter + 1, e.item))
    /\ UiGoto("fade", "look")
    /\ UNCHANGED <<received, old, repeat, ordered, cache, mqtt, shown, requeued>>

\* "Fading priority implementation": back into the queue, behind more urgent ones.
GetFade ==
    /\ ui.pc = "fade"
    /\ LET e == ui.entry
       IN  /\ repeat[e.item] > 0
           /\ repeat' = [repeat EXCEPT ![e.item] = @ - 1]
           /\ counter' = counter + 1
           /\ queue' = Append(queue, Entry(e.priority + 2, counter + 1, e.item))
    /\ UiGoto("fade", "look") \/ (Clash(queue') /\ UiGoto("fade", "dead"))
    /\ UNCHANGED <<received, old, ordered, cache, mqtt, shown, requeued>>

GetLast ==
    /\ ui.pc = "fade" /\ repeat[ui.entry.item] = 0
    /\ UiGoto("fade", "look")
    /\ UNCHANGED <<received, old, repeat, queue, ordered, cache, counter, mqtt, shown, requeued>>

\* Fault: a message is forgotten whatever its age.
GetLookForgets ==
    /\ UiGoto("look", IF queue = << >> THEN "clear" ELSE "forget")
    /\ UNCHANGED <<received, old, repeat, queue, ordered, cache, counter, mqtt, shown, requeued>>

\* The age of the cached message, then qsize().  A device that is not cached raises KeyError,
\* which ends the thread.
GetLook ==
    /\ ui.pc = "look"
    /\ LET found == cache[DeviceOf(ui.entry.item)]
       IN  UiGoto("look", IF found = None THEN "dead"
                          ELSE IF found.item \notin old THEN "show"
                          ELSE IF queue = << >> THEN "clear" ELSE "forget")
    /\ UNCHANGED <<received, old, repeat, queue, ordered, cache, counter, mqtt, shown, requeued>>

GetForget ==
    /\ \/ UiGoto("clear", "show") /\ cache' = [d \in Device |-> None]
       \/ UiGoto("forget", "show") /\ cache' = [cache EXCEPT ![DeviceOf(ui.entry.item)] = None]
    /\ UNCHANGED <<received, old, repeat, queue, ordered, counter, mqtt, shown, requeued>>

Show ==
    /\ UiGoto("show", "idle")
    /\ shown' = [shown EXCEPT ![ui.entry.item] = @ + 1]
    /\ UNCHANGED <<received, old, repeat, queue, ordered, cache, counter, mqtt, requeued>>

\* Five minutes have passed since a message was published.
Age ==
    /\ \E i \in DOMAIN received \ old : old' = old \cup {i}
    /\ UNCHANGED <<received, repeat, queue, ordered, cache, counter, mqtt, ui, shown, requeued>>

-------------------------------------------------------------------------------

Init ==
    /\ received = << >> /\ old = {} /\ queue = << >> /\ ordered = TRUE /\ counter = 0
    /\ repeat = [i \in Item |-> 0]
    /\ cache = [d \in Device |-> None]
    /\ mqtt = [pc |-> "idle", message |-> 0, item |-> 0, existing |-> None]
    /\ ui = [pc |-> "idle", entry |-> None]
    /\ shown = [i \in Item |-> 0]
    /\ requeued = [i \in Item |-> 0]

Put == RemoveExisting \/ PutPush \/ PutCache
Get == NotEmpty \/ GetPop \/ GetFade \/ GetLast \/ GetLook \/ GetForget \/ Show

Next == Put \/ Get \/ Age \/ \E e \in Event : Receive(e)

\* Both threads run; messages may stop arriving.
Spec == Init /\ [][Next]_vars /\ WF_vars(Put) /\ WF_vars(Get)

-------------------------------------------------------------------------------

\* The items of a device in the queue or in the hands of a thread that will queue them.
Waiting(d) ==
    LET queued == {k \in DOMAIN queue : DeviceOf(queue[k].item) = d}
        held   == {t \in {"ui", "mqtt"} :
                     \/ t = "ui" /\ ui.pc = "fade" /\ DeviceOf(ui.entry.item) = d
                     \/ t = "mqtt" /\ mqtt.pc = "push" /\ DeviceOf(mqtt.item) = d}
    IN  <<queued, held>>

\* Until a message is five minutes old a sign has at most one, however often it is published
\* and however the threads interleave.
OnePerDevice ==
    old = {} =>
        \A d \in Device :
            LET w == Waiting(d)
            IN  /\ \A j, k \in w[1] : j = k
                /\ \A s, t \in w[2] : s = t
                /\ w[1] = {} \/ w[2] = {}

\* What is queued is in the cache, where get looks it up (a missing one ends the UI thread),
\* unless its put has not come that far or a message has become five minutes old.
QueuedIsCached ==
    old = {} =>
        \A k \in DOMAIN queue :
            \/ cache[DeviceOf(queue[k].item)] # None
            \/ mqtt.pc \in {"cache", "dead"} /\ mqtt.item = queue[k].item

\* A message is shown no more often than it says, except that put queues it once more each
\* time it takes an old message for the new one.
ShownAtMost ==
    \A i \in DOMAIN received : shown[i] <= received[i].repeat + 1 + requeued[i]

\* The queue is worked off, unless the UI thread has ended; and the UI thread is not stuck
\* in the blocking pq.get that its test of empty() should have spared it, although put can
\* remove the entry that the test saw.
WorkedOff ==
    /\ (queue # << >>) ~> (queue = << >> \/ ui.pc = "dead")
    /\ (ui.pc = "get") ~> (ui.pc # "get")

-------------------------------------------------------------------------------
(* What does not hold, for the configurations that show it.                   *)

\* The UI thread goes on.
UiRuns == ui.pc # "dead"

\* The MQTT thread goes on.
MqttRuns == mqtt.pc # "dead"

\* "Update the cache with the new message" (mqtt_sub_v3.py:52).
CacheTakesNew ==
    [][mqtt.pc = "cache" /\ mqtt'.pc = "idle" =>
          cache'[DeviceOf(mqtt.item)].item = mqtt.message]_vars
===============================================================================
