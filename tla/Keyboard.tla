------------------------------ MODULE Keyboard ------------------------------
(***************************************************************************)
(* A key on its way: the controller's output buffer, the line through the  *)
(* IO APIC (cpu/ioapic.cpp, cpu/irq.cpp), the dispatch (cpu/idt.cpp), the  *)
(* handler of modules/keyboard and its one subscriber, modules/desktop,    *)
(* which kinit loads, unloads and loads again (module_selftest()).  The    *)
(* line goes to the CPU that routed it; kinit is there or, where more than *)
(* one CPU takes threads from the queue, on another.                       *)
(***************************************************************************)
EXTENDS Integers, Sequences, SequencesExt

CONSTANTS MaxKeys,    \* bytes the keyboard sends, numbered from 1
          Silent,     \* those that are releases, or keys without a character
          Reloads,    \* how often the desktop is loaded again
          Early       \* whether a key may be pressed before the line is open

ASSUME Switches == MaxKeys \in Nat /\ Silent \subseteq 1..MaxKeys /\ Reloads \in Nat /\ Early \in BOOLEAN

VARIABLES typed, fifo, buffer,    \* keys pressed; the controller's queue and its output buffer
          entry,                  \* the redirection entry of the keyboard's line
          request, in_service,    \* the vector at the local APIC, 0 for none
          handler,                \* irq_handlers[1] is set
          subscribers, subscriber_count,
          kinit, reloads,         \* where kinit is
          text,                   \* the desktop's code is mapped
          irq, key, i,            \* where the interrupt is, the key it has read, its loop
          beside,                 \* kinit is on another CPU while the interrupt is served
          arrived,                \* the keys in the order they were put somewhere
          astray                  \* history: the keys read while kinit was beside

controller == <<typed, fifo, buffer>>
apic == <<entry, request, in_service>>
table == <<subscribers, subscriber_count>>
thread == <<kinit, reloads, text, handler>>
cpu == <<irq, key, i, beside, arrived, astray>>
keyboard_vars == <<controller, apic, table, thread, cpu>>

none == 0
null == "null"
on_key == "on_key"
vector == 33
Slots == 0..7

KeyboardInit ==
    /\ typed = 0 /\ fifo = <<>> /\ buffer = none
    /\ entry = [vector |-> 0, dest |-> "none", masked |-> TRUE]
    /\ request = 0 /\ in_service = 0 /\ handler = FALSE
    /\ subscribers = [s \in Slots |-> null] /\ subscriber_count = 0
    /\ kinit = "register" /\ reloads = 0 /\ text = FALSE
    /\ irq = "idle" /\ key = none /\ i = 0 /\ beside = FALSE
    /\ arrived = <<>> /\ astray = {}

----------------------------------------------------------------------------
\* A byte in the output buffer is an edge on the line, lost while it is masked
Edge(e) == request' = IF e.masked THEN request ELSE e.vector

\* A key is pressed: its byte waits while another is in the buffer
Press ==
    /\ typed < MaxKeys /\ (Early \/ kinit \notin {"register", "route", "destination", "unmask"})
    /\ typed' = typed + 1
    /\ IF buffer = none THEN buffer' = typed' /\ Edge(entry) /\ UNCHANGED fifo
       ELSE fifo' = Append(fifo, typed') /\ UNCHANGED <<buffer, request>>
    /\ UNCHANGED <<entry, in_service, table, thread, cpu>>

\* The CPU takes the request when it is not serving the vector already, wherever kinit
\* is: between two stores of this CPU, or beside it
Deliver ==
    /\ request # 0 /\ in_service = 0 /\ irq = "idle"
    /\ in_service' = request /\ request' = 0 /\ irq' = "dispatch" /\ beside' \in BOOLEAN
    /\ UNCHANGED <<controller, entry, table, thread, key, i, arrived, astray>>

\* isr_dispatch()
Dispatch ==
    /\ irq = "dispatch"
    /\ irq' = IF in_service = 32 + 1 /\ handler THEN "read" ELSE "eoi"
    /\ UNCHANGED <<controller, apic, table, thread, key, i, beside, arrived, astray>>

\* keyboard_irq(): the read empties the buffer, and the next byte takes its place
ReadKey ==
    /\ irq = "read" /\ key' = buffer
    /\ IF fifo = <<>> THEN buffer' = none /\ UNCHANGED <<fifo, request>>
       ELSE buffer' = Head(fifo) /\ fifo' = Tail(fifo) /\ Edge(entry)
    /\ IF key' \in Silent THEN irq' = "eoi" /\ UNCHANGED <<i, arrived>>
       ELSE IF subscriber_count = 0
       THEN arrived' = Append(arrived, key') /\ irq' = "eoi" /\ i' = 0
       ELSE irq' = "call" /\ i' = 0 /\ UNCHANGED arrived
    /\ astray' = IF beside THEN astray \cup {key'} ELSE astray
    /\ UNCHANGED <<typed, entry, in_service, table, thread, beside>>

MoreSubscribers == i < subscriber_count

\* for (usize i = 0; i < subscriber_count; ++i)
CallSubscriber ==
    /\ irq = "call" /\ irq' = IF MoreSubscribers THEN "in handler" ELSE "eoi"
    /\ UNCHANGED <<controller, apic, table, thread, key, i, beside, arrived, astray>>

\* The slot holds the handler, and its code is there
Callable == i \in Slots /\ subscribers[i] = on_key /\ text

\* on_key() of the desktop has the key, or the CPU faults and the kernel stops there
RunHandler ==
    /\ irq = "in handler"
    /\ IF Callable THEN irq' = "call" /\ i' = i + 1 /\ arrived' = Append(arrived, key)
       ELSE irq' = "fault" /\ UNCHANGED <<i, arrived>>
    /\ UNCHANGED <<controller, apic, table, thread, key, beside, astray>>

\* The interrupt is not acknowledged.
AcknowledgedNever == in_service

\* lapic_eoi()
Acknowledged == 0

irq_eoi ==
    /\ irq = "eoi" /\ irq' = "idle" /\ in_service' = Acknowledged /\ key' = none /\ i' = 0
    /\ beside' = FALSE
    /\ UNCHANGED <<controller, entry, request, table, thread, arrived, astray>>

----------------------------------------------------------------------------
\* An interrupt on its CPU holds kinit up
Runs == beside \/ irq = "idle"

Go(from, to) == Runs /\ kinit = from /\ kinit' = to

\* keyboard_module_init()
RegisterHandler ==
    /\ Go("register", "route") /\ handler' = TRUE
    /\ UNCHANGED <<controller, apic, table, reloads, text, cpu>>

\* ioapic_route() keeps the entry masked
RoutedMasked == TRUE

\* ioapic_route(): write_entry() writes the lower half, then the upper
RouteLow ==
    /\ Go("route", "destination") /\ entry' = [entry EXCEPT !.vector = vector, !.masked = RoutedMasked]
    /\ UNCHANGED <<controller, request, in_service, table, reloads, text, handler, cpu>>

RouteHigh ==
    /\ Go("destination", "unmask") /\ entry' = [entry EXCEPT !.dest = "cpu"]
    /\ UNCHANGED <<controller, request, in_service, table, reloads, text, handler, cpu>>

\* ioapic_unmask()
Unmask ==
    /\ Go("unmask", "load") /\ entry' = [entry EXCEPT !.masked = FALSE]
    /\ UNCHANGED <<controller, request, in_service, table, reloads, text, handler, cpu>>

\* module_load_image() maps the code of the desktop
LoadDesktop ==
    /\ Go("load", "subscribe") /\ text' = TRUE
    /\ UNCHANGED <<controller, apic, table, reloads, handler, cpu>>

\* keyboard_subscribe(): subscribers[subscriber_count++] = handler counts, then stores
Count ==
    /\ Go("subscribe", "store") /\ subscriber_count < 8 /\ subscriber_count' = subscriber_count + 1
    /\ UNCHANGED <<controller, apic, subscribers, reloads, text, handler, cpu>>

Store ==
    /\ Go("store", "up") /\ subscribers' = [subscribers EXCEPT ![subscriber_count - 1] = on_key]
    /\ UNCHANGED <<controller, apic, subscriber_count, reloads, text, handler, cpu>>

\* The handler stays subscribed when the module goes.
UnsubscribedNot == subscriber_count

\* desktop_module_exit(): the one subscriber is the last, so nothing is moved
Unsubscribed == subscriber_count - 1

Unsubscribe ==
    /\ reloads < Reloads /\ Go("up", "unload") /\ subscriber_count' = Unsubscribed
    /\ UNCHANGED <<controller, apic, subscribers, reloads, text, handler, cpu>>

\* module_unload() gives the pages of the image back
UnloadDesktop ==
    /\ Go("unload", "load") /\ text' = FALSE /\ reloads' = reloads + 1
    /\ UNCHANGED <<controller, apic, table, handler, cpu>>

Interrupt == Deliver \/ Dispatch \/ ReadKey \/ CallSubscriber \/ RunHandler \/ irq_eoi
Thread ==
    \/ RegisterHandler \/ RouteLow \/ RouteHigh \/ Unmask
    \/ LoadDesktop \/ Count \/ Store \/ Unsubscribe \/ UnloadDesktop

KeyboardNext == Press \/ Interrupt \/ Thread

\* The CPU takes interrupts and the scheduler runs kinit
KeyboardSpec == KeyboardInit /\ [][KeyboardNext]_keyboard_vars /\ WF_keyboard_vars(Interrupt) /\ WF_keyboard_vars(Thread)

----------------------------------------------------------------------------
\* An interrupt that kinit can neither run beside of nor be caught by in the middle of a
\* subscription.
Undisturbed == irq # "idle" /\ ~beside /\ kinit # "store"

\* keyboard_irq() calls only what has subscribed, whose code is mapped until it returns,
\* wherever between its steps the interrupt takes kinit, but for the two stores of a
\* subscription; with kinit on another CPU nothing keeps the handler there.
CallsSubscribers == irq \in {"in handler", "fault"} /\ Undisturbed => Callable

\* A line is open only towards the CPU that asked for it, with its own vector.
OpenLineIsRouted == ~entry.masked => entry.vector = vector /\ entry.dest = "cpu"

\* The bytes that are characters
Characters(n) == SelectSeq([k \in 1..n |-> k], LAMBDA k : k \notin Silent)

\* Keys arrive in the order they were pressed, each once, on the console or at the
\* desktop, those aside that were read while kinit was beside.
Heard(keys) == SelectSeq(keys, LAMBDA k : k \notin astray)
KeysInOrder == IsPrefix(Heard(arrived), Heard(Characters(typed)))

\* While kinit loads, subscribes, unsubscribes and unloads: an interrupt of its CPU that
\* does not come between the two stores of a subscription calls only subscribers whose
\* code is mapped; it comes over a line that is routed, and keys are heard in the order
\* they were pressed.
InputIsSafe == CallsSubscribers /\ OpenLineIsRouted /\ KeysInOrder

\* Every key that is pressed once the line is open arrives, unless it was read while kinit
\* was beside or the kernel has stopped: the handshake of buffer, edge and
\* acknowledgement never stalls.
KeysArrive ==
    \A n \in 1..MaxKeys \ Silent :
        typed >= n ~> n \in Range(arrived) \cup astray \/ irq = "fault"

\* Input is safe and complete while kinit loads, unloads and reloads the desktop, for the
\* interrupts that do not meet it on another CPU or in the middle of a subscription.
InputWorks == []InputIsSafe /\ KeysArrive

\* No interrupt calls an empty slot or code that is gone, whenever it comes.
NeverFaults == irq # "fault"

\* No key is lost between the look at the subscribers and the loop over them.
NoKeyLost ==
    irq = "idle" => (1..typed) \ (Silent \cup Range(fifo) \cup {buffer}) \subseteq Range(arrived)
=============================================================================
