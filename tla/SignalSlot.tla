----------------------------- MODULE SignalSlot -----------------------------
(***************************************************************************)
(* Signal and SigSlotObserver (src/callable/signal-slot.hpp, on top of     *)
(* src/third-party/nano-signal-slot): one thread, whose slots may connect, *)
(* disconnect, fire, and destroy signals and observers.                    *)
(*                                                                         *)
(* Signals and observers both keep the list of their connections, sorted   *)
(* by key.  A key is <<instance, function>>.  The instance is an observer, *)
(* or a functor that nobody tracks; such a connection's peer is the signal *)
(* itself.  A peer is remembered by a weak pointer, here the object and    *)
(* which one of the objects at that place it is (generation).              *)
(***************************************************************************)
EXTENDS Integers, Sequences, FiniteSets, Functions

CONSTANTS Signal, Observer, Functor,
          SlotsOf,        \* signal -> the slot functions that have its signature
          KeyOrder,       \* the keys that are connected, in Z-order of their addresses
          MaxGeneration,  \* object -> bound: how many are constructed at its place
          MaxConnections, \* object -> bound: length of its list of connections
          MaxDepth        \* bound: nesting of calls on the stack

Object == Signal \cup Observer
Key == Range(KeyOrder)
Nobody == "nobody"

ASSUME SignalAssumption == /\ Nobody \notin Object
                           /\ Signal \cap Observer = {}
                           /\ Key \subseteq (Observer \cup Functor) \X UNION {SlotsOf[s] : s \in Signal}
                           /\ MaxGeneration \in [Object -> Nat] /\ MaxConnections \in [Object -> Nat]
                           /\ MaxDepth \in Nat

VARIABLES tracked,     \* object -> does its tracker exist? (from construction to destruction)
          generation,  \* object -> how many were constructed at that place
          connections, \* object -> sequence of [key, peer]
          stack        \* the calls in progress, innermost first

vars == <<tracked, generation, connections, stack>>

Init == /\ tracked = [x \in Object |-> FALSE]
        /\ generation = [x \in Object |-> 0]
        /\ connections = [x \in Object |-> << >>]
        /\ stack = << >>

weak_ptr(x) == <<x, generation[x]>>
Expired(peer) == ~tracked[peer[1]] \/ generation[peer[1]] # peer[2]
Connection(key, x) == [key |-> key, peer |-> weak_ptr(x)]

\* code of the program runs: outside of any call, or in a slot
Top == IF stack = << >> THEN [op |-> "program"] ELSE Head(stack)
Running == Top.op = "program" \/ (Top.op = "fire" /\ Top.holds # Nobody)

-----------------------------------------------------------------------------
(* Connections *)

Rank(key) == CHOOSE i \in DOMAIN KeyOrder : KeyOrder[i] = key

insert(list, c) ==
  LET n == Cardinality({i \in DOMAIN list : Rank(list[i].key) <= Rank(c.key)})
  IN SubSeq(list, 1, n) \o <<c>> \o SubSeq(list, n + 1, Len(list))

\* the connections under other keys, in their order
Without(list, keys) ==
  LET kept == {i \in DOMAIN list : list[i].key \notin keys}
      Nth(n) == CHOOSE i \in kept : Cardinality(kept \cap 1..i) = n
  IN [n \in 1..Cardinality(kept) |-> list[Nth(n)]]

remove(list, key) == Without(list, {key})

\* where a connection of s is listed
ListsOf(s, key) == {s} \cup ({key[1]} \cap Observer)

connect(s, key) ==
  /\ Running /\ tracked[s] /\ key[2] \in SlotsOf[s]
  /\ \A x \in ListsOf(s, key) : tracked[x] /\ Len(connections[x]) < MaxConnections[x]
  /\ connections' =
       [x \in Object |->
          IF x \notin ListsOf(s, key) THEN connections[x]
          ELSE insert(connections[x], Connection(key, IF x = s /\ key[1] \in Observer
                                                      THEN key[1] ELSE s))]
  /\ UNCHANGED <<tracked, generation, stack>>

disconnect(s, key) ==
  /\ Running /\ tracked[s] /\ key[2] \in SlotsOf[s]
  /\ \A x \in ListsOf(s, key) : tracked[x]
  /\ connections' = [x \in Object |-> IF x \in ListsOf(s, key) THEN remove(connections[x], key)
                                      ELSE connections[x]]
  /\ UNCHANGED <<tracked, generation, stack>>

\* the keys under which the living object y is visited when x disconnects from all
Visiting(x, y) ==
  {c.key : c \in {d \in Range(connections[x]) : d.peer[1] = y /\ y # x /\ ~Expired(d.peer)}}

\* (mutant of WithoutAll: the peers are not told)
WithoutAllOfMine(x) == [connections EXCEPT ![x] = << >>]

WithoutAll(x) ==
  [y \in Object |-> IF y = x THEN << >>
                    ELSE Without(connections[y], Visiting(x, y))]

disconnect_all(x) ==
  /\ Running /\ tracked[x]
  /\ connections' = WithoutAll(x)
  /\ UNCHANGED <<tracked, generation, stack>>

-----------------------------------------------------------------------------
(* Lifetime *)

Construct(x) ==
  /\ Running /\ ~tracked[x] /\ generation[x] < MaxGeneration[x]
  /\ \A i \in DOMAIN stack : stack[i].op = "destroy" => stack[i].object # x
  /\ tracked' = [tracked EXCEPT ![x] = TRUE]
  /\ generation' = [generation EXCEPT ![x] = @ + 1]
  /\ UNCHANGED <<connections, stack>>

\* ~Observer: before_disconnect_all() gives up the tracker ...
Destroy(x) ==
  /\ Running /\ tracked[x]
  /\ tracked' = [tracked EXCEPT ![x] = FALSE]
  /\ stack' = <<[op |-> "destroy", object |-> x]>> \o stack
  /\ UNCHANGED <<generation, connections>>

\* the emissions that are in a slot of x
Held(x) == \E i \in DOMAIN stack : stack[i].op = "fire" /\ stack[i].holds = x

\* (mutant of Unheld: nobody waits for lingering references)
UnheldOrNot(x) == x \in Object

Unheld(x) == ~Held(x)

\* ... and spins until no emission holds a reference
Destroyed ==
  /\ Top.op = "destroy"
  /\ LET x == Top.object
     IN Unheld(x) /\ connections' = WithoutAll(x)
  /\ stack' = Tail(stack)
  /\ UNCHANGED <<tracked, generation>>

-----------------------------------------------------------------------------
(* Emission *)

\* for_each() copies the connections.  For the properties, due records what was connected
\* then, and called what is called, in order.
fire(s) ==
  /\ Running /\ tracked[s] /\ Len(stack) < MaxDepth
  /\ stack' = <<[op |-> "fire", signal |-> s, copy |-> connections[s], next |-> 1,
                 holds |-> Nobody, due |-> connections[s], called |-> << >>]>> \o stack
  /\ UNCHANGED <<tracked, generation, connections>>

Emitting == Top.op = "fire" /\ Top.holds = Nobody

\* (mutant of Observed: a connection that was removed meanwhile is not called)
ObservedAndConnected(frame, c) ==
  ~Expired(c.peer) /\ \E d \in Range(connections[frame.signal]) : d = c

\* (mutant of Observed: the weak pointer is a plain address)
ObservedAddress(frame, c) == tracked[c.peer[1]] /\ tracked[frame.signal] \in BOOLEAN

Observed(frame, c) == frame.op = "fire" /\ ~Expired(c.peer)

\* (mutants of CallSlot: a skipped connection takes the next one along; the emission walks
\* the list of the signal instead of its copy)
CallSlotOrSkipTwo ==
  /\ Emitting
  /\ LET frame == Top
         c == frame.copy[frame.next]
     IN /\ frame.next <= Len(frame.copy)
        /\ stack' = IF Observed(frame, c)
                    THEN [stack EXCEPT ![1].holds = c.peer[1], ![1].called = Append(@, c)]
                    ELSE [stack EXCEPT ![1].next = @ + 2]
  /\ UNCHANGED <<tracked, generation, connections>>
CallSlotOfList ==
  /\ Emitting
  /\ LET frame == Top
         list == connections[frame.signal]
     IN /\ frame.next <= Len(frame.copy)
        /\ stack' = IF frame.next <= Len(list) /\ Observed(frame, list[frame.next])
                    THEN [stack EXCEPT ![1].holds = list[frame.next].peer[1],
                                       ![1].called = Append(@, list[frame.next])]
                    ELSE [stack EXCEPT ![1].next = @ + 1]
  /\ UNCHANGED <<tracked, generation, connections>>

CallSlot ==
  /\ Emitting
  /\ LET frame == Top
         c == frame.copy[frame.next]
     IN /\ frame.next <= Len(frame.copy)
        /\ stack' = IF Observed(frame, c)
                    THEN [stack EXCEPT ![1].holds = c.peer[1], ![1].called = Append(@, c)]
                    ELSE [stack EXCEPT ![1].next = @ + 1]
  /\ UNCHANGED <<tracked, generation, connections>>

Return ==
  /\ stack # << >> /\ Running
  /\ stack' = [stack EXCEPT ![1].holds = Nobody, ![1].next = @ + 1]
  /\ UNCHANGED <<tracked, generation, connections>>

\* (mutant of Fired: the last connection is left out)
FiredEarly ==
  /\ Emitting /\ Top.next >= Len(Top.copy)
  /\ stack' = Tail(stack)
  /\ UNCHANGED <<tracked, generation, connections>>

Fired ==
  /\ Emitting /\ Top.next > Len(Top.copy)
  /\ stack' = Tail(stack)
  /\ UNCHANGED <<tracked, generation, connections>>

Next == \/ \E x \in Object : Construct(x) \/ Destroy(x) \/ disconnect_all(x)
        \/ \E s \in Signal : fire(s) \/ \E key \in Key : connect(s, key) \/ disconnect(s, key)
        \/ Destroyed \/ CallSlot \/ Return \/ Fired

\* destructors and emissions run on, and slots return
Spec == Init /\ [][Next]_vars /\ WF_vars(Destroyed \/ CallSlot \/ Return \/ Fired)

-----------------------------------------------------------------------------
(* Properties *)

TypeOK ==
  /\ tracked \in [Object -> BOOLEAN]
  /\ generation \in [Object -> Nat]
  /\ \A x \in Object : /\ Len(connections[x]) <= MaxConnections[x]
                       /\ \A c \in Range(connections[x]) : c.key \in Key
  /\ \A i \in DOMAIN stack :
       \/ stack[i].op = "destroy" /\ stack[i].object \in Object
       \/ /\ stack[i].op = "fire" /\ stack[i].holds \in Object \cup {Nobody}
          /\ stack[i].next \in 1..(Len(stack[i].copy) + 1)

\* "if the slot is in a class instance destroyed during delivery, the slot won't be
\* called" (signal-slot.hpp:50): the object of a running slot exists, also if it was
\* replaced by another one at the same address, and is not destroyed under the slot.
RunningSlotHasObject ==
  \A i \in DOMAIN stack : stack[i].op = "fire" /\ stack[i].holds # Nobody =>
    LET peer == stack[i].copy[stack[i].next].peer
    IN /\ generation[peer[1]] = peer[2]
       /\ \/ tracked[peer[1]]
          \/ \E j \in 1..(i - 1) : stack[j].op = "destroy" /\ stack[j].object = peer[1]

\* "During the delivery of a signal, disconnecting a slot has no effect. The signal
\* will still be delivered to that slot." (signal-slot.hpp:48): when an emission ends, what
\* it has called is what was connected when it began, each connection once and in the order
\* of the list, without none but those whose object was destroyed meanwhile.
Delivered(frame) ==
  \E place \in [DOMAIN frame.called -> DOMAIN frame.due] :
    /\ \A j, k \in DOMAIN place : j < k => place[j] < place[k]
    /\ \A j \in DOMAIN place : frame.called[j] = frame.due[place[j]]
    /\ \A k \in DOMAIN frame.due : k \in Range(place) \/ Expired(frame.due[k].peer)

DeliversToAllAlive ==
  [][Top.op = "fire" /\ Len(stack') < Len(stack) => Delivered(Top)]_vars

\* "slot owner w/ automatic disconnect on destruction" (signal-slot.hpp:58): a signal
\* lists no connection to an object that was destroyed.
AutomaticDisconnect ==
  \A s \in Signal : tracked[s] =>
    \A c \in Range(connections[s]) :
      ~Expired(c.peer) \/ \E i \in DOMAIN stack : /\ stack[i].op = "destroy"
                                                  /\ stack[i].object = c.peer[1]

\* Signals and observers agree on how often they are connected, and emissions on
\* whom they hold.
Times(x, key, y) == Cardinality({i \in DOMAIN connections[x] :
                                   connections[x][i] = Connection(key, y)})
KnownBothWays ==
  /\ TypeOK
  /\ \A s \in Signal, o \in Observer : tracked[s] /\ tracked[o] =>
       \A key \in Key : key[1] = o => Times(s, key, o) = Times(o, key, s)

\* "reentrant-safe for dying class instances" (signal-slot.hpp:46): a destructor returns.
Destructing == \E i \in DOMAIN stack : stack[i].op = "destroy"
DestructorReturns == Destructing ~> ~Destructing
=============================================================================
