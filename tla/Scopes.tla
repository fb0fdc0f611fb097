------------------------------- MODULE Scopes -------------------------------
(***************************************************************************)
(* Scopes that change a variable for as long as they exist                 *)
(* (src/utility/atomic.hpp, scope.hpp), nested in several threads.         *)
(* Constructing an AtomicValueScope is a load and a store, between which   *)
(* another thread may run.  With one thread, the scopes of scope.hpp       *)
(* behave alike.                                                           *)
(***************************************************************************)
EXTENDS Integers, Sequences, FiniteSets

CONSTANTS Threads, Values,
          Original,   \* what the variable holds before any scope
          MaxDepth    \* bound: scopes nested in a thread

VARIABLES value,      \* the variable of AtomicValueScope and ValueScope
          count,      \* that of AtomicRefCountingScope and RefCountingScope<T>
          scopes,     \* per thread: the scopes it is in, innermost last
          entering,   \* per thread: << >>, or what the constructor has loaded
          overlapped  \* were two threads' value scopes ever open at once?

vars == <<value, count, scopes, entering, overlapped>>

Init == /\ value = Original /\ count = 0
        /\ scopes = [t \in Threads |-> << >>]
        /\ entering = [t \in Threads |-> << >>]
        /\ overlapped = FALSE

Opens(t, kind, old, new) ==
  scopes' = [scopes EXCEPT ![t] = Append(@, [kind |-> kind, mOldValue |-> old, newValue |-> new])]

\* a thread runs its next constructor or destructor when it has left the last one
Ready(t)   == entering[t] = << >>
MayOpen(t) == Ready(t) /\ Len(scopes[t]) < MaxDepth

\* innermost first
Closes(t, kind) ==
  /\ Ready(t) /\ scopes[t] # << >>
  /\ scopes[t][Len(scopes[t])].kind = kind
  /\ scopes' = [scopes EXCEPT ![t] = SubSeq(@, 1, Len(@) - 1)]

HasKind(t, kind)  == \E i \in DOMAIN scopes[t] : scopes[t][i].kind = kind
UsesValue(t) == HasKind(t, "value") \/ entering[t] # << >>

LoadValue(t) ==
  /\ MayOpen(t)
  /\ entering' = [entering EXCEPT ![t] = <<value>>]
  /\ overlapped' = (overlapped \/ \E u \in Threads \ {t} : UsesValue(u))
  /\ UNCHANGED <<value, count, scopes>>

StoreValue(t, newValue) ==
  /\ entering[t] # << >>
  /\ value' = newValue
  /\ Opens(t, "value", entering[t][1], newValue)
  /\ entering' = [entering EXCEPT ![t] = << >>]
  /\ UNCHANGED <<count, overlapped>>

\* (mutant of RestoreValue: restores what the outermost scope has found)
RestoreOutermost(t) ==
  /\ Closes(t, "value")
  /\ value' = Original
  /\ UNCHANGED <<count, entering, overlapped>>

RestoreValue(t) ==
  /\ Closes(t, "value")
  /\ value' = scopes[t][Len(scopes[t])].mOldValue
  /\ UNCHANGED <<count, entering, overlapped>>

\* fetch_add() and fetch_sub() are one step
Count(t) ==
  /\ MayOpen(t)
  /\ count' = count + 1
  /\ Opens(t, "count", Original, Original)
  /\ UNCHANGED <<value, entering, overlapped>>

\* (mutant of Uncount: decrements when the thread's last scope is gone)
UncountLast(t) ==
  /\ Closes(t, "count")
  /\ count' = IF Len(scopes[t]) = 1 THEN count - 1 ELSE count
  /\ UNCHANGED <<value, entering, overlapped>>

Uncount(t) ==
  /\ Closes(t, "count")
  /\ count' = count - 1
  /\ UNCHANGED <<value, entering, overlapped>>

Next == \E t \in Threads : \/ LoadValue(t) \/ RestoreValue(t)
                           \/ \E newValue \in Values : StoreValue(t, newValue)
                           \/ Count(t) \/ Uncount(t)

Spec == Init /\ [][Next]_vars

-----------------------------------------------------------------------------
(* Properties *)

\* the innermost of s's first n scopes of the variable gave it v
Gives(s, n, v) ==
  \/ \E i \in 1..n : /\ s[i].kind = "value" /\ s[i].newValue = v
                     /\ \A j \in (i + 1)..n : s[j].kind # "value"
  \/ v = Original /\ \A j \in 1..n : s[j].kind # "value"

\* "The object is reset to its original value on destruction" (atomic.hpp:11): as
\* long as no two threads' scopes overlapped, the variable has the value of the
\* innermost scope, and its original one when there is none.
RestoresInnermost ==
  ~overlapped => \A t \in Threads : (\A u \in Threads \ {t} : ~HasKind(u, "value"))
                                      => Gives(scopes[t], Len(scopes[t]), value)

\* The count is the number of scopes of all threads, however they interleave.
Counting == {p \in Threads \X (1..MaxDepth) : /\ p[2] \in DOMAIN scopes[p[1]]
                                             /\ scopes[p[1]][p[2]].kind = "count"}
CountsScopes == count = Cardinality(Counting)
=============================================================================
