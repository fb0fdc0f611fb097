------------------------------ MODULE MCObjects ------------------------------
(* The classes whose objects own or refer to something.  A behaviour is about *)
(* one of them, chosen initially; the others stay in an initial state.        *)
EXTENDS Function, Result

CONSTANTS
  Places, FreeFns, Blocks, Payloads, MemberCode,  \* FunctionStorage: its Objects, and the rest
  Object, LargeResult,                            \* Delegate; those with a large result on Windows
  Original, MaxDepth,                             \* Scopes
  Addresses, Capacities,                          \* RingBufferOwner
  Samples, MaxChannels, MaxSamples,               \* AudioBuffer
  Begin, Size, SizeMod                            \* Views

VARIABLES
  part,
  representation, target,                         \* FunctionStorage
  class, stage, delegate, bound,                  \* Delegate
  value, count, scopes, entering, overlapped,     \* Scopes
  arrays, rings,                                  \* RingBufferOwner
  channelArrays, sampleArrays, buffers,           \* AudioBuffer
  data, views, shown, loop                        \* Views

functionVars == vars                                \* of Function
storageVars  == <<representation, target>>
delegateVars == <<class, stage, delegate, bound>>
scopeVars    == <<value, count, scopes, entering, overlapped>>
ringVars     == <<arrays, rings>>
audioVars    == <<channelArrays, sampleArrays, buffers>>
viewVars     == <<data, views, shown, loop>>

\* Objects are the variables of the class, Var where two are enough.
Storage == INSTANCE FunctionStorage WITH fn <- representation, Functions <- Objects, Objects <- Places
Delegates(windows, large) == INSTANCE Delegate WITH Holder <- Var, Windows <- windows, Large <- large
Scope      == INSTANCE Scopes WITH Threads <- Thread
Ring(debug)  == INSTANCE RingBufferOwner WITH Objects <- Var, V1_DEBUG <- debug
Audio(debug) == INSTANCE AudioBuffer WITH Objects <- Var, V1_DEBUG <- debug
ArrayViews   == INSTANCE Views WITH View <- Var

ASSUME StorageAssumed == Storage!StorageAssumption

\* nullptr is no address, and an array has at most half as many elements as size_type has
\* values ("null" and "function" are what a delegate refers to that no object is)
ASSUME ObjectsAssumption ==
  /\ Object \cap {"null", "function"} = {}
  /\ MaxDepth \in Nat /\ MaxChannels \in Nat /\ MaxSamples \in Nat
  /\ Addresses \subseteq Nat \ {0} /\ Capacities \subseteq Nat
  /\ Begin \in Nat \ {0} /\ Size \in Nat /\ SizeMod \in Nat /\ 2 * Size < SizeMod

ObjectsInit ==
  /\ part \in {"function", "storage", "posix", "windows", "result", "scopes", "ringDebug",
               "ringRelease", "audioDebug", "audioRelease", "views"}
  /\ Init /\ (part = "function" \/ owner = [v \in Var |-> CHOOSE t \in Thread : TRUE])
  /\ Storage!Init /\ ResultInit /\ Scope!Init /\ Ring(TRUE)!Init /\ Audio(TRUE)!Init /\ ArrayViews!Init
  /\ IF part = "windows" THEN Delegates(TRUE, LargeResult)!Init ELSE Delegates(FALSE, {})!Init

FunctionNext == /\ part = "function" /\ Next
                /\ UNCHANGED <<storageVars, delegateVars, resultVars, scopeVars, ringVars, audioVars,
                               viewVars>>
StorageNext  == /\ part = "storage" /\ Storage!Next
                /\ UNCHANGED <<functionVars, delegateVars, resultVars, scopeVars, ringVars, audioVars,
                               viewVars>>
DelegateNext == /\ \/ part = "posix" /\ Delegates(FALSE, {})!Next
                   \/ part = "windows" /\ Delegates(TRUE, LargeResult)!Next
                /\ UNCHANGED <<functionVars, storageVars, resultVars, scopeVars, ringVars, audioVars,
                               viewVars>>
ValueNext    == /\ part = "result" /\ ResultNext
                /\ UNCHANGED <<functionVars, storageVars, delegateVars, scopeVars, ringVars, audioVars,
                               viewVars>>
ScopeNext    == /\ part = "scopes" /\ Scope!Next
                /\ UNCHANGED <<functionVars, storageVars, delegateVars, resultVars, ringVars, audioVars,
                               viewVars>>
RingNext     == /\ (part = "ringDebug" /\ Ring(TRUE)!Next) \/ (part = "ringRelease" /\ Ring(FALSE)!Next)
                /\ UNCHANGED <<functionVars, storageVars, delegateVars, resultVars, scopeVars, audioVars,
                               viewVars>>
AudioNext    == /\ (part = "audioDebug" /\ Audio(TRUE)!Next) \/ (part = "audioRelease" /\ Audio(FALSE)!Next)
                /\ UNCHANGED <<functionVars, storageVars, delegateVars, resultVars, scopeVars, ringVars,
                               viewVars>>
ViewNext     == /\ part = "views" /\ ArrayViews!Next
                /\ UNCHANGED <<functionVars, storageVars, delegateVars, resultVars, scopeVars, ringVars,
                               audioVars>>

ObjectsNext == /\ \/ FunctionNext \/ StorageNext \/ DelegateNext \/ ValueNext
                  \/ ScopeNext \/ RingNext \/ AudioNext \/ ViewNext
               /\ UNCHANGED part

ObjectsSpec ==
  ObjectsInit /\ [][ObjectsNext]_<<part, functionVars, storageVars, delegateVars, resultVars, scopeVars,
                                   ringVars, audioVars, viewVars>>

-----------------------------------------------------------------------------
(* The properties of the other classes, where they apply; those of Function  *)
(* and Result are their modules'.                                            *)

\* FunctionStorage: the two words of a Function stand for what it was made to call, and
\* operator== compares them: empty ones by what they were left with.
CallsTarget == part = "storage" => Storage!CallsTarget /\ Storage!EqualsTarget

\* Delegate: a call through a delegate, a copied or swapped one, too, runs what a direct
\* call runs, or the base class's method while the object is constructed or destroyed.
CallsDirectly ==
  /\ part = "posix"   => /\ Delegates(FALSE, {})!CallsDirectly
                         /\ Delegates(FALSE, {})!CallsBaseOrDerived
                         /\ Delegates(FALSE, {})!HoldsWhatWasBound /\ Delegates(FALSE, {})!TestsHold
  /\ part = "windows" => Delegates(TRUE, LargeResult)!CallsDirectly /\ Delegates(TRUE, LargeResult)!TestsHold

\* Scopes: the variable has the innermost scope's value, or its original one, and the
\* count is the number of scopes of all threads.
ScopesNest == part = "scopes" => Scope!RestoresInnermost /\ Scope!CountsScopes

\* RingBufferOwner, AudioBuffer: arrays have one owner, in both builds, and in debug
\* builds a ring buffer that is not empty has one.
OwnsItsArrays ==
  /\ part = "ringDebug"    => Ring(TRUE)!OwnsItsArray /\ Ring(TRUE)!NonEmptyOwnsArray
  /\ part = "ringRelease"  => Ring(FALSE)!OwnsItsArray
  /\ part = "audioDebug"   => Audio(TRUE)!OwnsItsArrays
  /\ part = "audioRelease" => Audio(FALSE)!OwnsItsArrays

\* AudioBuffer: buffers are values: whatever is copied, moved or written elsewhere, a buffer
\* has the samples that were written to it, channel by channel, and none only if they were
\* moved or destroyed.
BufferVals == INSTANCE BufferValues WITH Objects <- Var,
                audio <- [o \in DOMAIN buffers |-> Audio(FALSE)!Contents(buffers[o])]
ImplementsValues == BufferVals!ValuesSpec

\* Views: a view shows the part of the array that its calls ask for, and operator< is a
\* strict total order of views.
ShowsItsPart == part = "views" => ArrayViews!ShowsItsPart /\ ArrayViews!OrdersViews

\* Views: copy() copies, unless it overtakes its source.
CopiesRange == part = "views" => ArrayViews!CopiesRange
=============================================================================
