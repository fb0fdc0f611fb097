------------------------------ MODULE Function ------------------------------
(***************************************************************************)
(* Function (src/callable/function.{hpp,cpp}) stores its callable in place *)
(* or in a heap object whose owners are counted.  Threads share the heap   *)
(* objects; every Function belongs to one thread, which may pass it on.  A *)
(* callable on the heap may itself hold a Function, "captured" below.      *)
(*                                                                         *)
(* Functions have a location: a variable, the capture of a heap object     *)
(* (named by that object) or swap()'s temporary (named by its thread).     *)
(***************************************************************************)
EXTENDS Integers, FiniteSets, Sequences

CONSTANTS Thread, Var,
          Obj,            \* heap objects (bound: as many exist at a time)
          MoveFromInside  \* may v be assigned from the capture of v's own object?

ASSUME FunctionAssumption ==
  /\ IsFiniteSet(Thread) /\ IsFiniteSet(Var) /\ IsFiniteSet(Obj)
  /\ Thread \cap Var = {} /\ Thread \cap Obj = {} /\ Var \cap Obj = {}
  /\ Obj \cap {"dead", "empty", "inline"} = {}
  /\ MoveFromInside \in BOOLEAN

VARIABLES fn,        \* location -> "dead" (no Function there), "empty", "inline" or a heap object
          refCount,
          block,     \* a heap object's memory: "free", "valid", "deleted" (the canary)
          owner,     \* the thread a variable belongs to
          todo       \* thread -> the steps that remain of its current call

vars == <<fn, refCount, block, owner, todo>>

Location == Thread \cup Var \cup Obj

Init == /\ fn = [l \in Location |-> "dead"]
        /\ refCount = [o \in Obj |-> 0]
        /\ block = [o \in Obj |-> "free"]
        /\ owner \in [Var -> Thread]
        /\ todo = [t \in Thread |-> << >>]

Idle(t) == todo[t] = << >>
Owned(t) == {v \in Var : owner[v] = t}
Alive(t) == {v \in Owned(t) : fn[v] # "dead"}
Unborn(t) == {v \in Owned(t) : fn[v] = "dead"}

\* what the body of a call reaches: variables, and the capture of the callable that runs
Reachable(t) == Alive(t) \cup {fn[v] : v \in {w \in Alive(t) : fn[w] \in Obj}}

Step(op, l) == [op |-> op, at |-> l]
Copying(to, from) == [op |-> "copy", at |-> to, from |-> from]
FreeOld(l) == IF fn[l] \in Obj THEN <<Step("release", fn[l])>> ELSE << >>

-----------------------------------------------------------------------------
(* The building blocks of FunctionBase *)

\* (mutant of copyObject: a heap object is shared without counting it)
copyObjectUncounted(to, from) ==
  /\ fn' = [fn EXCEPT ![to] = fn[from]]
  /\ UNCHANGED refCount

copyObject(to, from) ==
  /\ fn' = [fn EXCEPT ![to] = fn[from]]
  /\ refCount' = IF fn[from] \in Obj THEN [refCount EXCEPT ![fn[from]] = @ + 1] ELSE refCount

\* copy construction (of "dead" memory) and copy assignment; rest remains of the call
Assign(t, to, from, rest) ==
  /\ copyObject(to, from)
  /\ todo' = [todo EXCEPT ![t] = FreeOld(to) \o rest]
  /\ UNCHANGED <<block, owner>>

\* (mutant of Release: an object is deleted with one owner left)
ReleaseEarly(t, o, rest) ==
  /\ refCount' = [refCount EXCEPT ![o] = @ - 1]
  /\ todo' = [todo EXCEPT ![t] = IF refCount[o] > 2 THEN rest ELSE <<Step("delete", o)>> \o rest]
  /\ UNCHANGED <<fn, block, owner>>

\* the parts of freeHeapObject(), between which other threads run
Release(t, o, rest) ==
  /\ refCount' = [refCount EXCEPT ![o] = @ - 1]
  /\ todo' = [todo EXCEPT ![t] = IF refCount[o] > 1 THEN rest ELSE <<Step("delete", o)>> \o rest]
  /\ UNCHANGED <<fn, block, owner>>

\* the deleter destroys the callable and with it the Function it captured
Delete(t, o, rest) ==
  /\ block' = [block EXCEPT ![o] = "deleted"]
  /\ fn' = [fn EXCEPT ![o] = "dead"]
  /\ todo' = [todo EXCEPT ![t] = FreeOld(o) \o <<Step("free", o)>> \o rest]
  /\ UNCHANGED <<refCount, owner>>

Free(t, o, rest) ==
  /\ block' = [block EXCEPT ![o] = "free"]
  /\ todo' = [todo EXCEPT ![t] = rest]
  /\ UNCHANGED <<fn, refCount, owner>>

\* the source of a move becomes empty
Clear(t, l, rest) ==
  /\ fn' = [fn EXCEPT ![l] = "empty"]
  /\ todo' = [todo EXCEPT ![t] = rest]
  /\ UNCHANGED <<refCount, block, owner>>

Destruct(t, l, rest) ==
  /\ fn' = [fn EXCEPT ![l] = "dead"]
  /\ todo' = [todo EXCEPT ![t] = FreeOld(l) \o rest]
  /\ UNCHANGED <<refCount, block, owner>>

Proceed(t) ==
  /\ ~Idle(t)
  /\ LET step == Head(todo[t])
         rest == Tail(todo[t])
     IN \/ step.op = "copy" /\ Assign(t, step.at, step.from, rest)
        \/ step.op = "release" /\ Release(t, step.at, rest)
        \/ step.op = "delete" /\ Delete(t, step.at, rest)
        \/ step.op = "free" /\ Free(t, step.at, rest)
        \/ step.op = "clear" /\ Clear(t, step.at, rest)
        \/ step.op = "destruct" /\ Destruct(t, step.at, rest)

-----------------------------------------------------------------------------
(* The calls *)

\* default construction, and from a callable that fits mStorage
Construct(t, v, target) ==
  /\ Idle(t) /\ v \in Unborn(t)
  /\ fn' = [fn EXCEPT ![v] = target]
  /\ UNCHANGED <<refCount, block, owner, todo>>

\* from a callable that does not fit: createHeapObject()
ConstructHeap(t, v, o) ==
  /\ Idle(t) /\ v \in Unborn(t) /\ block[o] = "free"
  /\ fn' = [fn EXCEPT ![v] = o, ![o] = "empty"]
  /\ refCount' = [refCount EXCEPT ![o] = 1]
  /\ block' = [block EXCEPT ![o] = "valid"]
  /\ UNCHANGED <<owner, todo>>

\* ... that captured a copy of w
ConstructCapture(t, v, o, w) ==
  /\ Idle(t) /\ v \in Unborn(t) /\ w \in Alive(t) /\ block[o] = "free"
  /\ fn' = [fn EXCEPT ![v] = o, ![o] = fn[w]]
  /\ refCount' = [p \in Obj |-> IF p = o THEN 1
                                ELSE IF p = fn[w] THEN refCount[p] + 1 ELSE refCount[p]]
  /\ block' = [block EXCEPT ![o] = "valid"]
  /\ UNCHANGED <<owner, todo>>

Copy(t, v, from) ==
  /\ Idle(t) /\ v \in Owned(t) /\ from \in Reachable(t)
  /\ Assign(t, v, from, << >>)

\* a move writes to its source, which must not be shared with other threads
Movable(t, v, from) ==
  /\ from \in Reachable(t)
  /\ from \in Obj => refCount[from] = 1 /\ (fn[v] = from => MoveFromInside)

MoveConstruct(t, v, from) ==
  /\ Idle(t) /\ v \in Unborn(t) /\ Movable(t, v, from)
  /\ fn' = [fn EXCEPT ![v] = fn[from], ![from] = "empty"]
  /\ UNCHANGED <<refCount, block, owner, todo>>

\* (mutant of MoveAssign: the old object is forgotten)
MoveAssignLeaking(t, v, from) ==
  /\ Idle(t) /\ v \in Alive(t) /\ Movable(t, v, from)
  /\ fn' = [fn EXCEPT ![v] = fn[from]]
  /\ todo' = [todo EXCEPT ![t] = <<Step("clear", from)>>]
  /\ UNCHANGED <<refCount, block, owner>>

MoveAssign(t, v, from) ==
  /\ Idle(t) /\ v \in Alive(t) /\ Movable(t, v, from)
  /\ fn' = [fn EXCEPT ![v] = fn[from]]
  /\ todo' = [todo EXCEPT ![t] = FreeOld(v) \o <<Step("clear", from)>>]
  /\ UNCHANGED <<refCount, block, owner>>

Destroy(t, v) ==
  /\ Idle(t) /\ v \in Alive(t)
  /\ Destruct(t, v, << >>)

\* tmp's destruction, which remembers what was to be exchanged
DestructTmp(t, v, other) ==
  [op |-> "destruct", at |-> t,
   swapped |-> [this |-> v, other |-> other, ours |-> fn[v], theirs |-> fn[other]]]

\* (mutant of swap: assigns in the wrong order)
swapTwice(t, v, other) ==
  /\ Idle(t) /\ {v, other} \subseteq Alive(t)
  /\ Assign(t, t, other, <<Copying(v, t), Copying(other, v), DestructTmp(t, v, other)>>)

\* tmp = other; other = *this; *this = tmp
swap(t, v, other) ==
  /\ Idle(t) /\ {v, other} \subseteq Alive(t)
  /\ Assign(t, t, other, <<Copying(other, v), Copying(v, t), DestructTmp(t, v, other)>>)

\* one thread gives a variable to another (synchronised by the program)
Pass(t, v, u) ==
  /\ Idle(t) /\ v \in Owned(t) /\ u # t
  /\ owner' = [owner EXCEPT ![v] = u]
  /\ UNCHANGED <<fn, refCount, block, todo>>

Next ==
  \E t \in Thread :
    \/ Proceed(t)
    \/ \E v \in Var :
         \/ \E target \in {"empty", "inline"} : Construct(t, v, target)
         \/ \E o \in Obj : ConstructHeap(t, v, o)
         \/ \E o \in Obj, w \in Var : ConstructCapture(t, v, o, w)
         \/ \E from \in Var \cup Obj : \/ Copy(t, v, from)
                                       \/ MoveConstruct(t, v, from)
                                       \/ MoveAssign(t, v, from)
         \/ Destroy(t, v)
         \/ \E other \in Var : swap(t, v, other)
         \/ \E u \in Thread : Pass(t, v, u)

Spec == Init /\ [][Next]_vars

-----------------------------------------------------------------------------
(* Properties *)

TypeOK ==
  /\ fn \in [Location -> {"dead", "empty", "inline"} \cup Obj]
  /\ refCount \in [Obj -> Nat]
  /\ block \in [Obj -> {"free", "valid", "deleted"}]
  /\ owner \in [Var -> Thread]
  /\ \A t \in Thread : \A i \in DOMAIN todo[t] :
       /\ todo[t][i].op \in {"copy", "release", "delete", "free", "clear", "destruct"}
       /\ todo[t][i].at \in Location

Pending(t, op) == {i \in DOMAIN todo[t] : todo[t][i].op = op}
ToClear == UNION {{todo[t][i].at : i \in Pending(t, "clear")} : t \in Thread}

\* the Functions that own o: a moved-from one that is yet to be cleared does not
OwnersOf(o) == {l \in Location \ ToClear : fn[l] = o}
AboutToRelease(o) ==
  UNION {{t} \X {i \in Pending(t, "release") : todo[t][i].at = o} : t \in Thread}

\* refCount counts the Functions that own an object, and the calls that are about
\* to give it up, whatever the threads do concurrently and however Functions
\* alias each other: it neither leaks nor dies early.
RefCountIsOwners ==
  /\ TypeOK
  /\ \A o \in Obj : refCount[o] = Cardinality(OwnersOf(o)) + Cardinality(AboutToRelease(o))

\* A move writes to its source last (function.hpp:55): that must be alive still.
ClearsLiveFunction ==
  \A t \in Thread : \A i \in Pending(t, "clear") : fn[todo[t][i].at] # "dead"

\* An object's memory lives exactly as long as it has owners; it is deleted by one
\* call only, the one that gave up the last reference, and not with the source of a
\* move in it.
DeletedOnce ==
  /\ ClearsLiveFunction
  /\ \A o \in Obj :
       /\ block[o] = "valid" /\ refCount[o] = 0
            => Cardinality({t \in Thread : \E i \in Pending(t, "delete") : todo[t][i].at = o}) = 1
       /\ block[o] # "valid" => refCount[o] = 0 /\ OwnersOf(o) = {}

\* "V1_ASSERT(pHeader->canary == kValidHeapBlockMarker)" (function.cpp:88 and 76): no
\* object is released or copied after it was deleted.
CanaryIsValid ==
  \A t \in Thread : ~Idle(t) =>
    LET step == Head(todo[t])
    IN /\ step.op = "release" => block[step.at] = "valid"
       /\ step.op = "copy" /\ fn[step.from] \in Obj => block[fn[step.from]] = "valid"

\* swap() exchanges what two Functions call, or leaves one alone that is swapped with
\* itself, although its copies free objects on the way.
SwapExchanges ==
  \A t \in Thread : ~Idle(t) /\ Head(todo[t]).op = "destruct" =>
      LET swapped == Head(todo[t]).swapped
      IN fn[swapped.this] = swapped.theirs /\ fn[swapped.other] = swapped.ours
=============================================================================
