-------------------------- MODULE FunctionStorage --------------------------
(***************************************************************************)
(* How a Function (src/callable/function.hpp) tells what it calls by two   *)
(* words: mStorage, and mpTrampoline, which keeps two flags in the lowest  *)
(* bits of a code address; and what operator== makes of them.  Heap        *)
(* objects are counted in module Function; here one is free that no        *)
(* Function refers to.  Addresses are numbers.                             *)
(***************************************************************************)
EXTENDS Integers

CONSTANTS Functions,   \* the objects of class Function
          FreeFns, Objects, Blocks,  \* addresses: free functions, objects, heap blocks
          Payloads,    \* the bytes of small callables
          MemberCode   \* addresses of member functions' code

VARIABLES fn,          \* Function -> its representation
          target       \* Function -> what it was made to call (history)

vars == <<fn, target>>

\* the code of trampolines, one per kind of constructor
kFunction  == 4
kInvocable == 8   \* calls an embedded one
kHeap      == 12
kMember    == 16  \* bindMemFnSafe()'s interposer

\* "code alignment has to be ensured manually on that platform"
StorageAssumption == /\ MemberCode \subseteq Nat
                     /\ \A code \in MemberCode : code % 4 = 0 /\ code > kMember

-----------------------------------------------------------------------------
(* FunctionBase *)

\* (mutant of setTrampoline: the flags change places)
setTrampolineSwapped(pTrampoline, hasHeapObject, hasEmbeddedStorage) ==
  pTrampoline + (IF hasHeapObject THEN 2 ELSE 0) + (IF hasEmbeddedStorage THEN 1 ELSE 0)

setTrampoline(pTrampoline, hasHeapObject, hasEmbeddedStorage) ==
  pTrampoline + (IF hasHeapObject THEN 1 ELSE 0) + (IF hasEmbeddedStorage THEN 2 ELSE 0)

Represents(word, mpTrampoline) == [mStorage |-> word, mpTrampoline |-> mpTrampoline]

hasHeapObject(r)      == r.mpTrampoline % 2 = 1
hasEmbeddedStorage(r) == (r.mpTrampoline \div 2) % 2 = 1
trampoline(r)         == r.mpTrampoline - (r.mpTrampoline % 4)
isHeapBased(r)        == r.mpTrampoline # 0 /\ hasHeapObject(r)

\* operator(): the code, and what it is called with: the word, or the address of its place
Calls(r) == [code |-> trampoline(r), word |-> r.mStorage, byAddress |-> hasEmbeddedStorage(r)]

-----------------------------------------------------------------------------
(* Constructors *)

Default           == Represents(0, 0)
FromFunction(f)   == Represents(f, setTrampoline(kFunction, FALSE, FALSE))
FromInvocable(p)  == Represents(p, setTrampoline(kInvocable, FALSE, TRUE))
FromHeapObject(b) == Represents(b, setTrampoline(kHeap, TRUE, FALSE))
FastBound(o, code) == Represents(o, setTrampoline(code, FALSE, FALSE))
SafeBound(o)      == Represents(o, setTrampoline(kMember, FALSE, FALSE))

\* (mutant of Equals: compares what is called, not with what)
EqualsCode(a, b) == a.mpTrampoline = b.mpTrampoline

\* operator==
Equals(a, b) == a.mpTrampoline = b.mpTrampoline /\ a.mStorage = b.mStorage

-----------------------------------------------------------------------------

Target(code, word, byAddress) == [code |-> code, word |-> word, byAddress |-> byAddress]

\* An empty Function calls nothing.  One that was moved from keeps the word it had.
Emptied(word) == Target(0, word, FALSE)
Nothing == Emptied(0)

Init == /\ fn = [f \in Functions |-> Default]
        /\ target = [f \in Functions |-> Nothing]

\* A Function is destroyed, and made anew in its place.
Make(f, r, t) == fn' = [fn EXCEPT ![f] = r] /\ target' = [target EXCEPT ![f] = t]

Construct(f) ==
  \/ Make(f, Default, Nothing)
  \/ \E p \in FreeFns : Make(f, FromFunction(p), Target(kFunction, p, FALSE))
  \/ \E p \in Payloads : Make(f, FromInvocable(p), Target(kInvocable, p, TRUE))
  \/ \E b \in Blocks : /\ \A g \in Functions : hasHeapObject(fn[g]) => fn[g].mStorage # b
                       /\ Make(f, FromHeapObject(b), Target(kHeap, b, FALSE))

Bind(f) ==
  \E o \in Objects : \/ \E code \in MemberCode : Make(f, FastBound(o, code), Target(code, o, FALSE))
                     \/ Make(f, SafeBound(o), Target(kMember, o, FALSE))

\* construction and assignment, also from itself
Copy(f, from) == Make(f, fn[from], target[from])

\* (mutant of Move: only the storage is forgotten)
MoveStorage(f, from) ==
  /\ fn' = [fn EXCEPT ![f] = fn[from], ![from].mStorage = 0]
  /\ target' = [target EXCEPT ![f] = target[from], ![from] = Emptied(target[from].word)]

Move(f, from) ==
  /\ fn' = [fn EXCEPT ![f] = fn[from],
                      ![from] = Represents(fn[from].mStorage, 0)]
  /\ target' = [target EXCEPT ![f] = target[from], ![from] = Emptied(target[from].word)]

\* tmp = other; other = *this; *this = tmp
swap(f, other) ==
  /\ fn' = [fn EXCEPT ![f] = fn[other], ![other] = fn[f]]
  /\ target' = [target EXCEPT ![f] = target[other], ![other] = target[f]]

Next == \E f \in Functions : \/ Construct(f)
                             \/ Bind(f)
                             \/ \E g \in Functions : Copy(f, g) \/ Move(f, g) \/ swap(f, g)

Spec == Init /\ [][Next]_vars

-----------------------------------------------------------------------------
(* The test "function-equality" of src/callable/tst_function.cpp: pairs that *)
(* are equal and pairs that are not                                          *)

equalTests == {<<Default, Default>>}
              \cup {<<FromFunction(f), FromFunction(f)>> : f \in FreeFns}
              \cup {<<FastBound(o, c), FastBound(o, c)>> : o \in Objects, c \in MemberCode}
unequalTests(f23, f42, k, j, memberFunc23, memberFunc42) ==
  {<<FromFunction(f23), FromFunction(f42)>>,
   <<FastBound(k, memberFunc23), FastBound(j, memberFunc23)>>,
   <<FastBound(k, memberFunc23), FromFunction(f23)>>,
   <<FastBound(k, memberFunc23), FastBound(k, memberFunc42)>>}

-----------------------------------------------------------------------------
(* Properties *)

\* Whatever was constructed, copied, moved and swapped in between, a call enters the code
\* it was made for with the right word, and operator bool tells whether there is one;
\* "V1_ASSERT(!hasHeapObject() || !hasEmbeddedStorage())" (function.hpp:289).
CallsTarget ==
  \A f \in Functions :
    /\ fn[f].mpTrampoline # 0 <=> target[f].code # 0
    /\ target[f].code # 0 => /\ Calls(fn[f]) = target[f]
                             /\ ~(hasHeapObject(fn[f]) /\ hasEmbeddedStorage(fn[f]))
                             /\ isHeapBased(fn[f]) = (target[f].code = kHeap)

\* operator== has no false positives, and is reliable for free and for fast-bound member
\* functions.  Empty Functions, for which function.hpp:299-300 promises the same, are equal
\* exactly if the words they were left with are: one that was moved from differs from a new
\* one, unless its word was 0.  The repository's tests of operator== hold.
EqualsTarget ==
  /\ \A f, g \in Functions :
       /\ Equals(fn[f], fn[g]) => target[f] = target[g]
       /\ target[f] = target[g] /\ target[f].code \in MemberCode \cup {kFunction, 0}
            => Equals(fn[f], fn[g])
  /\ \A t \in equalTests : Equals(t[1], t[2])
  /\ \A f, g \in FreeFns, k, j \in Objects, c, d \in MemberCode : f # g /\ k # j /\ c # d =>
       \A t \in unequalTests(f, g, k, j, c, d) : ~Equals(t[1], t[2])
=============================================================================
