----------------------- MODULE FunctionStorage_proofs -----------------------
(***************************************************************************)
(* For every set of objects, addresses and payloads: the two words of a    *)
(* Function stand for what it was made to call.                            *)
(***************************************************************************)
EXTENDS FunctionStorage, TLAPS

\* What the words are for each target.  An empty Function keeps the word it had.
Stands(r, t) ==
  \/ \E w : t = Emptied(w) /\ r = Represents(w, 0)
  \/ \E w : t = Target(kFunction, w, FALSE) /\ r = FromFunction(w)
  \/ \E w : t = Target(kInvocable, w, TRUE) /\ r = FromInvocable(w)
  \/ \E w : t = Target(kHeap, w, FALSE) /\ r = FromHeapObject(w)
  \/ \E w : t = Target(kMember, w, FALSE) /\ r = SafeBound(w)
  \/ \E code \in MemberCode : \E w : t = Target(code, w, FALSE) /\ r = FastBound(w, code)

IInv == /\ fn = [f \in Functions |-> fn[f]]
        /\ target = [f \in Functions |-> target[f]]
        /\ \A f \in Functions : Stands(fn[f], target[f])

-----------------------------------------------------------------------------
(* What the words say: the flags leave the address of aligned code alone. *)

LEMMA Flags ==
  ASSUME NEW code \in Nat, code % 4 = 0
  PROVE  /\ code % 2 = 0 /\ (code \div 2) % 2 = 0 /\ code - (code % 4) = code
         /\ (code + 1) % 2 = 1 /\ ((code + 1) \div 2) % 2 = 0 /\ (code + 1) - ((code + 1) % 4) = code
         /\ (code + 2) % 2 = 0 /\ ((code + 2) \div 2) % 2 = 1 /\ (code + 2) - ((code + 2) % 4) = code
BY SMT


\* What a call enters, with what, and whether there is a heap object behind it
Correct(r, code, word, onHeap, embedded) ==
  /\ r.mpTrampoline # 0
  /\ Calls(r) = Target(code, word, embedded)
  /\ isHeapBased(r) = onHeap
  /\ ~(hasHeapObject(r) /\ hasEmbeddedStorage(r))

LEMMA FromBits ==
  ASSUME NEW r, NEW code, NEW onHeap \in BOOLEAN, NEW embedded \in BOOLEAN, ~(onHeap /\ embedded),
         r.mpTrampoline # 0, trampoline(r) = code,
         hasHeapObject(r) = onHeap, hasEmbeddedStorage(r) = embedded
  PROVE  Correct(r, code, r.mStorage, onHeap, embedded)
<1>1. Calls(r) = Target(code, r.mStorage, embedded)
  BY Zenon DEF Calls, Target
<1>2. isHeapBased(r) = onHeap
  <2>1. CASE onHeap = TRUE
    BY <2>1, Zenon DEF isHeapBased
  <2>2. CASE onHeap = FALSE
    BY <2>2, Zenon DEF isHeapBased
  <2> QED
    BY <2>1, <2>2
<1>3. ~(hasHeapObject(r) /\ hasEmbeddedStorage(r))
  BY Zenon
<1> QED
  BY <1>1, <1>2, <1>3, Zenon DEF Correct

LEMMA SetTrampoline ==
  ASSUME NEW code \in Nat, code % 4 = 0, code # 0, NEW w
  PROVE  /\ Correct(Represents(w, setTrampoline(code, FALSE, FALSE)), code, w, FALSE, FALSE)
         /\ Correct(Represents(w, setTrampoline(code, TRUE, FALSE)), code, w, TRUE, FALSE)
         /\ Correct(Represents(w, setTrampoline(code, FALSE, TRUE)), code, w, FALSE, TRUE)
<1>1. /\ setTrampoline(code, FALSE, FALSE) = code
      /\ setTrampoline(code, TRUE, FALSE) = code + 1
      /\ setTrampoline(code, FALSE, TRUE) = code + 2
  BY DEF setTrampoline
<1>2. \A n : Represents(w, n).mStorage = w /\ Represents(w, n).mpTrampoline = n
  BY DEF Represents
<1>3. ASSUME NEW r, r.mpTrampoline = code
      PROVE  Correct(r, code, r.mStorage, FALSE, FALSE)
  <2>1. code % 2 = 0 /\ (code \div 2) % 2 = 0 /\ code - (code % 4) = code
    BY Flags
  <2>2. /\ hasHeapObject(r) = FALSE /\ hasEmbeddedStorage(r) = FALSE
        /\ trampoline(r) = code /\ r.mpTrampoline # 0
    BY <1>3, <2>1 DEF hasHeapObject, hasEmbeddedStorage, trampoline
  <2> QED
    BY <2>2, FromBits
<1>4. ASSUME NEW r, r.mpTrampoline = code + 1
      PROVE  Correct(r, code, r.mStorage, TRUE, FALSE)
  <2>1. (code + 1) % 2 = 1 /\ ((code + 1) \div 2) % 2 = 0 /\ (code + 1) - ((code + 1) % 4) = code
    BY Flags
  <2>2. /\ hasHeapObject(r) = TRUE /\ hasEmbeddedStorage(r) = FALSE
        /\ trampoline(r) = code /\ r.mpTrampoline # 0
    BY <1>4, <2>1 DEF hasHeapObject, hasEmbeddedStorage, trampoline
  <2> QED
    BY <2>2, FromBits
<1>5. ASSUME NEW r, r.mpTrampoline = code + 2
      PROVE  Correct(r, code, r.mStorage, FALSE, TRUE)
  <2>1. (code + 2) % 2 = 0 /\ ((code + 2) \div 2) % 2 = 1 /\ (code + 2) - ((code + 2) % 4) = code
    BY Flags
  <2>2. /\ hasHeapObject(r) = FALSE /\ hasEmbeddedStorage(r) = TRUE
        /\ trampoline(r) = code /\ r.mpTrampoline # 0
    BY <1>5, <2>1 DEF hasHeapObject, hasEmbeddedStorage, trampoline
  <2> QED
    BY <2>2, FromBits
<1>6. /\ Correct(Represents(w, code), code, w, FALSE, FALSE)
      /\ Correct(Represents(w, code + 1), code, w, TRUE, FALSE)
      /\ Correct(Represents(w, code + 2), code, w, FALSE, TRUE)
  BY <1>2, <1>3, <1>4, <1>5
<1> QED
  BY <1>1, <1>6

LEMMA StandsForTarget ==
  ASSUME StorageAssumption, NEW r, NEW t, Stands(r, t)
  PROVE  /\ r.mpTrampoline # 0 <=> t.code # 0
         /\ t.code # 0 => /\ Calls(r) = t
                          /\ ~(hasHeapObject(r) /\ hasEmbeddedStorage(r))
                          /\ isHeapBased(r) = (t.code = kHeap)
<1>1. \A code, w, b : Target(code, w, b).code = code
  BY DEF Target
<1>2. /\ kFunction \in Nat /\ kFunction % 4 = 0 /\ kFunction # 0 /\ kFunction # kHeap
      /\ kInvocable \in Nat /\ kInvocable % 4 = 0 /\ kInvocable # 0 /\ kInvocable # kHeap
      /\ kHeap \in Nat /\ kHeap % 4 = 0 /\ kHeap # 0
      /\ kMember \in Nat /\ kMember % 4 = 0 /\ kMember # 0 /\ kMember # kHeap
  BY DEF kFunction, kInvocable, kHeap, kMember
<1>3. ASSUME NEW w, t = Emptied(w), r = Represents(w, 0)
      PROVE  r.mpTrampoline = 0 /\ t.code = 0
  BY <1>3 DEF Emptied, Target, Represents
<1>4. ASSUME NEW code \in Nat, code # 0, NEW w, NEW onHeap \in BOOLEAN, NEW embedded \in BOOLEAN,
             t = Target(code, w, embedded), Correct(r, code, w, onHeap, embedded),
             onHeap <=> code = kHeap
      PROVE  /\ r.mpTrampoline # 0 /\ t.code # 0
             /\ Calls(r) = t
             /\ ~(hasHeapObject(r) /\ hasEmbeddedStorage(r))
             /\ isHeapBased(r) = (t.code = kHeap)
  <2>1. t.code = code
    BY <1>1, <1>4
  <2>2. /\ r.mpTrampoline # 0 /\ Calls(r) = t /\ isHeapBased(r) = onHeap
        /\ ~(hasHeapObject(r) /\ hasEmbeddedStorage(r))
    BY <1>4, Zenon DEF Correct
  <2>3. onHeap = (t.code = kHeap)
    BY <1>4, <2>1
  <2> QED
    BY <1>4, <2>1, <2>2, <2>3, Zenon
<1>5. ASSUME NEW w, t = Target(kFunction, w, FALSE), r = FromFunction(w)
      PROVE  Correct(r, kFunction, w, FALSE, FALSE)
  BY <1>5, <1>2, SetTrampoline DEF FromFunction
<1>6. ASSUME NEW w, t = Target(kInvocable, w, TRUE), r = FromInvocable(w)
      PROVE  Correct(r, kInvocable, w, FALSE, TRUE)
  BY <1>6, <1>2, SetTrampoline DEF FromInvocable
<1>7. ASSUME NEW w, t = Target(kHeap, w, FALSE), r = FromHeapObject(w)
      PROVE  Correct(r, kHeap, w, TRUE, FALSE)
  BY <1>7, <1>2, SetTrampoline DEF FromHeapObject
<1>8. ASSUME NEW w, t = Target(kMember, w, FALSE), r = SafeBound(w)
      PROVE  Correct(r, kMember, w, FALSE, FALSE)
  BY <1>8, <1>2, SetTrampoline DEF SafeBound
<1>9. ASSUME NEW code \in MemberCode, NEW w, t = Target(code, w, FALSE), r = FastBound(w, code)
      PROVE  Correct(r, code, w, FALSE, FALSE) /\ code \in Nat /\ code # 0 /\ code # kHeap
  <2>1. code \in Nat /\ code % 4 = 0 /\ code # 0 /\ code # kHeap
    BY DEF StorageAssumption, kMember, kHeap
  <2> QED
    BY <1>9, <2>1, SetTrampoline DEF FastBound
<1> QED
  BY <1>2, <1>3, <1>4, <1>5, <1>6, <1>7, <1>8, <1>9 DEF Stands

\* The word is what the target has, also after the Function was emptied.
LEMMA StandsSameWord ==
  ASSUME NEW r, NEW t, Stands(r, t)
  PROVE  r.mStorage = t.word
<1>1. ASSUME NEW w, NEW n, NEW code, NEW b, t = Target(code, w, b), r = Represents(w, n)
      PROVE  r.mStorage = t.word
  BY <1>1 DEF Target, Represents
<1>2. PICK w, n, code, b : t = Target(code, w, b) /\ r = Represents(w, n)
  BY Zenon DEF Stands, Emptied, FromFunction, FromInvocable, FromHeapObject, SafeBound, FastBound
<1> QED
  BY <1>1, <1>2

-----------------------------------------------------------------------------
(* The invariant *)

LEMMA Invariance == Spec => []IInv
<1>1. Init => IInv
  <2>1. Stands(Default, Nothing)
    BY DEF Stands, Default, Nothing
  <2> QED
    BY <2>1 DEF Init, IInv
<1>2. IInv /\ [Next]_vars => IInv'
  <2> SUFFICES ASSUME IInv, [Next]_vars PROVE IInv'
    OBVIOUS
  <2>1. ASSUME NEW f \in Functions, NEW r, NEW t, Stands(r, t), Make(f, r, t) PROVE IInv'
    BY <2>1 DEF Make, IInv
  <2>2. ASSUME NEW f \in Functions, Construct(f) PROVE IInv'
    <3>1. Stands(Default, Nothing)
      BY DEF Stands, Default, Nothing
    <3>2. \A w : /\ Stands(FromFunction(w), Target(kFunction, w, FALSE))
                 /\ Stands(FromInvocable(w), Target(kInvocable, w, TRUE))
                 /\ Stands(FromHeapObject(w), Target(kHeap, w, FALSE))
      BY DEF Stands
    <3> QED
      BY <2>1, <2>2, <3>1, <3>2 DEF Construct
  <2>3. ASSUME NEW f \in Functions, Bind(f) PROVE IInv'
    <3>1. \A w : Stands(SafeBound(w), Target(kMember, w, FALSE))
      BY DEF Stands
    <3>2. ASSUME NEW w, NEW code \in MemberCode
          PROVE  Stands(FastBound(w, code), Target(code, w, FALSE))
      BY Zenon DEF Stands
    <3> QED
      BY <2>1, <2>3, <3>1, <3>2 DEF Bind
  <2>4. ASSUME NEW f \in Functions, NEW g \in Functions, Copy(f, g) PROVE IInv'
    BY <2>1, <2>4 DEF Copy, IInv
  <2>5. ASSUME NEW f \in Functions, NEW g \in Functions, Move(f, g) PROVE IInv'
    <3>1. fn[g].mStorage = target[g].word
      BY StandsSameWord DEF IInv
    <3>2. Stands(Represents(fn[g].mStorage, 0), Emptied(target[g].word))
      BY <3>1, Zenon DEF Stands
    <3> QED
      BY <2>5, <3>2 DEF Move, IInv
  <2>6. ASSUME NEW f \in Functions, NEW g \in Functions, swap(f, g) PROVE IInv'
    BY <2>6 DEF swap, IInv
  <2>7. CASE UNCHANGED vars
    BY <2>7 DEF vars, IInv
  <2> QED
    BY <2>2, <2>3, <2>4, <2>5, <2>6, <2>7 DEF Next
<1> QED
  BY <1>1, <1>2, PTL DEF Spec

\* Whatever a Function was made to call, through copies, moves and swaps a call enters
\* that code with the right word, for every address that setTrampoline() admits.
THEOREM CallsTheTarget == ASSUME StorageAssumption PROVE Spec => []CallsTarget
<1>1. IInv => CallsTarget
  <2> SUFFICES ASSUME IInv, NEW f \in Functions
               PROVE  /\ fn[f].mpTrampoline # 0 <=> target[f].code # 0
                      /\ target[f].code # 0 =>
                           /\ Calls(fn[f]) = target[f]
                           /\ ~(hasHeapObject(fn[f]) /\ hasEmbeddedStorage(fn[f]))
                           /\ isHeapBased(fn[f]) = (target[f].code = kHeap)
    BY DEF CallsTarget
  <2>1. Stands(fn[f], target[f])
    BY DEF IInv
  <2> QED
    BY <2>1, StandsForTarget, Zenon
<1> QED
  BY <1>1, Invariance, PTL

-----------------------------------------------------------------------------
(* Comparison *)

\* The target of a free or of a fast-bound member function determines both words, and so
\* does what an empty Function was left with.
LEMMA ReliablyStands ==
  ASSUME StorageAssumption, NEW r, NEW t, Stands(r, t), t.code \in MemberCode \cup {kFunction, 0}
  PROVE  r = Represents(t.word, t.code)
<1>1. \A code, w, b : Target(code, w, b).code = code /\ Target(code, w, b).word = w
  BY DEF Target
<1>2. /\ \A code \in MemberCode : code \in Nat /\ code > 16
      /\ kFunction = 4 /\ kInvocable = 8 /\ kHeap = 12 /\ kMember = 16
  BY DEF StorageAssumption, kFunction, kInvocable, kHeap, kMember
<1>3. t.code \notin {kInvocable, kHeap, kMember}
  BY <1>2
<1>4. \A code \in MemberCode \cup {kFunction} : setTrampoline(code, FALSE, FALSE) = code
  BY <1>2 DEF setTrampoline
<1>5. ASSUME NEW w, t = Target(kFunction, w, FALSE), r = FromFunction(w)
      PROVE  r = Represents(t.word, t.code)
  <2>1. t.code = kFunction /\ t.word = w
    BY <1>1, <1>5, Zenon
  <2>2. setTrampoline(kFunction, FALSE, FALSE) = kFunction
    BY <1>4
  <2> QED
    BY <1>5, <2>1, <2>2, Zenon DEF FromFunction
<1>6. ASSUME NEW code \in MemberCode, NEW w, t = Target(code, w, FALSE), r = FastBound(w, code)
      PROVE  r = Represents(t.word, t.code)
  <2>1. t.code = code /\ t.word = w
    BY <1>1, <1>6, Zenon
  <2>2. setTrampoline(code, FALSE, FALSE) = code
    BY <1>4
  <2> QED
    BY <1>6, <2>1, <2>2, Zenon DEF FastBound
<1>7. \A w, b : t # Target(kInvocable, w, b) /\ t # Target(kHeap, w, b) /\ t # Target(kMember, w, b)
  BY <1>1, <1>2, <1>3
<1>8. ASSUME NEW w, t = Emptied(w), r = Represents(w, 0)
      PROVE  r = Represents(t.word, t.code)
  BY <1>1, <1>8, Zenon DEF Emptied
<1> QED
  BY <1>5, <1>6, <1>7, <1>8, Zenon DEF Stands

\* What has no code is what an empty Function was left with.
LEMMA EmptyStands ==
  ASSUME StorageAssumption, NEW r, NEW t, Stands(r, t), t.code = 0
  PROVE  t = Emptied(t.word)
<1>2. /\ \A code \in MemberCode : code # 0
      /\ kFunction # 0 /\ kInvocable # 0 /\ kHeap # 0 /\ kMember # 0
  BY DEF StorageAssumption, kFunction, kInvocable, kHeap, kMember
<1>3. ASSUME NEW code, NEW w, NEW b, t = Target(code, w, b) PROVE code = 0 /\ t.word = w
  BY <1>3 DEF Target
<1>4. PICK w : t = Emptied(w)
  BY <1>2, <1>3, Zenon DEF Stands
<1>5. t.word = w
  BY <1>3, <1>4 DEF Emptied
<1> QED
  BY <1>4, <1>5

LEMMA EqualsIsEquality ==
  ASSUME NEW w, NEW n, NEW v, NEW m
  PROVE  Equals(Represents(w, n), Represents(v, m)) <=> n = m /\ w = v
BY DEF Equals, Represents

\* The pairs of the repository's test, for all free functions, objects and members
LEMMA EqualityTests ==
  ASSUME StorageAssumption
  PROVE  /\ \A t \in equalTests : Equals(t[1], t[2])
         /\ \A f, g \in FreeFns, k, j \in Objects, c, d \in MemberCode : f # g /\ k # j /\ c # d =>
              \A t \in unequalTests(f, g, k, j, c, d) : ~Equals(t[1], t[2])
<1>1. /\ \A code \in MemberCode \cup {kFunction} : setTrampoline(code, FALSE, FALSE) = code
      /\ \A code \in MemberCode : code # kFunction
  BY DEF StorageAssumption, setTrampoline, kFunction, kMember
<1>2. ASSUME NEW t \in equalTests PROVE Equals(t[1], t[2])
  <2>1. t[1] = t[2]
    BY DEF equalTests
  <2> QED
    BY <2>1 DEF Equals
<1>3. ASSUME NEW f \in FreeFns, NEW g \in FreeFns, NEW k \in Objects, NEW j \in Objects,
             NEW c \in MemberCode, NEW d \in MemberCode, f # g, k # j, c # d,
             NEW t \in unequalTests(f, g, k, j, c, d)
      PROVE  ~Equals(t[1], t[2])
  <2>1. /\ \A w : FromFunction(w) = Represents(w, kFunction)
        /\ \A w : FastBound(w, c) = Represents(w, c) /\ FastBound(w, d) = Represents(w, d)
    BY <1>1 DEF FromFunction, FastBound
  <2>2. CASE t = <<FromFunction(f), FromFunction(g)>>
    BY <1>3, <2>1, <2>2, EqualsIsEquality
  <2>3. CASE t = <<FastBound(k, c), FastBound(j, c)>>
    BY <1>3, <2>1, <2>3, EqualsIsEquality
  <2>4. CASE t = <<FastBound(k, c), FromFunction(f)>>
    BY <1>1, <2>1, <2>4, EqualsIsEquality
  <2>5. CASE t = <<FastBound(k, c), FastBound(k, d)>>
    BY <1>3, <2>1, <2>5, EqualsIsEquality
  <2> QED
    BY <2>2, <2>3, <2>4, <2>5 DEF unequalTests
<1> QED
  BY <1>2, <1>3

LEMMA Comparison == StorageAssumption /\ IInv => EqualsTarget
<1> SUFFICES ASSUME StorageAssumption, IInv PROVE EqualsTarget
  OBVIOUS
<1>1. ASSUME NEW f \in Functions, NEW g \in Functions
      PROVE  /\ Equals(fn[f], fn[g]) => target[f] = target[g]
             /\ target[f] = target[g] /\ target[f].code \in MemberCode \cup {kFunction, 0}
                  => Equals(fn[f], fn[g])
  <2>1. Stands(fn[f], target[f]) /\ Stands(fn[g], target[g])
    BY DEF IInv
  <2>2. /\ fn[f].mpTrampoline # 0 <=> target[f].code # 0
        /\ fn[g].mpTrampoline # 0 <=> target[g].code # 0
        /\ target[f].code # 0 => Calls(fn[f]) = target[f]
        /\ target[g].code # 0 => Calls(fn[g]) = target[g]
    BY <2>1, StandsForTarget, Zenon
  <2>3. Equals(fn[f], fn[g]) => Calls(fn[f]) = Calls(fn[g])
    BY DEF Equals, Calls, trampoline, hasEmbeddedStorage
  <2>4. Equals(fn[f], fn[g]) => fn[f].mpTrampoline = fn[g].mpTrampoline
    BY DEF Equals
  <2>6. ASSUME Equals(fn[f], fn[g]), target[f].code = 0 PROVE target[f] = target[g]
    <3>1. target[g].code = 0 /\ fn[f].mStorage = fn[g].mStorage
      BY <2>2, <2>4, <2>6 DEF Equals
    <3>2. target[f] = Emptied(target[f].word) /\ target[g] = Emptied(target[g].word)
      BY <2>1, <2>6, <3>1, EmptyStands
    <3>3. target[f].word = target[g].word
      BY <2>1, <3>1, StandsSameWord
    <3> QED
      BY <3>2, <3>3
  <2>5. ASSUME target[f] = target[g], target[f].code \in MemberCode \cup {kFunction, 0}
        PROVE  Equals(fn[f], fn[g])
    <3>1. fn[f] = fn[g]
      BY <2>1, <2>5, ReliablyStands
    <3> QED
      BY <3>1 DEF Equals
  <2> QED
    BY <2>2, <2>3, <2>4, <2>5, <2>6
<1> QED
  BY <1>1, EqualityTests DEF EqualsTarget

\* operator== has no false positives and is reliable for free and for fast-bound member
\* functions, whatever their addresses are; of empty Functions it compares the words that
\* they were left with.
THEOREM EqualsTheTarget == ASSUME StorageAssumption PROVE Spec => []EqualsTarget
  BY Comparison, Invariance, PTL
=============================================================================
