--------------------------- MODULE Objects_proofs ---------------------------
(***************************************************************************)
(* The proofs of Function and of Result, the objects that own what they    *)
(* hold.  Function's counted heap objects come first, for any threads,     *)
(* variables and objects and any interleaving of the parts of their calls. *)
(* The hypothesis MoveFromInside = FALSE says that no v is move-assigned   *)
(* from the capture of v's own object: the code does not survive that      *)
(* (MCFunctionMoveInside shows it).                                        *)
(*                                                                         *)
(* The invariant gives each Function the object that it owns (Val, which   *)
(* sees the source of a move as empty already) and each thread the one     *)
(* that it is about to release (Rel); refCount counts both.  The rest of a *)
(* call has a known shape: a release or a deletion comes first, the end of *)
(* a move or of a swap last (Ordered).                                     *)
(***************************************************************************)
EXTENDS Function, Result, FiniteSetTheorems, TLAPS

-----------------------------------------------------------------------------
(* Steps *)

\* where Functions and the steps of calls may point
Targets == {"dead", "empty", "inline"} \cup Obj
SwapNotes == [this : Var, other : Var, ours : Targets, theirs : Targets]
Steps == [op : {"release", "delete", "free"}, at : Obj]
         \cup [op : {"clear"}, at : Var \cup Obj]
         \cup [op : {"copy"}, at : Var, from : Var \cup Thread]
         \cup [op : {"destruct"}, at : Thread, swapped : SwapNotes]

-----------------------------------------------------------------------------
(* What remains of a call *)

\* where the steps of one kind are
Places(s, op) == {s[i].at : i \in {j \in DOMAIN s : s[j].op = op}}

\* where its first step is, if it is of that kind
First(s, op) == IF s # << >> /\ s[1].op = op THEN s[1].at ELSE "empty"

FreesOnce(s) == \A i, j \in DOMAIN s : s[i].op = "free" /\ s[j].op = "free" /\ s[i].at = s[j].at => i = j

\* a swap, of which some copies and the destruction of tmp remain
Swapping(s) == s # << >> /\ s[Len(s)].op = "destruct"
Copies(s) == IF Len(s) > 1 /\ s[Len(s) - 1].op = "copy"
             THEN IF Len(s) > 2 /\ s[Len(s) - 2].op = "copy" THEN 2 ELSE 1
             ELSE 0

\* A release or a deletion comes first in a call, the rest of a move or a swap last.
Ordered(t, s) ==
  \A i \in DOMAIN s :
    /\ s[i].op \in {"release", "delete"} => i = 1
    /\ s[i].op = "clear" => i = Len(s)
    /\ s[i].op = "destruct" => i = Len(s) /\ s[i].at = t
    /\ s[i].op = "copy" =>
         /\ i < Len(s) /\ s[Len(s)].op = "destruct"
         /\ \/ i = Len(s) - 1 /\ s[i].at = s[Len(s)].swapped.this /\ s[i].from = t
            \/ /\ i = Len(s) - 2 /\ s[i].at = s[Len(s)].swapped.other
               /\ s[i].from = s[Len(s)].swapped.this /\ s[i + 1].op = "copy"

\* ... and neither a release nor a deletion is left
Plain(t, s) == Ordered(t, s) /\ \A i \in DOMAIN s : s[i].op \notin {"release", "delete"}

\* What comes before r in s is no part of a move or a swap.
Alike(s, r) ==
  /\ Places(s, "clear") = Places(r, "clear")
  /\ Swapping(s) <=> Swapping(r)
  /\ Swapping(r) => s[Len(s)] = r[Len(r)] /\ Copies(s) = Copies(r)

LEMMA TailProperties ==
  ASSUME NEW S, NEW s \in Seq(S), s # << >>
  PROVE  /\ Tail(s) \in Seq(S) /\ Len(s) \in Nat \ {0} /\ Len(Tail(s)) = Len(s) - 1
         /\ DOMAIN s = 1..Len(s) /\ DOMAIN Tail(s) = 1..(Len(s) - 1)
         /\ \A i \in 1..(Len(s) - 1) : Tail(s)[i] = s[i + 1]
         /\ s[1] \in S /\ Head(s) = s[1]
  OBVIOUS

LEMMA ConsProperties ==
  ASSUME NEW S, NEW r \in Seq(S), NEW x \in S
  PROVE  LET s == <<x>> \o r IN
         /\ s \in Seq(S) /\ Len(r) \in Nat /\ Len(s) = Len(r) + 1 /\ s # << >>
         /\ DOMAIN r = 1..Len(r) /\ DOMAIN s = 1..(Len(r) + 1)
         /\ s[1] = x /\ \A i \in 1..Len(r) : s[i + 1] = r[i]
  OBVIOUS

\* s is x, followed by r
Follows(s, x, r) ==
  /\ Len(r) \in Nat /\ Len(s) = Len(r) + 1
  /\ DOMAIN r = 1..Len(r) /\ DOMAIN s = 1..(Len(r) + 1)
  /\ s[1] = x /\ \A i \in 1..Len(r) : s[i + 1] = r[i]
  /\ s # << >> /\ (r = << >> <=> Len(r) = 0)

LEMMA TailFollows ==
  ASSUME NEW S, NEW s \in Seq(S), s # << >>
  PROVE  Tail(s) \in Seq(S) /\ s[1] \in S /\ Head(s) = s[1] /\ Follows(s, s[1], Tail(s))
<1>1. \A q \in Seq(S) : q = << >> <=> Len(q) = 0
  OBVIOUS
<1> DEFINE q == Tail(s)
<1>2. /\ q \in Seq(S) /\ Len(s) \in Nat \ {0} /\ Len(q) = Len(s) - 1
      /\ DOMAIN s = 1..Len(s) /\ DOMAIN q = 1..(Len(s) - 1)
      /\ \A i \in 1..(Len(s) - 1) : q[i] = s[i + 1]
      /\ s[1] \in S /\ Head(s) = s[1]
  BY TailProperties
<1> HIDE DEF q
<1>3. Len(q) \in Nat /\ Len(s) = Len(q) + 1
  BY <1>2
<1>4. Follows(s, s[1], q)
  BY <1>1, <1>2, <1>3 DEF Follows
<1> QED
  BY <1>2, <1>4 DEF q

LEMMA ConsFollows ==
  ASSUME NEW S, NEW r \in Seq(S), NEW x \in S
  PROVE  <<x>> \o r \in Seq(S) /\ Follows(<<x>> \o r, x, r)
<1>1. r = << >> <=> Len(r) = 0
  OBVIOUS
<1> QED
  BY <1>1, ConsProperties DEF Follows

PlacesFollow(s, x, r) ==
  \A op \in {"clear", "free"} : Places(s, op) = Places(r, op) \cup (IF x.op = op THEN {x.at} ELSE {})

LEMMA FollowingPlaces ==
  ASSUME NEW s, NEW x, NEW r, Follows(s, x, r)
  PROVE  PlacesFollow(s, x, r)
<1> SUFFICES ASSUME NEW op
             PROVE  Places(s, op) = Places(r, op) \cup (IF x.op = op THEN {x.at} ELSE {})
  BY DEF PlacesFollow
<1>1. ASSUME NEW i \in DOMAIN s PROVE i = 1 \/ (i - 1 \in DOMAIN r /\ s[i] = r[i - 1])
  BY DEF Follows
<1>2. ASSUME NEW i \in DOMAIN r PROVE i + 1 \in DOMAIN s /\ s[i + 1] = r[i]
  BY DEF Follows
<1>3. 1 \in DOMAIN s /\ s[1] = x
  BY DEF Follows
<1> QED
  BY <1>1, <1>2, <1>3 DEF Places

\* s begins with a swap's assignment, x.
CopiesNext(t, s, x, r) ==
  /\ Swapping(s) /\ Swapping(r) /\ s[Len(s)] = r[Len(r)] /\ Copies(s) = Copies(r) + 1
  /\ \/ Copies(s) = 1 /\ x.at = s[Len(s)].swapped.this /\ x.from = t
     \/ Copies(s) = 2 /\ x.at = s[Len(s)].swapped.other /\ x.from = s[Len(s)].swapped.this

\* After the first step
AfterFirst(t, s, x, r) ==
  /\ Plain(t, r) /\ (FreesOnce(s) => FreesOnce(r))
  /\ x.op = "free" /\ FreesOnce(s) => x.at \notin Places(r, "free")
  /\ x.op \in {"clear", "destruct"} => r = << >>
  /\ x.op \notin {"clear", "copy", "destruct"} => Alike(s, r)
  /\ x.op = "destruct" => Swapping(s) /\ s[Len(s)] = x /\ Copies(s) = 0 /\ x.at = t
  /\ x.op = "copy" => CopiesNext(t, s, x, r)

LEMMA Popped ==
  ASSUME NEW t, NEW s, NEW x, NEW r, Follows(s, x, r), Ordered(t, s)
  PROVE  AfterFirst(t, s, x, r)
<1> DEFINE n == Len(r)
<1>n. n \in Nat
  BY DEF Follows
<1>1. ASSUME NEW i \in DOMAIN r PROVE i \in 1..n /\ i + 1 \in DOMAIN s /\ s[i + 1] = r[i]
  BY DEF Follows
<1>2. 1 \in DOMAIN s /\ s[1] = x /\ Len(s) = n + 1 /\ DOMAIN r = 1..n /\ DOMAIN s = 1..(n + 1)
      /\ (r = << >> <=> n = 0) /\ s # << >>
  BY DEF Follows
<1>3. n # 0 => n \in DOMAIN r /\ s[Len(s)] = r[n]
  BY <1>1, <1>2
<1>4. Plain(t, r)
  <2> SUFFICES ASSUME NEW i \in DOMAIN r
               PROVE  /\ r[i].op \notin {"release", "delete"}
                      /\ r[i].op = "clear" => i = n
                      /\ r[i].op = "destruct" => i = n /\ r[i].at = t
                      /\ r[i].op = "copy" =>
                           /\ i < n /\ r[n].op = "destruct"
                           /\ \/ i = n - 1 /\ r[i].at = r[n].swapped.this /\ r[i].from = t
                              \/ /\ i = n - 2 /\ r[i].at = r[n].swapped.other
                                 /\ r[i].from = r[n].swapped.this /\ r[i + 1].op = "copy"
    BY DEF Plain, Ordered
  <2>1. i \in 1..n /\ n # 0 /\ i + 1 \in DOMAIN s /\ s[i + 1] = r[i] /\ s[Len(s)] = r[n] /\ Len(s) = n + 1
    BY <1>1, <1>2, <1>3, <1>n
  <2>2. i + 1 < Len(s) => s[i + 2] = r[i + 1]
    BY <2>1, <1>1, <1>2, <1>n
  <2> HIDE DEF n
  <2>3. r[i].op \in {"release", "delete"} => i + 1 = 1
    BY <2>1 DEF Ordered
  <2>4. r[i].op = "clear" => i + 1 = n + 1
    BY <2>1 DEF Ordered
  <2>5. r[i].op = "destruct" => i + 1 = n + 1 /\ r[i].at = t
    BY <2>1 DEF Ordered
  <2>6. r[i].op = "copy" =>
          /\ i + 1 < n + 1 /\ r[n].op = "destruct"
          /\ \/ i + 1 = (n + 1) - 1 /\ r[i].at = r[n].swapped.this /\ r[i].from = t
             \/ /\ i + 1 = (n + 1) - 2 /\ r[i].at = r[n].swapped.other
                /\ r[i].from = r[n].swapped.this /\ s[(i + 1) + 1].op = "copy"
    BY <2>1 DEF Ordered
  <2>7. (i + 1) + 1 = i + 2 /\ (i + 1 < n + 1 <=> i < n) /\ (i + 1 = (n + 1) - 1 <=> i = n - 1)
        /\ (i + 1 = (n + 1) - 2 <=> i = n - 2)
    BY <2>1, <1>n
  <2> QED
    BY <2>1, <2>2, <2>3, <2>4, <2>5, <2>6, <2>7, <1>n
<1>5. FreesOnce(s) => FreesOnce(r)
  <2> SUFFICES ASSUME FreesOnce(s), NEW i \in DOMAIN r, NEW j \in DOMAIN r,
                      r[i].op = "free" /\ r[j].op = "free" /\ r[i].at = r[j].at
               PROVE  i = j
    BY DEF FreesOnce
  <2>1. i + 1 \in DOMAIN s /\ s[i + 1] = r[i] /\ j + 1 \in DOMAIN s /\ s[j + 1] = r[j] /\ i \in Int /\ j \in Int
    BY <1>1
  <2>2. i + 1 = j + 1
    BY <2>1 DEF FreesOnce
  <2> QED
    BY <2>1, <2>2
<1>6. x.op = "free" /\ FreesOnce(s) => x.at \notin Places(r, "free")
  <2> SUFFICES ASSUME FreesOnce(s), NEW i \in DOMAIN r, r[i].op = "free", r[i].at = x.at, x.op = "free"
               PROVE  FALSE
    BY DEF Places
  <2>1. i + 1 \in DOMAIN s /\ s[i + 1] = r[i] /\ i \in 1..n
    BY <1>1
  <2>2. i + 1 = 1
    BY <1>2, <2>1 DEF FreesOnce
  <2> QED
    BY <2>1, <2>2
<1>7. x.op \in {"clear", "destruct"} => n = 0
  BY <1>2, <1>n DEF Ordered
<1> HIDE DEF n
<1>8. ASSUME n # 0
      PROVE  /\ Swapping(s) <=> Swapping(r)
             /\ s[Len(s)] = r[n]
             /\ Swapping(r) => Copies(s) = Copies(r) + (IF x.op = "copy" THEN 1 ELSE 0)
  <2>1. n >= 1 /\ Len(s) > 1 /\ Len(s) - 1 = n /\ Len(r) = n
    BY <1>2, <1>8, <1>n DEF n
  <2>2. (Swapping(s) <=> Swapping(r)) /\ s[Len(s)] = r[n]
    BY <1>2, <1>3, <1>8, <2>1 DEF Swapping
  <2>3. ASSUME Swapping(r)
        PROVE  Copies(s) = Copies(r) + (IF x.op = "copy" THEN 1 ELSE 0)
    <3>1. s[Len(s) - 1] = IF n = 1 THEN x ELSE r[n - 1]
      BY <1>1, <1>2, <1>n, <2>1
    <3>2. n > 1 => s[Len(s) - 2] = IF n = 2 THEN x ELSE r[n - 2]
      BY <1>1, <1>2, <1>n, <2>1
    <3>3. x.op = "copy" => n = 1 \/ (n = 2 /\ r[1].op = "copy")
      BY <1>1, <1>2, <1>n, <2>1 DEF Ordered
    <3>4. CASE n = 1
      BY <3>1, <3>4, <2>1, <1>2 DEF Copies
    <3>5. CASE n = 2
      BY <3>1, <3>2, <3>3, <3>5, <2>1, <1>2 DEF Copies
    <3>6. CASE n > 2
      BY <3>1, <3>2, <3>3, <3>6, <2>1, <1>2 DEF Copies
    <3> QED
      BY <2>1, <3>4, <3>5, <3>6, <1>n
  <2> QED
    BY <2>2, <2>3
<1>9. x.op = "destruct" => Swapping(s) /\ s[Len(s)] = x /\ Copies(s) = 0 /\ x.at = t
  BY <1>2, <1>7, <1>n DEF Swapping, Copies, Ordered
<1>10. x.op = "copy" =>
         /\ n # 0 /\ Swapping(s)
         /\ \/ n = 1 /\ x.at = s[Len(s)].swapped.this /\ x.from = t
            \/ /\ n = 2 /\ r[1].op = "copy"
               /\ x.at = s[Len(s)].swapped.other /\ x.from = s[Len(s)].swapped.this
  <2> SUFFICES ASSUME x.op = "copy"
               PROVE  /\ n # 0 /\ Swapping(s)
                      /\ \/ n = 1 /\ x.at = s[Len(s)].swapped.this /\ x.from = t
                         \/ /\ n = 2 /\ r[1].op = "copy"
                            /\ x.at = s[Len(s)].swapped.other /\ x.from = s[Len(s)].swapped.this
    OBVIOUS
  <2>1. /\ 1 < Len(s) /\ s[Len(s)].op = "destruct"
        /\ \/ 1 = Len(s) - 1 /\ s[1].at = s[Len(s)].swapped.this /\ s[1].from = t
           \/ /\ 1 = Len(s) - 2 /\ s[1].at = s[Len(s)].swapped.other
              /\ s[1].from = s[Len(s)].swapped.this /\ s[1 + 1].op = "copy"
    BY <1>2 DEF Ordered
  <2>2. 1 = Len(s) - 2 => n = 2 /\ s[1 + 1] = r[1]
    BY <1>1, <1>2, <1>n
  <2> QED
    BY <1>2, <1>n, <2>1, <2>2 DEF Swapping
<1>11. x.op \notin {"clear", "copy", "destruct"} => Alike(s, r)
  <2> SUFFICES ASSUME x.op \notin {"clear", "copy", "destruct"} PROVE Alike(s, r)
    OBVIOUS
  <2>c. x.op # "clear"
    OBVIOUS
  <2>1. Places(s, "clear") = Places(r, "clear")
    BY <2>c, FollowingPlaces DEF PlacesFollow
  <2>2. CASE n = 0
    BY <1>2, <2>1, <2>2 DEF Alike, Swapping
  <2>3. CASE n # 0
    <3>1. Swapping(r) => Copies(r) + 0 = Copies(r)
      BY DEF Copies
    <3> QED
      BY <1>8, <2>1, <2>3, <3>1 DEF Alike, n
  <2> QED
    BY <2>2, <2>3
<1>12. x.op = "copy" => Copies(s) = n
  <2> SUFFICES ASSUME x.op = "copy" PROVE Copies(s) = n
    OBVIOUS
  <2>1. CASE n = 1
    BY <1>2, <2>1 DEF Copies
  <2>2. CASE n = 2
    <3>1. Len(s) = 3 /\ s[2] = r[1] /\ r[1].op = "copy" /\ s[1].op = "copy"
      BY <1>1, <1>2, <1>10, <2>2
    <3> QED
      BY <2>2, <3>1 DEF Copies
  <2> QED
    BY <1>10, <2>1, <2>2
<1> QED
  BY <1>2, <1>4, <1>5, <1>6, <1>7, <1>8, <1>9, <1>10, <1>11, <1>12 DEF n, CopiesNext, AfterFirst

\* Before the rest of a call
LEMMA Pushed ==
  ASSUME NEW t, NEW s, NEW x, NEW r, Follows(s, x, r), Plain(t, r), x.op \in {"release", "delete", "free"}
  PROVE  /\ Ordered(t, s) /\ Alike(s, r)
         /\ x.op = "free" => Plain(t, s)
         /\ FreesOnce(r) /\ (x.op = "free" => x.at \notin Places(r, "free")) => FreesOnce(s)
<1> DEFINE n == Len(r)
<1>n. n \in Nat
  BY DEF Follows
<1>1. ASSUME NEW i \in DOMAIN s PROVE i = 1 \/ (i - 1 \in 1..n /\ i - 1 \in DOMAIN r /\ s[i] = r[i - 1] /\ n # 0)
  BY DEF Follows
<1>2. 1 \in DOMAIN s /\ s[1] = x /\ Len(s) = n + 1 /\ DOMAIN r = 1..n /\ DOMAIN s = 1..(n + 1)
      /\ (r = << >> <=> n = 0) /\ s # << >>
  BY DEF Follows
<1>3. n # 0 => s[Len(s)] = r[n]
  BY DEF Follows
<1>4. ASSUME NEW i \in DOMAIN s, i # 1
      PROVE  /\ s[i].op \notin {"release", "delete"}
             /\ s[i].op = "clear" => i = Len(s)
             /\ s[i].op = "destruct" => i = Len(s) /\ s[i].at = t
             /\ s[i].op = "copy" =>
                  /\ i < Len(s) /\ s[Len(s)].op = "destruct"
                  /\ \/ i = Len(s) - 1 /\ s[i].at = s[Len(s)].swapped.this /\ s[i].from = t
                     \/ /\ i = Len(s) - 2 /\ s[i].at = s[Len(s)].swapped.other
                        /\ s[i].from = s[Len(s)].swapped.this /\ s[i + 1].op = "copy"
  <2>1. i \in Int /\ i - 1 \in 1..n /\ i - 1 \in DOMAIN r /\ s[i] = r[i - 1] /\ n # 0 /\ s[Len(s)] = r[n] /\ Len(s) = n + 1
    BY <1>1, <1>2, <1>3, <1>4
  <2>2. i < Len(s) => s[i + 1] = r[i] /\ r[(i - 1) + 1] = r[i]
    BY <2>1, <1>2, <1>n DEF Follows
  <2> HIDE DEF n
  <2>3. s[i].op \notin {"release", "delete"}
    BY <2>1 DEF Plain
  <2>4. s[i].op = "clear" => i - 1 = n
    BY <2>1 DEF Plain, Ordered, n
  <2>5. s[i].op = "destruct" => i - 1 = n /\ s[i].at = t
    BY <2>1 DEF Plain, Ordered, n
  <2>6. s[i].op = "copy" =>
          /\ i - 1 < n /\ r[n].op = "destruct"
          /\ \/ i - 1 = n - 1 /\ s[i].at = r[n].swapped.this /\ s[i].from = t
             \/ /\ i - 1 = n - 2 /\ s[i].at = r[n].swapped.other
                /\ s[i].from = r[n].swapped.this /\ r[(i - 1) + 1].op = "copy"
    BY <2>1 DEF Plain, Ordered, n
  <2>7. (i - 1 < n <=> i < n + 1) /\ (i - 1 = n <=> i = n + 1) /\ (i - 1 = n - 1 <=> i = (n + 1) - 1)
        /\ (i - 1 = n - 2 <=> i = (n + 1) - 2)
    BY <2>1, <1>n
  <2> QED
    BY <2>1, <2>2, <2>3, <2>4, <2>5, <2>6, <2>7, <1>n
<1>5. Ordered(t, s)
  BY <1>2, <1>4 DEF Ordered
<1>6. x.op = "free" => Plain(t, s)
  BY <1>2, <1>4, <1>5 DEF Plain
<1>7. FreesOnce(r) /\ (x.op = "free" => x.at \notin Places(r, "free")) => FreesOnce(s)
  <2> SUFFICES ASSUME FreesOnce(r), x.op = "free" => x.at \notin Places(r, "free"),
                      NEW i \in DOMAIN s, NEW j \in DOMAIN s,
                      s[i].op = "free" /\ s[j].op = "free" /\ s[i].at = s[j].at
               PROVE  i = j
    BY DEF FreesOnce
  <2>1. ASSUME NEW k \in DOMAIN r, r[k].op = "free", x.op = "free" PROVE r[k].at # x.at
    BY <2>1 DEF Places
  <2>2. CASE i = 1 \/ j = 1
    BY <1>1, <1>2, <2>1, <2>2
  <2>3. CASE i # 1 /\ j # 1
    <3>1. i - 1 \in DOMAIN r /\ s[i] = r[i - 1] /\ j - 1 \in DOMAIN r /\ s[j] = r[j - 1] /\ i \in Int /\ j \in Int
      BY <1>1, <1>2, <2>3
    <3>2. i - 1 = j - 1
      BY <3>1 DEF FreesOnce
    <3> QED
      BY <3>1, <3>2
  <2> QED
    BY <2>2, <2>3
<1>8. Alike(s, r)
  BY <1>5, Popped DEF AfterFirst
<1> QED
  BY <1>5, <1>6, <1>7, <1>8

-----------------------------------------------------------------------------
(* Counting *)

Count(f, o) == Cardinality({x \in DOMAIN f : f[x] = o})

\* g is f, but for what it maps k to
Updated(f, k, x, g) ==
  DOMAIN g = DOMAIN f /\ k \in DOMAIN f /\ g[k] = x /\ \A j \in DOMAIN f \ {k} : g[j] = f[j]

LEMMA CountIsNat ==
  ASSUME NEW f, IsFiniteSet(DOMAIN f), NEW o
  PROVE  IsFiniteSet({x \in DOMAIN f : f[x] = o}) /\ Count(f, o) \in Nat
<1>1. {x \in DOMAIN f : f[x] = o} \subseteq DOMAIN f
  OBVIOUS
<1> QED
  BY <1>1, FS_Subset, FS_CardinalityType DEF Count

LEMMA CountPositive ==
  ASSUME NEW f, IsFiniteSet(DOMAIN f), NEW k \in DOMAIN f
  PROVE  Count(f, f[k]) >= 1
<1> DEFINE S == {x \in DOMAIN f : f[x] = f[k]}
<1>1. IsFiniteSet(S) /\ S # {} /\ Cardinality(S) \in Nat
  BY CountIsNat DEF Count
<1>2. Cardinality(S) # 0
  BY <1>1, FS_EmptySet
<1> QED
  BY <1>1, <1>2 DEF Count

LEMMA CountUnique ==
  ASSUME NEW f, IsFiniteSet(DOMAIN f), NEW k \in DOMAIN f, NEW j \in DOMAIN f, f[j] = f[k],
         Count(f, f[k]) <= 1
  PROVE  j = k
<1> DEFINE S == {x \in DOMAIN f : f[x] = f[k]}
<1>1. IsFiniteSet(S) /\ k \in S /\ j \in S /\ Cardinality(S) \in Nat /\ Cardinality(S) <= 1
  BY CountIsNat DEF Count
<1> HIDE DEF S
<1>2. IsFiniteSet(S \ {k}) /\ Cardinality(S \ {k}) = Cardinality(S) - 1
  BY <1>1, FS_RemoveElement
<1>3. Cardinality(S \ {k}) = 0
  BY <1>1, <1>2, FS_CardinalityType
<1>4. S \ {k} = {}
  BY <1>2, <1>3, FS_EmptySet
<1> QED
  BY <1>1, <1>4

LEMMA CountUpdate ==
  ASSUME NEW f, IsFiniteSet(DOMAIN f), NEW k, NEW x, NEW g, Updated(f, k, x, g), NEW o
  PROVE  Count(g, o) = (Count(f, o) + (IF x = o THEN 1 ELSE 0)) - (IF f[k] = o THEN 1 ELSE 0)
<1> DEFINE F == {y \in DOMAIN f : f[y] = o}
           G == {y \in DOMAIN g : g[y] = o}
           R == F \ {k}
<1>0. IsFiniteSet(F) /\ Cardinality(F) \in Nat
  BY CountIsNat DEF Count
<1>1. IsFiniteSet(F) /\ IsFiniteSet(R) /\ Cardinality(F) \in Nat /\ k \notin R
  <2> HIDE DEF F
  <2>1. R \in SUBSET F
    OBVIOUS
  <2> QED
    BY <1>0, <2>1, FS_Subset
<1>2. G = IF x = o THEN R \cup {k} ELSE R
  BY DEF Updated
<1>3. f[k] = o => k \in F
  BY DEF Updated
<1>4. f[k] # o => R = F
  OBVIOUS
<1>5. Count(f, o) = Cardinality(F) /\ Count(g, o) = Cardinality(G)
  BY DEF Count
<1> HIDE DEF F, G, R
<1>6. Cardinality(R) = Cardinality(F) - (IF f[k] = o THEN 1 ELSE 0)
  <2>1. CASE f[k] = o
    BY <2>1, <1>1, <1>3, FS_RemoveElement DEF R
  <2>2. CASE f[k] # o
    BY <2>2, <1>1, <1>4
  <2> QED
    BY <2>1, <2>2
<1>7. Cardinality(G) = Cardinality(R) + (IF x = o THEN 1 ELSE 0)
  <2>0. Cardinality(R) \in Nat
    BY <1>1, FS_CardinalityType
  <2>1. CASE x = o
    BY <2>1, <1>1, <1>2, FS_AddElement
  <2>2. CASE x # o
    BY <2>0, <2>2, <1>2
  <2> QED
    BY <2>1, <2>2
<1> QED
  BY <1>1, <1>5, <1>6, <1>7

\* ... and k2 too
LEMMA CountUpdates ==
  ASSUME NEW f, IsFiniteSet(DOMAIN f), NEW k1, NEW x1, NEW k2, NEW x2, NEW g, NEW o,
         k1 \in DOMAIN f, k2 \in DOMAIN f, k1 # k2, DOMAIN g = DOMAIN f, g[k1] = x1, g[k2] = x2,
         \A j \in DOMAIN f \ {k1, k2} : g[j] = f[j]
  PROVE  Count(g, o) = (((Count(f, o) + (IF x1 = o THEN 1 ELSE 0)) - (IF f[k1] = o THEN 1 ELSE 0))
                        + (IF x2 = o THEN 1 ELSE 0)) - (IF f[k2] = o THEN 1 ELSE 0)
<1> DEFINE h == [j \in DOMAIN f |-> IF j = k1 THEN x1 ELSE f[j]]
<1>1. Updated(f, k1, x1, h) /\ Updated(h, k2, x2, g) /\ h[k2] = f[k2] /\ IsFiniteSet(DOMAIN h)
  BY DEF Updated
<1> HIDE DEF h
<1>2. Count(h, o) = (Count(f, o) + (IF x1 = o THEN 1 ELSE 0)) - (IF f[k1] = o THEN 1 ELSE 0)
  BY <1>1, CountUpdate
<1>3. Count(g, o) = (Count(h, o) + (IF x2 = o THEN 1 ELSE 0)) - (IF f[k2] = o THEN 1 ELSE 0)
  BY <1>1, CountUpdate
<1>4. Count(f, o) \in Nat /\ Count(h, o) \in Nat
  BY <1>1, CountIsNat
<1> QED
  BY <1>1, <1>2, <1>3, <1>4

LEMMA CountNone ==
  ASSUME NEW f, NEW o, \A x \in DOMAIN f : f[x] # o
  PROVE  Count(f, o) = 0
<1>1. {x \in DOMAIN f : f[x] = o} = {}
  OBVIOUS
<1> QED
  BY <1>1, FS_EmptySet DEF Count

-----------------------------------------------------------------------------
(* The invariant *)

Types == /\ fn \in [Location -> Targets]
         /\ refCount \in [Obj -> Nat]
         /\ block \in [Obj -> {"free", "valid", "deleted"}]
         /\ owner \in [Var -> Thread]
         /\ todo \in [Thread -> Seq(Steps)]

AllOrdered == \A t \in Thread : Ordered(t, todo[t]) /\ FreesOnce(todo[t])

\* the source of a move, which the call is yet to clear
Cleared(l) == \E t \in Thread : l \in Places(todo[t], "clear")

\* the object that each Function owns, and the one that each thread is about to release
Val == [l \in Location |-> IF Cleared(l) THEN "empty" ELSE fn[l]]
Rel == [t \in Thread |-> First(todo[t], "release")]

Counted == \A o \in Obj : refCount[o] = Count(Val, o) + Count(Rel, o)

\* The source of a move is the thread's own, or captured by an object that only a
\* variable of the thread owns.
Source(t, l) == \/ l \in Var /\ owner[l] = t /\ fn[l] # "dead"
                \/ l \in Obj /\ refCount[l] = 1 /\ \E w \in Var : owner[w] = t /\ Val[w] = l

SourcesLive == \A t \in Thread : \A l \in Places(todo[t], "clear") : Source(t, l)

\* An object lives until the only call deletes it that found no owner left, and its
\* memory is freed by that call, once.
Lives(o) ==
  /\ block[o] = "valid" <=> fn[o] # "dead"
  /\ block[o] # "valid" => refCount[o] = 0
  /\ block[o] = "valid" /\ refCount[o] = 0 => \E t \in Thread : First(todo[t], "delete") = o
  /\ \A t \in Thread : First(todo[t], "delete") = o =>
       block[o] = "valid" /\ refCount[o] = 0 /\ \A u \in Thread : First(todo[u], "delete") = o => u = t
  /\ \A t \in Thread : o \in Places(todo[t], "free") =>
       block[o] = "deleted" /\ \A u \in Thread : o \in Places(todo[u], "free") => u = t

\* How far a swap has come.
Progress(t, n, w) ==
  /\ owner[w.this] = t /\ owner[w.other] = t
  /\ w.this = w.other => w.ours = w.theirs
  /\ n = 2 => fn[t] = w.theirs /\ fn[w.this] = w.ours
  /\ n = 1 => fn[t] = w.theirs /\ fn[w.other] = w.ours
  /\ n = 0 => fn[w.this] = w.theirs /\ fn[w.other] = w.ours
SwapOf(s) == s[Len(s)].swapped
SwapsProceed ==
  \A t \in Thread : Swapping(todo[t]) => Progress(t, Copies(todo[t]), SwapOf(todo[t]))

IInv == /\ Types /\ AllOrdered /\ Counted /\ SourcesLive
        /\ \A o \in Obj : Lives(o)
        /\ SwapsProceed

-----------------------------------------------------------------------------
(* What follows from it *)

LEMMA Disjoint ==
  /\ Thread \cap Var = {} /\ Thread \cap Obj = {} /\ Var \cap Obj = {}
  /\ "dead" \notin Obj /\ "empty" \notin Obj /\ "inline" \notin Obj
  /\ IsFiniteSet(Location) /\ IsFiniteSet(Thread)
<1>1. IsFiniteSet(Thread \cup Var)
  BY FunctionAssumption, FS_Union
<1>2. IsFiniteSet((Thread \cup Var) \cup Obj)
  BY <1>1, FunctionAssumption, FS_Union
<1> QED
  BY <1>2, FunctionAssumption DEF Location

LEMMA StepTypes ==
  ASSUME NEW x \in Steps
  PROVE  /\ x.op \in {"release", "delete", "free", "clear", "copy", "destruct"}
         /\ x.op \in {"release", "delete", "free"} => x.at \in Obj
         /\ x.op = "clear" => x.at \in Var \cup Obj
         /\ x.op = "copy" => x.at \in Var /\ x.from \in Var \cup Thread
         /\ x.op = "destruct" => x.at \in Thread /\ x.swapped \in SwapNotes
  BY DEF Steps

LEMMA PlacesTypes ==
  ASSUME NEW s \in Seq(Steps)
  PROVE  /\ Places(s, "clear") \subseteq Var \cup Obj
         /\ Places(s, "free") \subseteq Obj
         /\ First(s, "delete") \in Obj \cup {"empty"} /\ First(s, "release") \in Obj \cup {"empty"}
         /\ Swapping(s) => SwapOf(s) \in SwapNotes
<1>1. \A i \in DOMAIN s : s[i] \in Steps
  OBVIOUS
<1>2. s # << >> => 1 \in DOMAIN s /\ Len(s) \in DOMAIN s
  OBVIOUS
<1>3. Places(s, "clear") \subseteq Var \cup Obj /\ Places(s, "free") \subseteq Obj
  BY <1>1, StepTypes DEF Places
<1>4. First(s, "delete") \in Obj \cup {"empty"} /\ First(s, "release") \in Obj \cup {"empty"}
  BY <1>1, <1>2, StepTypes DEF First
<1>5. Swapping(s) => SwapOf(s) \in SwapNotes
  BY <1>1, <1>2, StepTypes DEF Swapping, SwapOf
<1> QED
  BY <1>3, <1>4, <1>5

LEMMA IdleFacts ==
  ASSUME NEW op
  PROVE  /\ Places(<< >>, op) = {} /\ First(<< >>, op) = "empty" /\ ~Swapping(<< >>)
         /\ FreesOnce(<< >>) /\ << >> \in Seq(Steps) /\ \A t : Plain(t, << >>)
  BY DEF Places, First, Swapping, FreesOnce, Plain, Ordered

LEMMA ValRel ==
  ASSUME Types
  PROVE  /\ DOMAIN Val = Location /\ DOMAIN Rel = Thread
         /\ IsFiniteSet(DOMAIN Val) /\ IsFiniteSet(DOMAIN Rel)
         /\ \A l \in Location : Val[l] = IF Cleared(l) THEN "empty" ELSE fn[l]
         /\ \A t \in Thread : Rel[t] = First(todo[t], "release")
  BY Disjoint DEF Val, Rel

\* An object that somebody owns or is about to release lives.
LEMMA OwnedLives ==
  ASSUME IInv, NEW o \in Obj,
         \/ \E l \in Location : Val[l] = o
         \/ \E t \in Thread : Rel[t] = o
  PROVE  /\ refCount[o] >= 1 /\ refCount[o] \in Nat /\ block[o] = "valid" /\ fn[o] # "dead"
         /\ \A t \in Thread : First(todo[t], "delete") # o
<1>1. Types /\ refCount[o] = Count(Val, o) + Count(Rel, o) /\ Lives(o) /\ refCount[o] \in Nat
  BY DEF IInv, Counted, Types
<1>2. Count(Val, o) \in Nat /\ Count(Rel, o) \in Nat
  BY <1>1, ValRel, CountIsNat
<1>3. Count(Val, o) >= 1 \/ Count(Rel, o) >= 1
  BY <1>1, ValRel, CountPositive
<1>4. refCount[o] >= 1
  BY <1>1, <1>2, <1>3
<1> QED
  BY <1>1, <1>4 DEF Lives

\* A single owner is no other, and nobody is about to release what has one.
LEMMA SoleOwner ==
  ASSUME IInv, NEW w \in Location, Val[w] \in Obj, refCount[Val[w]] = 1
  PROVE  /\ \A l \in Location : Val[l] = Val[w] => l = w
         /\ \A t \in Thread : Rel[t] # Val[w]
<1> DEFINE o == Val[w]
<1>1. Types /\ refCount[o] = Count(Val, o) + Count(Rel, o)
  BY DEF IInv, Counted
<1>2. Count(Val, o) \in Nat /\ Count(Rel, o) \in Nat /\ Count(Val, o) >= 1
  BY <1>1, ValRel, CountIsNat, CountPositive
<1>3. Count(Val, o) <= 1 /\ ~(Count(Rel, o) >= 1)
  BY <1>1, <1>2
<1>4. \A t \in Thread : Rel[t] # o
  BY <1>1, <1>3, ValRel, CountPositive
<1>5. \A l \in Location : Val[l] = o => l = w
  BY <1>1, <1>3, ValRel, CountUnique
<1> QED
  BY <1>4, <1>5

\* what a thread may read or write: its own variables and its temporary
Private(t, l) == (l \in Var /\ owner[l] = t) \/ l = t

\* Only a thread itself moves from its variables.
LEMMA NotCleared ==
  ASSUME IInv, NEW t \in Thread, Places(todo[t], "clear") = {}, NEW l, Private(t, l)
  PROVE  l \in Location /\ ~Cleared(l) /\ Val[l] = fn[l]
<1>1. l \in Location /\ (l \in Var \/ l = t)
  BY DEF Private, Location
<1>2. ASSUME Cleared(l) PROVE FALSE
  <2>1. PICK u \in Thread : l \in Places(todo[u], "clear")
    BY <1>2 DEF Cleared
  <2>2. Source(u, l)
    BY <2>1 DEF IInv, SourcesLive
  <2>3. l \in Var /\ owner[l] = u
    BY <1>1, <2>2, Disjoint DEF Source
  <2>4. l \in Var /\ owner[l] = t
    BY <2>3, Disjoint DEF Private
  <2> QED
    BY <2>1, <2>3, <2>4
<1> QED
  BY <1>1, <1>2, ValRel DEF IInv

\* What an idle thread reaches is its own, or captured by an object that its own
\* variable owns; nobody is moving from it.
LEMMA ReachableFacts ==
  ASSUME IInv, NEW t \in Thread, Idle(t), NEW l \in Reachable(t)
  PROVE  /\ l \in Location /\ ~Cleared(l) /\ Val[l] = fn[l] /\ fn[l] # "dead"
         /\ \/ l \in Var /\ owner[l] = t
            \/ l \in Obj /\ \E w \in Var : owner[w] = t /\ Val[w] = l
<1>0. Types /\ Places(todo[t], "clear") = {}
  BY IdleFacts DEF IInv, Idle
<1>1. CASE l \in Alive(t)
  <2>1. l \in Var /\ owner[l] = t /\ fn[l] # "dead"
    BY <1>1 DEF Alive, Owned
  <2> QED
    BY <2>1, <1>0, NotCleared DEF Private
<1>2. CASE l \notin Alive(t)
  <2>1. PICK w \in Var : owner[w] = t /\ fn[w] = l /\ l \in Obj
    BY <1>2 DEF Reachable, Alive, Owned
  <2>2. w \in Location /\ Val[w] = l
    BY <2>1, <1>0, NotCleared DEF Private
  <2>3. fn[l] # "dead" /\ l \in Location
    BY <2>1, <2>2, OwnedLives DEF Location
  <2>4. ASSUME Cleared(l) PROVE FALSE
    <3>1. PICK u \in Thread : l \in Places(todo[u], "clear")
      BY <2>4 DEF Cleared
    <3>2. Source(u, l)
      BY <3>1 DEF IInv, SourcesLive
    <3>3. PICK x \in Var : refCount[l] = 1 /\ owner[x] = u /\ Val[x] = l
      BY <2>1, <3>2, Disjoint DEF Source
    <3>4. x \in Location
      BY DEF Location
    <3>5. x = w
      BY <2>1, <2>2, <3>3, <3>4, SoleOwner
    <3> QED
      BY <1>0, <2>1, <3>1, <3>3, <3>5
  <2> QED
    BY <1>0, <2>1, <2>2, <2>3, <2>4, ValRel
<1> QED
  BY <1>1, <1>2

-----------------------------------------------------------------------------
(* What a step of one thread leaves alone *)

\* s remains of the call of t, and the other calls are where they were.
Continues(t, s) ==
  /\ t \in Thread /\ s \in Seq(Steps)
  /\ todo' \in [Thread -> Seq(Steps)]
  /\ todo'[t] = s /\ \A u \in Thread \ {t} : todo'[u] = todo[u]

LEMMA ClearedAfter ==
  ASSUME Types, NEW t, NEW s, Continues(t, s), NEW l
  PROVE  /\ Cleared(l)' <=> l \in Places(s, "clear") \/ \E u \in Thread \ {t} : l \in Places(todo[u], "clear")
         /\ Places(s, "clear") = Places(todo[t], "clear") => (Cleared(l)' <=> Cleared(l))
<1>1. Cleared(l)' <=> \E u \in Thread : l \in Places(todo'[u], "clear")
  BY DEF Cleared
<1> QED
  BY <1>1 DEF Continues, Cleared

LEMMA ValRelAfter ==
  ASSUME Types, NEW t, NEW s, Continues(t, s)
  PROVE  /\ DOMAIN Val' = Location /\ DOMAIN Rel' = Thread
         /\ \A l \in Location : Val'[l] = IF Cleared(l)' THEN "empty" ELSE fn'[l]
         /\ Updated(Rel, t, First(s, "release"), Rel')
<1>1. \A u \in Thread : Rel'[u] = First(todo'[u], "release")
  BY DEF Rel
<1>2. DOMAIN Rel' = Thread
  BY DEF Rel
<1>3. Updated(Rel, t, First(s, "release"), Rel')
  BY <1>1, <1>2, ValRel DEF Updated, Continues
<1>4. DOMAIN Val' = Location /\ \A l \in Location : Val'[l] = IF Cleared(l)' THEN "empty" ELSE fn'[l]
  BY DEF Val
<1> QED
  BY <1>2, <1>3, <1>4

\* The step writes to Functions of its own thread, or to captured ones.
Confined(t, s) ==
  /\ Continues(t, s)
  /\ \A l \in Location : ~Private(t, l) /\ l \notin Obj => fn'[l] = fn[l]
  /\ \A l \in Places(s, "clear") : l \in Var => owner[l] = t

\* Objects that only a variable of another thread owns keep one owner.
SoleOwnersKept(t) ==
  \A w \in Var : owner[w] # t /\ Val[w] \in Obj /\ refCount[Val[w]] = 1 => refCount'[Val[w]] = 1

LEMMA OthersVal ==
  ASSUME IInv, NEW t, NEW s, Confined(t, s), NEW w \in Var, owner[w] # t
  PROVE  Val'[w] = Val[w]
<1>1. w \in Location /\ w \notin Obj /\ w # t /\ ~Private(t, w) /\ Types
  BY Disjoint DEF Location, Confined, Continues, Private, IInv
<1>2. fn'[w] = fn[w]
  BY <1>1 DEF Confined
<1>3. w \notin Places(s, "clear")
  BY DEF Confined
<1>4. w \notin Places(todo[t], "clear")
  <2>1. ASSUME w \in Places(todo[t], "clear") PROVE FALSE
    <3>1. Source(t, w)
      BY <2>1 DEF IInv, SourcesLive, Confined, Continues
    <3> QED
      BY <3>1, <1>1 DEF Source
  <2> QED
    BY <2>1
<1>5. Cleared(w)' <=> Cleared(w)
  BY <1>1, <1>3, <1>4, ClearedAfter DEF Confined, Cleared, Continues
<1> QED
  BY <1>1, <1>2, <1>5, ValRel, ValRelAfter DEF Confined

LEMMA Others ==
  ASSUME IInv, NEW t, NEW s, Confined(t, s), owner' = owner, SoleOwnersKept(t), NEW u \in Thread \ {t}
  PROVE  /\ \A l \in Places(todo[u], "clear") : Source(u, l)'
         /\ Swapping(todo[u]) => Progress(u, Copies(todo[u]), SwapOf(todo[u]))'
<1>1. Types /\ t \in Thread /\ todo[u] \in Seq(Steps)
  BY DEF IInv, Confined, Continues, Types
<1>2. ASSUME NEW l \in Places(todo[u], "clear") PROVE Source(u, l)'
  <2>1. Source(u, l)
    BY DEF IInv, SourcesLive
  <2>2. CASE l \in Var /\ owner[l] = u /\ fn[l] # "dead"
    <3>1. fn'[l] = fn[l]
      BY <1>1, <2>2, Disjoint DEF Confined, Location, Private
    <3> QED
      BY <2>2, <3>1 DEF Source
  <2>3. CASE l \in Obj /\ refCount[l] = 1 /\ \E w \in Var : owner[w] = u /\ Val[w] = l
    <3>1. PICK w \in Var : owner[w] = u /\ Val[w] = l
      BY <2>3
    <3>2. Val'[w] = Val[w] /\ refCount'[l] = 1
      BY <2>3, <3>1, OthersVal DEF SoleOwnersKept
    <3> QED
      BY <2>3, <3>1, <3>2 DEF Source
  <2> QED
    BY <2>1, <2>2, <2>3 DEF Source
<1>3. ASSUME Swapping(todo[u]) PROVE Progress(u, Copies(todo[u]), SwapOf(todo[u]))'
  <2>1. Progress(u, Copies(todo[u]), SwapOf(todo[u])) /\ SwapOf(todo[u]) \in SwapNotes
    BY <1>1, <1>3, PlacesTypes DEF IInv, SwapsProceed
  <2>2. PICK n, w : n = Copies(todo[u]) /\ w = SwapOf(todo[u])
    OBVIOUS
  <2>3. Progress(u, n, w) /\ w.this \in Var /\ w.other \in Var
    BY <2>1, <2>2 DEF SwapNotes
  <2>4. fn'[w.this] = fn[w.this] /\ fn'[w.other] = fn[w.other] /\ fn'[u] = fn[u]
    BY <1>1, <2>3, Disjoint DEF Confined, Location, Private, Progress
  <2>5. \A k, x : k = n /\ x = w => Progress(u, k, x)'
    BY <2>3, <2>4 DEF Progress
  <2>6. todo'[u] = todo[u]
    BY DEF Confined, Continues
  <2> QED
    BY <2>2, <2>5, <2>6
<1> QED
  BY <1>2, <1>3

\* What remains to be shown of a step
LEMMA Settled ==
  ASSUME IInv, NEW t, NEW s, Confined(t, s), owner' = owner, SoleOwnersKept(t),
         Types', Ordered(t, s), FreesOnce(s), Counted', \A o \in Obj : Lives(o)',
         \A l \in Places(s, "clear") : Source(t, l)',
         \A n, w : Swapping(s) /\ n = Copies(s) /\ w = SwapOf(s) => Progress(t, n, w)'
  PROVE  IInv'
<1>1. todo'[t] = s /\ \A u \in Thread \ {t} : todo'[u] = todo[u]
  BY DEF Confined, Continues
<1>2. AllOrdered'
  BY <1>1 DEF AllOrdered, IInv
<1>3. SourcesLive'
  BY <1>1, Others DEF SourcesLive
<1>4. ASSUME NEW u \in Thread, Swapping(todo'[u]), NEW n, NEW w, n = Copies(todo'[u]), w = SwapOf(todo'[u])
      PROVE  Progress(u, n, w)'
  BY <1>1, <1>4, Others
<1>5. SwapsProceed'
  BY <1>4 DEF SwapsProceed
<1> QED
  BY <1>2, <1>3, <1>5 DEF IInv

\* Objects live on if the step deletes and frees none.
LEMMA LivesKept ==
  ASSUME IInv, NEW t, NEW s, Continues(t, s), block' = block, NEW o \in Obj,
         fn'[o] = "dead" <=> fn[o] = "dead", refCount'[o] = 0 <=> refCount[o] = 0,
         First(s, "delete") = First(todo[t], "delete"),
         Places(s, "free") \subseteq Places(todo[t], "free")
  PROVE  Lives(o)'
<1>1. Lives(o) /\ t \in Thread
  BY DEF IInv, Continues
<1>2. \A u \in Thread : First(todo'[u], "delete") = First(todo[u], "delete")
  BY DEF Continues
<1>3. \A u \in Thread : Places(todo'[u], "free") \subseteq Places(todo[u], "free")
  BY DEF Continues
<1> QED
  BY <1>1, <1>2, <1>3 DEF Lives

LEMMA PlainFirst ==
  ASSUME NEW t, NEW r \in Seq(Steps), Plain(t, r)
  PROVE  First(r, "release") = "empty" /\ First(r, "delete") = "empty" /\ Ordered(t, r)
<1>1. r # << >> => 1 \in DOMAIN r
  OBVIOUS
<1> QED
  BY <1>1 DEF First, Plain

LEMMA AlikeItself == ASSUME NEW r PROVE Alike(r, r)
  BY DEF Alike

\* s releases the object, if it is one, and goes on with r.
Releases(o, s, r) ==
  /\ s \in Seq(Steps) /\ FreesOnce(s) /\ Alike(s, r)
  /\ Places(s, "free") = Places(r, "free")
  /\ First(s, "delete") = "empty"
  /\ First(s, "release") = IF o \in Obj THEN o ELSE "empty"

\* What a Function owned is released before the rest of the call.
LEMMA OldReleased ==
  ASSUME Types, NEW t, NEW l \in Location, NEW r \in Seq(Steps), Plain(t, r), FreesOnce(r),
         NEW s, s = FreeOld(l) \o r
  PROVE  Ordered(t, s) /\ Releases(fn[l], s, r)
<1>1. CASE fn[l] \in Obj
  <2> DEFINE x == Step("release", fn[l])
  <2>1. s = <<x>> \o r /\ x.op = "release" /\ x.at = fn[l]
    BY <1>1 DEF FreeOld, Step
  <2>2. x \in Steps
    BY <1>1 DEF Steps, Step
  <2> HIDE DEF x
  <2>3. s \in Seq(Steps) /\ Follows(s, x, r)
    BY <2>1, <2>2, ConsFollows
  <2>4. /\ Ordered(t, s) /\ Alike(s, r)
        /\ FreesOnce(s)
    BY <2>1, <2>3, Pushed
  <2>5. Places(s, "free") = Places(r, "free")
    <3>1. PlacesFollow(s, x, r)
      BY <2>3, FollowingPlaces
    <3> QED
      BY <2>1, <3>1 DEF PlacesFollow
  <2>6. s # << >> /\ s[1] = x
    BY <2>3 DEF Follows
  <2> QED
    BY <1>1, <2>1, <2>3, <2>4, <2>5, <2>6 DEF First, Releases
<1>2. CASE fn[l] \notin Obj
  <2>1. s = r
    BY <1>2 DEF FreeOld
  <2> QED
    BY <1>2, <2>1, AlikeItself, PlainFirst DEF Releases
<1> QED
  BY <1>1, <1>2

-----------------------------------------------------------------------------
(* Copies *)

LEMMA Copied ==
  ASSUME IInv, NEW t \in Thread, NEW to, NEW from \in Location, NEW r \in Seq(Steps), Assign(t, to, from, r),
         Private(t, to), ~Cleared(from), from \in Obj \/ Private(t, from),
         Plain(t, r), FreesOnce(r), Places(r, "clear") = {}, Places(todo[t], "clear") = {},
         First(todo[t], "release") = "empty", First(todo[t], "delete") = "empty",
         Places(r, "free") \subseteq Places(todo[t], "free"),
         \A n, w : Swapping(r) /\ n = Copies(r) /\ w = SwapOf(r) => Progress(t, n, w)'
  PROVE  IInv'
<1>s. PICK s : s = FreeOld(to) \o r
  OBVIOUS
<1>1. Types /\ to \in Location /\ ~Cleared(to) /\ Val[to] = fn[to] /\ Val[from] = fn[from] /\ to \notin Obj
  BY NotCleared, ValRel, Disjoint DEF IInv, Private
<1>2. /\ s \in Seq(Steps) /\ Ordered(t, s) /\ FreesOnce(s) /\ Alike(s, r)
      /\ Places(s, "free") = Places(r, "free")
      /\ First(s, "delete") = "empty"
      /\ First(s, "release") = IF fn[to] \in Obj THEN fn[to] ELSE "empty"
  <2>1. Types /\ to \in Location /\ Plain(t, r) /\ FreesOnce(r) /\ r \in Seq(Steps) /\ s = FreeOld(to) \o r
    BY <1>1, <1>s
  <2>2. Ordered(t, s) /\ Releases(fn[to], s, r)
    BY <2>1, OldReleased
  <2> QED
    BY <2>2 DEF Releases
<1>3. /\ fn' = [fn EXCEPT ![to] = fn[from]]
      /\ refCount' = IF fn[from] \in Obj THEN [refCount EXCEPT ![fn[from]] = @ + 1] ELSE refCount
      /\ todo' = [todo EXCEPT ![t] = s]
      /\ block' = block /\ owner' = owner
  BY <1>s DEF Assign, copyObject
<1>4. Continues(t, s)
  BY <1>1, <1>2, <1>3 DEF Continues, Types
<1>5. Places(s, "clear") = {}
  BY <1>2 DEF Alike
<1>6. Confined(t, s)
  BY <1>1, <1>3, <1>4, <1>5 DEF Confined, Types
<1>7. fn' \in [Location -> Targets] /\ fn'[to] = fn[from] /\ \A l \in Location \ {to} : fn'[l] = fn[l]
  BY <1>1, <1>3 DEF Types
<1>8. /\ refCount' \in [Obj -> Nat]
      /\ \A o \in Obj : refCount'[o] = refCount[o] + (IF fn[from] = o THEN 1 ELSE 0)
  BY <1>1, <1>3 DEF Types
<1>9. Types'
  BY <1>1, <1>3, <1>4, <1>7, <1>8 DEF Types, Continues
<1>10. Updated(Val, to, Val[from], Val')
  <2>1. \A l : Cleared(l)' <=> Cleared(l)
    BY <1>1, <1>4, <1>5, ClearedAfter
  <2> QED
    BY <1>1, <1>4, <1>7, <2>1, ValRel, ValRelAfter DEF Updated
<1>11. Counted'
  <2> SUFFICES ASSUME NEW o \in Obj PROVE refCount'[o] = Count(Val', o) + Count(Rel', o)
    BY DEF Counted
  <2>1. Count(Val', o) = (Count(Val, o) + (IF fn[from] = o THEN 1 ELSE 0)) - (IF fn[to] = o THEN 1 ELSE 0)
    BY <1>1, <1>10, ValRel, CountUpdate
  <2>2. Rel[t] # o /\ (First(s, "release") = o <=> fn[to] = o)
    BY <1>1, <1>2, ValRel, Disjoint
  <2>3. Count(Rel', o) = (Count(Rel, o) + (IF fn[to] = o THEN 1 ELSE 0)) - 0
    <3>1. Count(Rel', o) = (Count(Rel, o) + (IF First(s, "release") = o THEN 1 ELSE 0))
                           - (IF Rel[t] = o THEN 1 ELSE 0)
      BY <1>1, <1>4, ValRel, ValRelAfter, CountUpdate
    <3> QED
      BY <2>2, <3>1
  <2>4. Count(Val, o) \in Nat /\ Count(Rel, o) \in Nat /\ refCount[o] = Count(Val, o) + Count(Rel, o)
    BY <1>1, ValRel, CountIsNat DEF IInv, Counted
  <2> QED
    BY <1>8, <2>1, <2>3, <2>4
<1>12. ASSUME NEW o \in Obj PROVE Lives(o)'
  <2>1. fn'[o] = fn[o]
    BY <1>1, <1>7 DEF Location
  <2>2. refCount'[o] = 0 <=> refCount[o] = 0
    <3>1. fn[from] = o => refCount[o] >= 1
      BY <1>1, OwnedLives
    <3> QED
      BY <1>1, <1>8, <3>1 DEF Types
  <2> QED
    BY <1>2, <1>3, <1>4, <2>1, <2>2, LivesKept
<1>13. SoleOwnersKept(t)
  <2> SUFFICES ASSUME NEW w \in Var, owner[w] # t, Val[w] \in Obj, refCount[Val[w]] = 1
               PROVE  refCount'[Val[w]] = 1
    BY DEF SoleOwnersKept
  <2>1. from # w /\ w \in Location
    BY Disjoint DEF Private, Location
  <2>2. fn[from] # Val[w]
    BY <1>1, <2>1, SoleOwner
  <2> QED
    BY <1>8, <2>2
<1>14. \A n, w : Swapping(s) /\ n = Copies(s) /\ w = SwapOf(s) => Progress(t, n, w)'
  BY <1>2 DEF Alike, SwapOf
<1> QED
  BY <1>2, <1>3, <1>5, <1>6, <1>9, <1>11, <1>12, <1>13, <1>14, Settled

LEMMA CopyStep ==
  ASSUME IInv, NEW t \in Thread, NEW v \in Var, NEW from, Copy(t, v, from)
  PROVE  IInv'
<1>1. Idle(t) /\ todo[t] = << >> /\ owner[v] = t /\ from \in Reachable(t) /\ Assign(t, v, from, << >>)
  BY DEF Copy, Idle, Owned
<1>2. Private(t, v) /\ from \in Location /\ ~Cleared(from) /\ (from \in Obj \/ Private(t, from))
  BY <1>1, ReachableFacts DEF Private
<1> QED
  BY <1>1, <1>2, IdleFacts, Copied

\* the first step of a call, and the rest of it
Begins(t, x, r) == ~Idle(t) /\ x = Head(todo[t]) /\ r = Tail(todo[t])

LEMMA FirstStep ==
  ASSUME IInv, NEW t \in Thread, NEW x, NEW r, Begins(t, x, r)
  PROVE  /\ x \in Steps /\ r \in Seq(Steps) /\ Plain(t, r) /\ FreesOnce(r) /\ FreesOnce(todo[t])
         /\ AfterFirst(t, todo[t], x, r) /\ PlacesFollow(todo[t], x, r)
         /\ First(todo[t], "release") = IF x.op = "release" THEN x.at ELSE "empty"
         /\ First(todo[t], "delete") = IF x.op = "delete" THEN x.at ELSE "empty"
<1>1. todo[t] \in Seq(Steps) /\ todo[t] # << >> /\ Ordered(t, todo[t]) /\ FreesOnce(todo[t])
  BY DEF IInv, Types, AllOrdered, Idle, Begins
<1>2. x \in Steps /\ r \in Seq(Steps) /\ Follows(todo[t], x, r) /\ todo[t][1] = x
  BY <1>1, TailFollows DEF Begins
<1>3. AfterFirst(t, todo[t], x, r)
  BY <1>1, <1>2, Popped
<1>4. PlacesFollow(todo[t], x, r)
  BY <1>2, FollowingPlaces
<1>5. Plain(t, r) /\ FreesOnce(r)
  BY <1>1, <1>3 DEF AfterFirst
<1> QED
  BY <1>1, <1>2, <1>3, <1>4, <1>5 DEF First

\* In a swap, the next assignment is between Functions of the thread.
LEMMA NextCopy ==
  ASSUME IInv, NEW t \in Thread, NEW x, NEW r, Begins(t, x, r), x.op = "copy",
         NEW w, w = SwapOf(todo[t])
  PROVE  /\ Swapping(r) /\ SwapOf(r) = w /\ Copies(todo[t]) = Copies(r) + 1
         /\ \/ Copies(todo[t]) = 1 /\ x.at = w.this /\ x.from = t
            \/ Copies(todo[t]) = 2 /\ x.at = w.other /\ x.from = w.this
         /\ Progress(t, Copies(todo[t]), w)
         /\ w.this \in Var /\ w.other \in Var /\ w.this # t /\ w.other # t
         /\ Places(todo[t], "clear") = {} /\ Places(r, "clear") = {}
         /\ x.at \in Location /\ Private(t, x.at)
         /\ x.from \in Location /\ Private(t, x.from) /\ ~Cleared(x.from)
<1>1. AfterFirst(t, todo[t], x, r) /\ PlacesFollow(todo[t], x, r)
  BY FirstStep
<1>2. /\ Swapping(todo[t]) /\ Swapping(r) /\ SwapOf(todo[t]) = SwapOf(r) /\ Copies(todo[t]) = Copies(r) + 1
      /\ \/ Copies(todo[t]) = 1 /\ x.at = SwapOf(todo[t]).this /\ x.from = t
         \/ Copies(todo[t]) = 2 /\ x.at = SwapOf(todo[t]).other /\ x.from = SwapOf(todo[t]).this
  <2>1. CopiesNext(t, todo[t], x, r)
    BY <1>1 DEF AfterFirst
  <2> QED
    BY <2>1 DEF CopiesNext, SwapOf
<1>3. Progress(t, Copies(todo[t]), w) /\ w \in SwapNotes
  BY <1>2, PlacesTypes DEF IInv, SwapsProceed, Types
<1>4. /\ w.this \in Var /\ w.other \in Var /\ owner[w.this] = t /\ owner[w.other] = t
      /\ w.this # t /\ w.other # t
  BY <1>3, Disjoint DEF Progress, SwapNotes
<1>5. Places(todo[t], "clear") = {} /\ Places(r, "clear") = {}
  <2>1. Places(todo[t], "clear") = Places(r, "clear")
    BY <1>1 DEF PlacesFollow
  <2>2. ASSUME NEW i \in DOMAIN todo[t], todo[t][i].op = "clear" PROVE FALSE
    BY <1>2, <2>2 DEF IInv, AllOrdered, Ordered, Swapping
  <2> QED
    BY <2>1, <2>2 DEF Places
<1>6. Private(t, x.at) /\ Private(t, x.from)
  BY <1>2, <1>4 DEF Private
<1>7. x.at \in Location /\ x.from \in Location /\ ~Cleared(x.from)
  BY <1>5, <1>6, NotCleared
<1> QED
  BY <1>2, <1>3, <1>4, <1>5, <1>6, <1>7

LEMMA ProceedCopy ==
  ASSUME IInv, NEW t \in Thread, NEW x, NEW r, Begins(t, x, r),
         x.op = "copy", Assign(t, x.at, x.from, r)
  PROVE  IInv'
<1>w. PICK w : w = SwapOf(todo[t])
  OBVIOUS
<1>1. /\ x \in Steps /\ r \in Seq(Steps) /\ Plain(t, r) /\ FreesOnce(r)
      /\ AfterFirst(t, todo[t], x, r) /\ PlacesFollow(todo[t], x, r)
      /\ First(todo[t], "release") = "empty" /\ First(todo[t], "delete") = "empty"
  BY FirstStep
<1>2. /\ Swapping(r) /\ SwapOf(r) = w /\ Copies(todo[t]) = Copies(r) + 1
      /\ \/ Copies(todo[t]) = 1 /\ x.at = w.this /\ x.from = t
         \/ Copies(todo[t]) = 2 /\ x.at = w.other /\ x.from = w.this
  BY <1>w, NextCopy
<1>3. Progress(t, Copies(todo[t]), w)
  BY <1>w, NextCopy
<1>4. /\ w.this \in Var /\ w.other \in Var /\ owner[w.this] = t /\ owner[w.other] = t
      /\ w.this # t /\ w.other # t
  BY <1>w, <1>3, NextCopy DEF Progress
<1>5. Places(todo[t], "clear") = {} /\ Places(r, "clear") = {}
  BY <1>w, NextCopy
<1>6. /\ Private(t, x.at) /\ x.from \in Location /\ Private(t, x.from) /\ ~Cleared(x.from)
      /\ x.at \in Location
  BY <1>w, NextCopy
<1>7. Places(r, "free") \subseteq Places(todo[t], "free")
  BY <1>1 DEF PlacesFollow
<1>8. ASSUME NEW n, n = Copies(r), NEW u, u = w PROVE Progress(t, n, u)'
  <2>1. fn' = [fn EXCEPT ![x.at] = fn[x.from]] /\ owner' = owner
    BY DEF Assign, copyObject
  <2>2. /\ fn'[x.at] = fn[x.from] /\ \A l \in Location : l # x.at => fn'[l] = fn[l]
        /\ t \in Location /\ w.this \in Location /\ w.other \in Location
    BY <1>4, <1>6, <2>1 DEF IInv, Types, Location
  <2>3. /\ w.this = w.other => w.ours = w.theirs
        /\ Copies(todo[t]) = 2 => fn[t] = w.theirs /\ fn[w.this] = w.ours
        /\ Copies(todo[t]) = 1 => fn[t] = w.theirs /\ fn[w.other] = w.ours
    BY <1>3 DEF Progress
  <2>4. CASE Copies(todo[t]) = 1 /\ x.at = w.this /\ x.from = t
    <3>1. n = 0 /\ n # 1 /\ n # 2
      BY <1>2, <1>8, <2>4 DEF Copies
    <3>2. fn'[w.this] = w.theirs /\ fn'[w.other] = w.ours
      BY <2>2, <2>3, <2>4
    <3> QED
      BY <1>4, <1>8, <2>1, <2>3, <3>1, <3>2 DEF Progress
  <2>5. CASE Copies(todo[t]) = 2 /\ x.at = w.other /\ x.from = w.this
    <3>1. n = 1 /\ n # 0 /\ n # 2
      BY <1>2, <1>8, <2>5 DEF Copies
    <3>2. fn'[t] = w.theirs /\ fn'[w.other] = w.ours
      BY <1>4, <2>2, <2>3, <2>5
    <3> QED
      BY <1>4, <1>8, <2>1, <2>3, <3>1, <3>2 DEF Progress
  <2> QED
    BY <1>2, <2>4, <2>5
<1>9. \A n, u : Swapping(r) /\ n = Copies(r) /\ u = SwapOf(r) => Progress(t, n, u)'
  BY <1>2, <1>8
<1> QED
  BY <1>1, <1>5, <1>6, <1>7, <1>9, Copied

LEMMA SwapStep ==
  ASSUME IInv, NEW t \in Thread, NEW v \in Var, NEW other \in Var, swap(t, v, other)
  PROVE  IInv'
<1>p. PICK w, r : /\ w = [this |-> v, other |-> other, ours |-> fn[v], theirs |-> fn[other]]
                  /\ r = <<Copying(other, v), Copying(v, t), DestructTmp(t, v, other)>>
  OBVIOUS
<1>1. /\ Idle(t) /\ todo[t] = << >> /\ owner[v] = t /\ owner[other] = t
      /\ Assign(t, t, other, r) /\ Types
  BY <1>p DEF swap, Idle, Alive, Owned, IInv
<1>2. Private(t, t) /\ Private(t, other) /\ other \in Location /\ ~Cleared(other) /\ v \in Location /\ t \in Location
      /\ v # t /\ other # t
  <2>1. Private(t, t) /\ Private(t, other) /\ Private(t, v) /\ v # t /\ other # t
    BY <1>1, Disjoint DEF Private
  <2> QED
    BY <1>1, <2>1, IdleFacts, NotCleared
<1>3. /\ Copying(other, v) \in Steps /\ Copying(v, t) \in Steps /\ DestructTmp(t, v, other) \in Steps
      /\ w \in SwapNotes
  <2>1. fn[v] \in Targets /\ fn[other] \in Targets
    BY <1>1, <1>2 DEF Types
  <2> QED
    BY <1>p, <2>1 DEF Steps, Copying, DestructTmp, SwapNotes
<1>4. /\ r \in Seq(Steps) /\ Len(r) = 3 /\ DOMAIN r = 1..3 /\ r # << >>
      /\ r[1] = Copying(other, v) /\ r[2] = Copying(v, t) /\ r[3] = DestructTmp(t, v, other)
  BY <1>p, <1>3
<1>5. /\ r[1].op = "copy" /\ r[1].at = other /\ r[1].from = v
      /\ r[2].op = "copy" /\ r[2].at = v /\ r[2].from = t
      /\ r[3].op = "destruct" /\ r[3].at = t /\ r[3].swapped = w
  BY <1>p, <1>4 DEF Copying, DestructTmp
<1>w. w.this = v /\ w.other = other /\ w.ours = fn[v] /\ w.theirs = fn[other]
  BY <1>p
<1>6. \A i \in DOMAIN r : i = 1 \/ i = 2 \/ i = 3
  BY <1>4
<1>7. Plain(t, r)
  <2>1. \A i \in DOMAIN r : r[i].op \notin {"release", "delete"}
    BY <1>5, <1>6
  <2>2. Ordered(t, r)
    <3>1. 3 - 1 = 2 /\ 3 - 2 = 1 /\ 1 + 1 = 2 /\ 1 < 3 /\ 2 < 3
      OBVIOUS
    <3> QED
      BY <1>4, <1>5, <1>6, <1>w, <3>1 DEF Ordered
  <2> QED
    BY <2>1, <2>2 DEF Plain
<1>8. FreesOnce(r) /\ Places(r, "clear") = {} /\ Places(r, "free") = {}
  BY <1>5, <1>6 DEF FreesOnce, Places
<1>9. Copies(r) = 2 /\ SwapOf(r) = w
  BY <1>4, <1>5 DEF Copies, SwapOf
<1>10. ASSUME NEW n, n = 2, NEW u, u = w PROVE Progress(t, n, u)'
  <2>1. fn' = [fn EXCEPT ![t] = fn[other]] /\ owner' = owner
    BY <1>1 DEF Assign, copyObject
  <2>2. fn'[t] = fn[other] /\ fn'[v] = fn[v]
    BY <1>1, <1>2, <2>1 DEF Types
  <2> QED
    BY <1>1, <1>w, <1>10, <2>1, <2>2 DEF Progress
<1>11. \A n, u : Swapping(r) /\ n = Copies(r) /\ u = SwapOf(r) => Progress(t, n, u)'
  BY <1>9, <1>10
<1> QED
  BY <1>1, <1>2, <1>4, <1>7, <1>8, <1>11, IdleFacts, Copied

-----------------------------------------------------------------------------
(* Giving up an object: its release, deletion and the end of its memory *)

\* s is the deletion of o, and then r.
Deletes(o, s, r) ==
  /\ s \in Seq(Steps) /\ FreesOnce(s) /\ Alike(s, r)
  /\ Places(s, "free") = Places(r, "free")
  /\ First(s, "release") = "empty" /\ First(s, "delete") = o

LEMMA DeletionFirst ==
  ASSUME NEW t, NEW o \in Obj, NEW r \in Seq(Steps), Plain(t, r), FreesOnce(r),
         NEW s, s = <<Step("delete", o)>> \o r
  PROVE  Ordered(t, s) /\ Deletes(o, s, r)
<1> DEFINE x == Step("delete", o)
<1>1. s = <<x>> \o r /\ x.op = "delete" /\ x.at = o /\ x \in Steps
  BY DEF Steps, Step
<1> HIDE DEF x
<1>2. s \in Seq(Steps) /\ Follows(s, x, r)
  BY <1>1, ConsFollows
<1>3. Ordered(t, s) /\ Alike(s, r) /\ FreesOnce(s)
  BY <1>1, <1>2, Pushed
<1>4. Places(s, "free") = Places(r, "free")
  <2>1. PlacesFollow(s, x, r)
    BY <1>2, FollowingPlaces
  <2> QED
    BY <1>1, <2>1 DEF PlacesFollow
<1>5. s # << >> /\ s[1] = x
  BY <1>2 DEF Follows
<1> QED
  BY <1>1, <1>2, <1>3, <1>4, <1>5 DEF First, Deletes

LEMMA AlikeTransitive ==
  ASSUME NEW s, NEW q, NEW r, Alike(s, q), Alike(q, r)
  PROVE  Alike(s, r)
  BY DEF Alike

\* What remains to be shown of these steps
LEMMA FreeingStep ==
  ASSUME IInv, NEW t \in Thread, NEW r, Alike(todo[t], r), NEW s, Continues(t, s), Alike(s, r),
         Ordered(t, s), FreesOnce(s), owner' = owner, \A l \in Location \ Obj : fn'[l] = fn[l],
         \A w \in Var : Val[w] \in Obj /\ refCount[Val[w]] = 1 => refCount'[Val[w]] = 1,
         Types', Counted', \A o \in Obj : Lives(o)'
  PROVE  IInv'
<1>1. Types /\ Places(s, "clear") = Places(todo[t], "clear")
  BY DEF IInv, Alike
<1>2. Confined(t, s)
  <2>1. \A l \in Places(s, "clear") : l \in Var => owner[l] = t
    <3>1. \A l \in Places(s, "clear") : Source(t, l)
      BY <1>1 DEF IInv, SourcesLive
    <3> QED
      BY <3>1, Disjoint DEF Source
  <2> QED
    BY <2>1 DEF Confined
<1>3. SoleOwnersKept(t)
  BY DEF SoleOwnersKept
<1>4. ASSUME NEW l \in Places(s, "clear") PROVE Source(t, l)'
  <2>1. Source(t, l)
    BY <1>1 DEF IInv, SourcesLive
  <2>2. CASE l \in Var /\ owner[l] = t /\ fn[l] # "dead"
    <3>1. fn'[l] = fn[l]
      BY <2>2, Disjoint DEF Location
    <3> QED
      BY <2>2, <3>1 DEF Source
  <2>3. CASE l \in Obj /\ refCount[l] = 1 /\ \E w \in Var : owner[w] = t /\ Val[w] = l
    <3>1. PICK w \in Var : owner[w] = t /\ Val[w] = l
      BY <2>3
    <3>2. w \in Location /\ fn'[w] = fn[w]
      BY Disjoint DEF Location
    <3>3. Cleared(w)' <=> Cleared(w)
      BY <1>1, ClearedAfter
    <3>4. Val'[w] = Val[w]
      BY <1>1, <3>2, <3>3, ValRel, ValRelAfter
    <3> QED
      BY <2>3, <3>1, <3>4 DEF Source
  <2> QED
    BY <2>1, <2>2, <2>3 DEF Source
<1>5. ASSUME NEW n, NEW w, Swapping(s), n = Copies(s), w = SwapOf(s) PROVE Progress(t, n, w)'
  <2>1. Swapping(todo[t]) /\ n = Copies(todo[t]) /\ w = SwapOf(todo[t])
    BY <1>5 DEF Alike, SwapOf
  <2>2. Progress(t, n, w) /\ w \in SwapNotes
    BY <1>1, <2>1, PlacesTypes DEF IInv, SwapsProceed, Types
  <2>3. fn'[w.this] = fn[w.this] /\ fn'[w.other] = fn[w.other] /\ fn'[t] = fn[t]
    BY <2>2, Disjoint DEF SwapNotes, Location
  <2> QED
    BY <2>2, <2>3 DEF Progress
<1> QED
  BY <1>2, <1>3, <1>4, <1>5, Settled

\* What is alike has the same Functions cleared.
LEMMA AlikeCleared ==
  ASSUME IInv, NEW t \in Thread, NEW r, Alike(todo[t], r), NEW s, Continues(t, s), Alike(s, r), NEW l
  PROVE  Cleared(l)' <=> Cleared(l)
<1>1. Types /\ Places(s, "clear") = Places(todo[t], "clear")
  BY DEF IInv, Alike
<1> QED
  BY <1>1, ClearedAfter

LEMMA ProceedRelease ==
  ASSUME IInv, NEW t \in Thread, NEW x, NEW r, Begins(t, x, r),
         x.op = "release", NEW o, o = x.at, Release(t, o, r)
  PROVE  IInv'
<1>1. /\ x \in Steps /\ r \in Seq(Steps) /\ Plain(t, r) /\ FreesOnce(r) /\ FreesOnce(todo[t])
      /\ AfterFirst(t, todo[t], x, r) /\ PlacesFollow(todo[t], x, r)
      /\ First(todo[t], "release") = o /\ First(todo[t], "delete") = "empty" /\ o \in Obj
  BY FirstStep, StepTypes
<1>2. Types /\ Rel[t] = o
  BY <1>1, ValRel DEF IInv
<1>3. refCount[o] \in Nat /\ refCount[o] >= 1 /\ block[o] = "valid" /\ fn[o] # "dead"
      /\ \A u \in Thread : First(todo[u], "delete") # o
  BY <1>1, <1>2, OwnedLives
<1>4. Alike(todo[t], r) /\ Places(todo[t], "free") = Places(r, "free")
  BY <1>1 DEF AfterFirst, PlacesFollow
<1>s. PICK s : s = IF refCount[o] > 1 THEN r ELSE <<Step("delete", o)>> \o r
  OBVIOUS
<1>5. /\ s \in Seq(Steps) /\ Ordered(t, s) /\ FreesOnce(s) /\ Alike(s, r)
      /\ Places(s, "free") = Places(r, "free") /\ First(s, "release") = "empty"
      /\ First(s, "delete") = IF refCount[o] = 1 THEN o ELSE "empty"
  <2>1. CASE refCount[o] > 1
    <3>1. s = r /\ refCount[o] # 1
      BY <1>s, <2>1
    <3>2. Alike(r, r) /\ First(r, "release") = "empty" /\ First(r, "delete") = "empty" /\ Ordered(t, r)
      BY <1>1, AlikeItself, PlainFirst
    <3> QED
      BY <1>1, <3>1, <3>2
  <2>2. CASE refCount[o] = 1
    <3>1. s = <<Step("delete", o)>> \o r
      BY <1>s, <2>2
    <3>2. Ordered(t, s) /\ Deletes(o, s, r)
      BY <1>1, <3>1, DeletionFirst
    <3> QED
      BY <2>2, <3>2 DEF Deletes
  <2> QED
    BY <1>3, <2>1, <2>2
<1>6. /\ refCount' = [refCount EXCEPT ![o] = @ - 1] /\ todo' = [todo EXCEPT ![t] = s]
      /\ fn' = fn /\ block' = block /\ owner' = owner
  BY <1>s DEF Release
<1>7. Continues(t, s)
  BY <1>2, <1>5, <1>6 DEF Continues, Types
<1>8. /\ refCount' \in [Obj -> Nat]
      /\ \A p \in Obj : refCount'[p] = refCount[p] - (IF p = o THEN 1 ELSE 0)
  <2>1. refCount[o] - 1 \in Nat /\ refCount \in [Obj -> Nat]
    BY <1>2, <1>3 DEF Types
  <2>2. /\ refCount' \in [Obj -> Nat] /\ refCount'[o] = refCount[o] - 1
        /\ \A p \in Obj \ {o} : refCount'[p] = refCount[p]
    BY <1>1, <1>6, <2>1
  <2> QED
    BY <2>1, <2>2
<1>9. Types'
  BY <1>2, <1>6, <1>7, <1>8 DEF Types, Continues
<1>10. \A l \in Location : Val'[l] = Val[l]
  BY <1>2, <1>4, <1>5, <1>6, <1>7, AlikeCleared, ValRel, ValRelAfter
<1>11. Counted'
  <2> SUFFICES ASSUME NEW p \in Obj PROVE refCount'[p] = Count(Val', p) + Count(Rel', p)
    BY DEF Counted
  <2>1. Count(Val', p) = Count(Val, p)
    <3>1. DOMAIN Val' = DOMAIN Val /\ \A l \in DOMAIN Val : Val'[l] = Val[l]
      BY <1>2, <1>7, <1>10, ValRel, ValRelAfter
    <3> QED
      BY <3>1 DEF Count
  <2>2. Count(Rel', p) = (Count(Rel, p) + (IF First(s, "release") = p THEN 1 ELSE 0))
                         - (IF Rel[t] = p THEN 1 ELSE 0)
    BY <1>2, <1>7, ValRel, ValRelAfter, CountUpdate
  <2>3. First(s, "release") # p /\ (Rel[t] = p <=> p = o)
    BY <1>2, <1>5, Disjoint
  <2>4. Count(Val, p) \in Nat /\ Count(Rel, p) \in Nat /\ refCount[p] = Count(Val, p) + Count(Rel, p)
    BY <1>2, ValRel, CountIsNat DEF IInv, Counted
  <2> QED
    BY <1>8, <2>1, <2>2, <2>3, <2>4
<1>12. ASSUME NEW p \in Obj PROVE Lives(p)'
  <2>1. Lives(p) /\ todo'[t] = s /\ \A u \in Thread \ {t} : todo'[u] = todo[u]
    BY <1>7 DEF IInv, Continues
  <2>2. CASE p = o
    <3>1. refCount'[o] = 0 <=> First(s, "delete") = o
      BY <1>1, <1>3, <1>5, <1>8, Disjoint
    <3>2. \A u \in Thread : First(todo'[u], "delete") = o => u = t /\ refCount'[o] = 0
      BY <1>3, <2>1, <3>1
    <3>3. \A u \in Thread : o \notin Places(todo'[u], "free")
      BY <1>3, <1>4, <1>5, <2>1, <2>2 DEF Lives
    <3> QED
      BY <1>3, <1>6, <2>1, <2>2, <3>1, <3>2, <3>3 DEF Lives
  <2>3. CASE p # o
    <3>1. \A u \in Thread : First(todo'[u], "delete") = p <=> First(todo[u], "delete") = p
      BY <1>1, <1>5, <2>1, <2>3, Disjoint
    <3>2. \A u \in Thread : Places(todo'[u], "free") = Places(todo[u], "free")
      BY <1>4, <1>5, <2>1
    <3>3. refCount'[p] = refCount[p]
      BY <1>2, <1>8, <2>3 DEF Types
    <3> QED
      BY <1>6, <2>1, <3>1, <3>2, <3>3 DEF Lives
  <2> QED
    BY <2>2, <2>3
<1>13. ASSUME NEW w \in Var, Val[w] \in Obj, refCount[Val[w]] = 1 PROVE refCount'[Val[w]] = 1
  <2>1. w \in Location
    BY DEF Location
  <2>2. Val[w] # o
    BY <1>2, <1>13, <2>1, SoleOwner
  <2> QED
    BY <1>8, <1>13, <2>2
<1> QED
  BY <1>4, <1>5, <1>6, <1>7, <1>9, <1>11, <1>12, <1>13, FreeingStep

\* the first step of a call, if it deletes an object or frees its memory
LEMMA Unowned ==
  ASSUME IInv, NEW t \in Thread, NEW o \in Obj,
         First(todo[t], "delete") = o \/ o \in Places(todo[t], "free")
  PROVE  /\ refCount[o] = 0 /\ ~Cleared(o) /\ Val[o] = fn[o] /\ o \in Location
         /\ \A l \in Location : Val[l] # o
         /\ \A u \in Thread : Rel[u] # o
<1>1. Types /\ Lives(o) /\ refCount[o] = 0 /\ o \in Location
  BY DEF IInv, Lives, Location
<1>2. (\A l \in Location : Val[l] # o) /\ \A u \in Thread : Rel[u] # o
  BY <1>1, OwnedLives
<1>3. ASSUME Cleared(o) PROVE FALSE
  <2>1. PICK u \in Thread : o \in Places(todo[u], "clear")
    BY <1>3 DEF Cleared
  <2>2. Source(u, o)
    BY <2>1 DEF IInv, SourcesLive
  <2> QED
    BY <1>1, <2>2, Disjoint DEF Source
<1> QED
  BY <1>1, <1>2, <1>3, ValRel

LEMMA ProceedDelete ==
  ASSUME IInv, NEW t \in Thread, NEW x, NEW r, Begins(t, x, r),
         x.op = "delete", NEW o, o = x.at, Delete(t, o, r)
  PROVE  IInv'
<1>1. /\ x \in Steps /\ r \in Seq(Steps) /\ Plain(t, r) /\ FreesOnce(r) /\ FreesOnce(todo[t])
      /\ AfterFirst(t, todo[t], x, r) /\ PlacesFollow(todo[t], x, r)
      /\ First(todo[t], "release") = "empty" /\ First(todo[t], "delete") = o /\ o \in Obj
  BY FirstStep, StepTypes
<1>2. /\ Types /\ Rel[t] = "empty" /\ refCount[o] = 0 /\ ~Cleared(o) /\ Val[o] = fn[o] /\ o \in Location
      /\ \A l \in Location : Val[l] # o
  BY <1>1, Unowned, ValRel DEF IInv
<1>3. /\ Lives(o) /\ block[o] = "valid" /\ \A u \in Thread : First(todo[u], "delete") = o => u = t
  BY <1>1 DEF IInv, Lives
<1>4. Alike(todo[t], r) /\ Places(todo[t], "free") = Places(r, "free")
  BY <1>1 DEF AfterFirst, PlacesFollow
<1>5. \A u \in Thread : o \notin Places(todo[u], "free")
  BY <1>3 DEF Lives
<1>s. PICK y, q, s : y = Step("free", o) /\ q = <<y>> \o r /\ s = FreeOld(o) \o q
  OBVIOUS
<1>6. /\ q \in Seq(Steps) /\ Plain(t, q) /\ FreesOnce(q) /\ Alike(q, r)
      /\ Places(q, "free") = Places(r, "free") \cup {o}
  <2>1. y \in Steps /\ y.op = "free" /\ y.at = o
    BY <1>1, <1>s DEF Step, Steps
  <2>2. q \in Seq(Steps) /\ Follows(q, y, r)
    BY <1>1, <1>s, <2>1, ConsFollows
  <2>3. o \notin Places(r, "free")
    BY <1>4, <1>5
  <2>4. Plain(t, q) /\ FreesOnce(q) /\ Alike(q, r)
    BY <1>1, <2>1, <2>2, <2>3, Pushed
  <2>5. Places(q, "free") = Places(r, "free") \cup {o}
    BY <2>1, <2>2, FollowingPlaces DEF PlacesFollow
  <2> QED
    BY <2>1, <2>2, <2>4, <2>5
<1>7. /\ s \in Seq(Steps) /\ Ordered(t, s) /\ FreesOnce(s) /\ Alike(s, r)
      /\ Places(s, "free") = Places(r, "free") \cup {o} /\ First(s, "delete") = "empty"
      /\ First(s, "release") = IF fn[o] \in Obj THEN fn[o] ELSE "empty"
  <2>1. Ordered(t, s) /\ Releases(fn[o], s, q)
    BY <1>2, <1>6, <1>s, OldReleased
  <2>2. Alike(s, r)
    BY <1>6, <2>1, AlikeTransitive DEF Releases
  <2> QED
    BY <1>6, <2>1, <2>2 DEF Releases
<1>8. /\ fn' = [fn EXCEPT ![o] = "dead"] /\ block' = [block EXCEPT ![o] = "deleted"]
      /\ todo' = [todo EXCEPT ![t] = s] /\ refCount' = refCount /\ owner' = owner
  <2>1. s = FreeOld(o) \o <<Step("free", o)>> \o r
    <3>1. y \in Steps /\ <<y>> \in Seq(Steps)
      BY <1>1, <1>s DEF Step, Steps
    <3>2. FreeOld(o) \in Seq(Steps)
      <4>1. fn[o] \in Obj => Step("release", fn[o]) \in Steps
        BY DEF Step, Steps
      <4> QED
        BY <4>1 DEF FreeOld
    <3>3. (FreeOld(o) \o <<y>>) \o r = FreeOld(o) \o (<<y>> \o r)
      <4>1. ASSUME NEW a \in Seq(Steps), NEW b \in Seq(Steps), NEW c \in Seq(Steps)
            PROVE  (a \o b) \o c = a \o (b \o c)
        OBVIOUS
      <4> QED
        BY <1>1, <3>1, <3>2, <4>1
    <3> QED
      BY <1>s, <3>3
  <2> QED
    BY <2>1 DEF Delete
<1>9. Continues(t, s)
  BY <1>2, <1>7, <1>8 DEF Continues, Types
<1>10. /\ fn' \in [Location -> Targets] /\ block' \in [Obj -> {"free", "valid", "deleted"}]
       /\ fn'[o] = "dead" /\ \A l \in Location \ {o} : fn'[l] = fn[l]
       /\ block'[o] = "deleted" /\ \A p \in Obj \ {o} : block'[p] = block[p]
  BY <1>1, <1>2, <1>8 DEF Types, Targets
<1>11. Types'
  BY <1>2, <1>8, <1>9, <1>10 DEF Types, Continues
<1>12. Updated(Val, o, "dead", Val')
  <2>1. \A l : Cleared(l)' <=> Cleared(l)
    BY <1>4, <1>7, <1>9, AlikeCleared
  <2> QED
    BY <1>2, <1>9, <1>10, <2>1, ValRel, ValRelAfter DEF Updated
<1>13. Counted'
  <2> SUFFICES ASSUME NEW p \in Obj PROVE refCount'[p] = Count(Val', p) + Count(Rel', p)
    BY DEF Counted
  <2>1. Count(Val', p) = (Count(Val, p) + (IF "dead" = p THEN 1 ELSE 0)) - (IF Val[o] = p THEN 1 ELSE 0)
    BY <1>2, <1>12, ValRel, CountUpdate
  <2>2. Count(Rel', p) = (Count(Rel, p) + (IF First(s, "release") = p THEN 1 ELSE 0))
                         - (IF Rel[t] = p THEN 1 ELSE 0)
    BY <1>2, <1>9, ValRel, ValRelAfter, CountUpdate
  <2>3. (First(s, "release") = p <=> fn[o] = p) /\ Rel[t] # p /\ "dead" # p
    BY <1>2, <1>7, Disjoint
  <2>4. Count(Val, p) \in Nat /\ Count(Rel, p) \in Nat /\ refCount[p] = Count(Val, p) + Count(Rel, p)
    BY <1>2, ValRel, CountIsNat DEF IInv, Counted
  <2> QED
    BY <1>2, <1>8, <2>1, <2>2, <2>3, <2>4
<1>14. ASSUME NEW p \in Obj PROVE Lives(p)'
  <2>1. Lives(p) /\ todo'[t] = s /\ \A u \in Thread \ {t} : todo'[u] = todo[u]
    BY <1>9 DEF IInv, Continues
  <2>2. CASE p = o
    <3>1. \A u \in Thread : First(todo'[u], "delete") # o
      BY <1>1, <1>3, <1>7, <2>1, Disjoint
    <3>2. \A u \in Thread : o \in Places(todo'[u], "free") => u = t
      BY <1>5, <2>1
    <3> QED
      BY <1>2, <1>8, <1>10, <2>2, <3>1, <3>2 DEF Lives
  <2>3. CASE p # o
    <3>1. \A u \in Thread : First(todo'[u], "delete") = p <=> First(todo[u], "delete") = p
      BY <1>1, <1>7, <2>1, <2>3, Disjoint
    <3>2. \A u \in Thread : p \in Places(todo'[u], "free") <=> p \in Places(todo[u], "free")
      BY <1>4, <1>7, <2>1, <2>3
    <3>3. fn'[p] = fn[p] /\ block'[p] = block[p]
      BY <1>10, <2>3 DEF Location
    <3> QED
      BY <1>8, <2>1, <3>1, <3>2, <3>3 DEF Lives
  <2> QED
    BY <2>2, <2>3
<1>15. \A l \in Location \ Obj : fn'[l] = fn[l]
  BY <1>1, <1>10
<1> QED
  BY <1>4, <1>7, <1>8, <1>9, <1>11, <1>13, <1>14, <1>15, FreeingStep

LEMMA ProceedFree ==
  ASSUME IInv, NEW t \in Thread, NEW x, NEW r, Begins(t, x, r),
         x.op = "free", NEW o, o = x.at, Free(t, o, r)
  PROVE  IInv'
<1>1. /\ x \in Steps /\ r \in Seq(Steps) /\ Plain(t, r) /\ FreesOnce(r) /\ FreesOnce(todo[t])
      /\ AfterFirst(t, todo[t], x, r) /\ PlacesFollow(todo[t], x, r)
      /\ First(todo[t], "release") = "empty" /\ First(todo[t], "delete") = "empty" /\ o \in Obj
  BY FirstStep, StepTypes
<1>2. Types /\ Rel[t] = "empty"
  BY <1>1, ValRel DEF IInv
<1>3. /\ Alike(todo[t], r) /\ Places(todo[t], "free") = Places(r, "free") \cup {o}
      /\ o \notin Places(r, "free")
  BY <1>1 DEF AfterFirst, PlacesFollow
<1>4. /\ Lives(o) /\ block[o] = "deleted" /\ \A u \in Thread : o \in Places(todo[u], "free") => u = t
  BY <1>1, <1>3 DEF IInv, Lives
<1>5. /\ First(r, "release") = "empty" /\ First(r, "delete") = "empty" /\ Ordered(t, r) /\ Alike(r, r)
  BY <1>1, PlainFirst, AlikeItself
<1>6. /\ block' = [block EXCEPT ![o] = "free"] /\ todo' = [todo EXCEPT ![t] = r]
      /\ fn' = fn /\ refCount' = refCount /\ owner' = owner
  BY DEF Free
<1>7. Continues(t, r)
  BY <1>1, <1>2, <1>6 DEF Continues, Types
<1>8. /\ block' \in [Obj -> {"free", "valid", "deleted"}]
      /\ block'[o] = "free" /\ \A p \in Obj \ {o} : block'[p] = block[p]
  BY <1>1, <1>2, <1>6 DEF Types
<1>9. Types'
  BY <1>2, <1>6, <1>7, <1>8 DEF Types, Continues
<1>10. \A l \in Location : Val'[l] = Val[l]
  BY <1>2, <1>3, <1>5, <1>6, <1>7, AlikeCleared, ValRel, ValRelAfter
<1>11. \A u \in Thread : Rel'[u] = Rel[u]
  BY <1>2, <1>5, <1>7, ValRel, ValRelAfter DEF Updated
<1>12. Counted'
  <2>1. /\ DOMAIN Val' = DOMAIN Val /\ \A l \in DOMAIN Val : Val'[l] = Val[l]
        /\ DOMAIN Rel' = DOMAIN Rel /\ \A u \in DOMAIN Rel : Rel'[u] = Rel[u]
    BY <1>2, <1>7, <1>10, <1>11, ValRel, ValRelAfter
  <2>2. \A p : Count(Val', p) = Count(Val, p) /\ Count(Rel', p) = Count(Rel, p)
    BY <2>1 DEF Count
  <2> QED
    BY <1>6, <2>2 DEF IInv, Counted
<1>13. ASSUME NEW p \in Obj PROVE Lives(p)'
  <2>1. Lives(p) /\ todo'[t] = r /\ \A u \in Thread \ {t} : todo'[u] = todo[u]
    BY <1>7 DEF IInv, Continues
  <2>2. \A u \in Thread : First(todo'[u], "delete") = First(todo[u], "delete")
    BY <1>1, <1>5, <2>1
  <2>3. CASE p = o
    <3>1. \A u \in Thread : o \notin Places(todo'[u], "free")
      BY <1>3, <1>4, <2>1
    <3>2. block[o] # "valid" /\ fn[o] = "dead" /\ refCount[o] = 0 /\ block'[o] # "valid"
      BY <1>4, <1>8 DEF Lives
    <3>3. \A u \in Thread : First(todo[u], "delete") # o
      BY <1>4 DEF Lives
    <3> QED
      BY <1>6, <2>2, <2>3, <3>1, <3>2, <3>3 DEF Lives
  <2>4. CASE p # o
    <3>1. \A u \in Thread : p \in Places(todo'[u], "free") <=> p \in Places(todo[u], "free")
      BY <1>3, <2>1, <2>4
    <3>2. block'[p] = block[p]
      BY <1>8, <2>4
    <3> QED
      BY <1>6, <2>1, <2>2, <3>1, <3>2 DEF Lives
  <2> QED
    BY <2>3, <2>4
<1> QED
  BY <1>1, <1>3, <1>5, <1>6, <1>7, <1>9, <1>12, <1>13, FreeingStep

-----------------------------------------------------------------------------
(* The end of a move, and destruction *)

LEMMA ProceedClear ==
  ASSUME IInv, NEW t \in Thread, NEW x, NEW r, Begins(t, x, r),
         x.op = "clear", NEW l, l = x.at, Clear(t, l, r)
  PROVE  IInv'
<1>1. /\ x \in Steps /\ r \in Seq(Steps) /\ Plain(t, r) /\ FreesOnce(r) /\ FreesOnce(todo[t])
      /\ AfterFirst(t, todo[t], x, r) /\ PlacesFollow(todo[t], x, r)
      /\ First(todo[t], "release") = "empty" /\ First(todo[t], "delete") = "empty" /\ l \in Var \cup Obj
  BY FirstStep, StepTypes
<1>2. Types /\ Rel[t] = "empty" /\ l \in Location
  BY <1>1, ValRel DEF IInv, Location
<1>3. r = << >>
  BY <1>1 DEF AfterFirst
<1>4. Places(r, "clear") = {} /\ Places(r, "free") = {} /\ ~Swapping(r) /\ First(r, "release") = "empty"
      /\ First(r, "delete") = "empty"
  BY <1>3, IdleFacts
<1>5. Places(todo[t], "clear") = {l}
  BY <1>1, <1>4 DEF PlacesFollow
<1>6. Source(t, l) /\ Cleared(l) /\ Val[l] = "empty"
  BY <1>2, <1>5, ValRel DEF IInv, SourcesLive, Cleared
<1>7. (l \in Var /\ owner[l] = t) \/ (l \in Obj /\ fn[l] # "dead")
  <2>1. CASE l \in Obj
    <3>1. PICK w \in Var : Val[w] = l
      BY <1>6, <2>1, Disjoint DEF Source
    <3> QED
      BY <2>1, <3>1, OwnedLives DEF Location
  <2> QED
    BY <1>6, <2>1 DEF Source
<1>8. /\ fn' = [fn EXCEPT ![l] = "empty"] /\ todo' = [todo EXCEPT ![t] = r]
      /\ refCount' = refCount /\ block' = block /\ owner' = owner
  BY DEF Clear
<1>9. Continues(t, r)
  BY <1>1, <1>2, <1>8 DEF Continues, Types
<1>10. /\ fn' \in [Location -> Targets]
       /\ fn'[l] = "empty" /\ \A k \in Location \ {l} : fn'[k] = fn[k]
  BY <1>2, <1>8 DEF Types, Targets
<1>11. Types'
  BY <1>2, <1>8, <1>9, <1>10 DEF Types, Continues
<1>12. \A k \in Location : Val'[k] = Val[k]
  <2>1. \A k \in Location \ {l} : Cleared(k)' <=> Cleared(k)
    BY <1>2, <1>4, <1>5, <1>9, ClearedAfter DEF Cleared
  <2> QED
    BY <1>2, <1>6, <1>9, <1>10, <2>1, ValRel, ValRelAfter
<1>13. \A u \in Thread : Rel'[u] = Rel[u]
  BY <1>2, <1>4, <1>9, ValRel, ValRelAfter DEF Updated
<1>14. Counted'
  <2>1. /\ DOMAIN Val' = DOMAIN Val /\ \A k \in DOMAIN Val : Val'[k] = Val[k]
        /\ DOMAIN Rel' = DOMAIN Rel /\ \A u \in DOMAIN Rel : Rel'[u] = Rel[u]
    BY <1>2, <1>9, <1>12, <1>13, ValRel, ValRelAfter
  <2>2. \A p : Count(Val', p) = Count(Val, p) /\ Count(Rel', p) = Count(Rel, p)
    BY <2>1 DEF Count
  <2> QED
    BY <1>8, <2>2 DEF IInv, Counted
<1>15. ASSUME NEW o \in Obj PROVE Lives(o)'
  <2>1. fn'[o] = "dead" <=> fn[o] = "dead"
    BY <1>7, <1>10, Disjoint DEF Location
  <2> QED
    BY <1>1, <1>4, <1>8, <1>9, <2>1, LivesKept
<1>16. Confined(t, r)
  <2>1. \A k \in Location : ~Private(t, k) /\ k \notin Obj => fn'[k] = fn[k]
    BY <1>7, <1>10 DEF Private
  <2> QED
    BY <1>4, <1>9, <2>1 DEF Confined
<1>17. SoleOwnersKept(t)
  BY <1>8 DEF SoleOwnersKept
<1>18. Ordered(t, r) /\ FreesOnce(r)
  BY <1>1 DEF Plain
<1> QED
  BY <1>4, <1>8, <1>11, <1>14, <1>15, <1>16, <1>17, <1>18, Settled

LEMMA Destructed ==
  ASSUME IInv, NEW t \in Thread, NEW l, Private(t, l), NEW r, r = << >>, Destruct(t, l, r),
         Places(todo[t], "clear") = {},
         First(todo[t], "release") = "empty", First(todo[t], "delete") = "empty"
  PROVE  IInv'
<1>1. /\ Types /\ l \in Location /\ l \notin Obj /\ Val[l] = fn[l] /\ Rel[t] = "empty"
  BY NotCleared, ValRel, Disjoint DEF IInv, Private
<1>2. /\ r \in Seq(Steps) /\ Plain(t, r) /\ FreesOnce(r) /\ Places(r, "clear") = {} /\ Places(r, "free") = {}
      /\ ~Swapping(r)
  BY IdleFacts
<1>s. PICK s : s = FreeOld(l) \o r
  OBVIOUS
<1>3. Ordered(t, s) /\ Releases(fn[l], s, r)
  BY <1>1, <1>2, <1>s, OldReleased
<1>4. /\ s \in Seq(Steps) /\ FreesOnce(s) /\ Places(s, "clear") = {} /\ Places(s, "free") = {} /\ ~Swapping(s)
      /\ First(s, "delete") = "empty" /\ First(s, "release") = IF fn[l] \in Obj THEN fn[l] ELSE "empty"
  BY <1>2, <1>3 DEF Releases, Alike
<1>5. /\ fn' = [fn EXCEPT ![l] = "dead"] /\ todo' = [todo EXCEPT ![t] = s]
      /\ refCount' = refCount /\ block' = block /\ owner' = owner
  BY <1>s DEF Destruct
<1>6. Continues(t, s)
  BY <1>1, <1>4, <1>5 DEF Continues, Types
<1>7. /\ fn' \in [Location -> Targets]
      /\ fn'[l] = "dead" /\ \A k \in Location \ {l} : fn'[k] = fn[k]
  BY <1>1, <1>5 DEF Types, Targets
<1>8. Types'
  BY <1>1, <1>5, <1>6, <1>7 DEF Types, Continues
<1>9. Updated(Val, l, "dead", Val')
  <2>1. \A k : Cleared(k)' <=> Cleared(k)
    BY <1>1, <1>4, <1>6, ClearedAfter
  <2>2. ~Cleared(l)
    BY NotCleared
  <2> QED
    BY <1>1, <1>6, <1>7, <2>1, <2>2, ValRel, ValRelAfter DEF Updated
<1>10. Counted'
  <2> SUFFICES ASSUME NEW p \in Obj PROVE refCount'[p] = Count(Val', p) + Count(Rel', p)
    BY DEF Counted
  <2>1. Count(Val', p) = (Count(Val, p) + (IF "dead" = p THEN 1 ELSE 0)) - (IF Val[l] = p THEN 1 ELSE 0)
    BY <1>1, <1>9, ValRel, CountUpdate
  <2>2. Count(Rel', p) = (Count(Rel, p) + (IF First(s, "release") = p THEN 1 ELSE 0))
                         - (IF Rel[t] = p THEN 1 ELSE 0)
    BY <1>1, <1>6, ValRel, ValRelAfter, CountUpdate
  <2>3. (First(s, "release") = p <=> fn[l] = p) /\ Rel[t] # p /\ "dead" # p
    BY <1>1, <1>4, Disjoint
  <2>4. Count(Val, p) \in Nat /\ Count(Rel, p) \in Nat /\ refCount[p] = Count(Val, p) + Count(Rel, p)
    BY <1>1, ValRel, CountIsNat DEF IInv, Counted
  <2> QED
    BY <1>1, <1>5, <2>1, <2>2, <2>3, <2>4
<1>11. ASSUME NEW o \in Obj PROVE Lives(o)'
  <2>1. fn'[o] = fn[o]
    BY <1>1, <1>7 DEF Location
  <2> QED
    BY <1>4, <1>5, <1>6, <2>1, LivesKept
<1>12. Confined(t, s)
  <2>1. \A k \in Location : ~Private(t, k) /\ k \notin Obj => fn'[k] = fn[k]
    BY <1>7
  <2> QED
    BY <1>4, <1>6, <2>1 DEF Confined
<1>13. SoleOwnersKept(t)
  BY <1>5 DEF SoleOwnersKept
<1> QED
  BY <1>3, <1>4, <1>5, <1>8, <1>10, <1>11, <1>12, <1>13, Settled

LEMMA ProceedDestruct ==
  ASSUME IInv, NEW t \in Thread, NEW x, NEW r, Begins(t, x, r),
         x.op = "destruct", NEW l, l = x.at, Destruct(t, l, r)
  PROVE  IInv'
<1>1. /\ AfterFirst(t, todo[t], x, r) /\ PlacesFollow(todo[t], x, r)
      /\ First(todo[t], "release") = "empty" /\ First(todo[t], "delete") = "empty"
  BY FirstStep
<1>2. r = << >> /\ l = t
  BY <1>1 DEF AfterFirst
<1>3. Places(todo[t], "clear") = {}
  <2>1. Places(r, "clear") = {}
    BY <1>2, IdleFacts
  <2> QED
    BY <1>1, <2>1 DEF PlacesFollow
<1>4. Private(t, l)
  BY <1>2 DEF Private
<1> QED
  BY <1>1, <1>2, <1>3, <1>4, Destructed

LEMMA DestroyStep ==
  ASSUME IInv, NEW t \in Thread, NEW v \in Var, Destroy(t, v)
  PROVE  IInv'
<1>1. Idle(t) /\ todo[t] = << >> /\ owner[v] = t /\ Destruct(t, v, << >>)
  BY DEF Destroy, Idle, Alive, Owned
<1>2. Private(t, v)
  BY <1>1 DEF Private
<1> QED
  BY <1>1, <1>2, IdleFacts, Destructed

LEMMA ProceedStep ==
  ASSUME IInv, NEW t \in Thread, Proceed(t)
  PROVE  IInv'
<1>1. PICK x, r : x = Head(todo[t]) /\ r = Tail(todo[t])
  OBVIOUS
<1>2. /\ Begins(t, x, r)
      /\ \/ x.op = "copy" /\ Assign(t, x.at, x.from, r)
         \/ x.op = "release" /\ Release(t, x.at, r)
         \/ x.op = "delete" /\ Delete(t, x.at, r)
         \/ x.op = "free" /\ Free(t, x.at, r)
         \/ x.op = "clear" /\ Clear(t, x.at, r)
         \/ x.op = "destruct" /\ Destruct(t, x.at, r)
  BY <1>1 DEF Proceed, Begins
<1> QED
  BY <1>2, ProceedCopy, ProceedRelease, ProceedDelete, ProceedFree, ProceedClear, ProceedDestruct

-----------------------------------------------------------------------------
(* Construction, moves and passing a variable on *)

\* t is idle and stays so.
LEMMA StaysIdle ==
  ASSUME IInv, NEW t \in Thread, Idle(t), todo' = todo
  PROVE  /\ Continues(t, << >>) /\ Ordered(t, << >>) /\ FreesOnce(<< >>) /\ ~Swapping(<< >>)
         /\ Places(<< >>, "clear") = {} /\ First(<< >>, "release") = "empty"
         /\ First(<< >>, "delete") = First(todo[t], "delete") /\ Places(<< >>, "free") = Places(todo[t], "free")
         /\ Places(todo[t], "clear") = {}
         /\ \A l : Cleared(l)' <=> Cleared(l)
         /\ \A p : Count(Rel', p) = Count(Rel, p)
<1>1. todo[t] = << >> /\ Types
  BY DEF Idle, IInv
<1>2. Continues(t, << >>)
  BY <1>1, IdleFacts DEF Continues, Types
<1>3. \A l : Cleared(l)' <=> Cleared(l)
  BY DEF Cleared
<1>4. \A p : Count(Rel', p) = Count(Rel, p)
  <2>1. DOMAIN Rel' = DOMAIN Rel /\ \A u \in DOMAIN Rel : Rel'[u] = Rel[u]
    BY DEF Rel
  <2> QED
    BY <2>1 DEF Count
<1> QED
  BY <1>1, <1>2, <1>3, <1>4, IdleFacts DEF Plain

LEMMA ConstructStep ==
  ASSUME IInv, NEW t \in Thread, NEW v \in Var, NEW target \in {"empty", "inline"}, Construct(t, v, target)
  PROVE  IInv'
<1>1. /\ Idle(t) /\ owner[v] = t /\ fn[v] = "dead" /\ fn' = [fn EXCEPT ![v] = target]
      /\ refCount' = refCount /\ block' = block /\ owner' = owner /\ todo' = todo
  BY DEF Construct, Unborn, Owned
<1>2. Types /\ v \in Location /\ v \notin Obj /\ Private(t, v)
  BY <1>1, Disjoint DEF IInv, Location, Private
<1>3. /\ Continues(t, << >>) /\ Ordered(t, << >>) /\ FreesOnce(<< >>) /\ ~Swapping(<< >>)
      /\ Places(<< >>, "clear") = {} /\ First(<< >>, "release") = "empty"
      /\ First(<< >>, "delete") = First(todo[t], "delete") /\ Places(<< >>, "free") = Places(todo[t], "free")
      /\ Places(todo[t], "clear") = {}
      /\ \A l : Cleared(l)' <=> Cleared(l)
      /\ \A p : Count(Rel', p) = Count(Rel, p)
  BY <1>1, StaysIdle
<1>4. Val[v] = "dead" /\ ~Cleared(v)
  BY <1>1, <1>2, <1>3, NotCleared
<1>5. fn' \in [Location -> Targets] /\ fn'[v] = target /\ \A l \in Location \ {v} : fn'[l] = fn[l]
  BY <1>1, <1>2 DEF Types, Targets
<1>6. Types'
  BY <1>1, <1>2, <1>5 DEF Types
<1>7. Updated(Val, v, target, Val')
  BY <1>2, <1>3, <1>4, <1>5, ValRel, ValRelAfter DEF Updated
<1>8. Counted'
  <2> SUFFICES ASSUME NEW p \in Obj PROVE refCount'[p] = Count(Val', p) + Count(Rel', p)
    BY DEF Counted
  <2>1. Count(Val', p) = (Count(Val, p) + (IF target = p THEN 1 ELSE 0)) - (IF Val[v] = p THEN 1 ELSE 0)
    BY <1>2, <1>7, ValRel, CountUpdate
  <2>2. Count(Rel', p) = Count(Rel, p)
    BY <1>3
  <2>3. target # p /\ Val[v] # p
    BY <1>4, Disjoint
  <2>4. Count(Val, p) \in Nat /\ Count(Rel, p) \in Nat /\ refCount[p] = Count(Val, p) + Count(Rel, p)
    BY <1>2, ValRel, CountIsNat DEF IInv, Counted
  <2> QED
    BY <1>1, <2>1, <2>2, <2>3, <2>4
<1>9. ASSUME NEW o \in Obj PROVE Lives(o)'
  <2>1. fn'[o] = fn[o]
    BY <1>2, <1>5 DEF Location
  <2> QED
    BY <1>1, <1>3, <2>1, LivesKept
<1>10. Confined(t, << >>)
  BY <1>2, <1>3, <1>5 DEF Confined
<1>11. SoleOwnersKept(t)
  BY <1>1 DEF SoleOwnersKept
<1> QED
  BY <1>1, <1>3, <1>6, <1>8, <1>9, <1>10, <1>11, Settled

\* v gets a new object, whose capture y is no object or that of some variable w.
LEMMA ConstructedHeap ==
  ASSUME IInv, NEW t \in Thread, NEW v \in Var, NEW o \in Obj, NEW y \in Targets,
         Idle(t), v \in Unborn(t), block[o] = "free",
         y # "dead", y \in Obj => \E w \in Var : owner[w] = t /\ fn[w] = y,
         fn' = [fn EXCEPT ![v] = o, ![o] = y],
         refCount' \in [Obj -> Nat],
         \A p \in Obj : refCount'[p] = IF p = o THEN 1 ELSE IF p = y THEN refCount[p] + 1 ELSE refCount[p],
         block' = [block EXCEPT ![o] = "valid"], owner' = owner, todo' = todo
  PROVE  IInv'
<1>1. owner[v] = t /\ fn[v] = "dead"
  BY DEF Unborn, Owned
<1>2. /\ Types /\ v \in Location /\ v \notin Obj /\ o \in Location /\ o # v /\ Private(t, v)
  BY <1>1, Disjoint DEF IInv, Location, Private
<1>3. /\ Continues(t, << >>) /\ Ordered(t, << >>) /\ FreesOnce(<< >>) /\ ~Swapping(<< >>)
      /\ Places(<< >>, "clear") = {} /\ First(<< >>, "release") = "empty"
      /\ First(<< >>, "delete") = First(todo[t], "delete") /\ Places(<< >>, "free") = Places(todo[t], "free")
      /\ Places(todo[t], "clear") = {}
      /\ \A l : Cleared(l)' <=> Cleared(l)
      /\ \A p : Count(Rel', p) = Count(Rel, p)
  BY StaysIdle
<1>4. Val[v] = "dead" /\ ~Cleared(v)
  BY <1>1, <1>2, <1>3, NotCleared
<1>5. /\ Lives(o) /\ refCount[o] = 0 /\ fn[o] = "dead"
      /\ \A u \in Thread : First(todo[u], "delete") # o
      /\ \A u \in Thread : o \notin Places(todo[u], "free")
  BY DEF IInv, Lives
<1>6. /\ \A l \in Location : Val[l] # o
      /\ ~Cleared(o) /\ Val[o] = "dead"
  <2>1. \A l \in Location : Val[l] # o
    BY <1>5, OwnedLives
  <2>2. ASSUME Cleared(o) PROVE FALSE
    <3>1. PICK u \in Thread : o \in Places(todo[u], "clear")
      BY <2>2 DEF Cleared
    <3>2. Source(u, o)
      BY <3>1 DEF IInv, SourcesLive
    <3> QED
      BY <1>5, <3>2, Disjoint DEF Source
  <2> QED
    BY <1>2, <1>5, <2>1, <2>2, ValRel
<1>7. ASSUME y \in Obj PROVE \E w \in Var : owner[w] = t /\ w \in Location /\ Val[w] = y
  <2>1. PICK w \in Var : owner[w] = t /\ fn[w] = y
    BY <1>7
  <2>2. w \in Location /\ Val[w] = y
    BY <1>3, <2>1, NotCleared DEF Private
  <2> QED
    BY <2>1, <2>2
<1>8. y \in Obj => y # o /\ refCount[y] \in Nat /\ refCount[y] >= 1
  BY <1>6, <1>7, OwnedLives
<1>9. /\ fn' \in [Location -> Targets] /\ fn'[v] = o /\ fn'[o] = y
      /\ \A l \in Location \ {v, o} : fn'[l] = fn[l]
  BY <1>2 DEF Types, Targets
<1>10. /\ block' \in [Obj -> {"free", "valid", "deleted"}] /\ block'[o] = "valid"
       /\ \A p \in Obj \ {o} : block'[p] = block[p]
  BY <1>2 DEF Types
<1>11. Types'
  BY <1>2, <1>9, <1>10 DEF Types
<1>12. /\ Val'[v] = o /\ Val'[o] = y /\ DOMAIN Val' = Location
       /\ \A l \in Location \ {v, o} : Val'[l] = Val[l]
  BY <1>2, <1>3, <1>4, <1>6, <1>9, ValRel, ValRelAfter
<1>13. Counted'
  <2> SUFFICES ASSUME NEW p \in Obj PROVE refCount'[p] = Count(Val', p) + Count(Rel', p)
    BY DEF Counted
  <2>1. Count(Val', p) = (((Count(Val, p) + (IF o = p THEN 1 ELSE 0)) - (IF Val[v] = p THEN 1 ELSE 0))
                          + (IF y = p THEN 1 ELSE 0)) - (IF Val[o] = p THEN 1 ELSE 0)
    BY <1>2, <1>12, ValRel, CountUpdates
  <2>2. Count(Rel', p) = Count(Rel, p)
    BY <1>3
  <2>3. Val[v] # p /\ Val[o] # p
    BY <1>4, <1>6, Disjoint
  <2>4. Count(Val, p) \in Nat /\ Count(Rel, p) \in Nat /\ refCount[p] = Count(Val, p) + Count(Rel, p)
    BY <1>2, ValRel, CountIsNat DEF IInv, Counted
  <2>5. refCount'[p] = (refCount[p] + (IF o = p THEN 1 ELSE 0)) + (IF y = p THEN 1 ELSE 0)
    BY <1>5, <1>8, <2>4
  <2> QED
    BY <2>1, <2>2, <2>3, <2>4, <2>5
<1>14. ASSUME NEW p \in Obj PROVE Lives(p)'
  <2>1. CASE p = o
    <3>1. refCount'[o] = 1
      OBVIOUS
    <3> QED
      BY <1>5, <1>9, <1>10, <2>1, <3>1 DEF Lives
  <2>2. CASE p # o
    <3>1. Lives(p) /\ fn'[p] = fn[p] /\ block'[p] = block[p]
      BY <1>2, <1>9, <1>10, <2>2 DEF IInv, Location
    <3>2. refCount'[p] = 0 <=> refCount[p] = 0
      BY <1>8, <2>2
    <3> QED
      BY <3>1, <3>2 DEF Lives
  <2> QED
    BY <2>1, <2>2
<1>15. Confined(t, << >>)
  BY <1>2, <1>3, <1>9 DEF Confined
<1>16. SoleOwnersKept(t)
  <2> SUFFICES ASSUME NEW w \in Var, owner[w] # t, Val[w] \in Obj, refCount[Val[w]] = 1
               PROVE  refCount'[Val[w]] = 1
    BY DEF SoleOwnersKept
  <2>1. w \in Location
    BY DEF Location
  <2>2. Val[w] # o
    BY <1>6, <2>1
  <2>3. Val[w] # y
    BY <1>7, <2>1, SoleOwner
  <2> QED
    BY <2>2, <2>3
<1> QED
  BY <1>3, <1>11, <1>13, <1>14, <1>15, <1>16, Settled

LEMMA ConstructHeapStep ==
  ASSUME IInv, NEW t \in Thread, NEW v \in Var, NEW o \in Obj, ConstructHeap(t, v, o)
  PROVE  IInv'
<1>1. PICK y : y = "empty"
  OBVIOUS
<1>2. y \in Targets /\ y # "dead" /\ y \notin Obj /\ Types
  BY <1>1, Disjoint DEF Targets, IInv
<1>3. /\ Idle(t) /\ v \in Unborn(t) /\ block[o] = "free"
      /\ fn' = [fn EXCEPT ![v] = o, ![o] = y] /\ refCount' = [refCount EXCEPT ![o] = 1]
      /\ block' = [block EXCEPT ![o] = "valid"] /\ owner' = owner /\ todo' = todo
  BY <1>1 DEF ConstructHeap
<1>4. /\ refCount' \in [Obj -> Nat]
      /\ \A p \in Obj : refCount'[p] = IF p = o THEN 1 ELSE IF p = y THEN refCount[p] + 1 ELSE refCount[p]
  BY <1>2, <1>3 DEF Types
<1> QED
  BY <1>2, <1>3, <1>4, ConstructedHeap

LEMMA ConstructCaptureStep ==
  ASSUME IInv, NEW t \in Thread, NEW v \in Var, NEW o \in Obj, NEW w \in Var, ConstructCapture(t, v, o, w)
  PROVE  IInv'
<1>1. PICK y : y = fn[w]
  OBVIOUS
<1>2. owner[w] = t /\ y # "dead" /\ Types /\ w \in Location
  BY <1>1 DEF ConstructCapture, Alive, Owned, IInv, Location
<1>3. y \in Targets /\ y # "dead" /\ \E x \in Var : owner[x] = t /\ fn[x] = y
  BY <1>1, <1>2 DEF Types
<1>4. /\ Idle(t) /\ v \in Unborn(t) /\ block[o] = "free"
      /\ fn' = [fn EXCEPT ![v] = o, ![o] = y]
      /\ refCount' = [p \in Obj |-> IF p = o THEN 1 ELSE IF p = y THEN refCount[p] + 1 ELSE refCount[p]]
      /\ block' = [block EXCEPT ![o] = "valid"] /\ owner' = owner /\ todo' = todo
  BY <1>1 DEF ConstructCapture
<1>5. /\ refCount' \in [Obj -> Nat]
      /\ \A p \in Obj : refCount'[p] = IF p = o THEN 1 ELSE IF p = y THEN refCount[p] + 1 ELSE refCount[p]
  BY <1>2, <1>4 DEF Types
<1> QED
  BY <1>3, <1>4, <1>5, ConstructedHeap

LEMMA MoveConstructStep ==
  ASSUME IInv, NEW t \in Thread, NEW v \in Var, NEW from, MoveConstruct(t, v, from)
  PROVE  IInv'
<1>1. /\ Idle(t) /\ owner[v] = t /\ fn[v] = "dead" /\ from \in Reachable(t)
      /\ fn' = [fn EXCEPT ![v] = fn[from], ![from] = "empty"]
      /\ refCount' = refCount /\ block' = block /\ owner' = owner /\ todo' = todo
  BY DEF MoveConstruct, Movable, Unborn, Owned
<1>2. /\ Types /\ v \in Location /\ v \notin Obj /\ Private(t, v)
      /\ from \in Location /\ ~Cleared(from) /\ Val[from] = fn[from] /\ fn[from] # "dead" /\ from # v
      /\ (from \in Var /\ owner[from] = t) \/ from \in Obj
  BY <1>1, ReachableFacts, Disjoint DEF IInv, Location, Private
<1>3. /\ Continues(t, << >>) /\ Ordered(t, << >>) /\ FreesOnce(<< >>) /\ ~Swapping(<< >>)
      /\ Places(<< >>, "clear") = {} /\ First(<< >>, "release") = "empty"
      /\ First(<< >>, "delete") = First(todo[t], "delete") /\ Places(<< >>, "free") = Places(todo[t], "free")
      /\ Places(todo[t], "clear") = {}
      /\ \A l : Cleared(l)' <=> Cleared(l)
      /\ \A p : Count(Rel', p) = Count(Rel, p)
  BY <1>1, StaysIdle
<1>4. Val[v] = "dead" /\ ~Cleared(v)
  BY <1>1, <1>2, <1>3, NotCleared
<1>5. /\ fn' \in [Location -> Targets] /\ fn'[v] = fn[from] /\ fn'[from] = "empty"
      /\ \A l \in Location \ {v, from} : fn'[l] = fn[l]
  BY <1>1, <1>2 DEF Types, Targets
<1>6. Types'
  BY <1>1, <1>2, <1>5 DEF Types
<1>7. /\ Val'[v] = fn[from] /\ Val'[from] = "empty" /\ DOMAIN Val' = Location
      /\ \A l \in Location \ {v, from} : Val'[l] = Val[l]
  BY <1>2, <1>3, <1>4, <1>5, ValRel, ValRelAfter
<1>8. Counted'
  <2> SUFFICES ASSUME NEW p \in Obj PROVE refCount'[p] = Count(Val', p) + Count(Rel', p)
    BY DEF Counted
  <2>1. Count(Val', p) = (((Count(Val, p) + (IF fn[from] = p THEN 1 ELSE 0)) - (IF Val[v] = p THEN 1 ELSE 0))
                          + (IF "empty" = p THEN 1 ELSE 0)) - (IF Val[from] = p THEN 1 ELSE 0)
    BY <1>2, <1>7, ValRel, CountUpdates
  <2>2. Val[v] # p /\ "empty" # p
    BY <1>4, Disjoint
  <2>3. Count(Val, p) \in Nat /\ Count(Rel, p) \in Nat /\ refCount[p] = Count(Val, p) + Count(Rel, p)
    BY <1>2, ValRel, CountIsNat DEF IInv, Counted
  <2> QED
    BY <1>1, <1>2, <1>3, <2>1, <2>2, <2>3
<1>9. ASSUME NEW o \in Obj PROVE Lives(o)'
  <2>1. fn'[o] = "dead" <=> fn[o] = "dead"
    BY <1>2, <1>5 DEF Location
  <2> QED
    BY <1>1, <1>3, <2>1, LivesKept
<1>10. Confined(t, << >>)
  BY <1>2, <1>3, <1>5 DEF Confined, Private
<1>11. SoleOwnersKept(t)
  BY <1>1 DEF SoleOwnersKept
<1> QED
  BY <1>1, <1>3, <1>6, <1>8, <1>9, <1>10, <1>11, Settled

LEMMA ClearOnly ==
  ASSUME NEW t, NEW l \in Var \cup Obj, NEW r, r = <<Step("clear", l)>>
  PROVE  /\ r \in Seq(Steps) /\ Plain(t, r) /\ FreesOnce(r) /\ ~Swapping(r)
         /\ Places(r, "clear") = {l} /\ Places(r, "free") = {}
<1>1. Step("clear", l) \in Steps /\ Step("clear", l).op = "clear" /\ Step("clear", l).at = l
  BY DEF Step, Steps
<1>2. /\ r \in Seq(Steps) /\ Len(r) = 1 /\ DOMAIN r = {1} /\ r # << >>
      /\ r[1].op = "clear" /\ r[1].at = l
  BY <1>1
<1> QED
  BY <1>2 DEF Plain, Ordered, FreesOnce, Swapping, Places

LEMMA MoveAssignStep ==
  ASSUME MoveFromInside = FALSE, IInv, NEW t \in Thread, NEW v \in Var, NEW from, MoveAssign(t, v, from)
  PROVE  IInv'
<1>r. PICK r, s : r = <<Step("clear", from)>> /\ s = FreeOld(v) \o r
  OBVIOUS
<1>1. /\ Idle(t) /\ todo[t] = << >> /\ owner[v] = t /\ fn[v] # "dead" /\ from \in Reachable(t)
      /\ from \in Obj => refCount[from] = 1 /\ fn[v] # from
      /\ fn' = [fn EXCEPT ![v] = fn[from]] /\ todo' = [todo EXCEPT ![t] = s]
      /\ refCount' = refCount /\ block' = block /\ owner' = owner
  BY <1>r DEF MoveAssign, Movable, Alive, Owned, Idle
<1>2. /\ Types /\ v \in Location /\ v \notin Obj /\ Private(t, v)
      /\ from \in Location /\ ~Cleared(from) /\ Val[from] = fn[from] /\ fn[from] # "dead"
      /\ \/ from \in Var /\ owner[from] = t
         \/ from \in Obj /\ \E w \in Var : owner[w] = t /\ Val[w] = from
  BY <1>1, ReachableFacts, Disjoint DEF IInv, Location, Private
<1>3. /\ Places(todo[t], "clear") = {} /\ First(todo[t], "delete") = "empty" /\ Rel[t] = "empty"
      /\ ~Cleared(v) /\ Val[v] = fn[v]
  <2>1. Places(todo[t], "clear") = {} /\ First(todo[t], "delete") = "empty" /\ First(todo[t], "release") = "empty"
    BY <1>1, IdleFacts
  <2> QED
    BY <1>2, <2>1, NotCleared, ValRel
<1>4. /\ r \in Seq(Steps) /\ Plain(t, r) /\ FreesOnce(r) /\ ~Swapping(r)
      /\ Places(r, "clear") = {from} /\ Places(r, "free") = {}
  BY <1>2, <1>r, ClearOnly
<1>5. /\ s \in Seq(Steps) /\ Ordered(t, s) /\ FreesOnce(s) /\ ~Swapping(s)
      /\ Places(s, "clear") = {from} /\ Places(s, "free") = {} /\ First(s, "delete") = "empty"
      /\ First(s, "release") = IF fn[v] \in Obj THEN fn[v] ELSE "empty"
  <2>1. Ordered(t, s) /\ Releases(fn[v], s, r)
    BY <1>2, <1>4, <1>r, OldReleased
  <2> QED
    BY <1>4, <2>1 DEF Releases, Alike
<1>6. Continues(t, s)
  BY <1>1, <1>2, <1>5 DEF Continues, Types
<1>7. /\ fn' \in [Location -> Targets] /\ fn'[v] = fn[from]
      /\ \A l \in Location \ {v} : fn'[l] = fn[l]
  BY <1>1, <1>2 DEF Types
<1>8. Types'
  BY <1>1, <1>2, <1>6, <1>7 DEF Types, Continues
<1>9. /\ Cleared(from)' /\ \A l : l # from => (Cleared(l)' <=> Cleared(l))
  BY <1>2, <1>3, <1>5, <1>6, ClearedAfter DEF Cleared
<1>10. /\ DOMAIN Val' = Location /\ Val'[from] = "empty" /\ (v # from => Val'[v] = fn[from])
       /\ \A l \in Location \ {v, from} : Val'[l] = Val[l]
  BY <1>2, <1>3, <1>6, <1>7, <1>9, ValRel, ValRelAfter
<1>11. Counted'
  <2> SUFFICES ASSUME NEW p \in Obj PROVE refCount'[p] = Count(Val', p) + Count(Rel', p)
    BY DEF Counted
  <2>1. Count(Val, p) \in Nat /\ Count(Rel, p) \in Nat /\ refCount[p] = Count(Val, p) + Count(Rel, p)
    BY <1>2, ValRel, CountIsNat DEF IInv, Counted
  <2>2. Count(Val', p) = Count(Val, p) - (IF fn[v] = p THEN 1 ELSE 0)
    <3>1. CASE v = from
      <4>1. Updated(Val, v, "empty", Val')
        BY <1>2, <1>10, <3>1, ValRel DEF Updated
      <4>2. Count(Val', p) = (Count(Val, p) + (IF "empty" = p THEN 1 ELSE 0)) - (IF Val[v] = p THEN 1 ELSE 0)
        BY <1>2, <4>1, ValRel, CountUpdate
      <4> QED
        BY <1>3, <2>1, <4>2, Disjoint
    <3>2. CASE v # from
      <4>1. Count(Val', p) = (((Count(Val, p) + (IF fn[from] = p THEN 1 ELSE 0)) - (IF Val[v] = p THEN 1 ELSE 0))
                              + (IF "empty" = p THEN 1 ELSE 0)) - (IF Val[from] = p THEN 1 ELSE 0)
        BY <1>2, <1>10, <3>2, ValRel, CountUpdates
      <4> QED
        BY <1>2, <1>3, <2>1, <4>1, Disjoint
    <3> QED
      BY <3>1, <3>2
  <2>3. Count(Rel', p) = (Count(Rel, p) + (IF First(s, "release") = p THEN 1 ELSE 0))
                         - (IF Rel[t] = p THEN 1 ELSE 0)
    BY <1>2, <1>6, ValRel, ValRelAfter, CountUpdate
  <2>4. (First(s, "release") = p <=> fn[v] = p) /\ Rel[t] # p
    BY <1>3, <1>5, Disjoint
  <2> QED
    BY <1>1, <2>1, <2>2, <2>3, <2>4
<1>12. ASSUME NEW o \in Obj PROVE Lives(o)'
  <2>1. fn'[o] = fn[o]
    BY <1>2, <1>7 DEF Location
  <2> QED
    BY <1>1, <1>3, <1>5, <1>6, <2>1, LivesKept
<1>13. Source(t, from)'
  <2>1. CASE from \in Var /\ owner[from] = t
    <3>1. fn'[from] # "dead"
      BY <1>2, <1>7
    <3> QED
      BY <1>1, <2>1, <3>1 DEF Source
  <2>2. CASE from \in Obj /\ \E w \in Var : owner[w] = t /\ Val[w] = from
    <3>1. PICK w \in Var : owner[w] = t /\ Val[w] = from
      BY <2>2
    <3>2. w \in Location /\ w # v /\ w # from
      BY <1>1, <1>3, <2>2, <3>1, Disjoint DEF Location
    <3>3. Val'[w] = from
      BY <1>10, <3>1, <3>2
    <3> QED
      BY <1>1, <2>2, <3>1, <3>3 DEF Source
  <2> QED
    BY <1>2, <2>1, <2>2
<1>14. Confined(t, s)
  <2>1. \A l \in Places(s, "clear") : l \in Var => owner[l] = t
    BY <1>2, <1>5, Disjoint
  <2> QED
    BY <1>2, <1>6, <1>7, <2>1 DEF Confined
<1>15. SoleOwnersKept(t)
  BY <1>1 DEF SoleOwnersKept
<1>16. \A l \in Places(s, "clear") : Source(t, l)'
  BY <1>5, <1>13
<1> QED
  BY <1>1, <1>5, <1>8, <1>11, <1>12, <1>14, <1>15, <1>16, Settled

LEMMA PassStep ==
  ASSUME IInv, NEW t \in Thread, NEW v \in Var, NEW u \in Thread, Pass(t, v, u)
  PROVE  IInv'
<1>1. /\ todo[t] = << >> /\ owner[v] = t /\ owner' = [owner EXCEPT ![v] = u] /\ Types
      /\ fn' = fn /\ refCount' = refCount /\ block' = block /\ todo' = todo
  BY DEF Pass, Idle, Owned, IInv
<1>2. owner' \in [Var -> Thread] /\ \A w \in Var : owner[w] # t => owner'[w] = owner[w]
  BY <1>1 DEF Types
<1>3. Types' /\ AllOrdered' /\ \A o \in Obj : Lives(o)'
  BY <1>1, <1>2 DEF Types, AllOrdered, Lives, IInv
<1>4. Val' = Val /\ Rel' = Rel
  BY <1>1 DEF Val, Rel, Cleared
<1>5. Counted'
  BY <1>1, <1>4 DEF IInv, Counted
<1>6. SourcesLive'
  <2> SUFFICES ASSUME NEW q \in Thread, NEW l \in Places(todo[q], "clear") PROVE Source(q, l)'
    BY <1>1 DEF SourcesLive
  <2>1. Source(q, l) /\ q # t
    BY <1>1, IdleFacts DEF IInv, SourcesLive
  <2> QED
    BY <1>1, <1>2, <1>4, <2>1 DEF Source
<1>7. SwapsProceed'
  <2> SUFFICES ASSUME NEW q \in Thread, Swapping(todo[q]), NEW n, NEW w, n = Copies(todo[q]), w = SwapOf(todo[q])
               PROVE  Progress(q, n, w)'
    BY <1>1 DEF SwapsProceed
  <2>1. Progress(q, n, w) /\ q # t /\ w \in SwapNotes
    BY <1>1, IdleFacts, PlacesTypes DEF IInv, SwapsProceed, Types
  <2> QED
    BY <1>1, <1>2, <2>1 DEF Progress, SwapNotes
<1> QED
  BY <1>3, <1>5, <1>6, <1>7 DEF IInv

-----------------------------------------------------------------------------
(* The invariant holds *)

LEMMA InitInv == Init => IInv
<1> SUFFICES ASSUME Init PROVE IInv
  OBVIOUS
<1>1. Types
  BY IdleFacts DEF Init, Types, Targets
<1>2. \A t \in Thread : todo[t] = << >>
  BY DEF Init
<1>3. AllOrdered /\ SourcesLive /\ SwapsProceed
  BY <1>2, IdleFacts DEF AllOrdered, SourcesLive, SwapsProceed, Plain
<1>4. \A l \in Location : Val[l] = "dead"
  BY <1>2, IdleFacts DEF Val, Cleared, Init
<1>5. \A t \in Thread : Rel[t] = "empty"
  BY <1>2, IdleFacts DEF Rel
<1>6. Counted
  <2>1. ASSUME NEW o \in Obj PROVE Count(Val, o) = 0 /\ Count(Rel, o) = 0
    BY <1>1, <1>4, <1>5, ValRel, Disjoint, CountNone
  <2> QED
    BY <2>1 DEF Counted, Init
<1>7. ASSUME NEW o \in Obj PROVE Lives(o)
  <2>1. block[o] = "free" /\ fn[o] = "dead" /\ refCount[o] = 0
    BY DEF Init, Location
  <2>2. \A t \in Thread : First(todo[t], "delete") # o /\ o \notin Places(todo[t], "free")
    BY <1>2, IdleFacts, Disjoint
  <2> QED
    BY <2>1, <2>2 DEF Lives
<1> QED
  BY <1>1, <1>3, <1>6, <1>7 DEF IInv

LEMMA StutterInv == IInv /\ UNCHANGED vars => IInv'
<1> SUFFICES ASSUME IInv, UNCHANGED vars PROVE IInv'
  OBVIOUS
<1>1. fn' = fn /\ refCount' = refCount /\ block' = block /\ owner' = owner /\ todo' = todo
  BY DEF vars
<1>2. Val' = Val /\ Rel' = Rel
  BY <1>1 DEF Val, Rel, Cleared
<1> QED
  BY <1>1, <1>2 DEF IInv, Types, AllOrdered, Counted, SourcesLive, Source, Lives, SwapsProceed, Progress

LEMMA NextInv == ASSUME MoveFromInside = FALSE PROVE IInv /\ Next => IInv'
<1> SUFFICES ASSUME IInv, Next PROVE IInv'
  OBVIOUS
<1>1. PICK t \in Thread :
        \/ Proceed(t)
        \/ \E v \in Var :
             \/ \E target \in {"empty", "inline"} : Construct(t, v, target)
             \/ \E o \in Obj : ConstructHeap(t, v, o)
             \/ \E o \in Obj, w \in Var : ConstructCapture(t, v, o, w)
             \/ \E from \in Var \cup Obj : \/ Copy(t, v, from)
                                           \/ MoveConstruct(t, v, from)
                                           \/ MoveAssign(t, v, from)
             \/ Destroy(t, v)
             \/ \E other \in Var : swap(t, v, other)
             \/ \E u \in Thread : Pass(t, v, u)
  BY DEF Next
<1>2. CASE Proceed(t)
  BY <1>2, ProceedStep
<1>3. ASSUME NEW v \in Var, NEW target \in {"empty", "inline"}, Construct(t, v, target) PROVE IInv'
  BY <1>3, ConstructStep
<1>4. ASSUME NEW v \in Var, NEW o \in Obj, ConstructHeap(t, v, o) PROVE IInv'
  BY <1>4, ConstructHeapStep
<1>5. ASSUME NEW v \in Var, NEW o \in Obj, NEW w \in Var, ConstructCapture(t, v, o, w) PROVE IInv'
  BY <1>5, ConstructCaptureStep
<1>6. ASSUME NEW v \in Var, NEW from \in Var \cup Obj, Copy(t, v, from) PROVE IInv'
  BY <1>6, CopyStep
<1>7. ASSUME NEW v \in Var, NEW from \in Var \cup Obj, MoveConstruct(t, v, from) PROVE IInv'
  BY <1>7, MoveConstructStep
<1>8. ASSUME NEW v \in Var, NEW from \in Var \cup Obj, MoveAssign(t, v, from) PROVE IInv'
  BY <1>8, MoveAssignStep
<1>9. ASSUME NEW v \in Var, Destroy(t, v) PROVE IInv'
  BY <1>9, DestroyStep
<1>10. ASSUME NEW v \in Var, NEW other \in Var, swap(t, v, other) PROVE IInv'
  BY <1>10, SwapStep
<1>11. ASSUME NEW v \in Var, NEW u \in Thread, Pass(t, v, u) PROVE IInv'
  BY <1>11, PassStep
<1> QED
  BY <1>1, <1>2, <1>3, <1>4, <1>5, <1>6, <1>7, <1>8, <1>9, <1>10, <1>11

LEMMA Invariant == ASSUME MoveFromInside = FALSE PROVE Spec => []IInv
<1>1. Init => IInv
  BY InitInv
<1>2. IInv /\ [Next]_vars => IInv'
  BY NextInv, StutterInv
<1> QED
  BY <1>1, <1>2, PTL DEF Spec

-----------------------------------------------------------------------------
(* The properties *)

LEMMA OwnersAreVal ==
  ASSUME IInv, NEW o \in Obj
  PROVE  OwnersOf(o) = {l \in DOMAIN Val : Val[l] = o}
<1>1. Types
  BY DEF IInv
<1>2. ASSUME NEW l PROVE l \in ToClear <=> Cleared(l)
  BY DEF ToClear, Pending, Cleared, Places
<1>3. ASSUME NEW l \in Location PROVE (l \notin ToClear /\ fn[l] = o) <=> Val[l] = o
  BY <1>1, <1>2, ValRel, Disjoint
<1> QED
  BY <1>1, <1>3, ValRel DEF OwnersOf

LEMMA ReleasesAreRel ==
  ASSUME IInv, NEW o \in Obj
  PROVE  Cardinality(AboutToRelease(o)) = Count(Rel, o)
<1> DEFINE T == {t \in DOMAIN Rel : Rel[t] = o}
<1>1. Types /\ IsFiniteSet(T) /\ Cardinality(T) = Count(Rel, o) /\ Count(Rel, o) \in Nat
  BY ValRel, CountIsNat DEF IInv, Count
<1>2. ASSUME NEW t \in Thread, NEW i
      PROVE  (i \in Pending(t, "release") /\ todo[t][i].at = o) <=> (i = 1 /\ t \in T)
  <2>1. todo[t] \in Seq(Steps) /\ Ordered(t, todo[t])
    BY DEF IInv, Types, AllOrdered
  <2>2. t \in T <=> (todo[t] # << >> /\ todo[t][1].op = "release" /\ todo[t][1].at = o)
    BY <1>1, ValRel, Disjoint DEF First
  <2>3. todo[t] # << >> <=> 1 \in DOMAIN todo[t]
    BY <2>1
  <2>4. i \in DOMAIN todo[t] /\ todo[t][i].op = "release" => i = 1
    BY <2>1 DEF Ordered
  <2> QED
    BY <2>2, <2>3, <2>4 DEF Pending
<1>3. AboutToRelease(o) = T \X {1}
  <2> DEFINE At(t) == {i \in Pending(t, "release") : todo[t][i].at = o}
  <2>1. \A t \in Thread : At(t) = IF t \in T THEN {1} ELSE {}
    BY <1>2
  <2>2. T \subseteq Thread
    BY <1>1, ValRel
  <2> HIDE DEF T
  <2>3. AboutToRelease(o) = UNION {{t} \X At(t) : t \in Thread}
    BY DEF AboutToRelease
  <2> HIDE DEF At
  <2>4. UNION {{t} \X At(t) : t \in Thread} = T \X {1}
    BY <2>1, <2>2
  <2> QED
    BY <2>3, <2>4
<1> HIDE DEF T
<1>4. IsFiniteSet({1}) /\ Cardinality({1}) = 1
  BY FS_Singleton
<1>5. Cardinality(T \X {1}) = Cardinality(T) * Cardinality({1})
  BY <1>1, <1>4, FS_Product
<1> QED
  BY <1>1, <1>3, <1>4, <1>5

LEMMA InvOwners == IInv => RefCountIsOwners
<1> SUFFICES ASSUME IInv PROVE RefCountIsOwners
  OBVIOUS
<1>1. Types
  BY DEF IInv
<1>2. TypeOK
  <2>1. ASSUME NEW t \in Thread, NEW i \in DOMAIN todo[t]
        PROVE  /\ todo[t][i].op \in {"copy", "release", "delete", "free", "clear", "destruct"}
               /\ todo[t][i].at \in Location
    <3>1. todo[t][i] \in Steps
      BY <1>1 DEF Types
    <3> QED
      BY <3>1, StepTypes DEF Location
  <2> QED
    BY <1>1, <2>1 DEF Types, TypeOK, Targets
<1>3. ASSUME NEW o \in Obj
      PROVE  refCount[o] = Cardinality(OwnersOf(o)) + Cardinality(AboutToRelease(o))
  <2>1. Cardinality(OwnersOf(o)) = Count(Val, o)
    BY OwnersAreVal DEF Count
  <2> QED
    BY <2>1, ReleasesAreRel DEF IInv, Counted
<1> QED
  BY <1>2, <1>3 DEF RefCountIsOwners

LEMMA InvDeletedOnce == IInv => DeletedOnce
<1> SUFFICES ASSUME IInv PROVE DeletedOnce
  OBVIOUS
<1>1. ASSUME NEW t \in Thread, NEW i \in Pending(t, "clear") PROVE fn[todo[t][i].at] # "dead"
  <2>1. PICK l : l = todo[t][i].at
    OBVIOUS
  <2>2. Source(t, l)
    BY <2>1 DEF Pending, Places, IInv, SourcesLive
  <2>3. CASE l \in Var /\ fn[l] # "dead"
    BY <2>1, <2>3
  <2>4. CASE l \in Obj /\ \E w \in Var : Val[w] = l
    BY <2>1, <2>4, OwnedLives DEF Location
  <2> QED
    BY <2>2, <2>3, <2>4 DEF Source
<1>2. ASSUME NEW o \in Obj, block[o] = "valid", refCount[o] = 0
      PROVE  Cardinality({t \in Thread : \E i \in Pending(t, "delete") : todo[t][i].at = o}) = 1
  <2>1. PICK t \in Thread : First(todo[t], "delete") = o /\ \A u \in Thread : First(todo[u], "delete") = o => u = t
    BY <1>2 DEF IInv, Lives
  <2>2. ASSUME NEW u \in Thread
        PROVE  (\E i \in Pending(u, "delete") : todo[u][i].at = o) <=> First(todo[u], "delete") = o
    <3>1. todo[u] \in Seq(Steps) /\ Ordered(u, todo[u])
      BY DEF IInv, Types, AllOrdered
    <3>2. First(todo[u], "delete") = o <=> (todo[u] # << >> /\ todo[u][1].op = "delete" /\ todo[u][1].at = o)
      BY Disjoint DEF First
    <3>3. todo[u] # << >> <=> 1 \in DOMAIN todo[u]
      BY <3>1
    <3>4. \A i \in DOMAIN todo[u] : todo[u][i].op = "delete" => i = 1
      BY <3>1 DEF Ordered
    <3> QED
      BY <3>2, <3>3, <3>4 DEF Pending
  <2>3. {u \in Thread : \E i \in Pending(u, "delete") : todo[u][i].at = o} = {t}
    BY <2>1, <2>2
  <2>4. Cardinality({t}) = 1
    BY FS_Singleton
  <2> QED
    BY <2>3, <2>4
<1>3. ASSUME NEW o \in Obj, block[o] # "valid" PROVE refCount[o] = 0 /\ OwnersOf(o) = {}
  <2>1. refCount[o] = 0
    BY <1>3 DEF IInv, Lives
  <2>2. \A l \in Location : Val[l] # o
    BY <1>3, OwnedLives
  <2>3. OwnersOf(o) = {}
    BY <2>2, OwnersAreVal, ValRel DEF IInv
  <2> QED
    BY <2>1, <2>3
<1> QED
  BY <1>1, <1>2, <1>3 DEF DeletedOnce, ClearsLiveFunction

LEMMA InvCanary == IInv => CanaryIsValid
<1> SUFFICES ASSUME IInv, NEW t \in Thread, ~Idle(t), NEW x, x = Head(todo[t])
             PROVE  /\ x.op = "release" => block[x.at] = "valid"
                    /\ x.op = "copy" /\ fn[x.from] \in Obj => block[fn[x.from]] = "valid"
  BY DEF CanaryIsValid
<1>1. PICK r : Begins(t, x, r)
  BY DEF Begins
<1>2. Types /\ x \in Steps /\ First(todo[t], "release") = IF x.op = "release" THEN x.at ELSE "empty"
  BY <1>1, FirstStep DEF IInv
<1>3. CASE x.op = "release"
  <2>1. x.at \in Obj /\ Rel[t] = x.at
    BY <1>2, <1>3, StepTypes, ValRel
  <2> QED
    BY <1>3, <2>1, OwnedLives
<1>4. CASE x.op = "copy" /\ fn[x.from] \in Obj
  <2>1. x.from \in Location /\ ~Cleared(x.from)
    BY <1>1, <1>4, NextCopy
  <2>2. Val[x.from] = fn[x.from]
    BY <1>2, <2>1, ValRel
  <2> QED
    BY <1>4, <2>1, <2>2, OwnedLives
<1> QED
  BY <1>3, <1>4

LEMMA InvSwap == IInv => SwapExchanges
<1> SUFFICES ASSUME IInv, NEW t \in Thread, ~Idle(t), NEW x, x = Head(todo[t]), x.op = "destruct"
             PROVE  fn[x.swapped.this] = x.swapped.theirs /\ fn[x.swapped.other] = x.swapped.ours
  BY DEF SwapExchanges
<1>1. PICK r : Begins(t, x, r)
  BY DEF Begins
<1>2. AfterFirst(t, todo[t], x, r)
  BY <1>1, FirstStep
<1>3. Swapping(todo[t]) /\ SwapOf(todo[t]) = x.swapped /\ Copies(todo[t]) = 0
  BY <1>2 DEF AfterFirst, SwapOf
<1>4. Progress(t, 0, x.swapped)
  BY <1>3 DEF IInv, SwapsProceed
<1> QED
  BY <1>4 DEF Progress

-----------------------------------------------------------------------------
(* The theorems *)

\* refCount counts the Functions that own an object and the calls about to give it up
\* (createHeapObject(), copyObject() and freeHeapObject() in function.cpp), whatever
\* the interleaving: no object leaks or dies early.
THEOREM OwnersCounted == ASSUME MoveFromInside = FALSE PROVE Spec => []RefCountIsOwners
  BY Invariant, InvOwners, PTL

\* freeHeapObject() deletes an object exactly when its last owner has given it up, by
\* one call only, and never while a move is yet to write to its source in it.
THEOREM ObjectsDieOnce == ASSUME MoveFromInside = FALSE PROVE Spec => []DeletedOnce
  BY Invariant, InvDeletedOnce, PTL

\* The assertions of the canary (function.cpp:76 and 88) hold: no object is copied or
\* released once its memory was given back.
THEOREM CanaryHolds == ASSUME MoveFromInside = FALSE PROVE Spec => []CanaryIsValid
  BY Invariant, InvCanary, PTL

\* swap() (function.hpp) exchanges its Functions, also when they are the same, and
\* whatever the other threads do between its three assignments.
THEOREM SwapSwaps == ASSUME MoveFromInside = FALSE PROVE Spec => []SwapExchanges
  BY Invariant, InvSwap, PTL

-----------------------------------------------------------------------------
(***************************************************************************)
(* Result, for every set of objects, values and errors: it never destroys  *)
(* or overwrites the wrong thing, and holds what it was given.             *)
(***************************************************************************)
\* A flag that told a lie would make destroy() run ~T on an error, or skip a value, and the
\* next operation store something else than it should: both properties hold together.
ResultInv == /\ given = [o \in DOMAIN given |-> given[o]]
             /\ \A o \in DOMAIN given : given[o].kind \in {"value", "error"}
             /\ HoldsWhatWasGiven
             /\ DestroysEveryValue

\* What an operation leaves in o's storage, as ValueOrError has it
Given(o, held) == held.kind \in {"value", "error"} /\ given' = Promised!With(given, o, held)

-----------------------------------------------------------------------------
(* What construction and moving do *)

LEMMA SameWith == \A f, o, x : Promised!With(f, o, x) = With(f, o, x)
BY DEF With, Promised!With

LEMMA SameKinds ==
  /\ \A v : Promised!ValueOf(v) = ValueOf(v) /\ Promised!ErrorOf(v) = ErrorOf(v)
  /\ \A v : ValueOf(v).kind = "value" /\ ErrorOf(v).kind = "error" /\ ErrorOf(v).kind # "value"
BY DEF ValueOf, ErrorOf, Promised!ValueOf, Promised!ErrorOf

\* destroy() leaves no value behind.
LEMMA NothingLeft ==
  ASSUME ResultInv, NEW o
  PROVE  /\ LostBy(Destroyed(o)) = {}
         /\ ~(Exists(o) /\ mHasValue[o] /\ mStorage[o].kind # "value")
<1>1. Destroyed(o) = Nothing
  BY DEF ResultInv, HoldsWhatWasGiven, Destroyed, Exists
<1>2. LostBy(Nothing) = {}
  BY DEF LostBy, Nothing
<1> QED
  BY <1>1, <1>2 DEF ResultInv, HoldsWhatWasGiven, Exists

\* What destroy(), placement new and the flag leave, when the flag tells the truth
LEMMA HoldStep ==
  ASSUME ResultInv, NEW o, NEW held, NEW flag, Hold(o, held, flag),
         flag = (held.kind = "value"), Given(o, held)
  PROVE  ResultInv'
<1>1. /\ mStorage' = With(mStorage, o, held) /\ mHasValue' = With(mHasValue, o, flag)
      /\ given' = With(given, o, held) /\ held.kind \in {"value", "error"}
  BY SameWith DEF Hold, Given
<1>2. DOMAIN given = DOMAIN mHasValue /\ mStorage = given
  BY DEF ResultInv, HoldsWhatWasGiven
<1>3. given' = [p \in DOMAIN given' |-> given'[p]]
  BY <1>1 DEF With
<1>4. /\ DOMAIN mHasValue' = DOMAIN given' /\ mStorage' = given'
      /\ DOMAIN given' = DOMAIN given \cup {o}
  BY <1>1, <1>2 DEF With
<1>5. ASSUME NEW p \in DOMAIN given'
      PROVE  mHasValue'[p] = (given'[p].kind = "value") /\ given'[p].kind \in {"value", "error"}
  <2>1. CASE p = o
    <3>1. mHasValue'[p] = flag /\ given'[p] = held
      BY <1>1, <2>1 DEF With
    <3> QED
      BY <1>1, <3>1
  <2>2. CASE p # o
    <3>1. p \in DOMAIN given
      BY <1>4, <2>2
    <3>2. mHasValue'[p] = mHasValue[p] /\ given'[p] = given[p]
      BY <1>1, <1>2, <2>2, <3>1 DEF With
    <3> QED
      BY <3>1, <3>2 DEF ResultInv, HoldsWhatWasGiven
  <2> QED
    BY <2>1, <2>2
<1>6. HoldsWhatWasGiven'
  BY <1>4, <1>5 DEF HoldsWhatWasGiven
<1>7. DestroysEveryValue'
  BY NothingLeft DEF Hold, ResultInv, DestroysEveryValue
<1> QED
  BY <1>3, <1>5, <1>6, <1>7 DEF ResultInv

LEMMA CopyFromStep ==
  ASSUME ResultInv, NEW o, NEW src, CopyFrom(o, src), Promised!Copy(o, src)
  PROVE  ResultInv'
<1>1. /\ src \in DOMAIN given /\ mHasValue[src] = (given[src].kind = "value")
      /\ mStorage[src] = given[src] /\ given[src].kind \in {"value", "error"}
  BY DEF CopyFrom, Exists, ResultInv, HoldsWhatWasGiven
<1>2. CASE o = src /\ mHasValue[o]
  <2>1. Hold(o, ErrorOf(Indeterminate), FALSE)
    BY <1>2 DEF CopyFrom
  <2>2. Given(o, ErrorOf(Indeterminate))
    BY <1>1, <1>2, SameKinds DEF Promised!Copy, Promised!Set, Given
  <2>3. FALSE = (ErrorOf(Indeterminate).kind = "value")
    BY SameKinds
  <2> QED
    BY <2>1, <2>2, <2>3, HoldStep
<1>3. CASE ~(o = src /\ mHasValue[o])
  <2>1. Hold(o, given[src], mHasValue[src])
    BY <1>1, <1>3 DEF CopyFrom
  <2>2. Given(o, given[src])
    BY <1>1, <1>3 DEF Promised!Copy, Promised!Set, Given
  <2> QED
    BY <1>1, <2>1, <2>2, HoldStep
<1> QED
  BY <1>2, <1>3

LEMMA ApplyStep ==
  ASSUME ResultInv, NEW o, NEW src, NEW made \in Made, Apply(o, src, made), Promised!Apply(o, src, made)
  PROVE  ResultInv'
<1>1. /\ src \in DOMAIN given /\ mHasValue[src] = (given[src].kind = "value")
      /\ mStorage[src] = given[src] /\ given[src].kind \in {"value", "error"}
  BY DEF Apply, Exists, ResultInv, HoldsWhatWasGiven
<1>2. made.kind \in {"value", "error"}
  BY SameKinds DEF Made
<1>3. CASE mHasValue[src]
  <2>1. Hold(o, made, made.kind = "value")
    BY <1>3 DEF Apply
  <2>2. Given(o, made)
    BY <1>1, <1>2, <1>3 DEF Promised!Apply, Promised!Set, Given
  <2> QED
    BY <2>1, <2>2, HoldStep
<1>4. CASE ~mHasValue[src]
  <2>1. Hold(o, given[src], FALSE)
    BY <1>1, <1>4 DEF Apply
  <2>2. Given(o, given[src])
    BY <1>1, <1>4 DEF Promised!Apply, Promised!Set, Given
  <2>3. FALSE = (given[src].kind = "value")
    BY <1>1, <1>4
  <2> QED
    BY <2>1, <2>2, <2>3, HoldStep
<1> QED
  BY <1>3, <1>4

LEMMA MoveFromStep ==
  ASSUME ResultInv, NEW o, NEW src, MoveFrom(o, src), Promised!Move(o, src)
  PROVE  ResultInv'
<1>1. /\ src \in DOMAIN given /\ mHasValue[src] = (given[src].kind = "value")
      /\ mStorage[src] = given[src] /\ given[src].kind \in {"value", "error"}
  BY DEF MoveFrom, Exists, ResultInv, HoldsWhatWasGiven
<1>2. CASE ~mHasValue[src]
  <2>1. Hold(o, given[src], FALSE)
    BY <1>1, <1>2 DEF MoveFrom
  <2>2. Given(o, given[src])
    BY <1>1, <1>2 DEF Promised!Move, Given
  <2>3. FALSE = (given[src].kind = "value")
    BY <1>1, <1>2
  <2> QED
    BY <2>1, <2>2, <2>3, HoldStep
<1>3. CASE mHasValue[src]
  <2>1. /\ mStorage' = With(With(mStorage, o, mStorage[src]), src, emptyError)
        /\ mHasValue' = With(With(mHasValue, o, TRUE), src, FALSE)
    BY <1>3 DEF MoveFrom
  <2>2. given' = With(With(given, o, given[src]), src, emptyError)
    BY <1>1, <1>3, SameWith, SameKinds DEF Promised!Move, emptyError
  <2>3. DOMAIN given = DOMAIN mHasValue /\ mStorage = given
    BY DEF ResultInv, HoldsWhatWasGiven
  <2>4. /\ given' = [p \in DOMAIN given' |-> given'[p]]
        /\ DOMAIN mHasValue' = DOMAIN given' /\ mStorage' = given'
        /\ DOMAIN given' = DOMAIN given \cup {o, src}
    BY <2>1, <2>2, <2>3 DEF With
  <2>5. ASSUME NEW p \in DOMAIN given'
        PROVE  mHasValue'[p] = (given'[p].kind = "value") /\ given'[p].kind \in {"value", "error"}
    <3>1. CASE p = src
      <4>1. mHasValue'[p] = FALSE /\ given'[p] = emptyError
        BY <2>1, <2>2, <3>1 DEF With
      <4> QED
        BY <4>1, SameKinds DEF emptyError
    <3>2. CASE p = o /\ p # src
      <4>1. mHasValue'[p] = TRUE /\ given'[p] = given[src]
        BY <2>1, <2>2, <3>2 DEF With
      <4> QED
        BY <1>1, <1>3, <4>1
    <3>3. CASE p # o /\ p # src
      <4>1. p \in DOMAIN given
        BY <2>4, <3>3
      <4>2. mHasValue'[p] = mHasValue[p] /\ given'[p] = given[p]
        BY <2>1, <2>2, <2>3, <3>3, <4>1 DEF With
      <4> QED
        BY <4>1, <4>2 DEF ResultInv, HoldsWhatWasGiven
    <3> QED
      BY <3>1, <3>2, <3>3
  <2>6. HoldsWhatWasGiven'
    BY <2>4, <2>5 DEF HoldsWhatWasGiven
  <2>7. DestroysEveryValue'
    <3>1. lost' = lost \cup LostBy(Destroyed(o))
                       \cup LostBy(ValueOf(IF o = src THEN Indeterminate ELSE Moved))
      BY <1>3 DEF MoveFrom
    <3>2. LostBy(ValueOf(IF o = src THEN Indeterminate ELSE Moved)) \subseteq {Moved, Indeterminate}
      BY DEF LostBy, ValueOf
    <3>3. ~misdestroyed'
      <4>1. ~(Exists(o) /\ mHasValue[o] /\ mStorage[o].kind # "value") /\ ~misdestroyed
        BY NothingLeft DEF ResultInv, DestroysEveryValue
      <4> QED
        BY <1>3, <4>1 DEF MoveFrom
    <3> QED
      BY <3>1, <3>2, <3>3, NothingLeft DEF ResultInv, DestroysEveryValue
  <2> QED
    BY <2>4, <2>5, <2>6, <2>7 DEF ResultInv
<1> QED
  BY <1>2, <1>3

LEMMA WriteStep ==
  ASSUME ResultInv, NEW o, NEW x,
         \/ WriteValue(o, x) /\ Promised!Set(o, ValueOf(x))
         \/ WriteError(o, x) /\ Promised!Set(o, ErrorOf(x))
  PROVE  ResultInv'
<1>1. DestroysEveryValue'
  BY DEF WriteValue, WriteError, ResultInv, DestroysEveryValue
<1>2. ASSUME NEW held, o \in DOMAIN mHasValue, mHasValue[o] = (held.kind = "value"),
             held.kind \in {"value", "error"},
             mStorage' = [mStorage EXCEPT ![o] = held], mHasValue' = mHasValue,
             Promised!Set(o, held)
      PROVE  ResultInv'
  <2>1. DOMAIN given = DOMAIN mHasValue /\ mStorage = given /\ given' = With(given, o, held)
    BY <1>2, SameWith DEF ResultInv, HoldsWhatWasGiven, Promised!Set
  <2>2. /\ given' = [p \in DOMAIN given' |-> given'[p]]
        /\ DOMAIN given' = DOMAIN given
        /\ \A p \in DOMAIN given : given'[p] = IF p = o THEN held ELSE given[p]
    BY <1>2, <2>1 DEF With
  <2>3. mStorage' = given'
    <3>1. given = [p \in DOMAIN given |-> given[p]]
      BY DEF ResultInv
    <3>2. mStorage' = [p \in DOMAIN given |-> IF p = o THEN held ELSE given[p]]
      BY <1>2, <2>1, <3>1
    <3> QED
      BY <2>2, <3>2
  <2>4. ASSUME NEW p \in DOMAIN given'
        PROVE  mHasValue'[p] = (given'[p].kind = "value") /\ given'[p].kind \in {"value", "error"}
    BY <1>2, <2>2, <2>4 DEF ResultInv, HoldsWhatWasGiven
  <2> QED
    BY <1>1, <1>2, <2>1, <2>2, <2>3, <2>4 DEF ResultInv, HoldsWhatWasGiven
<1>3. CASE WriteValue(o, x) /\ Promised!Set(o, ValueOf(x))
  <2>1. /\ o \in DOMAIN mHasValue /\ mHasValue[o] = (ValueOf(x).kind = "value")
        /\ ValueOf(x).kind \in {"value", "error"}
    BY <1>3, SameKinds DEF WriteValue, ResultInv, HoldsWhatWasGiven, Exists
  <2> QED
    BY <1>2, <1>3, <2>1 DEF WriteValue
<1>4. CASE WriteError(o, x) /\ Promised!Set(o, ErrorOf(x))
  <2>1. /\ o \in DOMAIN mHasValue /\ mHasValue[o] = (ErrorOf(x).kind = "value")
        /\ ErrorOf(x).kind \in {"value", "error"}
    BY <1>4, SameKinds DEF WriteError, ResultInv, HoldsWhatWasGiven, Exists
  <2> QED
    BY <1>2, <1>4, <2>1 DEF WriteError
<1> QED
  BY <1>3, <1>4

LEMMA RemoveStep ==
  ASSUME ResultInv, NEW o, Remove(o), Promised!Remove(o)
  PROVE  ResultInv'
<1>1. DOMAIN given = DOMAIN mHasValue /\ mStorage = given
  BY DEF ResultInv, HoldsWhatWasGiven
<1>2. /\ mStorage' = [p \in DOMAIN given \ {o} |-> given[p]]
      /\ given' = [p \in DOMAIN given \ {o} |-> given[p]]
      /\ mHasValue' = [p \in DOMAIN given \ {o} |-> mHasValue[p]]
  BY <1>1 DEF Remove, Promised!Remove
<1>3. HoldsWhatWasGiven'
  BY <1>2 DEF ResultInv, HoldsWhatWasGiven
<1>4. DestroysEveryValue'
  BY NothingLeft DEF Remove, ResultInv, DestroysEveryValue
<1> QED
  BY <1>2, <1>3, <1>4 DEF ResultInv

-----------------------------------------------------------------------------
(* The invariant *)

LEMMA ResultInvariant == ResultSpec => []ResultInv
<1>1. ResultInit => ResultInv
  BY DEF ResultInit, ResultInv, HoldsWhatWasGiven, DestroysEveryValue, Promised!Init
<1>2. ResultInv /\ [ResultNext]_resultVars => ResultInv'
  <2> SUFFICES ASSUME ResultInv, [ResultNext]_resultVars PROVE ResultInv'
    OBVIOUS
  <2>1. ASSUME NEW o, NEW v, SetValue(o, v), Promised!Set(o, ValueOf(v)) PROVE ResultInv'
    <3>1. Given(o, ValueOf(v)) /\ TRUE = (ValueOf(v).kind = "value")
      BY <2>1, SameKinds DEF Given, Promised!Set
    <3> QED
      BY <2>1, <3>1, HoldStep DEF SetValue
  <2>2. ASSUME NEW o, NEW e, SetError(o, e), Promised!Set(o, ErrorOf(e)) PROVE ResultInv'
    <3>1. Given(o, ErrorOf(e)) /\ FALSE = (ErrorOf(e).kind = "value")
      BY <2>2, SameKinds DEF Given, Promised!Set
    <3> QED
      BY <2>2, <3>1, HoldStep DEF SetError
  <2>3. CASE UNCHANGED resultVars
    BY <2>3 DEF resultVars, ResultInv, HoldsWhatWasGiven, DestroysEveryValue
  <2> QED
    BY <2>1, <2>2, <2>3, CopyFromStep, MoveFromStep, ApplyStep, WriteStep, RemoveStep DEF ResultNext
<1> QED
  BY <1>1, <1>2, PTL DEF ResultSpec

\* ~T runs on values only and every value is destroyed once, but for those that
\* were moved from, whatever Results are copied, moved and assigned, from themselves,
\* too: the clearing of the flags in result.hpp:57-97 never makes destroy() take one
\* thing for another.
THEOREM Destroys == ResultSpec => []DestroysEveryValue
BY ResultInvariant, PTL DEF ResultInv

\* The storage and the flag are two pieces of state that change one after the other; after
\* every sequence of operations they are what the last of them gives (ValueOrError).
THEOREM HoldsTheGiven == ResultSpec => []HoldsWhatWasGiven
BY ResultInvariant, PTL DEF ResultInv
=============================================================================
