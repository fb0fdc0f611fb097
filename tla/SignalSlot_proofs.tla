-------------------------- MODULE SignalSlot_proofs --------------------------
(***************************************************************************)
(* For any number of signals, observers and functors, any nesting of slots *)
(* and any objects that replace each other at one place: slots run with    *)
(* their objects, emissions reach all that is alive, and connections are   *)
(* known on both sides.                                                    *)
(*                                                                         *)
(* The first part (Frames) is about the emissions on the stack, whatever   *)
(* the lists look like.  The second one (Lists) is about the lists of      *)
(* connections; it needs signals of different signatures, since keys do    *)
(* not tell the others apart (MCSignalSlotStale shows what happens then).  *)
(***************************************************************************)
EXTENDS SignalSlot, FiniteSetTheorems, TLAPS

-----------------------------------------------------------------------------
(* The invariants *)

Peers == Object \X Nat
Connections == [key : Key, peer : Peers]
Emissions == [op : {"fire"}, signal : Signal, copy : Seq(Connections), next : Nat \ {0},
              holds : Object \cup {Nobody}, due : Seq(Connections), called : Seq(Connections)]
Destructors == [op : {"destroy"}, object : Object]

Types == /\ tracked \in [Object -> BOOLEAN]
         /\ generation \in [Object -> Nat]
         /\ connections \in [Object -> Seq(Connections)]
         /\ stack \in Seq(Emissions \cup Destructors)

\* A weak pointer is to an object that exists, or has existed.
Known(c) == c.peer[2] <= generation[c.peer[1]]

Destroying(x) == stack # << >> /\ Head(stack).op = "destroy" /\ Head(stack).object = x

\* Only the innermost call can be a destructor: its caller runs on when it returns.
DestructorsOnTop ==
  \A i \in DOMAIN stack : stack[i].op = "destroy" => i = 1 /\ ~tracked[stack[i].object]

\* An emission that is in a slot holds the object its copied connection is about.
Holding(frame) ==
  frame.holds # Nobody =>
    /\ frame.next \in DOMAIN frame.copy
    /\ frame.holds = frame.copy[frame.next].peer[1]
    /\ generation[frame.holds] = frame.copy[frame.next].peer[2]
    /\ tracked[frame.holds] \/ Destroying(frame.holds)

\* Up to the n-th connection, an emission has called all in their order but those that
\* expired: place says which one each call was for.
Placed(frame, place, n) ==
  /\ place \in [DOMAIN frame.called -> 1..n]
  /\ \A j, k \in DOMAIN frame.called : j < k => place[j] < place[k]
  /\ \A j \in DOMAIN frame.called : frame.called[j] = frame.due[place[j]]
  /\ \A k \in 1..n : \/ \E j \in DOMAIN frame.called : place[j] = k
                     \/ Expired(frame.due[k].peer)

\* how far an emission has come
Reached(frame) == IF frame.holds = Nobody THEN frame.next - 1 ELSE frame.next

Delivering(frame) == /\ frame.due = frame.copy
                     /\ \E place : Placed(frame, place, Reached(frame))

Emission(frame) ==
  /\ frame.next <= Len(frame.copy) + 1
  /\ \A i \in DOMAIN frame.copy : Known(frame.copy[i])
  /\ Delivering(frame)
  /\ Holding(frame)

AllKnown == \A x \in Object : /\ Len(connections[x]) <= MaxConnections[x]
                              /\ \A i \in DOMAIN connections[x] : Known(connections[x][i])

Frames == /\ Types /\ AllKnown /\ DestructorsOnTop
          /\ \A i \in DOMAIN stack : stack[i].op = "fire" => Emission(stack[i])

Alive(x) == tracked[x] \/ Destroying(x)

\* how often a list has a key
Under(list, key) == {i \in DOMAIN list : list[i].key = key}
Often(list, key) == Cardinality(Under(list, key))

\* A connection of x is with an object that is at its place now, and of x's signature.
Belongs(x, c) ==
  /\ c.peer = weak_ptr(c.peer[1])
  /\ x \in Signal => c.key[2] \in SlotsOf[x] /\ c.peer[1] = IF c.key[1] \in Observer THEN c.key[1] ELSE x
  /\ x \in Observer => c.key[1] = x /\ c.peer[1] \in Signal /\ c.key[2] \in SlotsOf[c.peer[1]]

-----------------------------------------------------------------------------
(* Lists of connections *)

\* what the steps need to know of a list that gets a connection, or loses keys
Inserted(T, list, c, new) ==
  /\ new \in Seq(T) /\ Len(new) = Len(list) + 1
  /\ \A n \in DOMAIN new : new[n] = c \/ \E i \in DOMAIN list : new[n] = list[i]
  /\ \A key : Often(new, key) = Often(list, key) + (IF c.key = key THEN 1 ELSE 0)

Shortened(T, list, keys, new) ==
  /\ new \in Seq(T) /\ Len(new) <= Len(list)
  /\ \A n \in DOMAIN new : \E i \in DOMAIN list : new[n] = list[i]
  /\ \A key : Often(new, key) = IF key \in keys THEN 0 ELSE Often(list, key)

LEMMA UnderIsFinite ==
  ASSUME NEW T, NEW list \in Seq(T), NEW key
  PROVE  IsFiniteSet(Under(list, key)) /\ Often(list, key) \in Nat
<1>1. Len(list) \in Nat /\ DOMAIN list = 1..Len(list)
  OBVIOUS
<1>2. IsFiniteSet(1..Len(list))
  BY <1>1, FS_Interval
<1>3. Under(list, key) \in SUBSET (1..Len(list))
  BY <1>1 DEF Under
<1>4. IsFiniteSet(Under(list, key))
  BY <1>2, <1>3, FS_Subset
<1> QED
  BY <1>4, FS_CardinalityType DEF Often

\* A list has a key if and only if it has it at least once.
LEMMA OftenPositive ==
  ASSUME NEW T, NEW list \in Seq(T), NEW key
  PROVE  Often(list, key) # 0 <=> \E i \in DOMAIN list : list[i].key = key
<1>1. IsFiniteSet(Under(list, key))
  BY UnderIsFinite
<1>2. Cardinality(Under(list, key)) = 0 <=> Under(list, key) = {}
  BY <1>1, FS_EmptySet
<1> QED
  BY <1>2 DEF Often, Under

LEMMA OftenInEmpty == \A key : Often(<< >>, key) = 0
<1> TAKE key
<1>1. Under(<< >>, key) = {}
  BY DEF Under
<1> QED
  BY <1>1, FS_EmptySet DEF Often

\* Two lists have a key equally often if there is a bijection of its places.
LEMMA OftenMoved ==
  ASSUME NEW T, NEW list \in Seq(T), NEW key, NEW U, NEW f \in [Under(list, key) -> U],
         \A u \in U : \E i \in Under(list, key) : f[i] = u,
         \A i, j \in Under(list, key) : f[i] = f[j] => i = j
  PROVE  IsFiniteSet(U) /\ Cardinality(U) = Often(list, key)
<1>1. IsFiniteSet(Under(list, key))
  BY UnderIsFinite
<1>2. f \in Bijection(Under(list, key), U)
  BY DEF Bijection, Injection, Surjection, IsInjective
<1>3. ExistsBijection(Under(list, key), U)
  BY <1>2 DEF ExistsBijection
<1> QED
  BY <1>1, <1>3, FS_Bijection DEF Often

LEMMA Joined ==
  ASSUME NEW T, NEW a \in Seq(T), NEW b \in Seq(T)
  PROVE  /\ a \o b \in Seq(T) /\ Len(a \o b) = Len(a) + Len(b)
         /\ \A i \in 1..(Len(a) + Len(b)) :
              (a \o b)[i] = IF i <= Len(a) THEN a[i] ELSE b[i - Len(a)]
  OBVIOUS

LEMMA InsertStep ==
  ASSUME NEW T, NEW list \in Seq(T), NEW c \in T
  PROVE  Inserted(T, list, c, insert(list, c))
<1> DEFINE before == {i \in DOMAIN list : Rank(list[i].key) <= Rank(c.key)}
<1>1. PICK n : n = Cardinality(before)
  OBVIOUS
<1>2. n \in 0..Len(list)
  <2>1. Len(list) \in Nat /\ DOMAIN list = 1..Len(list)
    OBVIOUS
  <2>2. IsFiniteSet(1..Len(list)) /\ Cardinality(1..Len(list)) = Len(list)
    BY <2>1, FS_Interval
  <2>3. before \in SUBSET (1..Len(list))
    BY <2>1
  <2>4. IsFiniteSet(before) /\ Cardinality(before) <= Len(list)
    BY <2>2, <2>3, FS_Subset
  <2>5. Cardinality(before) \in Nat
    BY <2>4, FS_CardinalityType
  <2> QED
    BY <1>1, <2>1, <2>4, <2>5
<1>3. PICK new : new = SubSeq(list, 1, n) \o <<c>> \o SubSeq(list, n + 1, Len(list))
  OBVIOUS
<1>4. new = insert(list, c)
  BY <1>1, <1>3 DEF insert
<1>5. /\ new \in Seq(T) /\ Len(new) = Len(list) + 1
      /\ \A i \in 1..(Len(list) + 1) : new[i] = IF i <= n THEN list[i] ELSE IF i = n + 1 THEN c ELSE list[i - 1]
  <2> DEFINE a == SubSeq(list, 1, n)
             b == SubSeq(list, n + 1, Len(list))
  <2>1. /\ Len(list) \in Nat /\ n \in 0..Len(list)
        /\ \A i \in 1..Len(list) : list[i] \in T
    BY <1>2
  <2>2. /\ a \in Seq(T) /\ Len(a) = n
        /\ \A i \in 1..n : a[i] = list[i]
    BY <2>1
  <2>3. /\ b \in Seq(T) /\ Len(b) = Len(list) - n
        /\ \A i \in 1..(Len(list) - n) : b[i] = list[n + i]
    BY <2>1
  <2> HIDE DEF a, b
  <2>4. <<c>> \in Seq(T) /\ Len(<<c>>) = 1 /\ <<c>>[1] = c
    OBVIOUS
  <2>5. PICK d : d = a \o <<c>>
    OBVIOUS
  <2>6. /\ d \in Seq(T) /\ Len(d) = n + 1
        /\ \A i \in 1..(n + 1) : d[i] = IF i <= n THEN list[i] ELSE c
    BY <2>1, <2>2, <2>4, <2>5
  <2>7. new = d \o b
    BY <1>3, <2>5 DEF a, b
  <2>8. /\ new \in Seq(T) /\ Len(new) = Len(list) + 1
        /\ \A i \in 1..(Len(list) + 1) : new[i] = IF i <= n + 1 THEN d[i] ELSE b[i - (n + 1)]
    <3>1. Len(d) + Len(b) = Len(list) + 1
      BY <2>1, <2>3, <2>6
    <3> QED
      BY <2>3, <2>6, <2>7, <3>1, Joined
  <2>9. ASSUME NEW i \in 1..(Len(list) + 1)
        PROVE  new[i] = IF i <= n THEN list[i] ELSE IF i = n + 1 THEN c ELSE list[i - 1]
    <3>1. CASE i <= n + 1
      BY <2>1, <2>6, <2>8, <3>1
    <3>2. CASE i > n + 1
      <4>1. i - (n + 1) \in 1..(Len(list) - n) /\ n + (i - (n + 1)) = i - 1
        BY <2>1, <3>2
      <4>2. b[i - (n + 1)] = list[n + (i - (n + 1))]
        BY <2>3, <4>1
      <4> QED
        BY <2>1, <2>8, <3>2, <4>1, <4>2
    <3> QED
      BY <2>1, <3>1, <3>2
  <2> QED
    BY <2>8, <2>9
<1>6. DOMAIN list = 1..Len(list) /\ DOMAIN new = 1..(Len(list) + 1) /\ Len(list) \in Nat
  BY <1>5
<1>7. ASSUME NEW i \in DOMAIN new PROVE new[i] = c \/ \E j \in DOMAIN list : new[i] = list[j]
  <2>1. CASE i <= n
    BY <1>2, <1>5, <1>6, <2>1
  <2>2. CASE i > n + 1
    <3>1. i - 1 \in DOMAIN list /\ new[i] = list[i - 1]
      BY <1>2, <1>5, <1>6, <2>2
    <3> QED
      BY <3>1
  <2> QED
    BY <1>2, <1>5, <1>6, <2>1, <2>2
<1>8. ASSUME NEW key
      PROVE  Often(new, key) = Often(list, key) + (IF c.key = key THEN 1 ELSE 0)
  <2> DEFINE U == Under(new, key) \ {n + 1}
             f == [i \in Under(list, key) |-> IF i <= n THEN i ELSE i + 1]
  <2>1. f \in [Under(list, key) -> U]
    BY <1>2, <1>5, <1>6 DEF Under
  <2>2. ASSUME NEW u \in U PROVE \E i \in Under(list, key) : f[i] = u
    <3>1. CASE u <= n
      BY <1>2, <1>5, <1>6, <2>2, <3>1 DEF Under
    <3>2. CASE u > n + 1
      <4>1. u - 1 \in Under(list, key) /\ f[u - 1] = u
        BY <1>2, <1>5, <1>6, <2>2, <3>2 DEF Under
      <4> QED
        BY <4>1
    <3> QED
      BY <1>2, <1>6, <2>2, <3>1, <3>2 DEF Under
  <2>3. \A i, j \in Under(list, key) : f[i] = f[j] => i = j
    BY <1>2, <1>6 DEF Under
  <2> HIDE DEF f
  <2>4. IsFiniteSet(U) /\ Cardinality(U) = Often(list, key)
    BY <2>1, <2>2, <2>3, OftenMoved
  <2>5. IsFiniteSet(U \cup {n + 1}) /\ Cardinality(U \cup {n + 1}) = Often(list, key) + 1
    <3>1. n + 1 \notin U
      OBVIOUS
    <3> HIDE DEF U
    <3> QED
      BY <2>4, <3>1, FS_AddElement
  <2>6. Under(new, key) = IF c.key = key THEN U \cup {n + 1} ELSE U
    BY <1>2, <1>5, <1>6 DEF Under
  <2>7. Often(list, key) \in Nat
    BY UnderIsFinite
  <2> HIDE DEF U
  <2>8. Often(new, key) = Cardinality(Under(new, key))
    BY DEF Often
  <2> QED
    BY <2>4, <2>5, <2>6, <2>7, <2>8
<1> QED
  BY <1>4, <1>5, <1>7, <1>8 DEF Inserted

\* In a set of places, the n-th one is that up to which there are n.
LEMMA Ranks ==
  ASSUME NEW L \in Nat, NEW K \in SUBSET (1..L)
  PROVE  /\ Cardinality(K) \in Nat /\ Cardinality(K) <= L
         /\ \A i \in K : Cardinality(K \cap 1..i) \in 1..Cardinality(K)
         /\ \A i, j \in K : Cardinality(K \cap 1..i) = Cardinality(K \cap 1..j) => i = j
         /\ \A n \in 1..Cardinality(K) : \E i \in K : Cardinality(K \cap 1..i) = n
<1>1. IsFiniteSet(1..L) /\ Cardinality(1..L) = L
  BY FS_Interval
<1>2. IsFiniteSet(K) /\ Cardinality(K) <= L
  BY <1>1, FS_Subset
<1>3. Cardinality(K) \in Nat
  BY <1>2, FS_CardinalityType
<1>4. ASSUME NEW i \in K
      PROVE  /\ IsFiniteSet(K \cap 1..i) /\ Cardinality(K \cap 1..i) \in 1..Cardinality(K)
  <2>1. K \cap 1..i \in SUBSET K
    OBVIOUS
  <2>2. IsFiniteSet(K \cap 1..i) /\ Cardinality(K \cap 1..i) <= Cardinality(K)
    BY <1>2, <2>1, FS_Subset
  <2>3. Cardinality(K \cap 1..i) \in Nat
    BY <2>2, FS_CardinalityType
  <2>4. K \cap 1..i # {}
    OBVIOUS
  <2>5. Cardinality(K \cap 1..i) # 0
    BY <2>2, <2>4, FS_EmptySet
  <2> QED
    BY <1>3, <2>2, <2>3, <2>5
<1>5. ASSUME NEW i \in K, NEW j \in K, i < j PROVE Cardinality(K \cap 1..i) # Cardinality(K \cap 1..j)
  <2>1. K \cap 1..i \in SUBSET (K \cap 1..j) /\ K \cap 1..i # K \cap 1..j
    BY <1>5
  <2> QED
    BY <1>4, <2>1, FS_Subset
<1>6. \A i, j \in K : Cardinality(K \cap 1..i) = Cardinality(K \cap 1..j) => i = j
  <2> TAKE i, j \in K
  <2>1. i < j \/ j < i \/ i = j
    OBVIOUS
  <2> QED
    BY <1>5, <2>1
<1>7. \A n \in 1..Cardinality(K) : \E i \in K : Cardinality(K \cap 1..i) = n
  <2> DEFINE f == [i \in K |-> Cardinality(K \cap 1..i)]
             N == 1..Cardinality(K)
  <2>1. f \in [K -> N]
    BY <1>4
  <2>2. f \in Injection(K, N)
    BY <1>6, <2>1 DEF Injection, IsInjective
  <2>3. IsFiniteSet(N) /\ Cardinality(N) = Cardinality(K)
    BY <1>3, FS_Interval
  <2> HIDE DEF N
  <2>4. f \in Surjection(K, N)
    BY <2>2, <2>3, FS_Injection
  <2>5. \A n \in N : \E i \in K : f[i] = n
    BY <2>4 DEF Surjection
  <2> QED
    BY <2>5 DEF N
<1> QED
  BY <1>2, <1>3, <1>4, <1>6, <1>7

LEMMA WithoutStep ==
  ASSUME NEW T, NEW list \in Seq(T), NEW keys
  PROVE  Shortened(T, list, keys, Without(list, keys))
<1> DEFINE kept == {i \in DOMAIN list : list[i].key \notin keys}
           Nth(n) == CHOOSE i \in kept : Cardinality(kept \cap 1..i) = n
<1>1. PICK K : K = kept
  OBVIOUS
<1>2. PICK m : m = Cardinality(K)
  OBVIOUS
<1>3. PICK g : g = [n \in 1..m |-> Nth(n)]
  OBVIOUS
<1>4. PICK new : new = [n \in 1..m |-> list[g[n]]]
  OBVIOUS
<1>5. new = Without(list, keys)
  BY <1>1, <1>2, <1>3, <1>4 DEF Without
<1>0. /\ \A i : i \in K <=> i \in DOMAIN list /\ list[i].key \notin keys
      /\ \A n \in 1..m : (\E i \in K : Cardinality(K \cap 1..i) = n) =>
                            g[n] \in K /\ Cardinality(K \cap 1..g[n]) = n
      /\ m = Cardinality(K)
  BY <1>1, <1>2, <1>3
<1> HIDE DEF kept, Nth
<1>6. Len(list) \in Nat /\ DOMAIN list = 1..Len(list) /\ K \in SUBSET (1..Len(list))
  BY <1>0
<1>7. /\ m \in Nat /\ m <= Len(list)
      /\ \A i \in K : Cardinality(K \cap 1..i) \in 1..m
      /\ \A i, j \in K : Cardinality(K \cap 1..i) = Cardinality(K \cap 1..j) => i = j
      /\ \A n \in 1..m : \E i \in K : Cardinality(K \cap 1..i) = n
  BY <1>0, <1>6, Ranks
<1>8. \A n \in 1..m : g[n] \in K /\ Cardinality(K \cap 1..g[n]) = n
  BY <1>0, <1>7
<1>9. \A n \in 1..m : new[n] = list[g[n]] /\ list[g[n]] \in T
  <2>1. \A n \in 1..m : g[n] \in DOMAIN list
    BY <1>0, <1>8
  <2> QED
    BY <1>4, <2>1
<1>10. new \in Seq(T) /\ Len(new) = m /\ DOMAIN new = 1..m
  BY <1>4, <1>7, <1>9
<1>11. ASSUME NEW key PROVE Often(new, key) = IF key \in keys THEN 0 ELSE Often(list, key)
  <2>1. CASE key \in keys
    <3>1. Under(new, key) = {}
      BY <1>0, <1>8, <1>9, <1>10, <2>1 DEF Under
    <3> QED
      BY <2>1, <3>1, FS_EmptySet DEF Often
  <2>2. CASE key \notin keys
    <3> DEFINE f == [i \in Under(list, key) |-> Cardinality(K \cap 1..i)]
    <3>1. \A i \in Under(list, key) : i \in K
      BY <1>0, <2>2 DEF Under
    <3>2. \A i \in Under(list, key) : f[i] \in 1..m /\ g[f[i]] = i
      BY <1>7, <1>8, <3>1
    <3> DEFINE U == Under(new, key)
    <3>3. f \in [Under(list, key) -> U]
      <4>1. ASSUME NEW i \in Under(list, key) PROVE f[i] \in U
        <5>1. new[f[i]] = list[i] /\ list[i].key = key /\ f[i] \in DOMAIN new
          BY <1>9, <1>10, <3>2 DEF Under
        <5> HIDE DEF f
        <5> QED
          BY <5>1 DEF Under
      <4> QED
        BY <4>1
    <3>4. \A u \in U : g[u] \in Under(list, key) /\ f[g[u]] = u
      BY <1>6, <1>8, <1>9, <1>10 DEF Under
    <3> HIDE DEF f, U
    <3>5. /\ \A i, j \in Under(list, key) : f[i] = f[j] => i = j
          /\ \A u \in U : \E i \in Under(list, key) : f[i] = u
      BY <3>2, <3>4
    <3>6. Cardinality(U) = Often(list, key)
      BY <3>3, <3>5, OftenMoved
    <3> QED
      BY <2>2, <3>6 DEF Often, U
  <2> QED
    BY <2>1, <2>2
<1> QED
  BY <1>5, <1>6, <1>7, <1>8, <1>9, <1>10, <1>11 DEF Shortened

-----------------------------------------------------------------------------
(* What the steps do to the lists *)

LEMMA KeysAndObjects ==
  /\ Nobody \notin Object /\ Signal \subseteq Object /\ Observer \subseteq Object
  /\ MaxConnections \in [Object -> Nat]
  BY SignalAssumption DEF Object

LEMMA Apart == Signal \cap Observer = {}
  BY SignalAssumption

\* the peer of a new connection, in the list of x
PeerFor(x, s, key) == IF x = s /\ key[1] \in Observer THEN key[1] ELSE s

LEMMA NewConnection ==
  ASSUME Types, NEW s \in Signal, NEW key \in Key, NEW x
  PROVE  /\ Connection(key, PeerFor(x, s, key)) \in Connections
         /\ Known(Connection(key, PeerFor(x, s, key)))
<1>1. PICK y : y = PeerFor(x, s, key)
  OBVIOUS
<1>2. y \in Object
  BY <1>1, KeysAndObjects DEF PeerFor
<1>3. generation[y] \in Nat
  BY <1>2, KeysAndObjects DEF Types
<1>4. Connection(key, y) \in Connections /\ Known(Connection(key, y))
  BY <1>2, <1>3 DEF Connection, Connections, Peers, weak_ptr, Known
<1> QED
  BY <1>1, <1>4

\* what connect, disconnect and disconnect_all do to the list of x
Connects(x, s, key) ==
  IF x \in ListsOf(s, key)
  THEN /\ Len(connections[x]) < MaxConnections[x]
       /\ Inserted(Connections, connections[x], Connection(key, PeerFor(x, s, key)), connections'[x])
  ELSE connections'[x] = connections[x]
Disconnects(x, s, key) ==
  IF x \in ListsOf(s, key) THEN Shortened(Connections, connections[x], {key}, connections'[x])
  ELSE connections'[x] = connections[x]
Clears(y, x) ==
  IF y = x THEN connections'[y] = << >>
  ELSE Shortened(Connections, connections[y], Visiting(x, y), connections'[y])

LEMMA ConnectStep ==
  ASSUME Types, NEW s \in Signal, NEW key \in Key, connect(s, key), NEW x \in Object
  PROVE  Connects(x, s, key)
<1>1. PICK c : c = Connection(key, PeerFor(x, s, key))
  OBVIOUS
<1>2. c \in Connections /\ connections[x] \in Seq(Connections)
  BY <1>1, NewConnection DEF Types
<1>3. Inserted(Connections, connections[x], c, insert(connections[x], c))
  BY <1>2, InsertStep
<1>4. connections'[x] = IF x \notin ListsOf(s, key) THEN connections[x] ELSE insert(connections[x], c)
  BY <1>1 DEF connect, PeerFor
<1>5. x \in ListsOf(s, key) => Len(connections[x]) < MaxConnections[x]
  BY DEF connect
<1>6. CASE x \in ListsOf(s, key)
  BY <1>1, <1>3, <1>4, <1>5, <1>6 DEF Connects
<1>7. CASE x \notin ListsOf(s, key)
  BY <1>4, <1>7 DEF Connects
<1> QED
  BY <1>6, <1>7

LEMMA DisconnectStep ==
  ASSUME Types, NEW s \in Signal, NEW key \in Key, disconnect(s, key), NEW x \in Object
  PROVE  Disconnects(x, s, key)
<1>1. Shortened(Connections, connections[x], {key}, Without(connections[x], {key}))
  BY WithoutStep DEF Types
<1>2. connections'[x] = IF x \in ListsOf(s, key) THEN Without(connections[x], {key}) ELSE connections[x]
  BY DEF disconnect, remove
<1> QED
  BY <1>1, <1>2 DEF Disconnects

LEMMA ClearStep ==
  ASSUME Types, NEW x \in Object, connections' = WithoutAll(x), NEW y \in Object
  PROVE  Clears(y, x)
<1>1. Shortened(Connections, connections[y], Visiting(x, y), Without(connections[y], Visiting(x, y)))
  BY WithoutStep DEF Types
<1>2. connections'[y] = IF y = x THEN << >> ELSE Without(connections[y], Visiting(x, y))
  BY DEF WithoutAll
<1> QED
  BY <1>1, <1>2 DEF Clears

\* The lists after a step, as far as their elements go.
Kept(x) ==
  /\ connections'[x] \in Seq(Connections) /\ Len(connections'[x]) <= MaxConnections[x]
  /\ \A i \in DOMAIN connections'[x] : \/ Known(connections'[x][i])
                                       \/ \E j \in DOMAIN connections[x] : connections'[x][i] = connections[x][j]

LEMMA ListsAfterConnect ==
  ASSUME Types, AllKnown, NEW s \in Signal, NEW key \in Key, connect(s, key), NEW x \in Object
  PROVE  Kept(x)
<1>1. connections[x] \in Seq(Connections) /\ Len(connections[x]) <= MaxConnections[x]
  BY DEF Types, AllKnown
<1>2. Connects(x, s, key)
  BY ConnectStep
<1>3. CASE x \in ListsOf(s, key)
  <2>1. PICK c : c = Connection(key, PeerFor(x, s, key))
    OBVIOUS
  <2>2. Known(c)
    BY <2>1, NewConnection
  <2>3. Inserted(Connections, connections[x], c, connections'[x]) /\ Len(connections[x]) < MaxConnections[x]
    BY <1>2, <1>3, <2>1 DEF Connects
  <2>4. Len(connections[x]) + 1 <= MaxConnections[x]
    BY <1>1, <2>3, KeysAndObjects
  <2> QED
    BY <2>2, <2>3, <2>4 DEF Kept, Inserted
<1>4. CASE x \notin ListsOf(s, key)
  BY <1>1, <1>2, <1>4 DEF Connects, Kept
<1> QED
  BY <1>3, <1>4

LEMMA ShortenedIsKept ==
  ASSUME Types, AllKnown, NEW x \in Object, NEW keys,
         Shortened(Connections, connections[x], keys, connections'[x])
  PROVE  Kept(x)
<1>1. Len(connections[x]) \in Nat /\ Len(connections[x]) <= MaxConnections[x]
  BY DEF Types, AllKnown
<1>2. Len(connections'[x]) \in Nat /\ Len(connections'[x]) <= Len(connections[x])
  BY DEF Shortened
<1>3. Len(connections'[x]) <= MaxConnections[x]
  BY <1>1, <1>2, KeysAndObjects
<1> QED
  BY <1>3 DEF Kept, Shortened

LEMMA ListsAfterDisconnect ==
  ASSUME Types, AllKnown, NEW s \in Signal, NEW key \in Key, disconnect(s, key), NEW x \in Object
  PROVE  Kept(x)
<1>1. Disconnects(x, s, key)
  BY DisconnectStep
<1>2. CASE x \in ListsOf(s, key)
  BY <1>1, <1>2, ShortenedIsKept DEF Disconnects
<1>3. CASE x \notin ListsOf(s, key)
  BY <1>1, <1>3 DEF Disconnects, Kept, Types, AllKnown
<1> QED
  BY <1>2, <1>3

LEMMA ListsAfterClear ==
  ASSUME Types, AllKnown, NEW x \in Object, connections' = WithoutAll(x), NEW y \in Object
  PROVE  Kept(y)
<1>1. Clears(y, x)
  BY ClearStep
<1>2. CASE y = x
  <2>1. connections'[y] = << >>
    BY <1>1, <1>2 DEF Clears
  <2>2. << >> \in Seq(Connections) /\ Len(<< >>) = 0 /\ DOMAIN << >> = {}
    OBVIOUS
  <2> QED
    BY <2>1, <2>2, KeysAndObjects DEF Kept
<1>3. CASE y # x
  BY <1>1, <1>3, ShortenedIsKept DEF Clears
<1> QED
  BY <1>2, <1>3

-----------------------------------------------------------------------------
(* What the steps do to the emissions *)

\* An object that lives is the same one as before, or one that came to life.
Ages == \A y \in Object : \/ generation'[y] = generation[y] /\ (tracked'[y] => tracked[y])
                          \/ generation'[y] = generation[y] + 1 /\ ~tracked[y]

LEMMA KnownStays ==
  ASSUME Types, Types', Ages, NEW c \in Connections, Known(c)
  PROVE  Known(c)' /\ (Expired(c.peer) => Expired(c.peer)')
<1>1. PICK y \in Object, g \in Nat : c.peer[1] = y /\ c.peer[2] = g
  BY DEF Connections, Peers
<1>2. generation[y] \in Nat /\ generation'[y] \in Nat /\ g <= generation[y]
  BY <1>1, KeysAndObjects DEF Types, Known
<1>3. g <= generation'[y]
  BY <1>2 DEF Ages
<1>4. ~tracked[y] \/ generation[y] # g => ~tracked'[y] \/ generation'[y] # g
  BY <1>2 DEF Ages
<1> QED
  BY <1>1, <1>3, <1>4 DEF Known, Expired

LEMMA ListsStay ==
  ASSUME Types, Types', Ages, AllKnown, \A x \in Object : Kept(x)
  PROVE  AllKnown'
<1>1. ASSUME NEW x \in Object, NEW i \in DOMAIN connections'[x], NEW c, c = connections'[x][i]
      PROVE  Known(c)'
  <2>1. Kept(x)
    OBVIOUS
  <2>2. c \in Connections
    BY <1>1, <2>1 DEF Kept
  <2>3. Known(c)
    BY <1>1, <2>1 DEF Kept, AllKnown
  <2> QED
    BY <2>2, <2>3, KnownStays
<1>2. ASSUME NEW x \in Object PROVE Len(connections'[x]) <= MaxConnections[x]
  BY DEF Kept
<1> QED
  BY <1>1, <1>2 DEF AllKnown, Known

\* An emission goes on as it was if the object that it holds stays.
LEMMA EmissionStays ==
  ASSUME Types, Types', Ages, NEW frame \in Emissions, Emission(frame),
         frame.holds # Nobody => /\ generation'[frame.holds] = generation[frame.holds]
                                 /\ tracked'[frame.holds] \/ Destroying(frame.holds)'
  PROVE  Emission(frame)'
<1>1. /\ frame.copy \in Seq(Connections) /\ frame.next \in Nat
      /\ frame.next <= Len(frame.copy) + 1
      /\ \A i \in DOMAIN frame.copy : Known(frame.copy[i])
      /\ frame.due = frame.copy
      /\ Holding(frame)
  BY DEF Emission, Emissions, Delivering
<1>2. \A i \in DOMAIN frame.copy : frame.copy[i] \in Connections
  BY <1>1
<1>3. \A i \in DOMAIN frame.copy : Known(frame.copy[i])'
  BY <1>1, <1>2, KnownStays
<1>4. Delivering(frame)'
  <2> DEFINE n == Reached(frame)
  <2>1. PICK place : Placed(frame, place, n)
    BY DEF Emission, Delivering
  <2>2. 1..n \subseteq DOMAIN frame.copy
    BY <1>1 DEF Reached, Holding
  <2>3. ASSUME NEW k \in 1..n, Expired(frame.due[k].peer) PROVE Expired(frame.due[k].peer)'
    BY <1>1, <1>2, <2>2, <2>3, KnownStays
  <2>4. Placed(frame, place, n)'
    BY <2>1, <2>3 DEF Placed
  <2> QED
    BY <1>1, <2>4 DEF Delivering, Reached
<1>5. Holding(frame)'
  BY <1>1 DEF Holding
<1> QED
  BY <1>1, <1>3, <1>4, <1>5 DEF Emission

-----------------------------------------------------------------------------
(* Steps: frames *)

LEMMA StackFacts ==
  ASSUME Frames
  PROVE  /\ stack \in Seq(Emissions \cup Destructors)
         /\ \A i \in DOMAIN stack : \/ stack[i] \in Emissions /\ stack[i].op = "fire" /\ Emission(stack[i])
                                    \/ i = 1 /\ stack[i] \in Destructors /\ stack[i].op = "destroy"
                                       /\ ~tracked[stack[i].object]
         /\ stack # << >> => 1 \in DOMAIN stack /\ Head(stack) = stack[1] /\ Top = stack[1]
         /\ stack = << >> => Top.op = "program"
<1>1. stack \in Seq(Emissions \cup Destructors)
  BY DEF Frames, Types
<1>2. ASSUME NEW i \in DOMAIN stack
      PROVE  \/ stack[i] \in Emissions /\ stack[i].op = "fire" /\ Emission(stack[i])
             \/ i = 1 /\ stack[i] \in Destructors /\ stack[i].op = "destroy" /\ ~tracked[stack[i].object]
  <2>1. stack[i] \in Emissions \cup Destructors
    BY <1>1
  <2>2. stack[i].op = "destroy" => i = 1 /\ ~tracked[stack[i].object]
    BY DEF Frames, DestructorsOnTop
  <2>3. stack[i].op = "fire" => Emission(stack[i])
    BY DEF Frames
  <2>4. stack[i] \in Emissions => stack[i].op = "fire"
    BY DEF Emissions
  <2>5. stack[i] \in Destructors => stack[i].op = "destroy"
    BY DEF Destructors
  <2> QED
    BY <2>1, <2>2, <2>3, <2>4, <2>5
<1>3. stack # << >> => 1 \in DOMAIN stack /\ Head(stack) = stack[1] /\ Top = stack[1]
  BY <1>1 DEF Top
<1>4. stack = << >> => Top.op = "program"
  BY DEF Top
<1> QED
  BY <1>1, <1>2, <1>3, <1>4

\* While code of the program runs, no object is being destroyed further up the stack.
LEMMA RunningFacts ==
  ASSUME Frames, Running
  PROVE  /\ \A x : ~Destroying(x)
         /\ \A i \in DOMAIN stack : stack[i] \in Emissions /\ stack[i].op = "fire" /\ Emission(stack[i])
         /\ stack # << >> => stack[1].holds # Nobody
<1>1. stack # << >> => stack[1].op = "fire" /\ stack[1].holds # Nobody
  BY StackFacts DEF Running
<1>2. \A i \in DOMAIN stack : stack[i].op # "destroy"
  BY <1>1, StackFacts
<1> QED
  BY <1>1, <1>2, StackFacts DEF Destroying

\* the object that an emission is in a slot of
LEMMA HeldObject ==
  ASSUME Frames, NEW i \in DOMAIN stack, stack[i].op = "fire", stack[i].holds # Nobody
  PROVE  stack[i].holds \in Object /\ (tracked[stack[i].holds] \/ Destroying(stack[i].holds))
<1>1. stack[i] \in Emissions /\ Emission(stack[i])
  BY StackFacts
<1> QED
  BY <1>1 DEF Emissions, Emission, Holding

\* connect, disconnect, disconnect_all
LEMMA FramesWithLists ==
  ASSUME Frames, UNCHANGED <<tracked, generation, stack>>,
         connections' = [x \in Object |-> connections'[x]], \A x \in Object : Kept(x)
  PROVE  Frames'
<1>1. Types'
  <2>1. \A x \in Object : connections'[x] \in Seq(Connections)
    BY DEF Kept
  <2> QED
    BY <2>1 DEF Frames, Types
<1>2. Ages
  BY DEF Ages
<1>3. AllKnown'
  BY <1>1, <1>2, ListsStay DEF Frames
<1>4. DestructorsOnTop'
  BY DEF Frames, DestructorsOnTop
<1>5. \A i \in DOMAIN stack' : stack'[i].op = "fire" => Emission(stack[i])'
  BY DEF Frames, Emission, Delivering, Placed, Known, Expired, Holding, Destroying
<1> QED
  BY <1>1, <1>3, <1>4, <1>5 DEF Frames

LEMMA ConstructFrames ==
  ASSUME Frames, NEW x \in Object, Construct(x)
  PROVE  Frames'
<1>1. /\ Running /\ ~tracked[x] /\ generation[x] < MaxGeneration[x]
      /\ tracked' = [tracked EXCEPT ![x] = TRUE]
      /\ generation' = [generation EXCEPT ![x] = @ + 1]
      /\ connections' = connections /\ stack' = stack
  BY DEF Construct
<1>2. Types'
  <2>1. generation[x] + 1 \in Nat
    BY <1>1, KeysAndObjects DEF Frames, Types
  <2> QED
    BY <1>1, <2>1 DEF Frames, Types
<1>3. Ages
  BY <1>1 DEF Frames, Types, Ages
<1>4. AllKnown'
  <2>1. \A y \in Object : Kept(y)
    BY <1>1 DEF Kept, Frames, Types, AllKnown
  <2> QED
    BY <1>2, <1>3, <2>1, ListsStay DEF Frames
<1>5. DestructorsOnTop'
  BY <1>1, RunningFacts DEF DestructorsOnTop
<1>6. ASSUME NEW i \in DOMAIN stack, NEW frame, frame = stack[i] PROVE Emission(frame)'
  <2>1. frame \in Emissions /\ frame.op = "fire" /\ Emission(frame)
    BY <1>1, <1>6, RunningFacts
  <2>2. ASSUME frame.holds # Nobody
        PROVE  generation'[frame.holds] = generation[frame.holds] /\ tracked'[frame.holds]
    <3>1. frame.holds \in Object /\ tracked[frame.holds]
      BY <1>1, <1>6, <2>1, <2>2, HeldObject, RunningFacts
    <3> QED
      BY <1>1, <3>1 DEF Frames, Types
  <2> QED
    BY <1>2, <1>3, <2>1, <2>2, EmissionStays DEF Frames
<1>7. ASSUME NEW i \in DOMAIN stack', stack'[i].op = "fire", NEW frame, frame = stack'[i] PROVE Emission(frame)'
  BY <1>1, <1>6, <1>7
<1> QED
  BY <1>2, <1>4, <1>5, <1>7 DEF Frames, Emission, Delivering, Placed, Known, Expired, Holding, Destroying

\* a call on top of the others
LEMMA PushFacts ==
  ASSUME Frames, NEW g, stack' = <<g>> \o stack
  PROVE  /\ stack' # << >> /\ Head(stack') = g /\ stack'[1] = g
         /\ \A i \in DOMAIN stack' : i = 1 \/ (i - 1 \in DOMAIN stack /\ stack'[i] = stack[i - 1])
         /\ g \in Emissions \cup Destructors => stack' \in Seq(Emissions \cup Destructors)
<1>1. PICK T : T = Emissions \cup Destructors \cup {g}
  OBVIOUS
<1>2. stack \in Seq(Emissions \cup Destructors) /\ stack \in Seq(T) /\ <<g>> \in Seq(T) /\ Len(<<g>>) = 1 /\ <<g>>[1] = g
  BY <1>1, StackFacts
<1>3. /\ stack' \in Seq(T) /\ Len(stack') = 1 + Len(stack)
      /\ \A i \in 1..(1 + Len(stack)) : stack'[i] = IF i <= 1 THEN <<g>>[i] ELSE stack[i - 1]
  BY <1>2, Joined
<1>4. Len(stack) \in Nat /\ DOMAIN stack = 1..Len(stack) /\ DOMAIN stack' = 1..(1 + Len(stack))
  BY <1>2, <1>3
<1>5. stack' # << >> /\ Head(stack') = stack'[1] /\ stack'[1] = g
  BY <1>2, <1>3, <1>4
<1>6. \A i \in DOMAIN stack' : i = 1 \/ (i - 1 \in DOMAIN stack /\ stack'[i] = stack[i - 1])
  BY <1>3, <1>4
<1>7. g \in Emissions \cup Destructors => T = Emissions \cup Destructors
  BY <1>1
<1> QED
  BY <1>3, <1>5, <1>6, <1>7

LEMMA DestroyFrames ==
  ASSUME Frames, NEW x \in Object, Destroy(x)
  PROVE  Frames'
<1>1. /\ Running /\ tracked[x] /\ tracked' = [tracked EXCEPT ![x] = FALSE]
      /\ generation' = generation /\ connections' = connections
  BY DEF Destroy
<1>2. PICK g : g = [op |-> "destroy", object |-> x]
  OBVIOUS
<1>3. g \in Destructors /\ g.op = "destroy" /\ g.object = x /\ stack' = <<g>> \o stack
  BY <1>2 DEF Destructors, Destroy
<1>4. /\ stack' # << >> /\ Head(stack') = g /\ stack'[1] = g
      /\ \A i \in DOMAIN stack' : i = 1 \/ (i - 1 \in DOMAIN stack /\ stack'[i] = stack[i - 1])
      /\ stack' \in Seq(Emissions \cup Destructors)
  BY <1>3, PushFacts
<1>5. Types'
  BY <1>1, <1>4 DEF Frames, Types
<1>6. Ages
  BY <1>1 DEF Frames, Types, Ages
<1>7. AllKnown'
  BY <1>1 DEF Frames, AllKnown, Known
<1>8. DestructorsOnTop'
  <2>1. ~tracked'[x]
    BY <1>1 DEF Frames, Types
  <2>2. \A i \in DOMAIN stack' : stack'[i].op = "destroy" => i = 1
    BY <1>1, <1>4, RunningFacts
  <2> QED
    BY <1>3, <1>4, <2>1, <2>2 DEF DestructorsOnTop
<1>9. \A y : Destroying(y)' <=> y = x
  BY <1>3, <1>4 DEF Destroying
<1>10. ASSUME NEW i \in DOMAIN stack, NEW frame, frame = stack[i] PROVE Emission(frame)'
  <2>1. frame \in Emissions /\ frame.op = "fire" /\ Emission(frame)
    BY <1>1, <1>10, RunningFacts
  <2>2. ASSUME frame.holds # Nobody
        PROVE  tracked'[frame.holds] \/ Destroying(frame.holds)'
    <3>1. frame.holds \in Object /\ tracked[frame.holds]
      BY <1>1, <1>10, <2>1, <2>2, HeldObject, RunningFacts
    <3> QED
      BY <1>1, <1>9, <3>1 DEF Frames, Types
  <2> QED
    BY <1>1, <1>5, <1>6, <2>1, <2>2, EmissionStays DEF Frames
<1>11. ASSUME NEW i \in DOMAIN stack', stack'[i].op = "fire", NEW frame, frame = stack'[i] PROVE Emission(frame)'
  BY <1>3, <1>4, <1>10, <1>11
<1> QED
  BY <1>5, <1>7, <1>8, <1>11 DEF Frames, Emission, Delivering, Placed, Known, Expired, Holding, Destroying

\* Steps of emissions change nothing but the stack; no object is being destroyed
\* further up the stack before and after them.
LEMMA EmissionFrames ==
  ASSUME Frames, UNCHANGED <<tracked, generation, connections>>,
         stack' \in Seq(Emissions \cup Destructors),
         \A y : ~Destroying(y),
         \A i \in DOMAIN stack' : \/ \E j \in DOMAIN stack : stack'[i] = stack[j]
                                  \/ stack'[i] \in Emissions /\ Emission(stack'[i])
  PROVE  Frames'
<1>1. \A j \in DOMAIN stack : stack[j] \in Emissions /\ stack[j].op = "fire" /\ Emission(stack[j])
  BY StackFacts DEF Destroying
<1>2. \A i \in DOMAIN stack' : stack'[i] \in Emissions /\ stack'[i].op = "fire" /\ Emission(stack'[i])
  BY <1>1 DEF Emissions
<1>3. ASSUME NEW i \in DOMAIN stack', stack'[i].op = "fire", NEW frame, frame = stack'[i] PROVE Emission(frame)'
  <2>1. Emission(frame)
    BY <1>2, <1>3
  <2>2. \A y : y \in Object /\ tracked[y] => tracked'[y]
    OBVIOUS
  <2> QED
    BY <2>1, <2>2 DEF Emission, Delivering, Placed, Known, Expired, Holding
<1>4. Types' /\ AllKnown'
  BY DEF Frames, Types, AllKnown, Known
<1>5. DestructorsOnTop'
  BY <1>2 DEF DestructorsOnTop
<1> QED
  BY <1>3, <1>4, <1>5 DEF Frames, Emission, Delivering, Placed, Known, Expired, Holding, Destroying

LEMMA FireFrames ==
  ASSUME Frames, NEW s \in Signal, fire(s)
  PROVE  Frames'
<1>1. /\ Running /\ tracked' = tracked /\ generation' = generation /\ connections' = connections
  BY DEF fire
<1>2. PICK g : g = [op |-> "fire", signal |-> s, copy |-> connections[s], next |-> 1,
                    holds |-> Nobody, due |-> connections[s], called |-> << >>]
  OBVIOUS
<1>3. /\ g.op = "fire" /\ g.signal = s /\ g.copy = connections[s] /\ g.next = 1 /\ g.holds = Nobody
      /\ g.due = connections[s] /\ g.called = << >>
      /\ stack' = <<g>> \o stack
  BY <1>2 DEF fire
<1>4. connections[s] \in Seq(Connections) /\ s \in Object
  BY KeysAndObjects DEF Frames, Types
<1>5. g \in Emissions
  BY <1>2, <1>4 DEF Emissions
<1>8. Delivering(g)
  <2>1. Placed(g, << >>, 0)
    BY <1>3 DEF Placed
  <2> QED
    BY <1>3, <2>1 DEF Delivering, Reached
<1>6. Emission(g)
  BY <1>3, <1>4, <1>8 DEF Emission, Holding, Frames, AllKnown
<1>7. stack' \in Seq(Emissions \cup Destructors) /\ stack'[1] = g
      /\ \A i \in DOMAIN stack' : i = 1 \/ (i - 1 \in DOMAIN stack /\ stack'[i] = stack[i - 1])
  BY <1>3, <1>5, PushFacts
<1> QED
  BY <1>1, <1>5, <1>6, <1>7, RunningFacts, EmissionFrames

\* The innermost emission becomes g.
LEMMA TopFrames ==
  ASSUME Frames, UNCHANGED <<tracked, generation, connections>>, stack # << >>, Top.op = "fire",
         NEW g \in Emissions, Emission(g), stack' = [stack EXCEPT ![1] = g]
  PROVE  Frames'
<1>1. stack \in Seq(Emissions \cup Destructors) /\ 1 \in DOMAIN stack
  BY StackFacts
<1>2. stack' \in Seq(Emissions \cup Destructors)
      /\ \A i \in DOMAIN stack' : i \in DOMAIN stack /\ stack'[i] = IF i = 1 THEN g ELSE stack[i]
  BY <1>1
<1>3. \A y : ~Destroying(y)
  BY StackFacts DEF Destroying
<1> QED
  BY <1>2, <1>3, EmissionFrames

LEMMA CallSlotFrames ==
  ASSUME Frames, CallSlot
  PROVE  Frames'
<1>1. /\ Top.op = "fire" /\ Top.holds = Nobody /\ Top.next <= Len(Top.copy)
      /\ UNCHANGED <<tracked, generation, connections>>
  BY DEF CallSlot, Emitting
<1>2. stack # << >> /\ Top = stack[1] /\ 1 \in DOMAIN stack
  BY <1>1, StackFacts
<1>3. PICK f : f = stack[1]
  OBVIOUS
<1>4. f \in Emissions /\ f.op = "fire" /\ Emission(f)
  BY <1>1, <1>2, <1>3, StackFacts
<1>5. /\ f.copy \in Seq(Connections) /\ f.next \in Nat \ {0} /\ f.called \in Seq(Connections)
      /\ f.due = f.copy /\ f.next \in DOMAIN f.copy /\ f.holds = Nobody
  BY <1>1, <1>2, <1>3, <1>4 DEF Emissions, Emission, Delivering
<1>10. PICK place : Placed(f, place, f.next - 1)
  BY <1>4, <1>5 DEF Emission, Delivering, Reached
<1>6. PICK c : c = f.copy[f.next]
  OBVIOUS
<1>7. c \in Connections /\ Known(c)
  BY <1>4, <1>5, <1>6 DEF Emission
<1>8. CASE Observed(Top, c)
  <2>1. PICK g : g = [f EXCEPT !.holds = c.peer[1], !.called = Append(@, c)]
    OBVIOUS
  <2>2. stack' = [stack EXCEPT ![1] = g]
    <3>1. stack' = [stack EXCEPT ![1].holds = c.peer[1], ![1].called = Append(@, c)]
      BY <1>2, <1>3, <1>6, <1>8 DEF CallSlot
    <3>2. stack \in Seq(Emissions \cup Destructors)
      BY StackFacts
    <3> QED
      BY <1>2, <1>3, <1>4, <2>1, <3>1, <3>2 DEF Emissions
  <2>3. /\ g \in Emissions /\ g.next = f.next /\ g.copy = f.copy /\ g.due = f.due
        /\ g.called = Append(f.called, c) /\ g.holds = c.peer[1]
    <3>1. PICK h, l : h = c.peer[1] /\ l = Append(f.called, c)
      OBVIOUS
    <3>2. h \in Object /\ l \in Seq(Connections) /\ g = [f EXCEPT !.holds = h, !.called = l]
      BY <1>5, <1>7, <2>1, <3>1 DEF Connections, Peers
    <3>3. /\ g \in Emissions /\ g.next = f.next /\ g.copy = f.copy /\ g.due = f.due
          /\ g.called = l /\ g.holds = h
      BY <1>4, <3>2 DEF Emissions
    <3> QED
      BY <3>1, <3>3
  <2>5. Delivering(g)
    <3> DEFINE last == Len(f.called) + 1
               now == [j \in 1..last |-> IF j = last THEN f.next ELSE place[j]]
    <3>1. /\ DOMAIN g.called = 1..last /\ DOMAIN f.called = 1..(last - 1) /\ last \in Nat \ {0}
          /\ \A j \in 1..(last - 1) : g.called[j] = f.called[j]
          /\ g.called[last] = c
      BY <1>5, <1>7, <2>3
    <3>2. /\ place \in [1..(last - 1) -> 1..(f.next - 1)]
          /\ \A j, k \in 1..(last - 1) : j < k => place[j] < place[k]
          /\ \A j \in 1..(last - 1) : f.called[j] = f.due[place[j]]
          /\ \A k \in 1..(f.next - 1) : \/ \E j \in 1..(last - 1) : place[j] = k
                                       \/ Expired(f.due[k].peer)
      BY <1>10, <3>1 DEF Placed
    <3> HIDE DEF last
    <3>3. now \in [1..last -> 1..f.next]
      BY <1>5, <3>1, <3>2
    <3>4. \A j, k \in 1..last : j < k => now[j] < now[k]
      BY <1>5, <3>1, <3>2
    <3>5. \A j \in 1..last : g.called[j] = g.due[now[j]]
      BY <1>5, <1>6, <2>3, <3>1, <3>2
    <3>6. \A k \in 1..f.next : (\E j \in 1..last : now[j] = k) \/ Expired(g.due[k].peer)
      <4>1. now[last] = f.next
        BY <3>1
      <4>2. \A j \in 1..(last - 1) : j \in 1..last /\ now[j] = place[j]
        BY <3>1
      <4>3. ASSUME NEW k \in 1..(f.next - 1) PROVE (\E j \in 1..last : now[j] = k) \/ Expired(g.due[k].peer)
        BY <2>3, <3>2, <4>2
      <4>4. last \in 1..last /\ \A k \in 1..f.next : k = f.next \/ k \in 1..(f.next - 1)
        BY <1>5, <3>1
      <4> QED
        BY <4>1, <4>3, <4>4
    <3> HIDE DEF now
    <3>7. Placed(g, now, f.next)
      BY <3>1, <3>3, <3>4, <3>5, <3>6 DEF Placed
    <3>8. Reached(g) = f.next
      BY <1>7, <2>3, KeysAndObjects DEF Reached, Connections, Peers
    <3> QED
      BY <1>5, <2>3, <3>7, <3>8 DEF Delivering
  <2>4. Emission(g)
    <3>1. tracked[c.peer[1]] /\ generation[c.peer[1]] = c.peer[2]
      BY <1>8 DEF Observed, Expired
    <3>2. Holding(g)
      BY <1>5, <1>6, <2>3, <3>1 DEF Holding
    <3> QED
      BY <1>4, <2>3, <2>5, <3>2 DEF Emission
  <2> QED
    BY <1>1, <1>2, <2>2, <2>3, <2>4, TopFrames
<1>9. CASE ~Observed(Top, c)
  <2>1. PICK g : g = [f EXCEPT !.next = @ + 1]
    OBVIOUS
  <2>2. stack' = [stack EXCEPT ![1] = g]
    <3>1. stack' = [stack EXCEPT ![1].next = @ + 1]
      BY <1>2, <1>3, <1>6, <1>9 DEF CallSlot
    <3>2. stack \in Seq(Emissions \cup Destructors)
      BY StackFacts
    <3> QED
      BY <1>2, <1>3, <1>4, <2>1, <3>1, <3>2 DEF Emissions
  <2>3. /\ g \in Emissions /\ g.next = f.next + 1 /\ g.copy = f.copy /\ g.due = f.due
        /\ g.called = f.called /\ g.holds = f.holds
    <3>1. f.next + 1 \in Nat \ {0}
      BY <1>5
    <3>2. PICK n : n = f.next + 1
      OBVIOUS
    <3>3. n \in Nat \ {0} /\ g = [f EXCEPT !.next = n]
      BY <2>1, <3>1, <3>2
    <3>4. /\ g \in Emissions /\ g.next = n /\ g.copy = f.copy /\ g.due = f.due
          /\ g.called = f.called /\ g.holds = f.holds
      BY <1>4, <3>3 DEF Emissions
    <3> QED
      BY <3>2, <3>4
  <2>4. Emission(g)
    <3>1. Expired(c.peer)
      BY <1>1, <1>9 DEF Observed
    <3>2. g.next <= Len(g.copy) + 1
      BY <1>5, <2>3
    <3>3. Holding(g)
      BY <1>1, <1>2, <1>3, <2>3 DEF Holding
    <3>4. Delivering(g)
      <4>1. f.next = (f.next - 1) + 1 /\ f.next - 1 \in Nat /\ g.next - 1 = f.next
        BY <1>5, <2>3
      <4>2. place \in [DOMAIN f.called -> 1..f.next]
        BY <1>10, <4>1 DEF Placed
      <4>3. \A k \in 1..f.next : k = f.next \/ k \in 1..(f.next - 1)
        BY <1>5
      <4>4. Placed(g, place, f.next)
        BY <1>5, <1>6, <1>10, <2>3, <3>1, <4>2, <4>3 DEF Placed
      <4> QED
        BY <1>5, <2>3, <4>1, <4>4 DEF Delivering, Reached
    <3> QED
      BY <1>4, <1>7, <2>3, <3>2, <3>3, <3>4 DEF Emission
  <2> QED
    BY <1>1, <1>2, <2>2, <2>3, <2>4, TopFrames
<1> QED
  BY <1>8, <1>9

LEMMA ReturnFrames ==
  ASSUME Frames, Return
  PROVE  Frames'
<1>1. stack # << >> /\ Running /\ UNCHANGED <<tracked, generation, connections>>
  BY DEF Return
<1>2. Top = stack[1] /\ 1 \in DOMAIN stack /\ Top.op = "fire"
  BY <1>1, StackFacts, RunningFacts
<1>3. PICK f : f = stack[1]
  OBVIOUS
<1>4. f \in Emissions /\ f.op = "fire" /\ Emission(f) /\ f.holds # Nobody
  BY <1>1, <1>2, <1>3, RunningFacts
<1>5. /\ f.copy \in Seq(Connections) /\ f.next \in Nat \ {0} /\ f.next \in DOMAIN f.copy
      /\ Delivering(f)
  BY <1>4 DEF Emissions, Emission, Holding
<1>6. PICK g : g = [f EXCEPT !.holds = Nobody, !.next = @ + 1]
  OBVIOUS
<1>7. stack' = [stack EXCEPT ![1] = g]
  <2>1. stack' = [stack EXCEPT ![1].holds = Nobody, ![1].next = @ + 1]
    BY DEF Return
  <2>2. stack \in Seq(Emissions \cup Destructors)
    BY StackFacts
  <2> QED
    BY <1>2, <1>3, <1>4, <1>6, <2>1, <2>2 DEF Emissions
<1>8. /\ g \in Emissions /\ g.next = f.next + 1 /\ g.copy = f.copy /\ g.due = f.due
      /\ g.called = f.called /\ g.holds = Nobody
  <2>1. PICK n : n = f.next + 1
    OBVIOUS
  <2>2. n \in Nat \ {0} /\ g = [f EXCEPT !.holds = Nobody, !.next = n]
    BY <1>5, <1>6, <2>1
  <2>3. /\ g \in Emissions /\ g.next = n /\ g.copy = f.copy /\ g.due = f.due
        /\ g.called = f.called /\ g.holds = Nobody
    BY <1>4, <2>2 DEF Emissions
  <2> QED
    BY <2>1, <2>3
<1>9. Emission(g)
  <2>1. g.next <= Len(g.copy) + 1
    BY <1>5, <1>8
  <2>2. Reached(g) = Reached(f)
    BY <1>4, <1>5, <1>8 DEF Reached
  <2>3. Delivering(g)
    BY <1>5, <1>8, <2>2 DEF Delivering, Placed
  <2> QED
    BY <1>4, <1>8, <2>1, <2>3 DEF Emission, Holding
<1> QED
  BY <1>1, <1>2, <1>7, <1>8, <1>9, TopFrames

\* The innermost call ends.
LEMMA PopFacts ==
  ASSUME Frames, stack # << >>, stack' = Tail(stack)
  PROVE  /\ stack' \in Seq(Emissions \cup Destructors)
         /\ \A i \in DOMAIN stack' : /\ i + 1 \in DOMAIN stack /\ stack'[i] = stack[i + 1]
                                     /\ stack'[i] \in Emissions /\ stack'[i].op = "fire"
                                     /\ Emission(stack'[i])
<1>1. stack \in Seq(Emissions \cup Destructors)
  BY StackFacts
<1>2. stack' \in Seq(Emissions \cup Destructors)
      /\ \A i \in DOMAIN stack' : i + 1 \in DOMAIN stack /\ stack'[i] = stack[i + 1] /\ i + 1 # 1
  BY <1>1
<1> QED
  BY <1>2, StackFacts

LEMMA FiredFrames ==
  ASSUME Frames, Fired
  PROVE  Frames'
<1>1. Top.op = "fire" /\ stack' = Tail(stack) /\ UNCHANGED <<tracked, generation, connections>>
  BY DEF Fired, Emitting
<1>2. stack # << >> /\ Top = stack[1]
  BY <1>1, StackFacts
<1>3. \A y : ~Destroying(y)
  BY <1>1, <1>2, StackFacts DEF Destroying
<1> QED
  BY <1>1, <1>2, <1>3, PopFacts, EmissionFrames

LEMMA DestroyedFrames ==
  ASSUME Frames, Destroyed
  PROVE  Frames'
<1>1. PICK x : x = Top.object
  OBVIOUS
<1>2. /\ Top.op = "destroy" /\ Unheld(x) /\ connections' = WithoutAll(x) /\ stack' = Tail(stack)
      /\ tracked' = tracked /\ generation' = generation
  BY <1>1 DEF Destroyed
<1>3. stack # << >> /\ Top = stack[1] /\ x \in Object
  BY <1>1, <1>2, StackFacts DEF Destructors, Emissions
<1>4. /\ stack' \in Seq(Emissions \cup Destructors)
      /\ \A i \in DOMAIN stack' : /\ i + 1 \in DOMAIN stack /\ stack'[i] = stack[i + 1]
                                  /\ stack'[i] \in Emissions /\ stack'[i].op = "fire"
                                  /\ Emission(stack'[i])
  BY <1>2, <1>3, PopFacts
<1>5. \A y \in Object : Kept(y)
  BY <1>2, <1>3, ListsAfterClear DEF Frames
<1>6. Types'
  <2>1. connections' = [y \in Object |-> connections'[y]]
    BY <1>2 DEF WithoutAll
  <2>2. \A y \in Object : connections'[y] \in Seq(Connections)
    BY <1>5 DEF Kept
  <2> QED
    BY <1>2, <1>4, <2>1, <2>2 DEF Frames, Types
<1>7. Ages
  BY <1>2 DEF Ages
<1>8. AllKnown'
  BY <1>5, <1>6, <1>7, ListsStay DEF Frames
<1>9. DestructorsOnTop'
  BY <1>4 DEF DestructorsOnTop
<1>10. ASSUME NEW i \in DOMAIN stack', NEW frame, frame = stack'[i] PROVE Emission(frame)'
  <2>1. frame \in Emissions /\ Emission(frame) /\ i + 1 \in DOMAIN stack /\ frame = stack[i + 1] /\ frame.op = "fire"
    BY <1>4, <1>10
  <2>2. ASSUME frame.holds # Nobody PROVE tracked'[frame.holds]
    <3>1. frame.holds \in Object /\ (tracked[frame.holds] \/ Destroying(frame.holds))
      BY <2>1, <2>2, HeldObject
    <3>2. frame.holds # x
      BY <1>2, <2>1 DEF Unheld, Held
    <3>3. ~Destroying(frame.holds)
      BY <1>1, <1>3, <3>2, StackFacts DEF Destroying
    <3> QED
      BY <1>2, <3>1, <3>3
  <2> QED
    BY <1>2, <1>6, <1>7, <2>1, <2>2, EmissionStays DEF Frames
<1> QED
  BY <1>6, <1>8, <1>9, <1>10 DEF Frames, Emission, Delivering, Placed, Known, Expired, Holding, Destroying

\* the three steps that change lists only
LEMMA ListFrames ==
  ASSUME Frames, NEW s, NEW key, NEW x,
         \/ s \in Signal /\ key \in Key /\ (connect(s, key) \/ disconnect(s, key))
         \/ x \in Object /\ disconnect_all(x)
  PROVE  Frames'
<1>1. /\ UNCHANGED <<tracked, generation, stack>>
      /\ connections' = [y \in Object |-> connections'[y]]
  BY DEF connect, disconnect, disconnect_all, WithoutAll
<1>2. Types /\ AllKnown
  BY DEF Frames
<1>3. CASE s \in Signal /\ key \in Key /\ connect(s, key)
  <2>1. \A y \in Object : Kept(y)
    BY <1>2, <1>3, ListsAfterConnect
  <2> QED
    BY <1>1, <2>1, FramesWithLists
<1>4. CASE s \in Signal /\ key \in Key /\ disconnect(s, key)
  <2>1. \A y \in Object : Kept(y)
    BY <1>2, <1>4, ListsAfterDisconnect
  <2> QED
    BY <1>1, <2>1, FramesWithLists
<1>5. CASE x \in Object /\ disconnect_all(x)
  <2>1. connections' = WithoutAll(x)
    BY <1>5 DEF disconnect_all
  <2>2. \A y \in Object : Kept(y)
    BY <1>2, <1>5, <2>1, ListsAfterClear
  <2> QED
    BY <1>1, <2>2, FramesWithLists
<1> QED
  BY <1>3, <1>4, <1>5

LEMMA FramesInitially == Init => Frames
<1> SUFFICES ASSUME Init PROVE Frames
  OBVIOUS
<1>1. << >> \in Seq(Connections) /\ << >> \in Seq(Emissions \cup Destructors) /\ DOMAIN << >> = {} /\ Len(<< >>) = 0
  OBVIOUS
<1>2. Types
  BY <1>1, KeysAndObjects DEF Init, Types
<1>3. AllKnown
  BY <1>1, KeysAndObjects DEF Init, AllKnown
<1> QED
  BY <1>1, <1>2, <1>3 DEF Init, Frames, DestructorsOnTop

LEMMA FramesStay == Frames /\ [Next]_vars => Frames'
<1> SUFFICES ASSUME Frames, [Next]_vars PROVE Frames'
  OBVIOUS
<1>1. ASSUME NEW x \in Object, Construct(x) PROVE Frames'
  BY <1>1, ConstructFrames
<1>2. ASSUME NEW x \in Object, Destroy(x) PROVE Frames'
  BY <1>2, DestroyFrames
<1>3. ASSUME NEW x \in Object, disconnect_all(x) PROVE Frames'
  BY <1>3, ListFrames
<1>4. ASSUME NEW s \in Signal, fire(s) PROVE Frames'
  BY <1>4, FireFrames
<1>5. ASSUME NEW s \in Signal, NEW key \in Key, connect(s, key) \/ disconnect(s, key) PROVE Frames'
  BY <1>5, ListFrames
<1>6. CASE UNCHANGED vars
  <2>1. UNCHANGED <<tracked, generation, connections, stack>>
    BY <1>6 DEF vars
  <2>2. connections' = [x \in Object |-> connections'[x]] /\ \A x \in Object : Kept(x)
    BY <2>1 DEF Frames, Types, AllKnown, Kept
  <2> QED
    BY <2>1, <2>2, FramesWithLists
<1> QED
  BY <1>1, <1>2, <1>3, <1>4, <1>5, <1>6, DestroyedFrames, CallSlotFrames, ReturnFrames, FiredFrames
     DEF Next

LEMMA FramesHold == Spec => []Frames
  BY FramesInitially, FramesStay, PTL DEF Spec

LEMMA FramesAreSlots == Frames => RunningSlotHasObject
<1> SUFFICES ASSUME Frames, NEW i \in DOMAIN stack, stack[i].op = "fire", stack[i].holds # Nobody,
                    NEW peer, peer = stack[i].copy[stack[i].next].peer
             PROVE  /\ generation[peer[1]] = peer[2]
                    /\ \/ tracked[peer[1]]
                       \/ \E j \in 1..(i - 1) : stack[j].op = "destroy" /\ stack[j].object = peer[1]
  BY DEF RunningSlotHasObject
<1>1. /\ stack[i].holds = peer[1] /\ generation[peer[1]] = peer[2]
      /\ tracked[peer[1]] \/ Destroying(peer[1])
  BY DEF Frames, Emission, Holding
<1>2. ASSUME Destroying(peer[1])
      PROVE  \E j \in 1..(i - 1) : stack[j].op = "destroy" /\ stack[j].object = peer[1]
  <2>1. /\ stack[1].op = "destroy" /\ stack[1].object = peer[1] /\ stack \in Seq(Emissions \cup Destructors)
    BY <1>2, StackFacts DEF Destroying
  <2>2. 1 \in 1..(i - 1)
    BY <2>1
  <2> QED
    BY <2>1, <2>2
<1> QED
  BY <1>1, <1>2

\* However slots are nested and whatever they destroy and construct: the object of a slot that
\* runs is the one that was connected, not its successor at the same place, and exists until
\* the slot returns.
THEOREM SlotsHaveObjects == Spec => []RunningSlotHasObject
  BY FramesHold, FramesAreSlots, PTL

\* A step that shortens the stack while an emission is on top of it is the end of that emission.
LEMMA EndsWhenDelivered ==
  ASSUME Frames, [Next]_vars, Top.op = "fire", Len(stack') < Len(stack)
  PROVE  Delivered(Top)
<1>1. stack # << >> /\ Top = stack[1] /\ 1 \in DOMAIN stack /\ Len(stack) \in Nat
  BY StackFacts
<1>2. Fired
  <2>1. ASSUME NEW g, stack' = <<g>> \o stack PROVE FALSE
    BY <1>1, <2>1, StackFacts
  <2>2. ASSUME NEW g, stack' = [stack EXCEPT ![1] = g] PROVE FALSE
    BY <1>1, <2>2, StackFacts
  <2>3. ~CallSlot /\ ~Return
    BY <1>1, StackFacts DEF CallSlot, Return
  <2>4. ~Destroyed
    BY DEF Destroyed
  <2>5. \A x \in Object : ~Construct(x) /\ ~Destroy(x) /\ ~disconnect_all(x)
    BY <1>1, <2>1 DEF Construct, Destroy, disconnect_all
  <2>6. \A s \in Signal : ~fire(s) /\ \A key \in Key : ~connect(s, key) /\ ~disconnect(s, key)
    BY <1>1, <2>1 DEF fire, connect, disconnect
  <2>7. ~UNCHANGED vars
    BY <1>1 DEF vars
  <2> QED
    BY <2>3, <2>4, <2>5, <2>6, <2>7 DEF Next
<1>3. PICK f : f = stack[1]
  OBVIOUS
<1>4. f \in Emissions /\ Emission(f) /\ f.holds = Nobody /\ f.next > Len(f.copy) /\ Top = f
  BY <1>1, <1>2, <1>3, StackFacts DEF Fired, Emitting
<1>5. /\ f.copy \in Seq(Connections) /\ f.next = Len(f.copy) + 1 /\ f.due = f.copy
      /\ f.called \in Seq(Connections)
  BY <1>4 DEF Emissions, Emission, Delivering
<1>6. PICK place : Placed(f, place, Len(f.copy))
  BY <1>4, <1>5 DEF Emission, Delivering, Reached
<1>7. DOMAIN f.due = 1..Len(f.copy)
  BY <1>5
<1>8. place \in [DOMAIN f.called -> DOMAIN f.due] /\ DOMAIN place = DOMAIN f.called
  BY <1>6, <1>7 DEF Placed
<1>9. \A k \in DOMAIN f.due : k \in Range(place) \/ Expired(f.due[k].peer)
  BY <1>6, <1>7, <1>8 DEF Placed, Range
<1> QED
  BY <1>4, <1>6, <1>8, <1>9 DEF Placed, Delivered

\* When an emission ends, it has called what was connected when it began, each connection once
\* and in order; it left out one only if its object was destroyed.  What slots connect,
\* disconnect, fire, or put in an object's place meanwhile makes no difference.
THEOREM DeliveryIsComplete == Spec => DeliversToAllAlive
<1>1. Frames /\ [Next]_vars => [Top.op = "fire" /\ Len(stack') < Len(stack) => Delivered(Top)]_vars
  BY EndsWhenDelivered
<1> QED
  BY <1>1, FramesHold, PTL DEF Spec, DeliversToAllAlive

-----------------------------------------------------------------------------
(* Steps: lists *)

\* Keys tell the signals apart that a slot function can be connected to.
SignaturesDiffer == \A s, t \in Signal : s # t => SlotsOf[s] \cap SlotsOf[t] = {}

Empties == \A x \in Object : ~Alive(x) => connections[x] = << >>
Belonging == \A x \in Object : \A i \in DOMAIN connections[x] : Belongs(x, connections[x][i])
Agree(s, o, f) == Often(connections[s], <<o, f>>) = Often(connections[o], <<o, f>>)
Agreeing == \A s \in Signal, o \in Observer : \A f \in SlotsOf[s] : Agree(s, o, f)

Lists == Empties /\ Belonging /\ Agreeing

LEMMA KeyFacts ==
  ASSUME NEW key \in Key
  PROVE  key = <<key[1], key[2]>>
  BY SignalAssumption

LEMMA ListFacts ==
  ASSUME Frames, NEW x \in Object
  PROVE  /\ connections[x] \in Seq(Connections)
         /\ \A i \in DOMAIN connections[x] : /\ connections[x][i] \in Connections
                                             /\ connections[x][i].key \in Key
                                             /\ connections[x][i].peer[1] \in Object
<1>1. connections[x] \in Seq(Connections)
  BY DEF Frames, Types
<1>2. \A c \in Connections : c.key \in Key /\ c.peer[1] \in Object
  BY DEF Connections, Peers
<1>3. \A i \in DOMAIN connections[x] : connections[x][i] \in Connections
  BY <1>1
<1> QED
  BY <1>1, <1>2, <1>3

\* Whoever lists something is alive, and so is whom it lists.
LEMMA ListedLives ==
  ASSUME Frames, Lists, NEW x \in Object, NEW i \in DOMAIN connections[x]
  PROVE  Alive(x) /\ Alive(connections[x][i].peer[1])
<1>1. PICK c : c = connections[x][i]
  OBVIOUS
<1>2. c.key \in Key /\ c.key = <<c.key[1], c.key[2]>> /\ Belongs(x, c)
  BY <1>1, ListFacts, KeyFacts DEF Lists, Belonging
<1>3. Alive(x)
  BY DEF Lists, Empties
<1>4. Often(connections[x], c.key) # 0
  BY <1>1, ListFacts, OftenPositive
<1>5. ASSUME NEW y \in Object, Often(connections[y], c.key) # 0 PROVE Alive(y)
  BY <1>5, OftenInEmpty DEF Lists, Empties
<1>6. CASE x \in Signal
  <2>1. CASE c.key[1] \in Observer
    <3>1. Often(connections[c.key[1]], c.key) # 0
      BY <1>2, <1>4, <1>6, <2>1 DEF Lists, Agreeing, Agree, Belongs
    <3> QED
      BY <1>1, <1>2, <1>3, <1>5, <1>6, <2>1, <3>1, KeysAndObjects DEF Belongs
  <2> QED
    BY <1>1, <1>2, <1>3, <1>6, <2>1 DEF Belongs
<1>7. CASE x \in Observer
  <2>1. Often(connections[c.peer[1]], c.key) # 0
    BY <1>2, <1>4, <1>7 DEF Lists, Agreeing, Agree, Belongs
  <2> QED
    BY <1>1, <1>2, <1>3, <1>5, <1>7, <2>1, KeysAndObjects DEF Belongs
<1> QED
  BY <1>6, <1>7 DEF Object

\* Steps that leave the lists alone, and end no life
LEMMA ListsKept ==
  ASSUME Frames, Lists, connections' = connections,
         \A x \in Object : Alive(x) => Alive(x)' /\ generation'[x] = generation[x]
  PROVE  Lists'
<1>1. Empties'
  BY DEF Lists, Empties
<1>2. Belonging'
  <2>1. ASSUME NEW x \in Object, NEW i \in DOMAIN connections[x], NEW c, c = connections[x][i] PROVE Belongs(x, c)'
    <3>1. Belongs(x, c) /\ c.peer[1] \in Object
      BY <2>1, ListFacts DEF Lists, Belonging
    <3>2. generation'[c.peer[1]] = generation[c.peer[1]]
      BY <2>1, <3>1, ListedLives
    <3> QED
      BY <3>1, <3>2 DEF Belongs, weak_ptr
  <2> QED
    BY <2>1 DEF Belonging, Belongs, weak_ptr
<1>3. Agreeing'
  BY DEF Lists, Agreeing, Agree
<1> QED
  BY <1>1, <1>2, <1>3 DEF Lists

LEMMA ConstructLists ==
  ASSUME Frames, Lists, NEW x \in Object, Construct(x)
  PROVE  Lists'
<1>1. /\ Running /\ ~tracked[x] /\ connections' = connections /\ stack' = stack
      /\ tracked' = [tracked EXCEPT ![x] = TRUE]
      /\ generation' = [generation EXCEPT ![x] = @ + 1]
  BY DEF Construct
<1>2. ASSUME NEW y \in Object, Alive(y) PROVE Alive(y)' /\ generation'[y] = generation[y]
  <2>1. tracked[y]
    BY <1>1, <1>2, RunningFacts DEF Alive
  <2> QED
    BY <1>1, <2>1 DEF Alive, Frames, Types
<1> QED
  BY <1>1, <1>2, ListsKept

LEMMA DestroyLists ==
  ASSUME Frames, Lists, NEW x \in Object, Destroy(x)
  PROVE  Lists'
<1>1. /\ Running /\ connections' = connections /\ generation' = generation
      /\ tracked' = [tracked EXCEPT ![x] = FALSE]
      /\ stack' = <<[op |-> "destroy", object |-> x]>> \o stack
  BY DEF Destroy
<1>2. Destroying(x)'
  <2>1. stack' # << >> /\ Head(stack') = [op |-> "destroy", object |-> x]
    BY <1>1, PushFacts
  <2> QED
    BY <2>1 DEF Destroying
<1>3. ASSUME NEW y \in Object, Alive(y) PROVE Alive(y)'
  <2>1. tracked[y]
    BY <1>1, <1>3, RunningFacts DEF Alive
  <2> QED
    BY <1>1, <1>2, <2>1 DEF Alive, Frames, Types
<1> QED
  BY <1>1, <1>3, ListsKept

LEMMA EmissionLists ==
  ASSUME Frames, Lists, NEW s, (s \in Signal /\ fire(s)) \/ CallSlot \/ Return \/ Fired
  PROVE  Lists'
<1>1. UNCHANGED <<tracked, generation, connections>>
  BY DEF fire, CallSlot, Return, Fired
<1>2. Top.op # "destroy"
  BY StackFacts, RunningFacts DEF fire, CallSlot, Return, Fired, Running, Emitting
<1>3. \A y : ~Destroying(y)
  BY <1>2, StackFacts DEF Destroying
<1> QED
  BY <1>1, <1>3, ListsKept DEF Alive

\* Steps that change lists: what they have in common
LEMMA ListsChanged ==
  ASSUME Frames, Lists, generation' = generation,
         \A x \in Object : (Alive(x) => Alive(x)') \/ connections'[x] = << >>,
         \A x \in Object : ~Alive(x) => connections'[x] = << >>,
         \A x \in Object : \A i \in DOMAIN connections'[x] :
            \/ Belongs(x, connections'[x][i])
            \/ \E j \in DOMAIN connections[x] : connections'[x][i] = connections[x][j],
         Agreeing'
  PROVE  Lists'
<1>1. Empties'
  BY DEF Empties
<1>2. Belonging'
  <2>1. \A x \in Object : \A i \in DOMAIN connections'[x] : Belongs(x, connections'[x][i])
    BY DEF Lists, Belonging
  <2> QED
    BY <2>1 DEF Belonging, Belongs, weak_ptr
<1> QED
  BY <1>1, <1>2 DEF Lists

LEMMA ConnectLists ==
  ASSUME SignaturesDiffer, Frames, Lists, NEW s \in Signal, NEW key \in Key, connect(s, key)
  PROVE  Lists'
<1>1. /\ Running /\ key[2] \in SlotsOf[s] /\ \A x \in ListsOf(s, key) : tracked[x]
      /\ UNCHANGED <<tracked, generation, stack>>
  BY DEF connect
<1>2. \A x \in Object : Connects(x, s, key)
  BY ConnectStep DEF Frames
<1>3. ASSUME NEW x \in Object, NEW i \in DOMAIN connections'[x]
      PROVE  \/ Belongs(x, connections'[x][i])
             \/ \E j \in DOMAIN connections[x] : connections'[x][i] = connections[x][j]
  <2>1. CASE x \in ListsOf(s, key)
    <3>1. PICK c : c = Connection(key, PeerFor(x, s, key))
      OBVIOUS
    <3>2. Belongs(x, c)
      BY <1>1, <2>1, <3>1, SignalAssumption DEF Belongs, Connection, weak_ptr, PeerFor, ListsOf
    <3> QED
      BY <1>2, <2>1, <3>1, <3>2 DEF Connects, Inserted
  <2>2. CASE x \notin ListsOf(s, key)
    BY <1>2, <2>2 DEF Connects
  <2> QED
    BY <2>1, <2>2
<1>4. \A x \in Object : ~Alive(x) => connections'[x] = << >>
  BY <1>1, <1>2 DEF Connects, Alive, Lists, Empties
<1>5. Agreeing'
  <2> SUFFICES ASSUME NEW t \in Signal, NEW o \in Observer, NEW f \in SlotsOf[t], NEW k, k = <<o, f>>
               PROVE  Often(connections'[t], k) = Often(connections'[o], k)
    BY DEF Agreeing, Agree
  <2>1. t \in Object /\ o \in Object /\ Often(connections[t], k) = Often(connections[o], k)
    BY KeysAndObjects DEF Lists, Agreeing, Agree
  <2>2. t \in ListsOf(s, key) <=> t = s
    BY SignalAssumption DEF ListsOf
  <2>3. o \in ListsOf(s, key) <=> o = key[1]
    BY SignalAssumption DEF ListsOf
  <2>4. ASSUME NEW x \in Object
        PROVE  Often(connections'[x], k) =
                 Often(connections[x], k) + (IF x \in ListsOf(s, key) /\ key = k THEN 1 ELSE 0)
    <3>1. Often(connections[x], k) \in Nat
      BY UnderIsFinite, ListFacts
    <3>2. CASE x \in ListsOf(s, key)
      <4>1. PICK c : c = Connection(key, PeerFor(x, s, key))
        OBVIOUS
      <4>2. c.key = key /\ Inserted(Connections, connections[x], c, connections'[x])
        BY <1>2, <3>2, <4>1 DEF Connects, Connection
      <4> QED
        BY <3>2, <4>2 DEF Inserted
    <3>3. CASE x \notin ListsOf(s, key)
      BY <1>2, <3>1, <3>3 DEF Connects
    <3> QED
      BY <3>2, <3>3
  <2>5. key = k => t = s /\ o = key[1]
    BY <1>1 DEF SignaturesDiffer
  <2> QED
    BY <2>1, <2>2, <2>3, <2>4, <2>5
<1> QED
  BY <1>1, <1>3, <1>4, <1>5, ListsChanged DEF Alive, Destroying

LEMMA DisconnectLists ==
  ASSUME SignaturesDiffer, Frames, Lists, NEW s \in Signal, NEW key \in Key, disconnect(s, key)
  PROVE  Lists'
<1>1. /\ Running /\ key[2] \in SlotsOf[s] /\ \A x \in ListsOf(s, key) : tracked[x]
      /\ UNCHANGED <<tracked, generation, stack>>
  BY DEF disconnect
<1>2. \A x \in Object : Disconnects(x, s, key)
  BY DisconnectStep DEF Frames
<1>3. \A x \in Object : \A i \in DOMAIN connections'[x] :
        \E j \in DOMAIN connections[x] : connections'[x][i] = connections[x][j]
  BY <1>2 DEF Disconnects, Shortened
<1>4. \A x \in Object : ~Alive(x) => connections'[x] = << >>
  BY <1>1, <1>2 DEF Disconnects, Alive, Lists, Empties
<1>5. Agreeing'
  <2> SUFFICES ASSUME NEW t \in Signal, NEW o \in Observer, NEW f \in SlotsOf[t], NEW k, k = <<o, f>>
               PROVE  Often(connections'[t], k) = Often(connections'[o], k)
    BY DEF Agreeing, Agree
  <2>1. t \in Object /\ o \in Object /\ Often(connections[t], k) = Often(connections[o], k)
    BY KeysAndObjects DEF Lists, Agreeing, Agree
  <2>2. t \in ListsOf(s, key) <=> t = s
    BY SignalAssumption DEF ListsOf
  <2>3. o \in ListsOf(s, key) <=> o = key[1]
    BY SignalAssumption DEF ListsOf
  <2>4. \A x \in Object : Often(connections'[x], k) =
                            IF x \in ListsOf(s, key) /\ key = k THEN 0 ELSE Often(connections[x], k)
    BY <1>2 DEF Disconnects, Shortened
  <2>5. key = k => t = s /\ o = key[1]
    BY <1>1 DEF SignaturesDiffer
  <2> QED
    BY <2>1, <2>2, <2>3, <2>4, <2>5
<1> QED
  BY <1>1, <1>3, <1>4, <1>5, ListsChanged DEF Alive, Destroying

\* disconnect_all(), and the end of a destructor
LEMMA ClearLists ==
  ASSUME SignaturesDiffer, Frames, Lists, NEW x \in Object, connections' = WithoutAll(x),
         generation' = generation,
         \A y \in Object \ {x} : Alive(y) => tracked[y] /\ Alive(y)'
  PROVE  Lists'
<1>1. \A y \in Object : Clears(y, x)
  BY ClearStep DEF Frames
<1>2. ASSUME NEW y \in Object, NEW i \in DOMAIN connections'[y]
      PROVE  \E j \in DOMAIN connections[y] : connections'[y][i] = connections[y][j]
  BY <1>1, <1>2 DEF Clears, Shortened
<1>3. ASSUME NEW y \in Object, ~Alive(y) PROVE connections'[y] = << >>
  <2>1. connections[y] = << >>
    BY <1>3 DEF Lists, Empties
  <2>2. CASE y # x
    <3>1. connections'[y] \in Seq(Connections) /\ Len(connections'[y]) <= 0
      BY <1>1, <2>1, <2>2 DEF Clears, Shortened
    <3> QED
      BY <3>1
  <2> QED
    BY <1>1, <2>2 DEF Clears
<1>4. \A y \in Object : (Alive(y) => Alive(y)') \/ connections'[y] = << >>
  BY <1>1 DEF Clears
<1>5. Agreeing'
  <2> SUFFICES ASSUME NEW s \in Signal, NEW o \in Observer, NEW f \in SlotsOf[s], NEW k, k = <<o, f>>
               PROVE  Often(connections'[s], k) = Often(connections'[o], k)
    BY DEF Agreeing, Agree
  <2>1. s \in Object /\ o \in Object /\ s # o /\ Often(connections[s], k) = Often(connections[o], k)
    BY KeysAndObjects, SignalAssumption DEF Lists, Agreeing, Agree
  <2>2. \A y \in Object : Often(connections'[y], k) =
                            IF y = x \/ k \in Visiting(x, y) THEN 0 ELSE Often(connections[y], k)
    BY <1>1, OftenInEmpty DEF Clears, Shortened
  <2>3. ASSUME NEW y \in Object, Often(connections[y], k) # 0
        PROVE  \E c : /\ c \in Range(connections[y]) /\ c.key = k /\ Belongs(y, c)
                      /\ Alive(y) /\ Alive(c.peer[1]) /\ c.peer[1] \in Object
    <3>1. PICK i \in DOMAIN connections[y] : connections[y][i].key = k
      BY <2>3, ListFacts, OftenPositive
    <3>2. connections[y][i] \in Range(connections[y])
      BY <3>1 DEF Range
    <3> QED
      BY <3>1, <3>2, ListFacts, ListedLives DEF Lists, Belonging
  <2>4. ASSUME NEW y \in Object \ {x}, NEW c \in Range(connections[x]), c.key = k, Belongs(x, c),
               c.peer[1] = y, Alive(y)
        PROVE  k \in Visiting(x, y)
    <3>1. ~Expired(c.peer)
      BY <2>4 DEF Expired, Belongs, weak_ptr
    <3> QED
      BY <2>4, <3>1 DEF Visiting
  <2>5. ASSUME NEW y \in Object, k \in Visiting(x, y)
        PROVE  \E c : c.key = k /\ c.peer[1] = y /\ y # x /\ Belongs(x, c)
    BY <2>5 DEF Visiting, Range, Lists, Belonging
  <2>6. CASE x = s
    <3>1. ASSUME Often(connections[o], k) # 0 PROVE k \in Visiting(x, o)
      <4>1. PICK c : /\ c \in Range(connections[s]) /\ c.key = k /\ Belongs(s, c)
                     /\ Alive(c.peer[1])
        BY <2>1, <2>3, <3>1
      <4>2. c.peer[1] = o
        BY <4>1 DEF Belongs
      <4> QED
        BY <2>1, <2>4, <2>6, <4>1, <4>2
    <3> QED
      BY <2>1, <2>2, <2>6, <3>1
  <2>7. CASE x = o
    <3>1. ASSUME Often(connections[s], k) # 0 PROVE k \in Visiting(x, s)
      <4>1. PICK c : /\ c \in Range(connections[o]) /\ c.key = k /\ Belongs(o, c)
                     /\ Alive(c.peer[1])
        BY <2>1, <2>3, <3>1
      <4>2. c.peer[1] = s
        BY <4>1 DEF Belongs, SignaturesDiffer
      <4> QED
        BY <2>1, <2>4, <2>7, <4>1, <4>2
    <3> QED
      BY <2>1, <2>2, <2>7, <3>1
  <2>8. CASE x # s /\ x # o
    <3>1. k \notin Visiting(x, s)
      BY <2>1, <2>5, <2>8, Apart DEF Belongs, Object
    <3>2. k \notin Visiting(x, o)
      BY <2>1, <2>5, <2>8, Apart DEF Belongs, Object, SignaturesDiffer
    <3> QED
      BY <2>1, <2>2, <2>8, <3>1, <3>2
  <2> QED
    BY <2>6, <2>7, <2>8
<1> QED
  BY <1>2, <1>3, <1>4, <1>5, ListsChanged

LEMMA DisconnectAllLists ==
  ASSUME SignaturesDiffer, Frames, Lists, NEW x \in Object, disconnect_all(x)
  PROVE  Lists'
<1>1. Running /\ connections' = WithoutAll(x) /\ UNCHANGED <<tracked, generation, stack>>
  BY DEF disconnect_all
<1>2. \A y \in Object : Alive(y) => tracked[y] /\ Alive(y)'
  BY <1>1, RunningFacts DEF Alive
<1> QED
  BY <1>1, <1>2, ClearLists

LEMMA DestroyedLists ==
  ASSUME SignaturesDiffer, Frames, Lists, Destroyed
  PROVE  Lists'
<1>1. PICK x : x = Top.object
  OBVIOUS
<1>2. /\ Top.op = "destroy" /\ connections' = WithoutAll(x) /\ UNCHANGED <<tracked, generation>>
  BY <1>1 DEF Destroyed
<1>3. stack # << >> /\ Top = stack[1] /\ x \in Object /\ Head(stack) = stack[1]
  BY <1>1, <1>2, StackFacts DEF Destructors, Emissions
<1>4. \A y \in Object \ {x} : Alive(y) => tracked[y] /\ Alive(y)'
  BY <1>1, <1>2, <1>3 DEF Alive, Destroying
<1> QED
  BY <1>2, <1>3, <1>4, ClearLists

LEMMA ListsInitially == Init => Lists
<1> SUFFICES ASSUME Init PROVE Lists
  OBVIOUS
<1>1. \A x \in Object : connections[x] = << >>
  BY DEF Init
<1>2. \A s \in Signal, o \in Observer : \A f \in SlotsOf[s] : Agree(s, o, f)
  BY <1>1, KeysAndObjects DEF Agree
<1> QED
  BY <1>1, <1>2 DEF Lists, Empties, Belonging, Agreeing

LEMMA ListsStayTrue ==
  ASSUME SignaturesDiffer
  PROVE  Frames /\ Lists /\ [Next]_vars => Lists'
<1> SUFFICES ASSUME Frames, Lists, [Next]_vars PROVE Lists'
  OBVIOUS
<1>1. ASSUME NEW x \in Object, Construct(x) \/ Destroy(x) \/ disconnect_all(x) PROVE Lists'
  BY <1>1, ConstructLists, DestroyLists, DisconnectAllLists
<1>2. ASSUME NEW s \in Signal, fire(s) PROVE Lists'
  BY <1>2, EmissionLists
<1>3. ASSUME NEW s \in Signal, NEW key \in Key, connect(s, key) \/ disconnect(s, key) PROVE Lists'
  BY <1>3, ConnectLists, DisconnectLists
<1>4. CASE CallSlot \/ Return \/ Fired
  BY <1>4, EmissionLists
<1>5. CASE UNCHANGED vars
  BY <1>5, ListsKept DEF vars, Alive, Destroying
<1> QED
  BY <1>1, <1>2, <1>3, <1>4, <1>5, DestroyedLists DEF Next

LEMMA BothHold ==
  ASSUME SignaturesDiffer PROVE Spec => [](Frames /\ Lists)
  BY FramesInitially, ListsInitially, FramesStay, ListsStayTrue, PTL DEF Spec

LEMMA NoneDangles == Frames /\ Lists => AutomaticDisconnect
<1> SUFFICES ASSUME Frames, Lists, NEW s \in Signal, NEW c \in Range(connections[s]), Expired(c.peer)
             PROVE  \E i \in DOMAIN stack : stack[i].op = "destroy" /\ stack[i].object = c.peer[1]
  BY DEF AutomaticDisconnect
<1>1. s \in Object
  BY KeysAndObjects
<1>2. PICK i \in DOMAIN connections[s] : c = connections[s][i]
  BY DEF Range
<1>3. Belongs(s, c) /\ Alive(c.peer[1])
  BY <1>1, <1>2, ListedLives DEF Lists, Belonging
<1>4. ~tracked[c.peer[1]]
  BY <1>3 DEF Belongs, weak_ptr, Expired
<1> QED
  BY <1>3, <1>4, StackFacts DEF Alive, Destroying

LEMMA TypesAreOK == Frames => TypeOK
<1> SUFFICES ASSUME Frames PROVE TypeOK
  OBVIOUS
<1>1. tracked \in [Object -> BOOLEAN] /\ generation \in [Object -> Nat]
  BY DEF Frames, Types
<1>2. ASSUME NEW x \in Object
      PROVE  /\ Len(connections[x]) <= MaxConnections[x]
             /\ \A c \in Range(connections[x]) : c.key \in Key
  BY ListFacts DEF Frames, AllKnown, Range
<1>3. ASSUME NEW i \in DOMAIN stack, stack[i].op = "fire"
      PROVE  stack[i].holds \in Object \cup {Nobody} /\ stack[i].next \in 1..(Len(stack[i].copy) + 1)
  <2>1. stack[i] \in Emissions /\ Emission(stack[i])
    BY <1>3, StackFacts
  <2>2. /\ stack[i].holds \in Object \cup {Nobody} /\ stack[i].next \in Nat \ {0}
        /\ stack[i].copy \in Seq(Connections)
    BY <2>1 DEF Emissions
  <2>3. stack[i].next <= Len(stack[i].copy) + 1
    BY <2>1 DEF Emission
  <2> QED
    BY <2>2, <2>3
<1>4. ASSUME NEW i \in DOMAIN stack, stack[i].op # "fire"
      PROVE  stack[i].op = "destroy" /\ stack[i].object \in Object
  BY <1>4, StackFacts DEF Destructors
<1> QED
  BY <1>1, <1>2, <1>3, <1>4 DEF TypeOK

\* the connections of x with y are all the ones of x that have the key
LEMMA TimesIsOften ==
  ASSUME Frames, Lists, NEW s \in Signal, NEW o \in Observer, NEW f \in SlotsOf[s], NEW k, k = <<o, f>>
  PROVE  /\ SignaturesDiffer => Times(o, k, s) = Often(connections[o], k)
         /\ Times(s, k, o) = Often(connections[s], k)
<1>1. s \in Object /\ o \in Object
  BY KeysAndObjects
<1>2. ASSUME NEW x \in Object, NEW y,
             \A i \in DOMAIN connections[x] : connections[x][i].key = k => connections[x][i].peer[1] = y
      PROVE  Times(x, k, y) = Often(connections[x], k)
  <2>1. ASSUME NEW i \in DOMAIN connections[x]
        PROVE  connections[x][i] = Connection(k, y) <=> connections[x][i].key = k
    <3>1. PICK c : c = connections[x][i]
      OBVIOUS
    <3>2. c \in Connections /\ c.peer = weak_ptr(c.peer[1]) /\ (c.key = k => c.peer[1] = y)
      BY <1>2, <3>1, ListFacts DEF Lists, Belonging, Belongs
    <3>3. c.key = k => c = Connection(k, y)
      BY <3>2 DEF Connections, Connection
    <3>4. Connection(k, y).key = k
      BY DEF Connection
    <3> QED
      BY <3>1, <3>3, <3>4
  <2>2. {i \in DOMAIN connections[x] : connections[x][i] = Connection(k, y)} = Under(connections[x], k)
    BY <2>1 DEF Under
  <2> QED
    BY <2>2 DEF Times, Often
<1>3. \A i \in DOMAIN connections[s] : connections[s][i].key = k => connections[s][i].peer[1] = o
  BY <1>1 DEF Lists, Belonging, Belongs
<1>4. SignaturesDiffer =>
        \A i \in DOMAIN connections[o] : connections[o][i].key = k => connections[o][i].peer[1] = s
  BY <1>1 DEF Lists, Belonging, Belongs, SignaturesDiffer
<1> QED
  BY <1>1, <1>2, <1>3, <1>4

LEMMA BothKnow ==
  ASSUME SignaturesDiffer PROVE Frames /\ Lists => KnownBothWays
<1> SUFFICES ASSUME Frames, Lists, NEW s \in Signal, NEW o \in Observer, NEW key \in Key, key[1] = o
             PROVE  Times(s, key, o) = Times(o, key, s)
  BY TypesAreOK DEF KnownBothWays
<1>1. key = <<o, key[2]>> /\ s \in Object /\ o \in Object
  BY KeyFacts, KeysAndObjects
<1>2. CASE key[2] \in SlotsOf[s]
  BY <1>1, <1>2, TimesIsOften DEF Lists, Agreeing, Agree
<1>3. CASE key[2] \notin SlotsOf[s]
  <2>1. {i \in DOMAIN connections[s] : connections[s][i] = Connection(key, o)} = {}
    BY <1>1, <1>3 DEF Connection, Lists, Belonging, Belongs
  <2>2. {i \in DOMAIN connections[o] : connections[o][i] = Connection(key, s)} = {}
    <3> SUFFICES ASSUME NEW i \in DOMAIN connections[o], connections[o][i] = Connection(key, s) PROVE FALSE
      OBVIOUS
    <3>1. Belongs(o, Connection(key, s))
      BY <1>1 DEF Lists, Belonging
    <3>2. Connection(key, s).key = key /\ Connection(key, s).peer[1] = s
      BY DEF Connection, weak_ptr
    <3> QED
      BY <1>3, <3>1, <3>2 DEF Belongs
  <2> QED
    BY <2>1, <2>2 DEF Times
<1> QED
  BY <1>2, <1>3

\* With signals of different signatures, whatever connects, fires, disconnects, dies and is
\* replaced in whatever nesting of slots: no signal keeps a connection to an object that has been
\* destroyed, or was replaced by another one at its place.
THEOREM DisconnectsAutomatically ==
  ASSUME SignaturesDiffer PROVE Spec => []AutomaticDisconnect
  BY BothHold, NoneDangles, PTL

\* Under the same condition, a signal and an observer list each other equally often under every
\* key, although the two lists are changed one after the other, and by two ways to find entries.
THEOREM KnownOnBothSides ==
  ASSUME SignaturesDiffer PROVE Spec => []KnownBothWays
  BY BothHold, BothKnow, PTL
=============================================================================
