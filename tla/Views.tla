------------------------------- MODULE Views -------------------------------
(***************************************************************************)
(* ArrayView and Span (src/container/array_view.hpp, span.hpp): two        *)
(* pointers into an array of the program, and copy() and fill() of         *)
(* src/container/range.hpp, which write through them.  Assertions are the  *)
(* callers' obligations, hence guards; they see unsigned arithmetic.       *)
(***************************************************************************)
EXTENDS Integers, FiniteSets, Sequences

CONSTANTS View,        \* the view objects
          Begin, Size, \* the array: its address and its number of elements
          SizeMod      \* 2^w of size_type

VARIABLES data,        \* index -> element
          views,
          shown,       \* view -> the indices it is to show: history
          loop         \* the call of copy() in progress; "before" is history

vars == <<data, views, shown, loop>>

Indices == 1..Size
Sizes   == 0..(SizeMod - 1)
null    == 0

-----------------------------------------------------------------------------
(* Views as values *)

Between(iBegin, iEnd) == [mpBegin |-> iBegin, mpEnd |-> iEnd]
Nothing == Between(null, null)

FromPointer(pBuf, numElements) == Between(pBuf, pBuf + numElements)
\* from iterators of a container: no element is there to take the address of
FromIterators(from, to) == IF from = to THEN Nothing ELSE Between(Begin + from, Begin + to)

size(v)  == v.mpEnd - v.mpBegin

first(v, count)  == Between(v.mpBegin, v.mpBegin + count)
skip(v, count)   == Between(v.mpBegin + count, v.mpEnd)
last(v, count)   == Between(v.mpBegin + size(v) - count, v.mpEnd)
shrink(v, count) == Between(v.mpBegin, v.mpEnd - count)

\* (mutant of SubviewAllowed: relies on the sum, which may roll over)
SubviewAllowedBySum(v, start, count) == (start + count) % SizeMod <= size(v)
SubviewAllowed(v, start, count) ==
  start <= size(v) /\ count <= size(v) /\ (start + count) % SizeMod <= size(v)
subview(v, start, count) == Between(v.mpBegin + start, v.mpBegin + start + count)

Equals(v, w) == v.mpBegin = w.mpBegin /\ v.mpEnd = w.mpEnd
\* (mutant of Less: ignores where views begin)
LessByEnd(v, w) == v.mpEnd < w.mpEnd
Less(v, w) == v.mpBegin < w.mpBegin \/ (v.mpBegin = w.mpBegin /\ v.mpEnd < w.mpEnd)

-----------------------------------------------------------------------------
(* The program *)

\* how many elements are copied, and the array as it was before
NoLoop == [running |-> FALSE, in |-> Nothing, out |-> Nothing, done |-> 0, before |-> << >>]

Init == /\ data = [i \in Indices |-> i]
        /\ views = [v \in View |-> Nothing]
        /\ shown = [v \in View |-> << >>]
        /\ loop = NoLoop

Set(v, to, list) == /\ views' = [views EXCEPT ![v] = to]
                    /\ shown' = [shown EXCEPT ![v] = list]
                    /\ UNCHANGED <<data, loop>>

Make(v) ==
  \/ Set(v, Nothing, << >>)
  \/ \E from, to \in 0..Size : from <= to /\
       LET list == [k \in 1..(to - from) |-> from + k]
       IN \/ Set(v, FromPointer(Begin + from, to - from), list)
          \/ Set(v, FromIterators(from, to), list)

\* from..to of a list, 0 where it has no element
Slice(list, from, to) == [k \in 1..(to - from + 1) |->
                            IF from + k - 1 \in DOMAIN list THEN list[from + k - 1] ELSE 0]

Part(v, w) ==
  LET n == size(views[w])
      l == shown[w]
  IN \/ \E count \in Sizes : count <= n /\
          \/ Set(v, first(views[w], count), Slice(l, 1, count))
          \/ Set(v, skip(views[w], count), Slice(l, count + 1, Len(l)))
          \/ Set(v, last(views[w], count), Slice(l, Len(l) - count + 1, Len(l)))
          \/ Set(v, shrink(views[w], count), Slice(l, 1, Len(l) - count))
     \/ \E start, count \in Sizes :
          /\ SubviewAllowed(views[w], start, count)
          /\ Set(v, subview(views[w], start, count), Slice(l, start + 1, start + count))

Copy(v, w) == Set(v, views[w], shown[w])

\* In debug builds, the source is empty afterwards, also if it is the target; in
\* release builds, to move is to copy.
Move(v, w) == /\ views' = [views EXCEPT ![v] = views[w], ![w] = Nothing]
              /\ shown' = [shown EXCEPT ![v] = shown[w], ![w] = << >>]
              /\ UNCHANGED <<data, loop>>

swap(v, w) ==
  /\ views' = [views EXCEPT ![v] = views[w], ![w] = views[v]]
  /\ shown' = [shown EXCEPT ![v] = shown[w], ![w] = shown[v]]
  /\ UNCHANGED <<data, loop>>

\* the index of the element a pointer points to
At(p) == p - Begin + 1

CopyRange(in, out) ==
  /\ size(views[out]) >= size(views[in])
  /\ loop' = [running |-> TRUE, in |-> views[in], out |-> views[out], done |-> 0, before |-> data]
  /\ UNCHANGED <<data, views, shown>>

CopyNth(k) ==
  /\ loop.running /\ loop.done < size(loop.in)
  /\ data' = [data EXCEPT ![At(loop.out.mpBegin + k)] = data[At(loop.in.mpBegin + k)]]
  /\ loop' = [loop EXCEPT !.done = @ + 1]
  /\ UNCHANGED <<views, shown>>

\* (mutant of CopyElement: goes backwards)
CopyElementBackwards == CopyNth(size(loop.in) - 1 - loop.done)

CopyElement == CopyNth(loop.done)

CopyReturn == /\ loop.running /\ loop.done = size(loop.in)
              /\ loop' = NoLoop
              /\ UNCHANGED <<data, views, shown>>

Fill(out, value) ==
  /\ data' = [i \in Indices |-> IF \E k \in 0..(size(views[out]) - 1) : i = At(views[out].mpBegin + k)
                                THEN value ELSE data[i]]
  /\ UNCHANGED <<views, shown, loop>>

Call(v, w) == \/ Make(v) \/ Part(v, w) \/ Copy(v, w) \/ Move(v, w) \/ swap(v, w)
              \/ CopyRange(v, w) \/ Fill(v, 0)

Next == \/ ~loop.running /\ \E v, w \in View : Call(v, w)
        \/ CopyElement \/ CopyReturn

Spec == Init /\ [][Next]_vars

-----------------------------------------------------------------------------
(* The test "array_view-subset": the results of the calls on 1, 2, 3, 4 *)

subsetTests ==
  LET view == FromPointer(Begin, 4)
  IN {<<view, 1, 4>>, <<subview(view, 0, 4), 1, 4>>, <<subview(view, 1, 3), 2, 4>>,
      <<subview(view, 1, 2), 2, 3>>, <<subview(view, 2, 2), 3, 4>>, <<subview(view, 2, 0), 3, 2>>,
      <<subview(view, 4, 0), 5, 4>>}
     \cup {<<first(view, n), 1, n>> : n \in {0, 1, 2, 4}}
     \cup {<<skip(view, n), n + 1, 4>> : n \in {0, 1, 2, 4}}
     \cup {<<last(view, n), 5 - n, 4>> : n \in {0, 1, 2, 4}}
     \cup {<<shrink(view, n), 1, 4 - n>> : n \in {0, 1, 2, 4}}

-----------------------------------------------------------------------------
(* Properties *)

Elements(v) == [k \in 1..size(v) |-> At(v.mpBegin + k - 1)]

\* A view shows the part of the array that the list operations of the same name give,
\* through any chain of subsets, copies and moves, and no count passes the assertions
\* that would lead it out of the array; the repository's tests of subsets hold.
ShowsItsPart ==
  /\ \A v \in View : Elements(views[v]) = shown[v]
  /\ \A t \in subsetTests : Elements(t[1]) = [k \in 1..(t[3] - t[2] + 1) |-> t[2] + k - 1]

\* operator< orders views strictly, and totally with operator==.
OrdersViews ==
  \A v, w \in View : LET a == views[v] b == views[w] IN
    /\ Cardinality({i \in 1..3 : <<Less(a, b), Less(b, a), Equals(a, b)>>[i]}) = 1
    /\ shown[v] # << >> => (Equals(a, b) <=> shown[v] = shown[w])

\* copy() copies and changes nothing else, also within one array, unless the target
\* begins behind the source's first element and before its end.
Overtakes(in, out) == in.mpBegin < out.mpBegin /\ out.mpBegin < in.mpEnd

CopiesRange ==
  LET in == loop.in out == loop.out IN
  loop.running /\ loop.done = size(in) =>
    /\ ~Overtakes(in, out) =>
         \A k \in 0..(size(in) - 1) : data[At(out.mpBegin + k)] = loop.before[At(in.mpBegin + k)]
    /\ \A i \in Indices :
         (\A k \in 0..(size(in) - 1) : i # At(out.mpBegin + k)) => data[i] = loop.before[i]
=============================================================================
