------------------------------- MODULE Result -------------------------------
(***************************************************************************)
(* Result<T> (src/container/result.hpp): a value or an error in the same   *)
(* storage, told apart by mHasValue.  Placement new does not destroy what  *)
(* the storage held: "lost" records the values that were overwritten while *)
(* they lived, "misdestroyed" whether ~T ran where no value was, and       *)
(* "given" what every object was given last, as ValueOrError has it.       *)
(***************************************************************************)
EXTENDS Naturals

CONSTANTS Objects,     \* the variables of type Result
          Values, Errors,
          EmptyError,  \* error_type(1, std::system_category())
          Moved,       \* what a value is after it was moved from
          Indeterminate  \* what is read from a storage whose value was destroyed

VARIABLES mStorage, mHasValue,  \* of the objects that exist
          lost, misdestroyed, given

resultVars == <<mStorage, mHasValue, lost, misdestroyed, given>>

Promised == INSTANCE ValueOrError WITH holds <- given

Nothing    == [kind |-> "nothing", of |-> Moved]
ValueOf(v) == [kind |-> "value", of |-> v]
ErrorOf(e) == [kind |-> "error", of |-> e]
emptyError == ErrorOf(EmptyError)

Exists(o) == o \in DOMAIN mHasValue

ResultInit ==
  /\ mStorage = [o \in {} |-> Nothing]
  /\ mHasValue = [o \in {} |-> FALSE]
  /\ lost = {} /\ misdestroyed = FALSE
  /\ Promised!Init

-----------------------------------------------------------------------------
(* The storage after destroy(), and after placement new *)

\* ~error_code() is trivial: it leaves a value that it runs on as it is
Destroyed(o) == IF Exists(o) /\ mHasValue[o] = (mStorage[o].kind = "value")
                THEN Nothing ELSE IF Exists(o) THEN mStorage[o] ELSE Nothing

LostBy(storage) == IF storage.kind = "value" THEN {storage.of} ELSE {}

With(f, o, x) == [p \in DOMAIN f \cup {o} |-> IF p = o THEN x ELSE f[p]]

\* destroy() if o exists, placement new of "held", and the flag
Hold(o, held, flag) ==
  /\ mStorage' = With(mStorage, o, held)
  /\ mHasValue' = With(mHasValue, o, flag)
  /\ lost' = lost \cup LostBy(Destroyed(o))
  /\ misdestroyed' = (misdestroyed \/ (Exists(o) /\ mHasValue[o] /\ mStorage[o].kind # "value"))

-----------------------------------------------------------------------------
(* Constructors, and assignments from values and errors *)

SetValue(o, v) == Hold(o, ValueOf(v), TRUE)
SetError(o, e) == Hold(o, ErrorOf(e), FALSE)

\* Copy constructor and copy assignment.  From itself: the value is destroyed and the flag
\* cleared before other.hasValue() is asked, and other.error() is what is left of the value.
CopyFrom(o, src) ==
  /\ Exists(src)
  /\ IF o = src /\ mHasValue[o]
     THEN Hold(o, ErrorOf(Indeterminate), FALSE)
     ELSE Hold(o, mStorage[src], mHasValue[src])

\* (mutant of MoveFrom: the source forgets to become empty)
MoveKeepsFlag(o, src) ==
  /\ Exists(src) /\ o # src /\ mHasValue[src]
  /\ mStorage' = With(With(mStorage, src, ValueOf(Moved)), o, mStorage[src])
  /\ mHasValue' = With(mHasValue, o, TRUE)
  /\ lost' = lost \cup LostBy(Destroyed(o))
  /\ UNCHANGED misdestroyed

\* (mutant of MoveFrom: assigns the flag before it destroys what o holds)
MoveFlagFirst(o, src) ==
  /\ Exists(src) /\ o # src
  /\ mStorage' = With(With(mStorage, src, emptyError), o, mStorage[src])
  /\ mHasValue' = With(With(mHasValue, src, FALSE), o, mHasValue[src])
  /\ lost' = lost \cup (IF Exists(o) /\ ~mHasValue[src] THEN LostBy(mStorage[o]) ELSE {})
  /\ misdestroyed' = (misdestroyed \/ (Exists(o) /\ mHasValue[src]
                                         /\ mStorage[o].kind # "value"))

\* Move constructor and move assignment: other.mHasValue is cleared before
\* other.destroy(), which therefore leaves the moved-from value in the storage.  From
\* itself, the value is made of one that was destroyed, and left in the storage, too.
MoveFrom(o, src) ==
  /\ Exists(src)
  /\ IF mHasValue[src]
     THEN /\ mStorage' = With(With(mStorage, o, mStorage[src]), src, emptyError)
          /\ mHasValue' = With(With(mHasValue, o, TRUE), src, FALSE)
          /\ lost' = lost \cup LostBy(Destroyed(o))
                          \cup LostBy(ValueOf(IF o = src THEN Indeterminate ELSE Moved))
          /\ misdestroyed' = (misdestroyed
                               \/ (Exists(o) /\ mHasValue[o] /\ mStorage[o].kind # "value"))
     ELSE Hold(o, mStorage[src], FALSE)

\* ~Result()
Remove(o) ==
  /\ Exists(o)
  /\ mStorage' = [p \in DOMAIN mStorage \ {o} |-> mStorage[p]]
  /\ mHasValue' = [p \in DOMAIN mHasValue \ {o} |-> mHasValue[p]]
  /\ lost' = lost \cup LostBy(Destroyed(o))
  /\ misdestroyed' = (misdestroyed \/ (mHasValue[o] /\ mStorage[o].kind # "value"))

-----------------------------------------------------------------------------
(* Access: value() and error() assert hasValue() *)

\* the caller assigns to value(), or moves from it
WriteValue(o, v) == /\ Exists(o) /\ mHasValue[o]
                    /\ mStorage' = [mStorage EXCEPT ![o] = ValueOf(v)]
                    /\ UNCHANGED <<mHasValue, lost, misdestroyed>>
WriteError(o, e) == /\ Exists(o) /\ ~mHasValue[o]
                    /\ mStorage' = [mStorage EXCEPT ![o] = ErrorOf(e)]
                    /\ UNCHANGED <<mHasValue, lost, misdestroyed>>

\* A new object from what the functor makes of the value: a value, or a Result
\* with an error; without a value, from the error.
Apply(o, src, made) ==
  /\ Exists(src) /\ ~Exists(o)
  /\ IF mHasValue[src] THEN Hold(o, made, made.kind = "value") ELSE Hold(o, mStorage[src], FALSE)

Made == {ValueOf(v) : v \in Values} \cup {ErrorOf(e) : e \in Errors}

ResultNext ==
  \E o \in Objects :
    \/ \E v \in Values : (SetValue(o, v) \/ WriteValue(o, v)) /\ Promised!Set(o, ValueOf(v))
    \/ \E e \in Errors : (SetError(o, e) \/ WriteError(o, e)) /\ Promised!Set(o, ErrorOf(e))
    \/ ~Exists(o) /\ SetError(o, EmptyError) /\ Promised!Set(o, ErrorOf(EmptyError))
    \/ WriteValue(o, Moved) /\ Promised!Set(o, ValueOf(Moved))
    \/ \E src \in Objects : \/ CopyFrom(o, src) /\ Promised!Copy(o, src)
                            \/ MoveFrom(o, src) /\ Promised!Move(o, src)
                            \/ \E made \in Made : Apply(o, src, made) /\ Promised!Apply(o, src, made)
    \/ Remove(o) /\ Promised!Remove(o)

ResultSpec == ResultInit /\ [][ResultNext]_resultVars

-----------------------------------------------------------------------------
(* Properties *)

\* However Results are copied, moved and chained (result.hpp:57-97), each one holds exactly
\* the value or error that the last operation on it gave it, and its flag says which.  What
\* that is after an assignment from itself, ValueOrError says.
HoldsWhatWasGiven ==
  /\ DOMAIN mHasValue = DOMAIN given
  /\ mStorage = given
  /\ \A o \in DOMAIN given : mHasValue[o] = (given[o].kind = "value")

\* ~T runs on values only, and every value is destroyed once; only those that were moved
\* from are overwritten instead, and the one that a move from itself makes.
DestroysEveryValue == ~misdestroyed /\ lost \subseteq {Moved, Indeterminate}
=============================================================================
