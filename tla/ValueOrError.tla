---------------------------- MODULE ValueOrError ----------------------------
(***************************************************************************)
(* What Result promises: an object holds one value or one error, the one   *)
(* that the last operation on it gave it.  Every operation determines what *)
(* its objects hold.                                                       *)
(***************************************************************************)
EXTENDS Naturals

CONSTANTS EmptyError,     \* what an object without a value or an error holds
          Indeterminate   \* what is read from where nothing lives

VARIABLE holds   \* the objects that exist, with what they hold

ValueOf(v) == [kind |-> "value", of |-> v]
ErrorOf(e) == [kind |-> "error", of |-> e]

With(f, o, held) == [x \in DOMAIN f \cup {o} |-> IF x = o THEN held ELSE f[x]]

Init == holds = [o \in {} |-> ErrorOf(EmptyError)]

Set(o, held) == holds' = With(holds, o, held)

\* A value that is assigned to itself is lost, and an error nobody made is in its place.
Copy(o, src) ==
  /\ src \in DOMAIN holds
  /\ Set(o, IF o = src /\ holds[src].kind = "value" THEN ErrorOf(Indeterminate) ELSE holds[src])

\* A value leaves an empty source behind, also if that is the target; an error stays.
Move(o, src) ==
  /\ src \in DOMAIN holds
  /\ holds' = LET moved == With(holds, o, holds[src])
              IN IF holds[src].kind = "value" THEN With(moved, src, ErrorOf(EmptyError)) ELSE moved

\* what a functor makes of the value, or the error
Apply(o, src, made) ==
  /\ src \in DOMAIN holds
  /\ Set(o, IF holds[src].kind = "value" THEN made ELSE holds[src])

Remove(o) == holds' = [x \in DOMAIN holds \ {o} |-> holds[x]]
=============================================================================
