------------------------------ MODULE Delegate ------------------------------
(***************************************************************************)
(* Delegate (src/callable/delegate.hpp), a reference to something that can *)
(* be called, and how a member function pointer is resolved (src/base/     *)
(* cppvtable.hpp).  Objects come and go in the stages C++ gives them: the  *)
(* constructor and the destructor of Base run on an object whose dynamic   *)
(* type is Base.  The classes are those of the repository's tests; their   *)
(* methods return a letter.                                                *)
(***************************************************************************)
EXTENDS Naturals, FiniteSets

CONSTANTS Holder,    \* the delegates
          Large,     \* those of them whose RetType is neither void nor arithmetic
          Object,    \* places where objects live
          Windows    \* BOOLEAN: V1_OS_WIN, or POSIX on x86

VARIABLES class, stage,  \* of an object: "dead", "building", "whole" or "dying"
          delegate,      \* holder -> mpObject, mpTrampoline
          bound          \* holder -> to what, how, and to a whole object? (history)

vars == <<class, stage, delegate, bound>>

-----------------------------------------------------------------------------
(* Classes: a pointer to an object is the place and the part it points to. *)
(* Base, which has the vtable, comes first; Unrelated is given a size.     *)
(* Laars has two bases with vtables (src/base/tst_cppvtable.cpp).  A       *)
(* "Lambda" is what a delegate to a Callable refers to.                    *)

Bases(c) == {c} \cup CASE c \in {"VirtualFirst", "VirtualSecond"} -> {"Base", "Unrelated"}
                       [] c = "Laars" -> {"VBase1", "VBase2"}
                       [] OTHER -> {}
Offset(c) == IF c \in {"Unrelated", "VBase2"} THEN 1 ELSE 0

Member(c, method) == [class |-> c, method |-> method]
Members == {Member(c, "virtualMethod") : c \in {"Base", "VirtualFirst", "VirtualSecond"}}
           \cup {Member("VirtualFirst", "nonvirtualMethod"), Member("Unrelated", "nonvirtualBaseMethod")}
isVirtual(m) == m.method \in {"virtualMethod", "foo", "foo2"}

\* what m runs on an object of this dynamic type
Direct(type, m) ==
  CASE m.method = "virtualMethod" -> (CASE type = "Base" -> "B" [] type = "VirtualFirst" -> "F"
                                        [] type = "VirtualSecond" -> "S")
    [] m.method = "nonvirtualMethod" -> "M"
    [] m.method = "nonvirtualBaseMethod" -> "U"
    [] OTHER -> <<type, m.method>>

Null == [object |-> "null", offset |-> 0]
Pointer(o, c) == [object |-> o, offset |-> Offset(c)]

-----------------------------------------------------------------------------
(* Delegates.  A trampoline is entered with mpObject: code of a member     *)
(* function, or an interposer that calls m the standard way.               *)

Code(letter)  == [kind |-> "code", letter |-> letter, m |-> Member("", "")]
Dispatch(kind, m) == [kind |-> kind, letter |-> "", m |-> m]
NoTrampoline  == [kind |-> "null", letter |-> "", m |-> Member("", "")]
Holds(pObject, trampoline) == [mpObject |-> pObject, mpTrampoline |-> trampoline]
Empty == Holds(Null, NoTrampoline)

\* (mutant of bindMemFnFast: the address of the whole object, not of the part)
bindMemFnFastUncast(type, o, from, m) ==
  Holds(Pointer(o, from),
        IF isVirtual(m) /\ Windows THEN Dispatch("thunk", m) ELSE Code(Direct(type, m)))

\* resolveUntypedMemberFn(): on POSIX, a virtual function is looked up now; on
\* Windows, the pointer is to a thunk that does so when it is called
bindMemFnFast(type, o, from, m) ==
  Holds(Pointer(o, m.class),
        IF isVirtual(m) /\ Windows THEN Dispatch("thunk", m) ELSE Code(Direct(type, m)))

bindMemFnSafe(o, m) == Holds(Pointer(o, m.class), Dispatch("interposer", m))

\* (mutant of bind: never an interposer)
bindNoInterposer(h, type, o, from, m) == bindMemFnFast(type, o, from, m)

bind(h, type, o, from, m) == IF Windows /\ h \in Large THEN bindMemFnSafe(o, m)
                             ELSE bindMemFnFast(type, o, from, m)

FreeFunction == Holds([object |-> "function", offset |-> 0], Dispatch("function", Member("", "")))
Invocable(o) == Holds(Pointer(o, "Lambda"), Dispatch("invocable", Member("", "")))

\* operator(): what runs, and on which "this".  To member functions Windows passes
\* "this" before the place for a large result, to others after it.
Runs(h, type, d) ==
  LET t == d.mpTrampoline IN
  [letter |-> CASE t.kind = "code" -> t.letter
                [] t.kind \in {"thunk", "interposer"} -> Direct(type, t.m)
                [] t.kind = "function" -> "f"
                [] t.kind = "invocable" -> "l",
   this   |-> IF Windows /\ h \in Large /\ t.kind \in {"code", "thunk"} THEN Null ELSE d.mpObject]

-----------------------------------------------------------------------------
(* The program *)

NotBound == [how |-> "no", object |-> "null", m |-> Member("", ""), whole |-> FALSE]

Init == /\ class = [o \in Object |-> "Base"]
        /\ stage = [o \in Object |-> "dead"]
        /\ delegate = [h \in Holder |-> Empty]
        /\ bound = [h \in Holder |-> NotBound]

HasBase(c) == c \in {"VirtualFirst", "VirtualSecond"}

\* Base's constructor comes first, its destructor last
NextStage(c) == [dead  |-> IF HasBase(c) THEN "building" ELSE "whole", building |-> "whole",
                 whole |-> IF HasBase(c) THEN "dying" ELSE "dead",     dying    |-> "dead"]

Construct(o, c) ==
  /\ stage[o] = "dead"
  /\ class' = [class EXCEPT ![o] = c]
  /\ stage' = [stage EXCEPT ![o] = NextStage(c)["dead"]]
  /\ UNCHANGED <<delegate, bound>>

\* what is bound to an object that is no more dangles
Proceed(o) ==
  /\ stage[o] # "dead"
  /\ stage' = [stage EXCEPT ![o] = NextStage(class[o])[stage[o]]]
  /\ bound' = [h \in Holder |-> IF stage'[o] = "dead" /\ bound[h].object = o
                                THEN NotBound ELSE bound[h]]
  /\ UNCHANGED <<class, delegate>>

dynamic == [o \in Object |-> IF stage[o] \in {"building", "dying"} THEN "Base" ELSE class[o]]

Set(h, d, how, o, m) ==
  /\ delegate' = [delegate EXCEPT ![h] = d]
  /\ bound' = [bound EXCEPT ![h] = [how |-> how, object |-> o, m |-> m,
                                    whole |-> o \in Object /\ stage[o] = "whole"]]
  /\ UNCHANGED <<class, stage>>

\* from a pointer of a type that the object has at this stage
BindMember(h, o, from, m) ==
  /\ stage[o] # "dead" /\ from \in Bases(dynamic[o]) /\ m.class \in Bases(from)
  /\ \/ Set(h, bind(h, dynamic[o], o, from, m), "fast", o, m)
     \/ /\ ~(Windows /\ h \in Large)
        /\ Set(h, bindMemFnFast(dynamic[o], o, from, m), "fast", o, m)
     \/ Set(h, bindMemFnSafe(o, m), "safe", o, m)

BindInvocable(h, o) == /\ class[o] = "Lambda" /\ stage[o] = "whole"
                       /\ Set(h, Invocable(o), "invocable", o, Member("", ""))

BindFunction(h) == Set(h, FreeFunction, "function", "null", Member("", ""))

\* = {}
Reset(h) == /\ delegate' = [delegate EXCEPT ![h] = Empty]
            /\ bound' = [bound EXCEPT ![h] = NotBound]
            /\ UNCHANGED <<class, stage>>

\* copying and moving are the same
Assign(h, from) ==
  /\ (h \in Large) = (from \in Large)
  /\ delegate' = [delegate EXCEPT ![h] = delegate[from]]
  /\ bound' = [bound EXCEPT ![h] = bound[from]]
  /\ UNCHANGED <<class, stage>>

\* (mutant of swap: no temporary)
swapInPlace(h, other) ==
  /\ (h \in Large) = (other \in Large)
  /\ delegate' = [delegate EXCEPT ![other] = delegate[h]]
  /\ bound' = [bound EXCEPT ![h] = bound[other], ![other] = bound[h]]
  /\ UNCHANGED <<class, stage>>

swap(h, other) ==
  /\ (h \in Large) = (other \in Large)
  /\ delegate' = [delegate EXCEPT ![h] = delegate[other], ![other] = delegate[h]]
  /\ bound' = [bound EXCEPT ![h] = bound[other], ![other] = bound[h]]
  /\ UNCHANGED <<class, stage>>

Next == \/ \E o \in Object :
             \/ \E c \in {"Base", "Unrelated", "VirtualFirst", "VirtualSecond", "Lambda"} : Construct(o, c)
             \/ Proceed(o)
        \/ \E h \in Holder :
             \/ \E o \in Object : \/ BindInvocable(h, o)
                                  \/ \E from \in Bases(dynamic[o]), m \in Members : BindMember(h, o, from, m)
             \/ BindFunction(h) \/ Reset(h)
             \/ \E other \in Holder : Assign(h, other) \/ swap(h, other)

Spec == Init /\ [][Next]_vars

-----------------------------------------------------------------------------
(* The tests in src/callable/tst_delegate.cpp: class of the object, of the *)
(* pointer, the method, and the letter that all three ways of binding give *)

inheritanceTests ==
  LET virtual(c)   == Member(c, "virtualMethod")
      nonvirtual   == Member("VirtualFirst", "nonvirtualMethod")
      nonvirtualBase == Member("Unrelated", "nonvirtualBaseMethod")
  IN {<<"VirtualFirst", "VirtualFirst", nonvirtual, "M">>,
      <<"VirtualFirst", "VirtualFirst", nonvirtualBase, "U">>,
      <<"Base", "Base", virtual("Base"), "B">>,
      <<"VirtualFirst", "Base", virtual("Base"), "F">>,
      <<"VirtualFirst", "VirtualFirst", virtual("Base"), "F">>,
      <<"VirtualFirst", "VirtualFirst", virtual("VirtualFirst"), "F">>,
      <<"VirtualSecond", "VirtualSecond", nonvirtualBase, "U">>,
      <<"VirtualSecond", "Base", virtual("Base"), "S">>,
      <<"VirtualSecond", "VirtualSecond", virtual("Base"), "S">>,
      <<"VirtualSecond", "VirtualSecond", virtual("VirtualSecond"), "S">>}

\* src/base/tst_cppvtable.cpp: classes of the object and of the pointer, methods
resolveTests == ({"Laars"} \X {"Laars"} \X {Member("Laars", "memberFunc"), Member("Laars", "foo"),
                  Member("Laars", "foo2"), Member("VBase1", "foo"), Member("VBase2", "foo2")})
                \cup {<<"Laars", "VBase1", Member("VBase1", "foo")>>,
                      <<"VBase1", "VBase1", Member("VBase1", "foo")>>}

-----------------------------------------------------------------------------
(* Properties *)

Callable(h) == LET b == bound[h] IN
  b.how \in {"fast", "safe"} /\ b.m.class \in Bases(dynamic[b.object])
Call(h) == Runs(h, dynamic[bound[h].object], delegate[h])

\* A delegate that was bound to a whole object calls, as long as the object is whole,
\* what a direct call runs, on the part of the object that has the method, whichever
\* class the pointer was to; bindMemFnSafe() does so in every stage ("calls the expected
\* target, as in standard C++", delegate.hpp:158).
CallsDirectly ==
  \A h \in Holder : LET b == bound[h] IN
    Callable(h) /\ (b.how = "safe" \/ (b.whole /\ stage[b.object] = "whole")) =>
      Call(h) = [letter |-> Direct(dynamic[b.object], b.m), this |-> Pointer(b.object, b.m.class)]

\* "either the derived or base class method may be called" (delegate.hpp:22): in any
\* stage a delegate calls a method of the object, on that object.
CallsBaseOrDerived ==
  \A h \in Holder : LET b == bound[h] IN
    Callable(h) => /\ Call(h).letter \in {Direct(c, b.m) : c \in {"Base", class[b.object]}}
                   /\ Call(h).this = Pointer(b.object, b.m.class)

\* Delegates hold what they were last bound to, through copies and swaps.
HoldsWhatWasBound ==
  \A h \in Holder : LET b == bound[h] IN
    /\ b.how = "function" => delegate[h] = FreeFunction
    /\ b.how = "invocable" => delegate[h] = Invocable(b.object)
    /\ b.how \in {"fast", "safe"} => delegate[h].mpObject = Pointer(b.object, b.m.class)

\* The test tables hold, however the method is bound, on the part that has it.
TestsHold ==
  /\ \A t \in resolveTests, h \in Holder, o \in Object :
       Runs(h, t[1], bindMemFnFast(t[1], o, t[2], t[3]))
         = [letter |-> Direct(t[1], t[3]),
            this |-> IF Windows /\ h \in Large THEN Null ELSE Pointer(o, t[3].class)]
  /\ \A t \in inheritanceTests, h \in Holder, o \in Object :
       \A d \in {bind(h, t[1], o, t[2], t[3]), bindMemFnFast(t[1], o, t[2], t[3]), bindMemFnSafe(o, t[3])} :
         Runs(h, t[1], d).letter = t[4]
=============================================================================
