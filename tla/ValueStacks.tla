----------------------------- MODULE ValueStacks ----------------------------
(***************************************************************************)
(* What the class Stack promises: objects that hold a stack of values each *)
(* and can be created, copied, assigned and destroyed.  A call returns, or *)
(* it throws and has changed nothing; only pop_nosafe, which returns the   *)
(* element by value, may throw when the element is off the stack: it is    *)
(* lost.  pop throws on an empty stack only, and destroy never.            *)
(***************************************************************************)
EXTENDS Integers, Sequences

CONSTANTS Stacks, Values, None

VARIABLES contents,   \* of each object, the top last; None before and after its life
          ended       \* the call that ended last, until another is in progress

stackVars == <<contents, ended>>

Live == {s \in Stacks : contents[s] # None}

Set(s, c) == contents' = [contents EXCEPT ![s] = c]

Ends(op, s, exit) == ended' = [op |-> op, this |-> s, exit |-> exit]

NoneEnded == [op |-> "none", this |-> None, exit |-> "none"]

Init == contents = [s \in Stacks |-> None] /\ ended = NoneEnded

\* A call that takes several steps has begun.
Begin == ended' = NoneEnded /\ UNCHANGED contents

Create(s) == s \notin Live /\ Set(s, <<>>) /\ Ends("create", s, "returned")

Destroy(s) == s \in Live /\ Set(s, None) /\ Ends("destroy", s, "returned")

Construct(s, o) == s \notin Live /\ o \in Live /\ Set(s, contents[o]) /\ Ends("construct", s, "returned")

Assign(s, o) == s \in Live /\ o \in Live /\ Set(s, contents[o]) /\ Ends("assign", s, "returned")

Push(s, x) == s \in Live /\ Set(s, Append(contents[s], x)) /\ Ends("push", s, "returned")

RemoveTop(s) == s \in Live /\ contents[s] # <<>> /\ Set(s, SubSeq(contents[s], 1, Len(contents[s]) - 1))

Pops == {"pop", "pop_better_but", "pop_nosafe"}

Pop(op, s) == RemoveTop(s) /\ Ends(op, s, "returned")

\* The element did not reach the caller, and is no longer in the stack.
Lose(s) == RemoveTop(s) /\ Ends("pop_nosafe", s, "threw")

Throw(op, s) ==
  /\ op \in {"create", "construct"} <=> s \notin Live
  /\ op = "pop" => contents[s] = <<>>
  /\ Ends(op, s, "threw")
  /\ UNCHANGED contents

Next ==
  \/ Begin
  \/ \E s \in Stacks :
       \/ Create(s)
       \/ Destroy(s)
       \/ \E o \in Stacks : Construct(s, o) \/ Assign(s, o)
       \/ \E x \in Values : Push(s, x)
       \/ \E op \in Pops : Pop(op, s)
       \/ Lose(s)
       \/ \E op \in {"create", "construct", "assign", "push"} \cup Pops : Throw(op, s)

Spec == Init /\ [][Next]_stackVars
=============================================================================
