--------------------------- MODULE CircularMapSpec ---------------------------
(* What a queue or stack map promises: a bounded sequence of values.  A push  *)
(* into a full map is refused, or replaces the oldest value if the caller     *)
(* says so; pop and peek take the oldest value of a queue and the newest of a *)
(* stack.                                                                     *)
EXTENDS Naturals, Sequences, SequencesExt

CONSTANTS Capacity, Values, None

VARIABLES
  kind,       \* "QUEUE" or "STACK", "none" while there is no such map
  contents, answer

Answer(result, value) == answer' = [result |-> result, value |-> value]

Push(v, replace) ==
  \/ /\ Len(contents) < Capacity
     /\ contents' = Append(contents, v) /\ Answer("SUCCESS", None)
  \/ /\ Len(contents) = Capacity /\ replace
     /\ contents' = Append(Tail(contents), v) /\ Answer("SUCCESS", None)
  \/ /\ Len(contents) = Capacity /\ ~replace
     /\ Answer("OUT_OF_SPACE", None) /\ UNCHANGED contents
  \/ Answer("NO_MEMORY", None) /\ UNCHANGED contents

Pop ==
  /\ contents # <<>>
  /\ IF kind = "QUEUE"
     THEN Answer("SUCCESS", Head(contents)) /\ contents' = Tail(contents)
     ELSE Answer("SUCCESS", Last(contents)) /\ contents' = Front(contents)

Peek ==
  /\ contents # <<>>
  /\ Answer("SUCCESS", IF kind = "QUEUE" THEN Head(contents) ELSE Last(contents))
  /\ UNCHANGED contents

Empty == contents = <<>> /\ Answer("OBJECT_NOT_FOUND", None) /\ UNCHANGED contents

Refuse ==
  /\ \E r \in {"INVALID_ARGUMENT", "OPERATION_NOT_SUPPORTED"} : Answer(r, None)
  /\ UNCHANGED contents

\* The map is created, or deleted with what it holds.
Renew == kind' # kind /\ contents' = <<>>

Init == contents = <<>> /\ answer = [result |-> None, value |-> None]

Next ==
  \/ Renew
  \/ /\ kind # "none" /\ UNCHANGED kind
     /\ \/ \E v \in Values, replace \in BOOLEAN : Push(v, replace)
        \/ Pop \/ Peek \/ Empty \/ Refuse

Spec == Init /\ [][Next]_<<kind, contents, answer>>
=============================================================================
