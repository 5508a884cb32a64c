--------------------------- MODULE SearchService ----------------------------
(***************************************************************************)
(* What a search session promises its caller, and all it promises: every   *)
(* request is answered, and the answer is right for that request alone,    *)
(* whatever the session was asked before.                                  *)
(***************************************************************************)
CONSTANTS
  Requests,      \* what can be asked
  Right(_, _),   \* Right(r, a): a answers the request r rightly
  None           \* no request, no answer yet

VARIABLES
  asked,     \* the request being worked on, or None
  answered   \* the last answer, or None

Init == asked = None /\ answered = None

Ask ==
  /\ asked = None
  /\ asked' \in Requests
  /\ UNCHANGED answered

Answer ==
  /\ asked # None
  /\ Right(asked, answered')
  /\ asked' = None

\* A request may be answered as soon as it is made (an exact endgame).
AskAndAnswer ==
  /\ asked = None
  /\ \E r \in Requests : Right(r, answered')
  /\ UNCHANGED asked

Next == Ask \/ Answer \/ AskAndAnswer

Spec == Init /\ [][Next]_<<asked, answered>>

\* Every request is answered.
Responds == asked # None ~> asked = None
=============================================================================
