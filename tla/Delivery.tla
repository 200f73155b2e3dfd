------------------------------ MODULE Delivery ------------------------------
(***************************************************************************)
(* What the injection engine promises its callers, whatever the terminals  *)
(* do: calls for one pane take turns, each is answered once, its text is   *)
(* submitted at most once, and an answer that says that it was not pressed *)
(* is never followed by a submission of its own.  A text that is left in   *)
(* the composer may still be submitted by a later Enter, of another call   *)
(* or of a person.  InjectEngine is the code.                              *)
(***************************************************************************)
EXTENDS Naturals

CONSTANTS
  Caller,
  Pane

VARIABLES
  pane,      \* the pane each call is for
  state,     \* waiting, running, or what the call was answered
  copies,    \* how often the text of each call was submitted
  own        \* calls whose own Enter submitted their text

\* A plain error and ProbeFailure: no Enter of the call has submitted its text.
Withholding == {"error", "probe"}

\* The others: SendRaw and PressEnter, an insert, StagedSendFailure, nil, SubmitUnverified.
Answers == Withholding \cup {"sent", "inserted", "staged", "ok", "unverified"}

Init ==
  /\ pane \in [Caller -> Pane]
  /\ state = [c \in Caller |-> "waiting"]
  /\ copies = [c \in Caller |-> 0]
  /\ own = {}

Free(c) == state[c] = "waiting" /\ \A d \in Caller : state[d] = "running" => pane[d] # pane[c]

Start(c) ==
  /\ Free(c)
  /\ state' = [state EXCEPT ![c] = "running"]
  /\ UNCHANGED <<pane, copies, own>>

Answer(c) ==
  /\ \E a \in Answers :
       /\ state[c] = "running" \/ (Free(c) /\ a = "error")
       /\ a \in Withholding => c \notin own
       /\ state' = [state EXCEPT ![c] = a]
  /\ UNCHANGED <<pane, copies, own>>

\* An Enter in pane p submits what is there: texts of calls that have begun, each for the
\* first time, and perhaps that of the call whose Enter it is.
Land(p) ==
  /\ \E S \in SUBSET {c \in Caller : pane[c] = p /\ state[c] # "waiting" /\ copies[c] = 0} :
       /\ copies' = [c \in Caller |-> IF c \in S THEN 1 ELSE copies[c]]
       /\ \/ UNCHANGED own
          \/ \E c \in S : state[c] \notin Withholding /\ own' = own \cup {c}
  /\ UNCHANGED <<pane, state>>

Next == (\E c \in Caller : Start(c) \/ Answer(c)) \/ (\E p \in Pane : Land(p))

Spec == Init /\ [][Next]_<<pane, state, copies, own>>

=============================================================================
