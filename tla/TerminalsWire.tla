---------------------------- MODULE TerminalsWire ---------------------------
(***************************************************************************)
(* The WebSocket of a tab to /ws/terminals, as both of its ends see it.    *)
(* A tab may hold a socket that is still closing next to its successor, so *)
(* sockets are numbered in the order in which they are dialled.            *)
(*                                                                         *)
(* A cut socket carries nothing more, and nobody is told: the browser may  *)
(* keep it open for as long as it likes.  Data frames, resizes and pongs   *)
(* are left out; that a ping is answered is a step of the mux.             *)
(***************************************************************************)
EXTENDS SeqFilter

CONSTANTS
  MaxId,        \* bound: stream ids the tab allocates
  MaxSockets,   \* bound: sockets the tab dials
  Budgets       \* bound: how often the surroundings act up; one is chosen

\* cuts: connections that fail, are cut, or answer too late; toggles: times the
\* page is hidden, shown or woken; fails: attaches that fail; ends: attach
\* clients that end by themselves; mounts: terminals that mount.
Budget == [cuts : Nat, toggles : Nat, fails : Nat, ends : Nat, mounts : Nat]

ASSUME WireBounds == {MaxId, MaxSockets} \subseteq Nat /\ Budgets \subseteq Budget

VARIABLES
  sock,   \* the sockets dialled: the end of the browser and what is in transit
  left    \* what is left of the budget

Spend(what) == left[what] > 0 /\ left' = [left EXCEPT ![what] = @ - 1]

Id == 1..MaxId
NoSocket == 0

Message == [op : {"open", "close"}, id : Id]

\* code: "normal" is 1000, "failed" 4001, and "missing", of a window, 4004.
Frame == [op : {"opened"}, id : Id]
           \cup [op : {"closed"}, id : Id, code : {"normal", "failed", "missing"}]

Socket == [client : {"connecting", "open", "closing", "closed"},
           net : {"dialling", "ok", "cut"},
           up : Seq(Message), down : Seq(Frame)]

WireTypeOK == sock \in Seq(Socket) /\ left \in Budget

Dialled == [client |-> "connecting", net |-> "dialling", up |-> <<>>, down |-> <<>>]

\* readyState === OPEN
IsOpen(sk, n) == n # NoSocket /\ sk[n].client = "open"

\* What a send on socket n does: lost unless it is open and not cut.
Transmit(sk, n, messages) ==
  IF IsOpen(sk, n) /\ sk[n].net = "ok"
    THEN [sk EXCEPT ![n].up = @ \o messages]
    ELSE sk

\* A connection is cut: what was in transit is lost.
Cut(n) ==
  /\ Spend("cuts")
  /\ sock[n].net = "ok"
  /\ sock' = [sock EXCEPT ![n].net = "cut", ![n].up = <<>>, ![n].down = <<>>]

=============================================================================
