--------------------------- MODULE MCInjectEngine ---------------------------
(***************************************************************************)
(* Workloads for InjectEngine: calls that meet on one pane or share the    *)
(* buffer for two panes, over panes that are empty, or hold a draft of a   *)
(* person and show an older copy of the text.  Texts are shown as they are *)
(* or as placeholders.                                                     *)
(***************************************************************************)
EXTENDS InjectEngine

CONSTANTS s1, s2, s3, p1, p2, t1, t2

Call(kind, pane, text) == [kind |-> kind, pane |-> pane, text |-> text]

Load(c1, c2, c3, draft, history, popups, chips) ==
  [job |-> (s1 :> c1 @@ s2 :> c2 @@ s3 :> c3),
   draft |-> draft, history |-> history, popups |-> popups, chips |-> chips]

\* A send on one pane meets a second call on it, while a third call uses the
\* buffer for another pane.
Meeting == {Load(Call("send", p1, t1), Call(k, p1, t), Call("raw", p2, t2), <<>>, <<>>, FALSE, chips) :
              k \in {"send", "insert", "raw"}, t \in {t1, t2}, chips \in {{}, {t1, t2}}}

\* A popup, a draft in the composer, the text already on the screen; and
\* someone presses Enter.
Stale == {Load(Call("send", p1, t1), Call("enter", p1, t1), Call("insert", p2, t1),
               <<t2>>, <<t1>>, popups, {}) : popups \in BOOLEAN}

WorkloadSet == Meeting \cup Stale

=============================================================================
