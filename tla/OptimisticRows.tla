--------------------------- MODULE OptimisticRows ---------------------------
(***************************************************************************)
(* The rows of the sidebar: what a tab draws of the sessions and windows   *)
(* of a tmux server while requests of its own are under way.               *)
(*                                                                         *)
(* A request shows its effect before it is sent (hooks/                    *)
(* use-optimistic-action.ts): a killed row is hidden, a renamed one has    *)
(* its new name, a created or moved one a ghost in its place.  The marks   *)
(* live in the window store (store/window-store.ts) and in the context of  *)
(* contexts/optimistic-context.tsx; snapshots replace what lies beneath    *)
(* them, and an answer takes the marks of its request away.  Which marks   *)
(* those are a handler learns from a ref that the last call of its hook    *)
(* has written (components/sidebar/index.tsx, hooks/use-window-rename.ts,  *)
(* app.tsx).                                                               *)
(*                                                                         *)
(* One tmux server; windows are numbered as tmux numbers them, and the     *)
(* order of the rows is left out.                                          *)
(***************************************************************************)
EXTENDS Integers, FiniteSets, SequencesExt

CONSTANTS
  Session,      \* names of sessions
  Name,         \* names of windows
  MaxWindow,    \* bound: windows that ever live
  Setups        \* bounds: the hooks a run uses and how often, and what else may happen

WindowId == 1..MaxWindow
Unborn == "unborn"
Gone == "gone"
NoName == "none"

KillHooks == {"kill", "dialog", "killSession"}
Hook == KillHooks \cup {"rename", "renameSession", "create", "move"}
\* The component a hook belongs to.
Owner == [h \in Hook |-> IF h = "create" THEN "shell" ELSE "sidebar"]

\* What is in place of a session or a name is none.
ASSUME RowBounds ==
  /\ MaxWindow \in Nat \ {0}
  /\ Session \cap {Unborn, Gone, NoName} = {} /\ Name # {} /\ NoName \notin Name
  /\ Setups \subseteq [hooks : SUBSET Hook, calls : Nat, underWay : Nat, fails : Nat, births : Nat,
                       deaths : Nat, moves : Nat, misroutes : Nat, unmounts : Nat,
                       homes : Seq(Session)]

VARIABLES
  tmux,     \* the windows as they are
  wire,     \* the snapshot on its way to the tab, if any
  tab,      \* what the tab keeps
  calls,    \* requests whose answer has not been handled
  left,     \* what may still happen
  stays     \* history: the calls whose effect on the rows no handler takes back

rowVars == <<tmux, wire, tab, calls, left, stays>>

World == [WindowId -> [home : Session \cup {Unborn, Gone}, name : Name]]

NoEntry == [session |-> NoName, killed |-> FALSE, name |-> NoName, pending |-> NoName]
Entry == {NoEntry} \cup [session : Session, killed : BOOLEAN, name : Name,
                         pending : Name \cup {NoName}]
Ghost == [id : Nat, session : Session, snapshot : SUBSET WindowId]

\* A call: its hook, the session and the window it is about, the new name or the
\* session to go to, and its ghost.
Call == [hook : Hook, session : Session, window : WindowId \cup {0},
         to : Session \cup Name \cup {NoName}, ghost : Nat]
NoCall == [hook |-> NoName, session |-> NoName, window |-> 0, to |-> NoName, ghost |-> 0]

TabTypes == [raw : World,                           \* rawSessions
             entries : [WindowId -> Entry],         \* the window store
             killed : SUBSET Session,
             last : [Hook -> Call \cup {NoCall}],   \* the hooks' refs
             mounted : SUBSET {"shell", "sidebar"}]

RowsTypeOK ==
  /\ tmux \in World
  /\ wire = <<>> \/ (Len(wire) = 1 /\ wire[1] \in World)
  /\ [f \in DOMAIN tab \ {"ghosts", "ids", "target", "renamed"} |-> tab[f]] \in TabTypes
  /\ ToSet(tab.ghosts) \subseteq Ghost
  /\ ToSet(tab.renamed) \subseteq Session \X Session
  /\ tab.ids \in Nat
  /\ tab.target \in Call \cup {NoCall}
  /\ calls \subseteq [call : Call, stage : {"sent", "done", "failed"}]
  /\ stays \subseteq Call
-----------------------------------------------------------------------------
\* ---- the window store

Living(world, s) == {w \in WindowId : world[w].home = s}
Sessions(world) == {s \in Session : Living(world, s) # {}}
IsAlive(w) == tmux[w].home \in Session
Known(t, s) == {w \in WindowId : t.entries[w].session = s}

SlipUnclaimed(ghosts, s, new) == ghosts

\* The ghosts of session s that no window of `new` is taken for, oldest first: one
\* whose snapshot holds a new window is left alone.
Unclaimed(ghosts, s, new) ==
  LET Free(acc) == new \ acc.claimed
      Step(acc, g) ==
        IF g.session = s /\ g.snapshot \cap Free(acc) = {} /\ Free(acc) # {}
        THEN [acc EXCEPT !.claimed = @ \cup {CHOOSE w \in Free(acc) : \A v \in Free(acc) : w <= v}]
        ELSE [acc EXCEPT !.kept = Append(@, g)]
  IN FoldLeft(Step, [claimed |-> {}, kept |-> <<>>], ghosts).kept

Reconciled(ghosts, t, world) ==
  LET Step(s, gs) == Unclaimed(gs, s, Living(world, s) \ Known(t, s))
  IN FoldSet(Step, ghosts, Sessions(world))

SlipSetWindows(t, world) ==
  [t EXCEPT
     !.entries = [w \in WindowId |->
        IF world[w].home \in Session
        THEN [session |-> world[w].home, name |-> world[w].name, killed |-> FALSE,
              pending |-> NoName]
        ELSE IF t.entries[w].session \in Sessions(world) THEN NoEntry ELSE t.entries[w]],
     !.ghosts = Reconciled(t.ghosts, t, world)]

\* setWindowsForSession for every session of a snapshot: entries of a session that
\* the snapshot lacks stay, marks stay with a window that stays in its session.
SetWindows(t, world) ==
  [t EXCEPT
     !.entries = [w \in WindowId |->
        LET e == t.entries[w]
            s == world[w].home
        IN IF s \in Session
           THEN [session |-> s, name |-> world[w].name,
                 killed |-> e.session = s /\ e.killed,
                 pending |-> IF e.session = s THEN e.pending ELSE NoName]
           ELSE IF e.session \in Sessions(world) THEN NoEntry ELSE e],
     !.ghosts = Reconciled(t.ghosts, t, world)]

\* An entry is changed only in the session the caller means.
Change(t, c, field, value) ==
  IF c # NoCall /\ c.window # 0 /\ t.entries[c.window].session = c.session
  THEN [t EXCEPT !.entries[c.window][field] = value]
  ELSE t

KillWindow(t, c) == Change(t, c, "killed", TRUE)

SlipRestoreWindow(t, c) == Change(t, c, "pending", NoName)

RestoreWindow(t, c) == Change(t, c, "killed", FALSE)

RenameWindow(t, c) == Change(t, c, "pending", c.to)
ClearRename(t, c) == Change(t, c, "pending", NoName)

AddGhost(t, s) ==
  [t EXCEPT !.ids = @ + 1,
            !.ghosts = Append(@, [id |-> t.ids + 1, session |-> s, snapshot |-> Known(t, s)])]

RemoveGhost(t, id) == [t EXCEPT !.ghosts = SelectSeq(@, LAMBDA g : g.id # id)]

ClearSession(t, s) ==
  [t EXCEPT !.entries = [w \in WindowId |-> IF @[w].session = s THEN NoEntry ELSE @[w]],
            !.ghosts = SelectSeq(@, LAMBDA g : g.session # s)]
-----------------------------------------------------------------------------
\* ---- what is drawn (useMergedSessions)

\* The name a session is drawn with: the last one it was given.
NewName(t, s) ==
  LET given == SelectSeq(t.renamed, LAMBDA r : r[1] = s)
  IN IF given = <<>> THEN s ELSE Last(given)[2]

DrawnSessions(t) == Sessions(t.raw) \ t.killed

\* The windows of session s that have a row, and the name a row shows.
DrawnWindows(t, s) ==
  {w \in Living(t.raw, s) :
     s \notin t.killed /\ t.entries[w].session = s /\ ~t.entries[w].killed}

DrawnName(t, w) ==
  IF t.entries[w].pending # NoName THEN t.entries[w].pending ELSE t.entries[w].name

\* A rename whose new name has arrived is taken off.
Confirmed(t) ==
  LET arrived == {r[1] : r \in {p \in ToSet(t.renamed) : p[2] \in Sessions(t.raw)}}
  IN [t EXCEPT !.renamed = SelectSeq(@, LAMBDA r : r[1] \notin arrived)]
-----------------------------------------------------------------------------
\* ---- the hooks (useOptimisticAction)

\* onOptimistic: the ref is written and the effect is shown.
Shown(t, c) ==
  LET h == c.hook
      u == [t EXCEPT !.last[h] = c]
  IN CASE h = "kill"          -> KillWindow(u, c)
       [] h = "dialog"        -> IF c.window # 0 THEN KillWindow(t, c)
                                 ELSE [t EXCEPT !.killed = @ \cup {c.session}]
       [] h = "killSession"   -> [u EXCEPT !.killed = @ \cup {c.session}]
       [] h = "rename"        -> RenameWindow(u, c)
       [] h = "renameSession" -> [u EXCEPT !.renamed = Append(@, <<c.session, c.to>>)]
       [] h = "create"        -> AddGhost(u, c.session)
       [] h = "move"          -> AddGhost(KillWindow(u, c), c.to)

Unmarked(t, s) == [t EXCEPT !.killed = @ \ {s}]
Unrenamed(t, s) == [t EXCEPT !.renamed = SelectSeq(@, LAMBDA r : r[1] # s)]
Forget(t, h) == [t EXCEPT !.last[h] = NoCall]

\* The failure handlers; what a hook takes back is what its ref names by then, and
\* for the dialog the target it is open for (killTargetRef), which confirming closes.
RolledBack(t, h) ==
  LET c == t.last[h]
  IN CASE h = "kill"          -> RestoreWindow(t, c)
       [] h = "dialog"        -> IF t.target = NoCall THEN t
                                 ELSE IF t.target.window # 0 THEN RestoreWindow(t, t.target)
                                 ELSE Unmarked(t, t.target.session)
       [] h = "killSession"   -> IF c = NoCall THEN t ELSE Unmarked(t, c.session)
       [] h = "rename"        -> IF Owner[h] \notin t.mounted THEN t ELSE ClearRename(t, c)
       [] h = "renameSession" -> IF c = NoCall \/ Owner[h] \notin t.mounted THEN t
                                 ELSE Unrenamed(t, c.session)
       [] h = "create"        -> IF c = NoCall \/ Owner[h] \notin t.mounted THEN t
                                 ELSE Forget(RemoveGhost(t, c.ghost), h)
       [] h = "move"          -> IF c = NoCall THEN t
                                 ELSE RemoveGhost(RestoreWindow(t, c), c.ghost)

\* The success handlers.
Succeeded(t, h) ==
  LET c == t.last[h]
  IN CASE h = "kill"          -> Forget(RestoreWindow(t, c), h)
       [] h = "dialog"        -> IF t.target = NoCall THEN t
                                 ELSE IF t.target.window # 0 THEN RestoreWindow(t, t.target)
                                 ELSE ClearSession(t, t.target.session)
       [] h = "killSession"   -> IF c = NoCall THEN t ELSE Forget(ClearSession(t, c.session), h)
       [] h = "rename"        -> IF Owner[h] \notin t.mounted THEN t
                                 ELSE Forget(ClearRename(t, c), h)
       [] h = "renameSession" -> IF Owner[h] \notin t.mounted THEN t ELSE Forget(t, h)
       [] h = "create"        -> IF Owner[h] \notin t.mounted THEN t ELSE Forget(t, h)
       [] h = "move"          -> Forget(t, h)

\* The call that the handlers of a hook are about.
Target(h) == IF h = "dialog" THEN tab.target ELSE tab.last[h]

\* An answer that is handled for another call, or for none, so that the mark of its
\* own call stays: of a failure, and of any rename.
Overtaken(c) ==
  /\ c.stage = "failed" \/ c.call.hook = "rename"
  /\ \/ Target(c.call.hook) # c.call
     \/ c.call.hook \in {"rename", "renameSession"} /\ "sidebar" \notin tab.mounted

\* What an answer leaves for good: the mark of its own call, or no rows of the session
\* that the ref names when the kill of a session succeeds.
LeftBehind(c) ==
  {a \in {c.call} : Overtaken(c)}
    \cup {a \in {Target(c.call.hook)} : c.stage = "done" /\ a.hook \in KillHooks /\ a.window = 0}
-----------------------------------------------------------------------------
\* ---- the user

UnderWay(h) == {c \in calls : c.call.hook = h}

\* execute: the moves of a window between sessions wait for each other
\* (isCrossMovePending), nothing else does; MaxUnderWay bounds the others.
Execute(c, t) ==
  /\ c.hook \in left.hooks /\ left.calls > 0
  /\ Owner[c.hook] \in tab.mounted
  /\ Cardinality(UnderWay(c.hook)) < left.underWay
  /\ c.hook = "move" => UnderWay("move") = {}
  /\ tab' = Shown(t, c)
  /\ calls' = calls \cup {[call |-> c, stage |-> "sent"]}
  /\ left' = [left EXCEPT !.calls = @ - 1]
  /\ UNCHANGED <<tmux, wire, stays>>

On(hook, s, w, to) ==
  [hook |-> hook, session |-> s, window |-> w, to |-> to,
   ghost |-> IF hook \in {"create", "move"} THEN tab.ids + 1 ELSE 0]

\* A click with Ctrl on the kill control of a row.
KillRow(s, w) == w \in DrawnWindows(tab, s) /\ Execute(On("kill", s, w, NoName), tab)
KillSessionRow(s) == s \in DrawnSessions(tab) /\ Execute(On("killSession", s, 0, NoName), tab)

\* A plain click opens the dialog, which asks first.
OpenDialog(s, w) ==
  /\ "dialog" \in left.hooks /\ left.calls > 0
  /\ "sidebar" \in tab.mounted
  /\ IF w = 0 THEN s \in DrawnSessions(tab) ELSE w \in DrawnWindows(tab, s)
  /\ tab.target = NoCall
  /\ tab' = [tab EXCEPT !.target = On("dialog", s, w, NoName)]
  /\ UNCHANGED <<tmux, wire, calls, left, stays>>

\* handleKill: the call is made and the dialog closed before anything is answered.
ConfirmKill ==
  /\ tab.target # NoCall
  /\ Execute(tab.target, [tab EXCEPT !.target = NoCall])

CancelDialog ==
  /\ tab.target # NoCall
  /\ tab' = [tab EXCEPT !.target = NoCall]
  /\ UNCHANGED <<tmux, wire, calls, left, stays>>

RenameRow(s, w, n) ==
  w \in DrawnWindows(tab, s) /\ n # DrawnName(tab, w) /\ Execute(On("rename", s, w, n), tab)

RenameSessionRow(s, new) ==
  /\ s \in DrawnSessions(tab) /\ new \notin Sessions(tab.raw)
  /\ Execute(On("renameSession", s, 0, new), tab)

CreateWindow(s) == s \in DrawnSessions(tab) /\ Execute(On("create", s, 0, NoName), tab)

DropOnSession(s, w, dst) ==
  /\ w \in DrawnWindows(tab, s) /\ dst \in DrawnSessions(tab) \ {s}
  /\ Execute(On("move", s, w, dst), tab)

\* The component goes away with its hooks; a new one would have refs of its own.
Unmount(owner) ==
  /\ left.unmounts > 0 /\ owner \in tab.mounted
  /\ tab' = [tab EXCEPT !.mounted = @ \ {owner},
                        !.target = IF owner = "sidebar" THEN NoCall ELSE @]
  /\ left' = [left EXCEPT !.unmounts = @ - 1]
  /\ UNCHANGED <<tmux, wire, calls, stays>>
-----------------------------------------------------------------------------
\* ---- the daemon and tmux

Fresh == {w \in WindowId : tmux[w].home = Unborn /\ \A v \in 1..(w - 1) : tmux[v].home # Unborn}

Put(w, s) == [tmux EXCEPT ![w].home = s]
Rehome(s, to) == [w \in WindowId |-> IF tmux[w].home = s THEN [tmux[w] EXCEPT !.home = to] ELSE tmux[w]]

\* What a request does; where it can do nothing it is refused.
Effects(c) ==
  CASE c.hook = "kill" \/ (c.hook = "dialog" /\ c.window # 0)
         -> IF IsAlive(c.window) THEN {Put(c.window, Gone)} ELSE {}
    [] c.hook = "killSession" \/ (c.hook = "dialog" /\ c.window = 0)
         -> IF c.session \in Sessions(tmux) THEN {Rehome(c.session, Gone)} ELSE {}
    [] c.hook = "rename"
         -> IF IsAlive(c.window) THEN {[tmux EXCEPT ![c.window].name = c.to]} ELSE {}
    [] c.hook = "renameSession"
         -> IF c.session \in Sessions(tmux) /\ c.to \notin Sessions(tmux)
            THEN {Rehome(c.session, c.to)} ELSE {}
    [] c.hook = "create"
         -> {Put(w, s) : w \in Fresh,
               s \in {s \in Sessions(tmux) : s = c.session \/ left.misroutes > 0}}
    [] c.hook = "move"
         -> IF IsAlive(c.window) /\ c.to \in Sessions(tmux) THEN {Put(c.window, c.to)} ELSE {}

\* The name of a session that was killed stays marked.
Serve(c) ==
  /\ c.stage = "sent"
  /\ tmux' \in Effects(c.call)
  /\ calls' = (calls \ {c}) \cup {[c EXCEPT !.stage = "done"]}
  /\ stays' = IF c.call.hook \in KillHooks /\ c.call.window = 0 THEN stays \cup {c.call} ELSE stays
  /\ UNCHANGED <<wire, tab, left>>

\* A request fails because it cannot be done, or on its way.
Fail(c) ==
  /\ c.stage = "sent"
  /\ Effects(c.call) = {} \/ left.fails > 0
  /\ calls' = (calls \ {c}) \cup {[c EXCEPT !.stage = "failed"]}
  /\ left' = IF Effects(c.call) = {} THEN left ELSE [left EXCEPT !.fails = @ - 1]
  /\ UNCHANGED <<tmux, wire, tab, stays>>

\* Somebody else makes, kills or moves a window.
Elsewhere ==
  /\ \/ /\ left.births > 0
        /\ \E w \in Fresh, s \in Session : tmux' = Put(w, s)
        /\ left' = [left EXCEPT !.births = @ - 1]
     \/ /\ left.deaths > 0
        /\ \E w \in WindowId : IsAlive(w) /\ tmux' = Put(w, Gone)
        /\ left' = [left EXCEPT !.deaths = @ - 1]
     \/ /\ left.moves > 0
        /\ \E w \in WindowId, s \in Sessions(tmux) : IsAlive(w) /\ tmux[w].home # s /\ tmux' = Put(w, s)
        /\ left' = [left EXCEPT !.moves = @ - 1]
  /\ UNCHANGED <<wire, tab, calls, stays>>

\* The stream sends the sessions when they differ from what it sent last.
Push ==
  /\ wire = <<>> /\ tmux # tab.raw
  /\ wire' = <<tmux>>
  /\ UNCHANGED <<tmux, tab, calls, left, stays>>
-----------------------------------------------------------------------------
\* ---- the tab

Sync ==
  /\ wire # <<>>
  /\ tab' = Confirmed(SetWindows([tab EXCEPT !.raw = Head(wire)], Head(wire)))
  /\ wire' = <<>>
  /\ UNCHANGED <<tmux, calls, left, stays>>

\* The answer's handlers run, of a hook whose component is gone too.
Answer(c) ==
  /\ c.stage # "sent"
  /\ tab' = IF c.stage = "done" THEN Succeeded(tab, c.call.hook) ELSE RolledBack(tab, c.call.hook)
  /\ calls' = calls \ {c}
  /\ stays' = stays \cup LeftBehind(c)
  /\ UNCHANGED <<tmux, wire, left>>

\* GHOST_WINDOW_TTL_MS
Expire(g) ==
  /\ tab' = RemoveGhost(tab, g.id)
  /\ UNCHANGED <<tmux, wire, calls, left, stays>>

\* Two windows of one session, one of another.
Start(setup) ==
  LET others == setup.homes
      world == [w \in WindowId |-> [home |-> IF w \in DOMAIN others THEN others[w] ELSE Unborn,
                                  name |-> CHOOSE n \in Name : TRUE]]
      empty == [raw |-> world, entries |-> [w \in WindowId |-> NoEntry], ghosts |-> <<>>, ids |-> 0,
                killed |-> {}, renamed |-> <<>>, last |-> [h \in Hook |-> NoCall],
                target |-> NoCall, mounted |-> {"shell", "sidebar"}]
  IN /\ tmux = world
     /\ tab = SetWindows(empty, world)
     /\ left = setup

RowsInit ==
  /\ \E setup \in Setups : Start(setup)
  /\ wire = <<>>
  /\ calls = {}
  /\ stays = {}

User ==
  \/ \E s \in Session :
       \/ KillSessionRow(s)
       \/ OpenDialog(s, 0)
       \/ CreateWindow(s)
       \/ \E new \in Session : RenameSessionRow(s, new)
       \/ \E w \in WindowId : KillRow(s, w)
       \/ \E w \in WindowId : OpenDialog(s, w)
       \/ \E w \in WindowId, n \in Name : RenameRow(s, w, n)
       \/ \E w \in WindowId, dst \in Session : DropOnSession(s, w, dst)
  \/ ConfirmKill
  \/ CancelDialog
  \/ \E owner \in {"shell", "sidebar"} : Unmount(owner)

Daemon ==
  \/ \E c \in calls : Serve(c)
  \/ \E c \in calls : Fail(c)
  \/ Push

Handlers ==
  \/ Sync
  \/ \E c \in calls : Answer(c)
  \/ \E g \in ToSet(tab.ghosts) : Expire(g)

RowsNext == User \/ Elsewhere \/ Daemon \/ Handlers

\* The daemon answers what it is asked and sends what is new, and the tab handles
\* what it gets; timers run out.  Nobody has to click.
RowsFairness == WF_rowVars(Daemon) /\ WF_rowVars(Handlers)

RowsSpec == RowsInit /\ [][RowsNext]_rowVars /\ RowsFairness
-----------------------------------------------------------------------------
(* What a request asks for is what the tab draws until its answer, whatever
   snapshots arrive meanwhile: a row that is to go has gone from the session it was
   in, a renamed one that is drawn has its new name (a session, as long as no other
   session comes to have it).  Of two calls of one hook under way, the answer of the
   first may show the row of the second: only a move waits for the one before it. *)
AskedIsDrawn ==
  \A c \in calls :
    LET a == c.call IN
    left.underWay <= 1 \/ a.hook = "move" =>
      /\ a.hook \in {"kill", "dialog", "move"} /\ a.window # 0
           => a.window \notin DrawnWindows(tab, a.session)
      /\ a.hook \in {"dialog", "killSession"} /\ a.window = 0 => a.session \notin DrawnSessions(tab)
      /\ a.hook = "rename" /\ a.window \in DrawnWindows(tab, a.session)
           => DrawnName(tab, a.window) = a.to
      /\ a.hook = "renameSession" /\ a.session \in DrawnSessions(tab) /\ a.to \notin Sessions(tab.raw)
           => NewName(tab, a.session) = a.to

(* A ghost stands for something: in a tab that is up to date and waits for nothing
   none is left, although no timer has run, also after a request that failed.  A
   window that was made in another session, one that was made and killed between two
   snapshots and a shell that went away leave theirs to the timer; so does one of two
   requests with ghosts in one session, where the other fails after its own was taken
   for the first one's window.  No setup that creates windows has these. *)
GhostStandsForSomething ==
  (calls = {} /\ tmux = tab.raw /\ wire = <<>> /\ left.misroutes = 0 /\ "shell" \in tab.mounted)
    => tab.ghosts = <<>>

Lasting(s) == \E a \in stays : a.hook # "create" /\ a.window = 0 /\ a.session = s

SessionIsTrue(s) == s \in DrawnSessions(tab) /\ NewName(tab, s) = s

RowIsTrue(w) ==
  /\ w \in DrawnWindows(tab, tmux[w].home)
  /\ (\A a \in stays : a.hook # "rename" \/ a.window # w) => DrawnName(tab, w) = tmux[w].name

\* The tab knows the windows there are and draws them, under their names, but for
\* what requests leave for good.
TabIsTrue ==
  /\ tab.raw = tmux
  /\ tab.ghosts = <<>>
  /\ \A s \in Sessions(tmux) : Lasting(s) \/ SessionIsTrue(s)
  /\ \A w \in WindowId :
       \/ ~IsAlive(w) \/ Lasting(tmux[w].home)
       \/ \E a \in stays : a.hook \in KillHooks \cup {"move"} /\ a.window = w
       \/ RowIsTrue(w)

(* When the user and the others have stopped, the tab comes to draw what is there and
   stays with it.  Only these requests leave something for good: the name of a session
   that was killed stays hidden should it come back, and when two calls of a hook
   share its ref, the answer for the other one leaves the mark of its own (a failure, a
   rename) or clears the rows of a session that is alive (the kill of a session).  A
   window that no such call is about has its row and its name, after failures, moves
   and ghosts, with refs that name another row and hooks whose component is gone. *)
RowsSettle == <>[]TabIsTrue

(* docs/memory/run-kit/ui/dialogs-and-state.md says of the four kills of a window that
   a failure restores it: the window of a kill that failed has its row again, or is
   no more. *)
FailureRestores ==
  \A w \in WindowId :
    (\E c \in calls : c.stage = "failed" /\ c.call.window = w /\ c.call.hook \in KillHooks)
      ~> (~IsAlive(w) \/ \E s \in Session : w \in DrawnWindows(tab, s))

=============================================================================
