----------------------------- MODULE MCCronTick -----------------------------
(***************************************************************************)
(* Values for the runs of CronTick: the installations, each chosen so that *)
(* one hazard of the sweep happens.                                        *)
(***************************************************************************)
EXTENDS CronTick, TLC

CONSTANTS e1, e2, p1, p2, d1

Quiet ==
  [invokers |-> {p1}, delivers |-> {p1}, editors |-> {}, entries |-> {e1},
   interval |-> 2, wakes |-> {}, debounce |-> 1, whenIdle |-> {}, skipIfBusy |-> {},
   notify |-> {}, respawn |-> {}, expirable |-> {}, orphanTTL |-> 3, rateCap |-> 9,
   flips |-> {}, maxTime |-> 5, maxCrash |-> 0, maxEdit |-> 0, maxEdge |-> 0]

\* Two invokers, a pane that comes and goes, two deaths.
Restarts ==
  [Quiet EXCEPT !.invokers = {p1, p2}, !.delivers = {p1, p2}, !.skipIfBusy = {e1},
                !.notify = {e1}, !.flips = {"target", "busy"}, !.maxTime = 6,
                !.maxCrash = 2]

\* Two entries aimed at one pane, each due in every tick.
Crowded ==
  [Quiet EXCEPT !.entries = {e1, e2}, !.interval = 1, !.notify = {e1}, !.rateCap = 3,
                !.flips = {"target"}, !.maxCrash = 1]

\* Bursts of state changes of the other agents.
Waking ==
  [Quiet EXCEPT !.invokers = {p1, p2}, !.delivers = {p1, p2}, !.interval = 4,
                !.wakes = {e1}, !.debounce = 2, !.flips = {"others"}, !.maxCrash = 1,
                !.maxEdge = 3]

\* A when-idle entry on a pane that is busy on and off.
Holding ==
  [Quiet EXCEPT !.invokers = {p1, p2}, !.delivers = {p1, p2}, !.whenIdle = {e1},
                !.flips = {"busy", "target"}, !.maxTime = 6, !.maxCrash = 1]

\* Two entries that may expire, one of them with a respawn command.
Orphaning ==
  [Quiet EXCEPT !.entries = {e1, e2}, !.respawn = {e1}, !.expirable = {e1, e2},
                !.orphanTTL = 2, !.flips = {"target"}, !.maxTime = 6, !.maxCrash = 1]

\* Schedules edited between and during the ticks.
Editing == [Quiet EXCEPT !.editors = {d1}, !.maxCrash = 1, !.maxEdit = 2]

\* A tick of the command, which has no Deliverer, next to the daemon's.
Mixed == [Quiet EXCEPT !.invokers = {p1, p2}, !.flips = {"target"}]

Installations == {Restarts, Crowded, Waking, Holding, Orphaning, Editing, Mixed}

\* A when-idle entry that is due by its wake alone.
HeldWake ==
  {[Quiet EXCEPT !.interval = 6, !.wakes = {e1}, !.whenIdle = {e1},
                 !.flips = {"busy", "others"}, !.maxEdge = 1]}

=============================================================================
