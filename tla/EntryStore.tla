----------------------------- MODULE EntryStore -----------------------------
(***************************************************************************)
(* What the entry file of a cron server promises its users: every change   *)
(* applies to the entries as they are, one after the other, whoever makes  *)
(* it - the command line, the HTTP handlers or a tick.  CronStore is the   *)
(* code.                                                                   *)
(***************************************************************************)
EXTENDS Naturals, FiniteSets, Functions

CONSTANTS
  Id,          \* entry ids
  MaxEntries,  \* MaxEntriesPerServer
  Version      \* what an edit sets: the schedule and the other merged fields

VARIABLE entries

Mute == {"off", "lease", "on"}
Record == [mute : Mute, pinned : BOOLEAN, version : Version]

\* A file holds one record for each of its ids.
Files == UNION {[S -> Record] : S \in SUBSET Id}

\* The changes: each is defined on the files it can be applied to.
Added(f, id, v) ==
  [i \in DOMAIN f \cup {id} |->
     IF i = id THEN [mute |-> "off", pinned |-> FALSE, version |-> v] ELSE f[i]]
Removed(f, id) == Restrict(f, DOMAIN f \ {id})
Muted(f, id, m) == [f EXCEPT ![id].mute = m]
Pinned(f, id, b) == [f EXCEPT ![id].pinned = b]
Edited(f, id, v) == [f EXCEPT ![id].version = v]

Init == entries \in {f \in Files : Cardinality(DOMAIN f) <= MaxEntries}

Add ==
  /\ Cardinality(DOMAIN entries) < MaxEntries
  /\ \E id \in Id \ DOMAIN entries, v \in Version : entries' = Added(entries, id, v)

Change ==
  \E id \in DOMAIN entries :
    \/ entries' = Removed(entries, id)
    \/ \E m \in Mute : entries' = Muted(entries, id, m)
    \/ \E b \in BOOLEAN : entries' = Pinned(entries, id, b)
    \/ \E v \in Version : entries' = Edited(entries, id, v)

OneChange == Add \/ Change

Spec == Init /\ [][OneChange]_entries

=============================================================================
