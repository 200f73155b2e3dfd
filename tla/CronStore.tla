------------------------------ MODULE CronStore ------------------------------
(***************************************************************************)
(* The mutations of an entry file (internal/cron: store.go, edit.go, and   *)
(* the Remove of tick.go).  Every one reads the whole file, changes its    *)
(* copy and writes the whole file back; only Edit and the tick hold the    *)
(* flock meanwhile.  A write replaces the file atomically (fsatomic).      *)
(***************************************************************************)
EXTENDS Naturals, FiniteSets

CONSTANTS
  Id, MaxEntries, Version,
  Process,  \* commands, HTTP handlers and ticks that touch the file
  Mixes     \* bound of the model: the sets of mutations it lets overlap

Kind == {"add", "remove", "mute", "pin", "edit", "expire"}

Nil == "none"

ASSUME StoreConstantsOK ==
  /\ IsFiniteSet(Id)
  /\ MaxEntries \in Nat \ {0} /\ Version # {}
  /\ Nil \notin Process
  /\ Mixes \subseteq SUBSET Kind

VARIABLES
  file,   \* the entry file
  flock,  \* holder of the tick flock
  op,     \* the mutation each process runs
  kinds   \* the mutations of this behaviour

storeVars == <<file, flock, op, kinds>>

Store == INSTANCE EntryStore WITH entries <- file

Nothing == <<>>  \* the file without entries
Idle == [pc |-> "idle", kind |-> Nil, id |-> Nil, arg |-> Nil, copy |-> Nothing]

StoreInit ==
  /\ Store!Init
  /\ flock = Nil
  /\ op = [p \in Process |-> Idle]
  /\ kinds \in Mixes

-----------------------------------------------------------------------------
\* The arguments of each mutation.
Arguments(kind) ==
  CASE kind = "mute" -> Store!Mute
    [] kind = "pin" -> {"pinned", "unpinned"}
    [] kind \in {"add", "edit"} -> Version
    [] OTHER -> {Nil}

\* Slip: Edit takes no flock.
SlipNeedsLock(kind) == kind = "expire"

NeedsLock(kind) == kind \in {"edit", "expire"}

\* A call arrives.  Edit and the tick begin with the flock; a tick then takes
\* its snapshot of the entries.
Begin(p, kind, id, arg) ==
  /\ op[p].pc = "idle"
  /\ NeedsLock(kind) => flock = Nil
  /\ flock' = IF NeedsLock(kind) THEN p ELSE flock
  /\ op' = [op EXCEPT ![p] = [pc |-> IF kind = "expire" THEN "judge" ELSE "load",
                              kind |-> kind, id |-> id, arg |-> arg, copy |-> Nothing]]
  /\ UNCHANGED <<file, kinds>>

\* Slip: a return keeps the flock.
SlipRelease(p) == UNCHANGED flock

Release(p) == flock' = IF flock = p THEN Nil ELSE flock

End(p) == op' = [op EXCEPT ![p] = Idle] /\ Release(p)

\* The orphan pass of a tick looks at the entries it loaded; deliveries may
\* take their time before it calls Remove.
Judge(p) ==
  /\ op[p].pc = "judge"
  /\ IF op[p].id \in DOMAIN file /\ ~file[op[p].id].pinned
     THEN op' = [op EXCEPT ![p].pc = "load"] /\ UNCHANGED flock
     ELSE End(p)
  /\ UNCHANGED <<file, kinds>>

\* Slip: one entry past the cap.
SlipApplies(kind, f, id) ==
  IF kind = "add" THEN id \notin DOMAIN f /\ Cardinality(DOMAIN f) <= MaxEntries
  ELSE id \in DOMAIN f

\* Add refuses past the cap and takes a free id; the others end when the id is
\* unknown.
Applies(kind, f, id) ==
  IF kind = "add" THEN id \notin DOMAIN f /\ Cardinality(DOMAIN f) < MaxEntries
  ELSE id \in DOMAIN f

\* loadForMutate and the lookup of the entry.
Load(p) ==
  /\ op[p].pc = "load"
  /\ IF Applies(op[p].kind, file, op[p].id)
     THEN op' = [op EXCEPT ![p].pc = "save", ![p].copy = file] /\ UNCHANGED flock
     ELSE End(p)
  /\ UNCHANGED <<file, kinds>>

\* What the copy becomes.
Applied(o) ==
  CASE o.kind = "add" -> Store!Added(o.copy, o.id, o.arg)
    [] o.kind \in {"remove", "expire"} -> Store!Removed(o.copy, o.id)
    [] o.kind = "mute" -> Store!Muted(o.copy, o.id, o.arg)
    [] o.kind = "pin" -> Store!Pinned(o.copy, o.id, o.arg = "pinned")
    [] o.kind = "edit" -> Store!Edited(o.copy, o.id, o.arg)

\* saveEntries.
Save(p) ==
  /\ op[p].pc = "save"
  /\ file' = Applied(op[p])
  /\ End(p)
  /\ UNCHANGED kinds

\* The process dies; the kernel frees its flock.
Crash(p) ==
  /\ op[p].pc # "idle"
  /\ End(p)
  /\ UNCHANGED <<file, kinds>>

StoreNext ==
  \E p \in Process :
    \/ \E kind \in kinds, id \in Id :
         \E arg \in Arguments(kind) : Begin(p, kind, id, arg)
    \/ Judge(p) \/ Load(p) \/ Save(p) \/ Crash(p)

StoreSpec == StoreInit /\ [][StoreNext]_storeVars

-----------------------------------------------------------------------------
(* Properties *)

OpType ==
  [pc : {"idle", "judge", "load", "save"}, kind : Kind \cup {Nil}, id : Id \cup {Nil},
   arg : Store!Mute \cup {"pinned", "unpinned", Nil} \cup Version, copy : Store!Files]

StoreTypeOK ==
  /\ file \in Store!Files
  /\ kinds \in Mixes
  /\ flock \in Process \cup {Nil}
  /\ flock # Nil => op[flock].pc # "idle"
  /\ op \in [Process -> OpType]
  /\ \A p \in Process :
       op[p].pc # "idle" =>
         /\ op[p].kind \in kinds /\ op[p].id \in Id
         /\ op[p].arg \in Arguments(op[p].kind)

\* "A mutation must never silently drop existing intent" (store.go): each write
\* is one change of the entries as they are.
OneChangeAtATime == Store!Spec

\* The code keeps this while all that overlap are mutations that take the flock.
LockedChangesAreAtomic ==
  [][kinds \subseteq {"edit", "expire"} => Store!OneChange]_<<file, kinds>>

\* The cap of the file holds, whatever the processes interleave.
CapHolds == Cardinality(DOMAIN file) <= MaxEntries

=============================================================================
