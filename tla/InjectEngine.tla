---------------------------- MODULE InjectEngine ----------------------------
(***************************************************************************)
(* The injection engine (internal/inject/inject.go): text is pasted into a *)
(* terminal pane through one named tmux buffer, seen to echo, submitted    *)
(* with Enter and seen to leave; an Enter without effect is recovered by   *)
(* clearing the composer and pasting once more.  Sends, raw writes and     *)
(* lone Enters of one engine run concurrently on several panes.            *)
(*                                                                         *)
(* The program in a pane is not trusted: it takes its keys when it likes,  *)
(* ignores any of them, and opens and closes popups.  It does show what it *)
(* did: a capture is its composer, what was submitted to it and its popup. *)
(* A tmux command may fail before or after it had its effect, which stands *)
(* for the deadline of the caller too.  Waits between captures are left    *)
(* out: a program that takes no key in between is one that is slow.        *)
(*                                                                         *)
(* The Slip definitions are plausible mistakes in the definition after     *)
(* them; the runs must notice when one takes its place.                    *)
(***************************************************************************)
EXTENDS Naturals, FiniteSets, SequencesExt

CONSTANTS
  Sender,         \* calls of the engine
  Pane, Text,
  Workloads,      \* what the calls are, and what the panes show before them
  ProbeAttempts,
  SubmitSteps,    \* len(SubmitBackoff)
  RetrySteps,     \* SubmitRetryBackoffSteps
  ClearAttempts,
  SubmitRetries,
  MaxFaults       \* bound: tmux commands that fail

None == "none"

\* A submitted text or a staged one: who wrote it (None: a person), and what.
Item == [by : Sender \cup {None}, text : Text]

Job == [kind : {"send", "insert", "raw", "enter"}, pane : Pane, text : Text]

ASSUME ConstantsOK ==
  /\ {ProbeAttempts, SubmitSteps, RetrySteps, ClearAttempts} \subseteq Nat \ {0}
  /\ RetrySteps <= SubmitSteps
  /\ {SubmitRetries, MaxFaults} \subseteq Nat
  /\ \A w \in Workloads : /\ w.job \in [Sender -> Job]
                          /\ w.draft \in Seq(Text) /\ w.history \in Seq(Text)
                          /\ w.popups \in BOOLEAN /\ w.chips \subseteq Text
  /\ None \notin Sender

VARIABLES
  setup,      \* a member of Workloads
  call,       \* where each call stands
  paneLock,   \* lockFor: the holder of each pane's lock
  setPaste,   \* the holder of setPasteMu
  buffer,     \* the named buffer: the call whose text it holds
  keys,       \* what tmux passed to the program in a pane, not yet taken
  composer,   \* the items staged in a pane
  submitted,  \* what was submitted in a pane: who pressed Enter, on which items
  popup,      \* a popup is open and takes the next Enter
  faults

locks == <<paneLock, setPaste>>
program == <<composer, submitted, popup>>
vars == <<setup, call, locks, buffer, keys, program, faults>>

Blank == [composer |-> <<>>, submitted |-> <<>>, popup |-> FALSE]

\* base: baseline; pre: preFrame; tries: the loop's index; retries: passes of
\* retrySubmit.
Idle == [pc |-> "idle", base |-> Blank, pre |-> Blank, tries |-> 0, retries |-> 0,
         result |-> None]

Author(texts) == [i \in DOMAIN texts |-> [by |-> None, text |-> texts[i]]]

Init ==
  /\ setup \in Workloads
  /\ call = [s \in Sender |-> Idle]
  /\ paneLock = [p \in Pane |-> None]
  /\ setPaste = None
  /\ buffer = None
  /\ keys = [p \in Pane |-> <<>>]
  /\ composer = [p \in Pane |-> Author(setup.draft)]
  /\ submitted = [p \in Pane |-> IF setup.history = <<>> THEN <<>>
                                 ELSE <<[by |-> None, items |-> Author(setup.history)]>>]
  /\ popup = [p \in Pane |-> FALSE]
  /\ faults = 0

-----------------------------------------------------------------------------
(* Frames *)

Texts(items) == [i \in DOMAIN items |-> items[i].text]

\* CapturePane, without the styling that stripForProbe drops.
Frame(p) == [composer |-> Texts(composer[p]),
             submitted |-> [i \in DOMAIN submitted[p] |-> Texts(submitted[p][i].items)],
             popup |-> popup[p]]

Where(s) == setup.job[s].pane

\* The texts that look like the one of the call: long texts and images are shown as
\* placeholders that tell nothing of them.
LookAlikes(s) ==
  {x \in Text : x = setup.job[s].text \/ {x, setup.job[s].text} \subseteq setup.chips}

Rows(frame) == Append(frame.submitted, frame.composer)

Occurrences(frame, texts) ==
  UNION {{<<i, j>> : j \in {j \in DOMAIN Rows(frame)[i] : Rows(frame)[i][j] \in texts}} :
           i \in DOMAIN Rows(frame)}

CountOccurrences(frame, texts) == Cardinality(Occurrences(frame, texts))

\* The probe: the text occurs more often than before the paste.
SlipEchoed(s, frame) == CountOccurrences(frame, LookAlikes(s)) > 0

Echoed(s, frame) ==
  CountOccurrences(frame, LookAlikes(s)) > CountOccurrences(call[s].base, LookAlikes(s))

popupNewlyOpen(frame, floor) == frame.popup /\ ~floor.popup

-----------------------------------------------------------------------------
(* Steps of a call.  Each is one tmux command with what the engine does on *)
(* its answer.                                                             *)

At(s, pc) == call[s].pc = pc

Goto(s, pc) == call' = [call EXCEPT ![s].pc = pc, ![s].tries = 0]

Again(s, pc) == call' = [call EXCEPT ![s].pc = pc, ![s].tries = @ + 1]

SlipUnlocked(s) == paneLock

Unlocked(s) == [paneLock EXCEPT ![Where(s)] = None]

Finish(s, result) ==
  /\ call' = [call EXCEPT ![s] = [Idle EXCEPT !.pc = "done", !.result = result]]
  /\ paneLock' = Unlocked(s)

\* The command succeeds or fails with its effect; or fails without it.
Works == UNCHANGED faults

Fails ==
  /\ faults < MaxFaults
  /\ faults' = faults + 1

SendKey(s, what) ==
  keys' = [keys EXCEPT ![Where(s)] = Append(@, [by |-> s, what |-> what])]

SlipMayEnter(s) == TRUE

MayEnter(s) == paneLock[Where(s)] = None

\* The pane's lock, then ClearPaneMode.
Begin(s) ==
  /\ At(s, "idle")
  /\ MayEnter(s)
  /\ \/ /\ Works
        /\ paneLock' = [paneLock EXCEPT ![Where(s)] = s]
        /\ Goto(s, CASE setup.job[s].kind = "raw" -> "set"
                     [] setup.job[s].kind = "enter" -> "enter"
                     [] OTHER -> "baseline")
     \/ Fails /\ Finish(s, "error")
  /\ UNCHANGED <<setup, setPaste, buffer, keys, program>>

CaptureBaseline(s) ==
  /\ At(s, "baseline")
  /\ \/ /\ Works
        /\ call' = [call EXCEPT ![s].pc = "set", ![s].base = Frame(Where(s))]
        /\ UNCHANGED paneLock
     \/ Fails /\ Finish(s, "error")
  /\ UNCHANGED <<setup, setPaste, buffer, keys, program>>

SlipMaySet == TRUE

MaySet == setPaste = None

\* setAndPaste: the lock of the buffer is held over both commands.
SetBuffer(s) ==
  /\ At(s, "set")
  /\ MaySet
  /\ \/ /\ Works
        /\ setPaste' = s
        /\ buffer' = s
        /\ Goto(s, "paste")
        /\ UNCHANGED paneLock
     \/ /\ Fails
        /\ buffer' \in {buffer, s}
        /\ Finish(s, "error")
        /\ UNCHANGED setPaste
  /\ UNCHANGED <<setup, keys, program>>

\* paste-buffer -d pastes what the buffer holds now, and deletes it.
Pasted(s) ==
  /\ keys' = [keys EXCEPT ![Where(s)] = Append(@, [by |-> buffer, what |-> "paste"])]
  /\ buffer' = None

PasteBuffer(s) ==
  /\ At(s, "paste")
  /\ setPaste' = None
  /\ \/ /\ Works
        /\ Pasted(s)
        /\ IF setup.job[s].kind = "raw" THEN Finish(s, "sent")
           ELSE Goto(s, "probe") /\ UNCHANGED paneLock
     \/ /\ Fails
        /\ Pasted(s) \/ UNCHANGED <<keys, buffer>>
        /\ Finish(s, "error")
  /\ UNCHANGED <<setup, program>>

\* probeEcho, and what Send and retrySubmit make of its answer.
ProbeEcho(s) ==
  /\ At(s, "probe")
  /\ LET frame == Frame(Where(s))
     IN  \/ /\ Works /\ Echoed(s, frame) /\ setup.job[s].kind = "insert"
            /\ Finish(s, "inserted")
         \/ /\ Works /\ Echoed(s, frame) /\ setup.job[s].kind = "send"
            /\ call' = [call EXCEPT
                 ![s].pc = IF popupNewlyOpen(frame, call[s].base) THEN "popup" ELSE "enter",
                 ![s].pre = frame]
            /\ UNCHANGED paneLock
         \/ /\ Works /\ ~Echoed(s, frame) /\ call[s].tries + 1 < ProbeAttempts
            /\ Again(s, "probe")
            /\ UNCHANGED paneLock
         \/ /\ Works /\ ~Echoed(s, frame) /\ call[s].tries + 1 >= ProbeAttempts
            /\ Finish(s, "probe")
         \/ Fails /\ Finish(s, "staged")
  /\ UNCHANGED <<setup, setPaste, buffer, keys, program>>

\* consumePopup: one Enter for the popup the paste opened, and a new frame.
PopupEnter(s) ==
  /\ At(s, "popup")
  /\ \/ Works /\ SendKey(s, "enter") /\ Goto(s, "recapture") /\ UNCHANGED paneLock
     \/ Fails /\ (SendKey(s, "enter") \/ UNCHANGED keys) /\ Finish(s, "staged")
  /\ UNCHANGED <<setup, setPaste, buffer, program>>

PopupCapture(s) ==
  /\ At(s, "recapture")
  /\ \/ /\ Works
        /\ call' = [call EXCEPT ![s].pc = "enter", ![s].pre = Frame(Where(s))]
        /\ UNCHANGED paneLock
     \/ Fails /\ Finish(s, "staged")
  /\ UNCHANGED <<setup, setPaste, buffer, keys, program>>

\* The Enter that submits, and the lone one of PressEnter.
SendEnter(s) ==
  /\ At(s, "enter")
  /\ LET lone == setup.job[s].kind = "enter"
     IN  \/ /\ Works
            /\ SendKey(s, "enter")
            /\ IF lone THEN Finish(s, "sent") ELSE Goto(s, "verify") /\ UNCHANGED paneLock
         \/ /\ Fails
            /\ SendKey(s, "enter") \/ UNCHANGED keys
            /\ Finish(s, IF lone THEN "error" ELSE "staged")
  /\ UNCHANGED <<setup, setPaste, buffer, program>>

Steps(s) == IF call[s].retries = 0 THEN SubmitSteps ELSE RetrySteps

\* verifySubmit: a frame that changed is enough; one that never changed and
\* still shows the text proves that Enter had no effect.
VerifySubmit(s) ==
  /\ At(s, "verify")
  /\ LET frame == Frame(Where(s))
         last == call[s].tries + 1 >= Steps(s)
         retry == Echoed(s, frame) /\ call[s].retries < SubmitRetries
     IN  \/ Works /\ frame # call[s].pre /\ Finish(s, "ok")
         \/ /\ Works /\ frame = call[s].pre /\ ~last
            /\ Again(s, "verify")
            /\ UNCHANGED paneLock
         \/ /\ Works /\ frame = call[s].pre /\ last /\ retry
            /\ Goto(s, "clear")
            /\ UNCHANGED paneLock
         \/ Works /\ frame = call[s].pre /\ last /\ ~retry /\ Finish(s, "unverified")
         \/ Fails /\ Finish(s, "unverified")
  /\ UNCHANGED <<setup, setPaste, buffer, keys, program>>

\* clearToBaseline: C-u, then a frame equal to the one before the paste.
ClearComposer(s) ==
  /\ At(s, "clear")
  /\ \/ /\ Works
        /\ SendKey(s, "C-u")
        /\ call' = [call EXCEPT ![s].pc = "cleared"]
        /\ UNCHANGED paneLock
     \/ Fails /\ (SendKey(s, "C-u") \/ UNCHANGED keys) /\ Finish(s, "unverified")
  /\ UNCHANGED <<setup, setPaste, buffer, program>>

SlipRestored(s) == Frame(Where(s)).composer = <<>>

Restored(s) == Frame(Where(s)) = call[s].base

ClearCapture(s) ==
  /\ At(s, "cleared")
  /\ \/ /\ Works /\ Restored(s)
        /\ call' = [call EXCEPT ![s] =
             [Idle EXCEPT !.pc = "set", !.base = Frame(Where(s)), !.retries = call[s].retries + 1]]
        /\ UNCHANGED paneLock
     \/ /\ Works /\ ~Restored(s) /\ call[s].tries + 1 < ClearAttempts
        /\ Again(s, "clear")
        /\ UNCHANGED paneLock
     \/ /\ Works /\ ~Restored(s) /\ call[s].tries + 1 >= ClearAttempts
        /\ Finish(s, "unverified")
     \/ Fails /\ Finish(s, "unverified")
  /\ UNCHANGED <<setup, setPaste, buffer, keys, program>>

-----------------------------------------------------------------------------
(* The program in a pane *)

Stage(p, item) == composer' = [composer EXCEPT ![p] = Append(@, item)]

\* The program takes its next key, or ignores it.  C-u may leave a part of
\* what is staged.
Takes(p) ==
  /\ keys[p] # <<>>
  /\ keys' = [keys EXCEPT ![p] = Tail(@)]
  /\ LET key == Head(keys[p])
     IN  \/ UNCHANGED program
         \/ /\ key.what = "paste"
            /\ Stage(p, [by |-> key.by, text |-> setup.job[key.by].text])
            /\ popup' \in {popup, [popup EXCEPT ![p] = setup.popups]}
            /\ UNCHANGED submitted
         \/ /\ key.what = "enter" /\ popup[p]
            /\ popup' = [popup EXCEPT ![p] = FALSE]
            /\ UNCHANGED <<composer, submitted>>
         \/ /\ key.what = "enter" /\ ~popup[p] /\ composer[p] # <<>>
            /\ submitted' = [submitted EXCEPT
                 ![p] = Append(@, [by |-> key.by, items |-> composer[p]])]
            /\ composer' = [composer EXCEPT ![p] = <<>>]
            /\ UNCHANGED popup
         \/ /\ key.what = "C-u"
            /\ \E n \in 0 .. Len(composer[p]) - 1 :
                 composer' = [composer EXCEPT ![p] = SubSeq(@, 1, n)]
            /\ UNCHANGED <<submitted, popup>>
  /\ UNCHANGED <<setup, call, locks, buffer, faults>>

PopupCloses(p) ==
  /\ popup[p]
  /\ popup' = [popup EXCEPT ![p] = FALSE]
  /\ UNCHANGED <<setup, call, locks, buffer, keys, composer, submitted, faults>>

\* All calls returned: nothing is left to do.
Rest ==
  /\ \A s \in Sender : At(s, "done")
  /\ UNCHANGED vars

-----------------------------------------------------------------------------
Step(s) ==
  \/ Begin(s) \/ CaptureBaseline(s) \/ SetBuffer(s) \/ PasteBuffer(s)
  \/ ProbeEcho(s) \/ PopupEnter(s) \/ PopupCapture(s) \/ SendEnter(s)
  \/ VerifySubmit(s) \/ ClearComposer(s) \/ ClearCapture(s)

Next ==
  \/ \E s \in Sender : Step(s)
  \/ \E p \in Pane : Takes(p) \/ PopupCloses(p)
  \/ Rest

Spec == Init /\ [][Next]_vars

-----------------------------------------------------------------------------
(* Properties *)

Running(s) == call[s].pc \notin {"idle", "done"}

Kind(s) == setup.job[s].kind

FrameType == [composer : Seq(Text), submitted : Seq(Seq(Text)), popup : BOOLEAN]

CallType ==
  [pc : {"idle", "baseline", "set", "paste", "probe", "popup", "recapture", "enter",
         "verify", "clear", "cleared", "done"},
   base : FrameType, pre : FrameType,
   tries : Nat, retries : 0 .. SubmitRetries,
   result : {None, "error", "sent", "inserted", "probe", "staged", "ok", "unverified"}]

\* The variables have their types, and a lock is held exactly while a call
\* that needs it is at work: no error path keeps one (the defers).
TypeOK ==
  /\ setup \in Workloads
  /\ call \in [Sender -> CallType]
  /\ paneLock \in [Pane -> Sender \cup {None}]
  /\ setPaste \in Sender \cup {None}
  /\ buffer \in Sender \cup {None}
  /\ keys \in [Pane -> Seq([by : Sender, what : {"paste", "enter", "C-u"}])]
  /\ composer \in [Pane -> Seq(Item)]
  /\ submitted \in [Pane -> Seq([by : Sender \cup {None}, items : Seq(Item)])]
  /\ popup \in [Pane -> BOOLEAN]
  /\ faults \in 0 .. MaxFaults
  /\ \A s \in Sender :
       /\ At(s, "done") <=> call[s].result # None
       /\ Running(s) <=> paneLock[Where(s)] = s
       /\ At(s, "paste") <=> setPaste = s

MeantFor(p, items) == \A i \in DOMAIN items : items[i].by # None => Where(items[i].by) = p

\* Whatever reaches a pane, queued, staged or submitted, was meant for it: the
\* shared buffer never delivers a text to the pane of another call.
OwnText ==
  \A p \in Pane :
    /\ MeantFor(p, keys[p])
    /\ MeantFor(p, composer[p])
    /\ \A i \in DOMAIN submitted[p] : MeantFor(p, submitted[p][i].items)

\* Where the text of a call stands in the submissions to its pane.
Submissions(s) ==
  LET done == submitted[Where(s)]
  IN  UNION {{<<i, j>> : j \in {j \in DOMAIN done[i].items : done[i].items[j].by = s}} :
               i \in DOMAIN done}

\* At most two calls are for the pane: of any three, two are the same.  A third may
\* take what the program still does for the first for its own echo, or for its clear,
\* where the texts look the same; the next three properties fail then.
Paired(p) ==
  \A a, b, c \in {s \in Sender : Where(s) = p} : a = b \/ b = c \/ a = c

\* One call submits its text at most once, whatever it retried: an Enter
\* that only came late is never followed by a second copy.
SubmittedOnce == \A s \in Sender : Paired(Where(s)) => Cardinality(Submissions(s)) <= 1

\* A call that reports a plain error or a failed probe has not submitted its
\* text: none of its own Enters did, then or later.
WithheldMeansUnsubmitted ==
  \A s \in Sender :
    Paired(Where(s)) /\ Kind(s) = "send" /\ call[s].result \in {"error", "probe"} =>
      \A x \in Submissions(s) : submitted[Where(s)][x[1]].by # s

\* No Enter of a send is blind: what it submits holds the text it was sent
\* for, or one that looks the same, never only a draft of something else.
NeverBlind ==
  \A p \in Pane : \A i \in DOMAIN submitted[p] :
    LET by == submitted[p][i].by
    IN  Paired(p) /\ by # None /\ Kind(by) = "send" =>
          \E j \in DOMAIN submitted[p][i].items :
            submitted[p][i].items[j].text \in LookAlikes(by)

\* Two calls that are still running never meet in one submission.
Unmerged ==
  [][\A p \in Pane :
       LET new == submitted'[p] IN
       new # submitted[p] =>
         Cardinality({s \in Sender : Running(s) /\ \E j \in DOMAIN Last(new).items :
                                        Last(new).items[j].by = s}) <= 1]_vars

-----------------------------------------------------------------------------
\* What a caller knows of a call, and what the panes show of it.
StateOf(s) ==
  CASE At(s, "idle") -> "waiting" [] At(s, "done") -> call[s].result [] OTHER -> "running"

CopiesOf(s) == IF Paired(Where(s)) THEN Cardinality(Submissions(s)) ELSE 0

PressedItself(s) ==
  /\ Paired(Where(s)) /\ Kind(s) = "send"
  /\ \E x \in Submissions(s) : submitted[Where(s)][x[1]].by = s

Promise == INSTANCE Delivery WITH
  Caller <- Sender,
  pane <- [s \in Sender |-> Where(s)],
  state <- [s \in Sender |-> StateOf(s)],
  copies <- [s \in Sender |-> CopiesOf(s)],
  own <- {s \in Sender : PressedItself(s)}

\* The engine keeps what Delivery promises its callers: with its locks, probes and
\* retries it implements it, in what it counts of the panes of at most two calls.
Delivers == Promise!Spec

=============================================================================
