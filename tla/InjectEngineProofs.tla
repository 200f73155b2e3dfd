------------------------- MODULE InjectEngineProofs -------------------------
(***************************************************************************)
(* Theorems about InjectEngine, for any number of calls, panes and texts,  *)
(* any bounds of the loops and any number of failing commands: the types,  *)
(* that no text reaches a pane it was not meant for, that the texts of two *)
(* running calls never meet in one submission; and for the panes of at     *)
(* most two calls that a text is submitted at most once, that a reported   *)
(* failure is one, and that no Enter is blind; and that the engine         *)
(* implements Delivery.                                                    *)
(*                                                                         *)
(* The text that paste-buffer delivers is the buffer's, not the caller's:  *)
(* the two agree because the buffer belongs to the holder of setPaste      *)
(* (BufferHeld), and the holder is the call that is about to paste.        *)
(*                                                                         *)
(* The rest is built on Careful, which says what is still queued in the    *)
(* pane of a call at each of its steps, and what it means there that the   *)
(* text is seen more often than in the baseline.  Its parts are stated     *)
(* over values (the queue K, the composer C, the submissions D, the counts *)
(* n and m), so that a step is reasoned about once, as a Turn of a call or *)
(* as a key that is Taken, and not once for each action.                   *)
(***************************************************************************)
EXTENDS InjectEngine, FiniteSetTheorems, TLAPS

Locks ==
  /\ paneLock \in [Pane -> Sender \cup {None}]
  /\ setPaste \in Sender \cup {None}
  /\ \A s \in Sender :
       /\ At(s, "done") <=> call[s].result # None
       /\ Running(s) <=> paneLock[Where(s)] = s
       /\ At(s, "paste") <=> setPaste = s

\* The buffer is not overwritten between set-buffer and paste-buffer.
BufferHeld ==
  /\ buffer \in Sender \cup {None}
  /\ setPaste # None => buffer = setPaste

\* A composer is cleared only for a pass that is left.
PassLeft == \A s \in Sender : call[s].pc \in {"clear", "cleared"} => call[s].retries < SubmitRetries

KeyType == [by : Sender, what : {"paste", "enter", "C-u"}]

Keys == keys \in [Pane -> Seq(KeyType)] /\ \A p \in Pane : MeantFor(p, keys[p])

SubmissionType == [by : Sender \cup {None}, items : Seq(Item)]

Screen ==
  /\ composer \in [Pane -> Seq(Item)]
  /\ submitted \in [Pane -> Seq(SubmissionType)]
  /\ popup \in [Pane -> BOOLEAN]
  /\ \A p \in Pane :
       /\ MeantFor(p, composer[p])
       /\ \A i \in DOMAIN submitted[p] : MeantFor(p, submitted[p][i].items)

Inv ==
  /\ setup \in Workloads /\ faults \in 0 .. MaxFaults
  /\ call \in [Sender -> CallType]
  /\ Locks
  /\ BufferHeld
  /\ PassLeft
  /\ Keys
  /\ Screen

LEMMA InvImplies == Inv => TypeOK /\ OwnText
  BY DEF Inv, Locks, BufferHeld, Keys, Screen, KeyType, SubmissionType, TypeOK, OwnText

-----------------------------------------------------------------------------
(* Values *)

\* What each call is, and that no call is the person.
LEMMA Jobs ==
  ASSUME setup \in Workloads, NEW s \in Sender
  PROVE  /\ Where(s) \in Pane /\ setup.job[s].text \in Text
         /\ setup.job[s].kind \in {"send", "insert", "raw", "enter"}
         /\ setup.popups \in BOOLEAN
         /\ s # None
  BY ConstantsOK DEF Where, Job

\* A capture is a frame.
LEMMA FrameTyped ==
  ASSUME Inv, NEW p \in Pane
  PROVE  Frame(p) \in FrameType
<1>1. \A items \in Seq(Item) : Texts(items) \in Seq(Text)
  <2> SUFFICES ASSUME NEW items \in Seq(Item) PROVE Texts(items) \in Seq(Text)
    OBVIOUS
  <2>1. /\ DOMAIN items = 1 .. Len(items) /\ Len(items) \in Nat
        /\ \A i \in 1 .. Len(items) : items[i] \in Item
    OBVIOUS
  <2>2. Texts(items) \in [1 .. Len(items) -> Text]
    BY <2>1 DEF Texts, Item
  <2>3. QED
    BY <2>1, <2>2
<1>2. composer[p] \in Seq(Item) /\ submitted[p] \in Seq(SubmissionType) /\ popup[p] \in BOOLEAN
  BY DEF Inv, Screen
<1>3. PICK shown : shown = [i \in DOMAIN submitted[p] |-> Texts(submitted[p][i].items)]
  OBVIOUS
<1>4. shown \in Seq(Seq(Text))
  <2>1. /\ DOMAIN submitted[p] = 1 .. Len(submitted[p]) /\ Len(submitted[p]) \in Nat
        /\ \A i \in 1 .. Len(submitted[p]) : submitted[p][i] \in SubmissionType
    BY <1>2
  <2>2. \A x \in SubmissionType : x.items \in Seq(Item)
    BY DEF SubmissionType
  <2>3. shown \in [1 .. Len(submitted[p]) -> Seq(Text)]
    BY <1>1, <1>3, <2>1, <2>2
  <2>4. QED
    BY <2>1, <2>3
<1>5. QED
  BY <1>1, <1>2, <1>3, <1>4 DEF Frame, FrameType

LEMMA BlankTyped == Blank \in FrameType
<1>1. << >> \in Seq(Text) /\ << >> \in Seq(Seq(Text))
  OBVIOUS
<1>2. QED
  BY <1>1 DEF Blank, FrameType

-----------------------------------------------------------------------------
LEMMA InvInit == Init => Inv
<1> SUFFICES ASSUME Init PROVE Inv
  OBVIOUS
<1>1. setup \in Workloads /\ faults \in 0 .. MaxFaults
  BY ConstantsOK DEF Init
<1>2. Idle \in CallType
  BY BlankTyped, ConstantsOK DEF Idle, CallType
<1>3. call \in [Sender -> CallType] /\ \A s \in Sender : call[s] = Idle
  BY <1>2 DEF Init
<1>4. \A s \in Sender : Where(s) \in Pane /\ s # None
  BY <1>1, Jobs
<1>5. Locks
  BY <1>3, <1>4 DEF Init, Locks, Idle, At, Running
<1>6. BufferHeld
  BY DEF Init, BufferHeld
<1>7. PassLeft
  BY <1>3 DEF PassLeft, Idle
<1>8. Keys
  BY DEF Init, Keys, MeantFor
<1>9. \A texts \in Seq(Text) :
        /\ Author(texts) \in Seq(Item)
        /\ \A p \in Pane : MeantFor(p, Author(texts))
  <2> SUFFICES ASSUME NEW texts \in Seq(Text)
               PROVE  /\ Author(texts) \in Seq(Item)
                      /\ \A p \in Pane : MeantFor(p, Author(texts))
    OBVIOUS
  <2>1. /\ DOMAIN texts = 1 .. Len(texts) /\ Len(texts) \in Nat
        /\ \A i \in 1 .. Len(texts) : texts[i] \in Text
    OBVIOUS
  <2>2. Author(texts) \in [1 .. Len(texts) -> Item]
    BY <2>1 DEF Author, Item
  <2>3. \A i \in DOMAIN Author(texts) : Author(texts)[i].by = None
    BY DEF Author
  <2>4. Author(texts) \in Seq(Item)
    BY <2>1, <2>2
  <2>5. QED
    BY <2>3, <2>4 DEF MeantFor
<1>10. setup.draft \in Seq(Text) /\ setup.history \in Seq(Text)
  BY <1>1, ConstantsOK
<1>11. PICK old : old = [by |-> None, items |-> Author(setup.history)]
  OBVIOUS
<1>12. old \in SubmissionType /\ old.items = Author(setup.history)
  BY <1>9, <1>10, <1>11 DEF SubmissionType
<1>13. \A p \in Pane : submitted[p] = << >> \/ submitted[p] = <<old>>
  BY <1>11 DEF Init
<1>14. \A p \in Pane : /\ submitted[p] \in Seq(SubmissionType)
                       /\ \A i \in DOMAIN submitted[p] : MeantFor(p, submitted[p][i].items)
  <2>1. << >> \in Seq(SubmissionType) /\ <<old>> \in Seq(SubmissionType)
    BY <1>12
  <2>2. DOMAIN << >> = {} /\ DOMAIN <<old>> = {1} /\ <<old>>[1] = old
    OBVIOUS
  <2>3. SUFFICES ASSUME NEW p \in Pane
                 PROVE  /\ submitted[p] \in Seq(SubmissionType)
                        /\ \A i \in DOMAIN submitted[p] : MeantFor(p, submitted[p][i].items)
    OBVIOUS
  <2>4. MeantFor(p, old.items)
    BY <1>9, <1>10, <1>12
  <2>5. CASE submitted[p] = << >>
    BY <2>1, <2>2, <2>5
  <2>6. CASE submitted[p] = <<old>>
    BY <2>1, <2>2, <2>4, <2>6
  <2>7. QED
    BY <1>13, <2>5, <2>6
<1>15. submitted \in [Pane -> Seq(SubmissionType)]
  BY <1>14 DEF Init
<1>16. composer \in [Pane -> Seq(Item)] /\ \A p \in Pane : composer[p] = Author(setup.draft)
  BY <1>9, <1>10 DEF Init
<1>17. popup \in [Pane -> BOOLEAN]
  BY DEF Init
<1>18. Screen
  BY <1>9, <1>10, <1>14, <1>15, <1>16, <1>17 DEF Screen
<1>19. QED
  BY <1>1, <1>3, <1>5, <1>6, <1>7, <1>8, <1>18 DEF Inv

-----------------------------------------------------------------------------
(* What a step of a call changes *)

Results == {"error", "sent", "inserted", "probe", "staged", "ok", "unverified"}

Calls == call \in [Sender -> CallType] /\ Locks /\ PassLeft

\* A call moves on, with the lock of its pane, or returns without it.
LEMMA CallMoves ==
  ASSUME Inv, NEW s \in Sender, NEW c \in CallType,
         setup' = setup,
         call' = [call EXCEPT ![s] = c],
         c.pc # "idle",
         c.pc = "done" <=> c.result # None,
         c.pc \in {"clear", "cleared"} => c.retries < SubmitRetries,
         c.pc = "paste" => setPaste \in {None, s},
         paneLock[Where(s)] \in {None, s},
         paneLock' = [paneLock EXCEPT ![Where(s)] = IF c.pc = "done" THEN None ELSE s],
         setPaste' = IF c.pc = "paste" THEN s ELSE IF setPaste = s THEN None ELSE setPaste
  PROVE  Calls'
<1>1. /\ call \in [Sender -> CallType] /\ Locks /\ PassLeft
      /\ setup \in Workloads
  BY DEF Inv
<1>2. \A x \in Sender : Where(x) \in Pane /\ Where(x)' = Where(x) /\ x # None
  BY <1>1, Jobs DEF Where
<1>3. /\ call' \in [Sender -> CallType]
      /\ call'[s] = c
      /\ \A x \in Sender \ {s} : call'[x] = call[x]
  BY <1>1
<1>4. /\ paneLock' \in [Pane -> Sender \cup {None}]
      /\ paneLock'[Where(s)] = (IF c.pc = "done" THEN None ELSE s)
      /\ \A p \in Pane \ {Where(s)} : paneLock'[p] = paneLock[p]
  BY <1>1, <1>2 DEF Locks
<1>5. setPaste' \in Sender \cup {None}
  BY <1>1 DEF Locks
<1>6. PassLeft'
  BY <1>1, <1>3 DEF PassLeft
<1>7. ASSUME NEW x \in Sender
      PROVE  (/\ At(x, "done") <=> call[x].result # None
              /\ Running(x) <=> paneLock[Where(x)] = x
              /\ At(x, "paste") <=> setPaste = x)'
  <2>1. CASE x = s
    BY <1>2, <1>3, <1>4, <2>1 DEF At, Running
  <2>2. CASE x # s
    <3>1. call'[x] = call[x]
      BY <1>3, <2>2
    <3>2. /\ At(x, "done") <=> call[x].result # None
          /\ Running(x) <=> paneLock[Where(x)] = x
          /\ At(x, "paste") <=> setPaste = x
      BY <1>1 DEF Locks
    <3>3. paneLock'[Where(x)] = x <=> paneLock[Where(x)] = x
      BY <1>2, <1>4, <2>2
    <3>4. setPaste' = x <=> setPaste = x
      BY <1>2, <2>2
    <3>5. QED
      BY <1>2, <3>1, <3>2, <3>3, <3>4 DEF At, Running
  <2>3. QED
    BY <2>1, <2>2
<1>8. Locks'
  BY <1>4, <1>5, <1>7 DEF Locks
<1>9. QED
  BY <1>3, <1>6, <1>8 DEF Calls

\* A call that runs goes on.
LEMMA CallGoes ==
  ASSUME Inv, NEW s \in Sender, Running(s), NEW c \in CallType,
         setup' = setup, paneLock' = paneLock,
         call' = [call EXCEPT ![s] = c],
         c.pc \notin {"idle", "done"}, c.result = None,
         c.pc \in {"clear", "cleared"} => c.retries < SubmitRetries,
         c.pc = "paste" => setPaste \in {None, s},
         setPaste' = IF c.pc = "paste" THEN s ELSE IF setPaste = s THEN None ELSE setPaste
  PROVE  Calls'
<1>1. paneLock \in [Pane -> Sender \cup {None}] /\ paneLock[Where(s)] = s /\ Where(s) \in Pane
  BY Jobs DEF Inv, Locks
<1>2. paneLock' = [paneLock EXCEPT ![Where(s)] = IF c.pc = "done" THEN None ELSE s]
  BY <1>1
<1>3. QED
  BY <1>1, <1>2, CallMoves

\* A call returns, and gives its locks back.
LEMMA CallEnds ==
  ASSUME Inv, NEW s \in Sender, NEW result \in Results,
         setup' = setup, paneLock[Where(s)] \in {None, s},
         Finish(s, result),
         setPaste' = IF setPaste = s THEN None ELSE setPaste
  PROVE  Calls'
<1>1. PICK c : c = [Idle EXCEPT !.pc = "done", !.result = result]
  OBVIOUS
<1>2. c \in CallType /\ c.pc = "done" /\ c.result = result /\ result # None
  <2>1. c = [pc |-> "done", base |-> Blank, pre |-> Blank, tries |-> 0, retries |-> 0,
             result |-> result]
    BY <1>1 DEF Idle
  <2>2. 0 \in 0 .. SubmitRetries
    BY ConstantsOK
  <2>3. c \in CallType
    BY <2>1, <2>2, BlankTyped DEF CallType, Results
  <2>4. QED
    BY <2>1, <2>3 DEF Results, None
<1>3. call' = [call EXCEPT ![s] = c]
  BY <1>1 DEF Finish
<1>4. paneLock' = [paneLock EXCEPT ![Where(s)] = IF c.pc = "done" THEN None ELSE s]
  BY <1>2 DEF Finish, Unlocked
<1>5. QED
  BY <1>2, <1>3, <1>4, CallMoves

\* What a call is while it runs.
LEMMA CallFacts ==
  ASSUME Inv, NEW s \in Sender
  PROVE  /\ call[s] \in CallType
         /\ Running(s) => paneLock[Where(s)] = s /\ call[s].result = None
         /\ At(s, "idle") => call[s].result = None
         /\ setPaste = s <=> At(s, "paste")
         /\ s # None
  BY Jobs DEF Inv, Locks, Running, At

\* A key of the call itself joins the queue of its pane.
LEMMA KeySent ==
  ASSUME Inv, setup' = setup, NEW s \in Sender, NEW what \in {"paste", "enter", "C-u"},
         keys' = [keys EXCEPT ![Where(s)] = Append(@, [by |-> s, what |-> what])]
  PROVE  Keys'
<1>1. PICK k : k = [by |-> s, what |-> what]
  OBVIOUS
<1>2. k \in KeyType /\ k.by = s
  BY <1>1 DEF KeyType
<1>3. Where(s) \in Pane /\ keys \in [Pane -> Seq(KeyType)] /\ \A p \in Pane : MeantFor(p, keys[p])
  BY Jobs DEF Inv, Keys
<1>4. PICK q : q = Append(keys[Where(s)], k)
  OBVIOUS
<1>5. /\ q \in Seq(KeyType)
      /\ \A i \in DOMAIN q : q[i] # k =>
           i \in DOMAIN keys[Where(s)] /\ q[i] = keys[Where(s)][i]
  BY <1>2, <1>3, <1>4
<1>6. keys' = [keys EXCEPT ![Where(s)] = q]
  BY <1>1, <1>3, <1>4
<1>7. MeantFor(Where(s), q)
  BY <1>2, <1>3, <1>5 DEF MeantFor
<1>8. \A p \in Pane : MeantFor(p, keys'[p])
  BY <1>3, <1>6, <1>7
<1>9. \A p \in Pane : MeantFor(p, keys[p])'
  BY <1>8 DEF MeantFor, Where
<1>10. QED
  BY <1>3, <1>5, <1>6, <1>9 DEF Keys

LEMMA Unmoved ==
  ASSUME Inv, setup' = setup
  PROVE  /\ keys' = keys => Keys'
         /\ UNCHANGED program => Screen'
  BY DEF Inv, Keys, Screen, program, MeantFor, Where

\* The next step of a call, within a loop or after it.
LEMMA CallSteps ==
  ASSUME Inv, NEW s \in Sender, Running(s),
         NEW pc \in {"baseline", "set", "paste", "probe", "popup", "recapture", "enter",
                     "verify", "clear", "cleared"},
         Goto(s, pc) \/ Again(s, pc),
         setup' = setup, paneLock' = paneLock,
         pc \in {"clear", "cleared"} => call[s].retries < SubmitRetries,
         pc = "paste" => setPaste \in {None, s},
         setPaste' = IF pc = "paste" THEN s ELSE IF setPaste = s THEN None ELSE setPaste
  PROVE  Calls'
<1>1. call \in [Sender -> CallType] /\ call[s] \in CallType /\ call[s].result = None
  BY CallFacts DEF Inv
<1>2. PICK n \in {0, call[s].tries + 1} : call' = [call EXCEPT ![s].pc = pc, ![s].tries = n]
  BY DEF Goto, Again
<1>3. PICK c : c = [call[s] EXCEPT !.pc = pc, !.tries = n]
  OBVIOUS
<1>4. n \in Nat
  BY <1>1 DEF CallType
<1>5. /\ c \in CallType
      /\ c.pc = pc /\ c.result = None /\ c.retries = call[s].retries
  BY <1>1, <1>3, <1>4 DEF CallType
<1>6. call' = [call EXCEPT ![s] = c]
  BY <1>1, <1>2, <1>3
<1>7. QED
  BY <1>5, <1>6, CallGoes

\* A step that leaves the pane and the buffer alone.
LEMMA StepKeeps ==
  ASSUME Inv, setup' = setup, Works \/ Fails, Calls', Keys',
         buffer' = buffer, setPaste' \in {setPaste, None}, UNCHANGED program
  PROVE  Inv'
<1>1. faults' \in 0 .. MaxFaults
  BY ConstantsOK DEF Inv, Works, Fails
<1>2. BufferHeld'
  BY DEF Inv, BufferHeld
<1>3. QED
  BY <1>1, <1>2, Unmoved DEF Inv, Calls

-----------------------------------------------------------------------------
(* The steps of a call *)

LEMMA BeginKeeps == ASSUME NEW s \in Sender PROVE Inv /\ Begin(s) => Inv'
<1> SUFFICES ASSUME Inv, Begin(s) PROVE Inv'
  OBVIOUS
<1>1. /\ setup' = setup /\ setPaste' = setPaste /\ buffer' = buffer /\ keys' = keys
      /\ UNCHANGED program /\ At(s, "idle") /\ paneLock[Where(s)] = None
  BY DEF Begin, MayEnter
<1>2. setPaste # s /\ call[s] \in CallType /\ call[s].result = None /\ call[s].pc = "idle"
  BY <1>1, CallFacts DEF At
<1>3. CASE Works /\ paneLock' = [paneLock EXCEPT ![Where(s)] = s]
           /\ \E pc \in {"set", "enter", "baseline"} : Goto(s, pc)
  <2>1. PICK pc \in {"set", "enter", "baseline"} : Goto(s, pc)
    BY <1>3
  <2>2. PICK c : c = [call[s] EXCEPT !.pc = pc, !.tries = 0]
    OBVIOUS
  <2>3. c \in CallType /\ c.pc = pc /\ c.result = None
    BY <1>2, <2>2 DEF CallType
  <2>4. call' = [call EXCEPT ![s] = c]
    BY <2>1, <2>2 DEF Goto, Inv
  <2>5. paneLock' = [paneLock EXCEPT ![Where(s)] = IF c.pc = "done" THEN None ELSE s]
    BY <1>3, <2>3
  <2>6. Calls'
    BY <1>1, <1>2, <2>3, <2>4, <2>5, CallMoves
  <2>7. QED
    BY <1>1, <1>3, <2>6, Unmoved, StepKeeps
<1>4. CASE Fails /\ Finish(s, "error")
  <2>1. Calls'
    BY <1>1, <1>2, <1>4, CallEnds DEF Results
  <2>2. QED
    BY <1>1, <1>4, <2>1, Unmoved, StepKeeps
<1>5. QED
  BY <1>3, <1>4 DEF Begin

\* The steps at which a call runs without the lock of the buffer.
LEMMA Away ==
  ASSUME Inv, NEW s \in Sender, call[s].pc \notin {"idle", "done", "paste"}
  PROVE  Running(s) /\ setPaste # s /\ paneLock[Where(s)] = s
  BY CallFacts DEF Running, At

LEMMA CaptureBaselineKeeps ==
  ASSUME NEW s \in Sender PROVE Inv /\ CaptureBaseline(s) => Inv'
<1> SUFFICES ASSUME Inv, CaptureBaseline(s) PROVE Inv'
  OBVIOUS
<1>1. /\ setup' = setup /\ setPaste' = setPaste /\ buffer' = buffer /\ keys' = keys
      /\ UNCHANGED program /\ call[s].pc = "baseline"
  BY DEF CaptureBaseline, At
<1>2. Running(s) /\ setPaste # s /\ paneLock[Where(s)] = s
  BY <1>1, Away
<1>3. CASE Works /\ call' = [call EXCEPT ![s].pc = "set", ![s].base = Frame(Where(s))]
           /\ paneLock' = paneLock
  <2>1. call \in [Sender -> CallType] /\ call[s] \in CallType /\ call[s].result = None
    BY <1>2, CallFacts DEF Inv
  <2>2. PICK c : c = [call[s] EXCEPT !.pc = "set", !.base = Frame(Where(s))]
    OBVIOUS
  <2>3. Frame(Where(s)) \in FrameType
    BY FrameTyped, Jobs DEF Inv
  <2>4. c \in CallType /\ c.pc = "set" /\ c.result = None
    BY <2>1, <2>2, <2>3 DEF CallType
  <2>5. call' = [call EXCEPT ![s] = c]
    BY <1>3, <2>1, <2>2
  <2>6. Calls'
    BY <1>1, <1>2, <1>3, <2>4, <2>5, CallGoes
  <2>7. QED
    BY <1>1, <1>3, <2>6, Unmoved, StepKeeps
<1>4. CASE Fails /\ Finish(s, "error")
  <2>1. Calls'
    BY <1>1, <1>2, <1>4, CallEnds DEF Results
  <2>2. QED
    BY <1>1, <1>4, <2>1, Unmoved, StepKeeps
<1>5. QED
  BY <1>3, <1>4 DEF CaptureBaseline

\* A call returns from a step that touches no pane but by its keys.
LEMMA ReturnKeeps ==
  ASSUME Inv, NEW s \in Sender, call[s].pc \notin {"idle", "done", "paste"},
         NEW result \in Results, Finish(s, result), Works \/ Fails,
         setup' = setup, setPaste' = setPaste, buffer' = buffer, UNCHANGED program, Keys'
  PROVE  Inv'
<1>1. setPaste # s /\ paneLock[Where(s)] = s
  BY Away
<1>2. Calls'
  BY <1>1, CallEnds
<1>3. QED
  BY <1>2, StepKeeps

\* A call goes on from such a step to another one.
LEMMA GoesOnKeeps ==
  ASSUME Inv, NEW s \in Sender, call[s].pc \notin {"idle", "done", "paste"},
         NEW pc \in {"baseline", "set", "probe", "popup", "recapture", "enter",
                     "verify", "clear", "cleared"},
         Goto(s, pc) \/ Again(s, pc), Works \/ Fails,
         pc \in {"clear", "cleared"} => call[s].retries < SubmitRetries,
         setup' = setup, paneLock' = paneLock, setPaste' = setPaste, buffer' = buffer,
         UNCHANGED program, Keys'
  PROVE  Inv'
<1>1. Running(s) /\ setPaste # s
  BY Away
<1>2. Calls'
  BY <1>1, CallSteps
<1>3. QED
  BY <1>2, StepKeeps

LEMMA SetBufferKeeps == ASSUME NEW s \in Sender PROVE Inv /\ SetBuffer(s) => Inv'
<1> SUFFICES ASSUME Inv, SetBuffer(s) PROVE Inv'
  OBVIOUS
<1>1. /\ setup' = setup /\ keys' = keys /\ UNCHANGED program /\ call[s].pc = "set"
      /\ setPaste = None
  BY DEF SetBuffer, At, MaySet
<1>2. Running(s) /\ setPaste # s /\ paneLock[Where(s)] = s
  BY <1>1, Away
<1>3. faults' \in 0 .. MaxFaults
  BY ConstantsOK DEF SetBuffer, Inv, Works, Fails
<1>4. Keys' /\ Screen'
  BY <1>1, Unmoved
<1>5. CASE setPaste' = s /\ buffer' = s /\ Goto(s, "paste") /\ paneLock' = paneLock
  <2>1. Calls'
    BY <1>1, <1>2, <1>5, CallSteps
  <2>2. BufferHeld'
    BY <1>5 DEF BufferHeld
  <2>3. QED
    BY <1>1, <1>3, <1>4, <2>1, <2>2 DEF Inv, Calls
<1>6. CASE buffer' \in {buffer, s} /\ Finish(s, "error") /\ setPaste' = setPaste
  <2>1. Calls'
    BY <1>1, <1>2, <1>6, CallEnds DEF Results
  <2>2. BufferHeld'
    BY <1>1, <1>6 DEF Inv, BufferHeld
  <2>3. QED
    BY <1>1, <1>3, <1>4, <2>1, <2>2 DEF Inv, Calls
<1>7. QED
  BY <1>5, <1>6 DEF SetBuffer

LEMMA PasteBufferKeeps == ASSUME NEW s \in Sender PROVE Inv /\ PasteBuffer(s) => Inv'
<1> SUFFICES ASSUME Inv, PasteBuffer(s) PROVE Inv'
  OBVIOUS
<1>1. /\ setup' = setup /\ setPaste' = None /\ UNCHANGED program /\ call[s].pc = "paste"
  BY DEF PasteBuffer, At
<1>2. /\ setPaste = s /\ s # None /\ Running(s) /\ paneLock[Where(s)] = s
      /\ buffer = s
  BY <1>1, CallFacts DEF Inv, BufferHeld, At, Running
<1>3. faults' \in 0 .. MaxFaults
  BY ConstantsOK DEF PasteBuffer, Inv, Works, Fails
<1>4. Pasted(s) \/ UNCHANGED <<keys, buffer>>
  BY DEF PasteBuffer
<1>5. Keys'
  <2>1. CASE Pasted(s)
    BY <1>1, <1>2, <2>1, KeySent DEF Pasted
  <2>2. CASE UNCHANGED <<keys, buffer>>
    BY <1>1, <2>2, Unmoved
  <2>3. QED
    BY <1>4, <2>1, <2>2
<1>6. BufferHeld'
  BY <1>1, <1>4 DEF Pasted, Inv, BufferHeld
<1>7. Screen'
  BY <1>1, Unmoved
<1>8. \/ Goto(s, "probe") /\ paneLock' = paneLock
      \/ \E result \in Results : Finish(s, result)
  BY DEF PasteBuffer, Results
<1>9. Calls'
  <2>1. CASE Goto(s, "probe") /\ paneLock' = paneLock
    BY <1>1, <1>2, <2>1, CallSteps
  <2>2. CASE \E result \in Results : Finish(s, result)
    BY <1>1, <1>2, <2>2, CallEnds
  <2>3. QED
    BY <1>8, <2>1, <2>2
<1>10. QED
  BY <1>1, <1>3, <1>5, <1>6, <1>7, <1>9 DEF Inv, Calls

LEMMA ProbeEchoKeeps == ASSUME NEW s \in Sender PROVE Inv /\ ProbeEcho(s) => Inv'
<1> SUFFICES ASSUME Inv, ProbeEcho(s) PROVE Inv'
  OBVIOUS
<1> DEFINE frame == Frame(Where(s))
           next == IF popupNewlyOpen(frame, call[s].base) THEN "popup" ELSE "enter"
<1>1. /\ setup' = setup /\ setPaste' = setPaste /\ buffer' = buffer /\ keys' = keys
      /\ UNCHANGED program /\ call[s].pc = "probe"
  BY DEF ProbeEcho, At
<1>2. Keys'
  BY <1>1, Unmoved
<1>3. \/ Works /\ Again(s, "probe") /\ paneLock' = paneLock
      \/ /\ Works /\ call' = [call EXCEPT ![s].pc = next, ![s].pre = frame]
         /\ paneLock' = paneLock
      \/ (Works \/ Fails) /\ \E result \in Results : Finish(s, result)
  BY DEF ProbeEcho, Results
<1>4. CASE Works /\ Again(s, "probe") /\ paneLock' = paneLock
  BY <1>1, <1>2, <1>4, GoesOnKeeps
<1>5. CASE /\ Works /\ call' = [call EXCEPT ![s].pc = next, ![s].pre = frame]
           /\ paneLock' = paneLock
  <2>1. call \in [Sender -> CallType] /\ call[s] \in CallType /\ call[s].result = None
    BY <1>1, CallFacts, Away DEF Inv
  <2>2. PICK c : c = [call[s] EXCEPT !.pc = next, !.pre = frame]
    OBVIOUS
  <2>3. frame \in FrameType
    BY FrameTyped, Jobs DEF Inv
  <2>4. next \in {"popup", "enter"}
    OBVIOUS
  <2> HIDE DEF frame, next
  <2>5. c \in CallType /\ c.pc = next /\ c.result = None
    BY <2>1, <2>2, <2>3, <2>4 DEF CallType
  <2>6. call' = [call EXCEPT ![s] = c]
    BY <1>5, <2>1, <2>2
  <2>7. Calls'
    BY <1>1, <1>5, <2>4, <2>5, <2>6, Away, CallGoes
  <2>8. QED
    BY <1>1, <1>2, <1>5, <2>7, StepKeeps
<1>6. CASE (Works \/ Fails) /\ \E result \in Results : Finish(s, result)
  BY <1>1, <1>2, <1>6, ReturnKeeps
<1>7. QED
  BY <1>3, <1>4, <1>5, <1>6

LEMMA PopupEnterKeeps == ASSUME NEW s \in Sender PROVE Inv /\ PopupEnter(s) => Inv'
<1> SUFFICES ASSUME Inv, PopupEnter(s) PROVE Inv'
  OBVIOUS
<1>1. /\ setup' = setup /\ setPaste' = setPaste /\ buffer' = buffer
      /\ UNCHANGED program /\ call[s].pc = "popup"
  BY DEF PopupEnter, At
<1>2. SendKey(s, "enter") \/ UNCHANGED keys
  BY DEF PopupEnter
<1>3. Keys'
  BY <1>1, <1>2, KeySent, Unmoved DEF SendKey
<1>4. \/ (Works \/ Fails) /\ Goto(s, "recapture") /\ paneLock' = paneLock
      \/ (Works \/ Fails) /\ \E result \in Results : Finish(s, result)
  BY DEF PopupEnter, Results
<1>5. QED
  BY <1>1, <1>3, <1>4, GoesOnKeeps, ReturnKeeps

LEMMA PopupCaptureKeeps == ASSUME NEW s \in Sender PROVE Inv /\ PopupCapture(s) => Inv'
<1> SUFFICES ASSUME Inv, PopupCapture(s) PROVE Inv'
  OBVIOUS
<1>1. /\ setup' = setup /\ setPaste' = setPaste /\ buffer' = buffer /\ keys' = keys
      /\ UNCHANGED program /\ call[s].pc = "recapture"
  BY DEF PopupCapture, At
<1>2. Keys'
  BY <1>1, Unmoved
<1>3. CASE Works /\ call' = [call EXCEPT ![s].pc = "enter", ![s].pre = Frame(Where(s))]
           /\ paneLock' = paneLock
  <2>1. call \in [Sender -> CallType] /\ call[s] \in CallType /\ call[s].result = None
    BY <1>1, CallFacts, Away DEF Inv
  <2>2. PICK c : c = [call[s] EXCEPT !.pc = "enter", !.pre = Frame(Where(s))]
    OBVIOUS
  <2>3. Frame(Where(s)) \in FrameType
    BY FrameTyped, Jobs DEF Inv
  <2>4. c \in CallType /\ c.pc = "enter" /\ c.result = None
    BY <2>1, <2>2, <2>3 DEF CallType
  <2>5. call' = [call EXCEPT ![s] = c]
    BY <1>3, <2>1, <2>2
  <2>6. Calls'
    BY <1>1, <1>3, <2>4, <2>5, Away, CallGoes
  <2>7. QED
    BY <1>1, <1>2, <1>3, <2>6, StepKeeps
<1>4. CASE Fails /\ Finish(s, "staged")
  BY <1>1, <1>2, <1>4, ReturnKeeps DEF Results
<1>5. QED
  BY <1>3, <1>4 DEF PopupCapture

LEMMA SendEnterKeeps == ASSUME NEW s \in Sender PROVE Inv /\ SendEnter(s) => Inv'
<1> SUFFICES ASSUME Inv, SendEnter(s) PROVE Inv'
  OBVIOUS
<1>1. /\ setup' = setup /\ setPaste' = setPaste /\ buffer' = buffer
      /\ UNCHANGED program /\ call[s].pc = "enter"
  BY DEF SendEnter, At
<1>2. SendKey(s, "enter") \/ UNCHANGED keys
  BY DEF SendEnter
<1>3. Keys'
  BY <1>1, <1>2, KeySent, Unmoved DEF SendKey
<1>4. \/ (Works \/ Fails) /\ Goto(s, "verify") /\ paneLock' = paneLock
      \/ (Works \/ Fails) /\ \E result \in Results : Finish(s, result)
  BY DEF SendEnter, Results
<1>5. QED
  BY <1>1, <1>3, <1>4, GoesOnKeeps, ReturnKeeps

LEMMA VerifySubmitKeeps == ASSUME NEW s \in Sender PROVE Inv /\ VerifySubmit(s) => Inv'
<1> SUFFICES ASSUME Inv, VerifySubmit(s) PROVE Inv'
  OBVIOUS
<1>1. /\ setup' = setup /\ setPaste' = setPaste /\ buffer' = buffer /\ keys' = keys
      /\ UNCHANGED program /\ call[s].pc = "verify"
  BY DEF VerifySubmit, At
<1>2. Keys'
  BY <1>1, Unmoved
<1>3. \/ Works /\ Again(s, "verify") /\ paneLock' = paneLock
      \/ /\ Works /\ Goto(s, "clear") /\ paneLock' = paneLock
         /\ call[s].retries < SubmitRetries
      \/ (Works \/ Fails) /\ \E result \in Results : Finish(s, result)
  BY DEF VerifySubmit, Results
<1>4. QED
  BY <1>1, <1>2, <1>3, GoesOnKeeps, ReturnKeeps

LEMMA ClearComposerKeeps == ASSUME NEW s \in Sender PROVE Inv /\ ClearComposer(s) => Inv'
<1> SUFFICES ASSUME Inv, ClearComposer(s) PROVE Inv'
  OBVIOUS
<1>1. /\ setup' = setup /\ setPaste' = setPaste /\ buffer' = buffer
      /\ UNCHANGED program /\ call[s].pc = "clear"
  BY DEF ClearComposer, At
<1>2. SendKey(s, "C-u") \/ UNCHANGED keys
  BY DEF ClearComposer
<1>3. Keys'
  BY <1>1, <1>2, KeySent, Unmoved DEF SendKey
<1>4. CASE Works /\ call' = [call EXCEPT ![s].pc = "cleared"] /\ paneLock' = paneLock
  <2>1. /\ call \in [Sender -> CallType] /\ call[s] \in CallType /\ call[s].result = None
        /\ call[s].retries < SubmitRetries
    BY <1>1, CallFacts, Away DEF Inv, PassLeft
  <2>2. PICK c : c = [call[s] EXCEPT !.pc = "cleared"]
    OBVIOUS
  <2>3. c \in CallType /\ c.pc = "cleared" /\ c.result = None /\ c.retries = call[s].retries
    BY <2>1, <2>2 DEF CallType
  <2>4. call' = [call EXCEPT ![s] = c]
    BY <1>4, <2>1, <2>2
  <2>5. Calls'
    BY <1>1, <1>4, <2>1, <2>3, <2>4, Away, CallGoes
  <2>6. QED
    BY <1>1, <1>3, <1>4, <2>5, StepKeeps
<1>5. CASE Fails /\ Finish(s, "unverified")
  BY <1>1, <1>3, <1>5, ReturnKeeps DEF Results
<1>6. QED
  BY <1>4, <1>5 DEF ClearComposer

LEMMA ClearCaptureKeeps == ASSUME NEW s \in Sender PROVE Inv /\ ClearCapture(s) => Inv'
<1> SUFFICES ASSUME Inv, ClearCapture(s) PROVE Inv'
  OBVIOUS
<1>1. /\ setup' = setup /\ setPaste' = setPaste /\ buffer' = buffer /\ keys' = keys
      /\ UNCHANGED program /\ call[s].pc = "cleared"
  BY DEF ClearCapture, At
<1>2. Keys'
  BY <1>1, Unmoved
<1>3. /\ call[s] \in CallType /\ call[s].retries < SubmitRetries
      /\ call[s].retries \in Nat /\ SubmitRetries \in Nat
  BY <1>1, CallFacts, ConstantsOK DEF Inv, PassLeft, CallType
<1>4. CASE /\ Works /\ paneLock' = paneLock
           /\ call' = [call EXCEPT ![s] =
                [Idle EXCEPT !.pc = "set", !.base = Frame(Where(s)),
                             !.retries = call[s].retries + 1]]
  <2>1. PICK c : c = [Idle EXCEPT !.pc = "set", !.base = Frame(Where(s)),
                                  !.retries = call[s].retries + 1]
    OBVIOUS
  <2>2. Frame(Where(s)) \in FrameType /\ Blank \in FrameType
    BY FrameTyped, Jobs, BlankTyped DEF Inv
  <2>3. call[s].retries + 1 \in 0 .. SubmitRetries
    BY <1>3
  <2>4. c = [pc |-> "set", base |-> Frame(Where(s)), pre |-> Blank, tries |-> 0,
             retries |-> call[s].retries + 1, result |-> None]
    BY <2>1 DEF Idle
  <2>5. c \in CallType /\ c.pc = "set" /\ c.result = None
    BY <2>2, <2>3, <2>4 DEF CallType
  <2>6. Calls'
    BY <1>1, <1>4, <2>1, <2>5, Away, CallGoes
  <2>7. QED
    BY <1>1, <1>2, <1>4, <2>6, StepKeeps
<1>5. CASE Works /\ Again(s, "clear") /\ paneLock' = paneLock
  BY <1>1, <1>2, <1>3, <1>5, GoesOnKeeps
<1>6. CASE (Works \/ Fails) /\ Finish(s, "unverified")
  BY <1>1, <1>2, <1>6, ReturnKeeps DEF Results
<1>7. QED
  BY <1>4, <1>5, <1>6 DEF ClearCapture

-----------------------------------------------------------------------------
(* The program in a pane *)

\* The engine does not notice.
LEMMA ProgramKeeps ==
  ASSUME Inv, UNCHANGED <<setup, call, locks, buffer, faults>>, Keys', Screen'
  PROVE  Inv'
  BY DEF Inv, locks, Locks, BufferHeld, PassLeft, At, Running, Where

LEMMA KeyTaken ==
  ASSUME Inv, setup' = setup, NEW p \in Pane, keys[p] # << >>,
         keys' = [keys EXCEPT ![p] = Tail(@)]
  PROVE  /\ Keys'
         /\ Head(keys[p]) \in KeyType /\ Where(Head(keys[p]).by) = p
<1>1. keys \in [Pane -> Seq(KeyType)] /\ \A x \in Pane : MeantFor(x, keys[x])
  BY DEF Inv, Keys
<1>2. PICK q : q = Tail(keys[p])
  OBVIOUS
<1>3. /\ q \in Seq(KeyType) /\ DOMAIN q = 1 .. Len(q) /\ Len(q) \in Nat
      /\ \A i \in DOMAIN q : i + 1 \in DOMAIN keys[p] /\ q[i] = keys[p][i + 1]
      /\ 1 \in DOMAIN keys[p] /\ Head(keys[p]) = keys[p][1] /\ keys[p][1] \in KeyType
  BY <1>1, <1>2
<1>4. keys' = [keys EXCEPT ![p] = q]
  BY <1>1, <1>2
<1>5. \A x \in Pane : MeantFor(x, keys'[x])
  <2>1. MeantFor(p, q)
    BY <1>1, <1>3 DEF MeantFor
  <2>2. QED
    BY <1>1, <1>4, <2>1
<1>6. \A x \in Pane : MeantFor(x, keys[x])'
  BY <1>5 DEF MeantFor, Where
<1>7. keys[p][1].by # None
  BY <1>3, ConstantsOK DEF KeyType
<1>8. QED
  BY <1>1, <1>3, <1>4, <1>6, <1>7 DEF Keys, MeantFor

\* What a composer may become.
LEMMA ComposerKeeps ==
  ASSUME Inv, setup' = setup, NEW p \in Pane, NEW items \in Seq(Item), MeantFor(p, items),
         composer' = [composer EXCEPT ![p] = items],
         submitted' = submitted, popup' \in [Pane -> BOOLEAN]
  PROVE  Screen'
<1>1. /\ composer \in [Pane -> Seq(Item)] /\ submitted \in [Pane -> Seq(SubmissionType)]
      /\ \A x \in Pane :
           /\ MeantFor(x, composer[x])
           /\ \A i \in DOMAIN submitted[x] : MeantFor(x, submitted[x][i].items)
  BY DEF Inv, Screen
<1>2. \A x \in Pane : MeantFor(x, composer'[x])
  BY <1>1
<1>3. \A x \in Pane :
        /\ MeantFor(x, composer[x])'
        /\ \A i \in DOMAIN submitted'[x] : MeantFor(x, submitted[x][i].items)'
  BY <1>1, <1>2 DEF MeantFor, Where
<1>4. QED
  BY <1>1, <1>3 DEF Screen

LEMMA TakesKeeps == ASSUME NEW p \in Pane PROVE Inv /\ Takes(p) => Inv'
<1> SUFFICES ASSUME Inv, Takes(p) PROVE Inv'
  OBVIOUS
<1>1. /\ UNCHANGED <<setup, call, locks, buffer, faults>> /\ setup' = setup
      /\ keys[p] # << >> /\ keys' = [keys EXCEPT ![p] = Tail(@)]
  BY DEF Takes
<1>2. PICK key : key = Head(keys[p])
  OBVIOUS
<1>3. Keys' /\ key \in KeyType /\ Where(key.by) = p
  BY <1>1, <1>2, KeyTaken
<1>4. /\ composer \in [Pane -> Seq(Item)] /\ submitted \in [Pane -> Seq(SubmissionType)]
      /\ popup \in [Pane -> BOOLEAN] /\ setup \in Workloads
      /\ \A x \in Pane :
           /\ MeantFor(x, composer[x])
           /\ \A i \in DOMAIN submitted[x] : MeantFor(x, submitted[x][i].items)
  BY DEF Inv, Screen
<1>5. CASE UNCHANGED program
  BY <1>1, <1>3, <1>5, Unmoved, ProgramKeeps
<1>6. CASE /\ Stage(p, [by |-> key.by, text |-> setup.job[key.by].text])
           /\ popup' \in {popup, [popup EXCEPT ![p] = setup.popups]}
           /\ UNCHANGED submitted
  <2>1. PICK item : item = [by |-> key.by, text |-> setup.job[key.by].text]
    OBVIOUS
  <2>2. item \in Item /\ Where(item.by) = p
    BY <1>3, <1>4, <2>1, Jobs DEF Item, KeyType
  <2>3. PICK items : items = Append(composer[p], item)
    OBVIOUS
  <2>4. /\ items \in Seq(Item)
        /\ \A i \in DOMAIN items : items[i] # item =>
             i \in DOMAIN composer[p] /\ items[i] = composer[p][i]
    BY <1>4, <2>2, <2>3
  <2>5. MeantFor(p, items)
    BY <1>4, <2>2, <2>4 DEF MeantFor
  <2>6. composer' = [composer EXCEPT ![p] = items]
    BY <1>4, <1>6, <2>1, <2>3 DEF Stage
  <2>7. setup.popups \in BOOLEAN
    BY <1>4, ConstantsOK
  <2>8. popup' \in [Pane -> BOOLEAN]
    BY <1>4, <1>6, <2>7
  <2>9. Screen'
    BY <1>1, <1>6, <2>4, <2>5, <2>6, <2>8, ComposerKeeps
  <2>10. QED
    BY <1>1, <1>3, <2>9, ProgramKeeps
<1>7. CASE /\ popup' = [popup EXCEPT ![p] = FALSE]
           /\ UNCHANGED <<composer, submitted>>
  <2>1. popup' \in [Pane -> BOOLEAN]
    BY <1>4, <1>7
  <2>2. composer' = [composer EXCEPT ![p] = composer[p]]
    BY <1>4, <1>7
  <2>3. Screen'
    BY <1>1, <1>4, <1>7, <2>1, <2>2, ComposerKeeps
  <2>4. QED
    BY <1>1, <1>3, <2>3, ProgramKeeps
<1>8. CASE /\ submitted' = [submitted EXCEPT
                ![p] = Append(@, [by |-> key.by, items |-> composer[p]])]
           /\ composer' = [composer EXCEPT ![p] = <<>>]
           /\ UNCHANGED popup
  <2>1. PICK new : new = [by |-> key.by, items |-> composer[p]]
    OBVIOUS
  <2>2. new \in SubmissionType /\ MeantFor(p, new.items)
    BY <1>3, <1>4, <2>1 DEF SubmissionType, KeyType
  <2>3. PICK done : done = Append(submitted[p], new)
    OBVIOUS
  <2>4. /\ done \in Seq(SubmissionType)
        /\ \A i \in DOMAIN done : done[i] # new =>
             i \in DOMAIN submitted[p] /\ done[i] = submitted[p][i]
    BY <1>4, <2>2, <2>3
  <2>5. \A i \in DOMAIN done : MeantFor(p, done[i].items)
    BY <1>4, <2>2, <2>4
  <2>6. submitted' = [submitted EXCEPT ![p] = done]
    BY <1>4, <1>8, <2>1, <2>3
  <2>7. /\ submitted' \in [Pane -> Seq(SubmissionType)]
        /\ \A x \in Pane : \A i \in DOMAIN submitted'[x] : MeantFor(x, submitted'[x][i].items)
    BY <1>4, <2>4, <2>5, <2>6
  <2>8. << >> \in Seq(Item) /\ MeantFor(p, << >>)
    BY DEF MeantFor
  <2>9. /\ composer' \in [Pane -> Seq(Item)]
        /\ \A x \in Pane : MeantFor(x, composer'[x])
    BY <1>4, <1>8, <2>8
  <2>10. \A x \in Pane :
           /\ MeantFor(x, composer[x])'
           /\ \A i \in DOMAIN submitted'[x] : MeantFor(x, submitted[x][i].items)'
    BY <1>1, <2>7, <2>9 DEF MeantFor, Where
  <2>11. Screen'
    BY <1>4, <1>8, <2>7, <2>9, <2>10 DEF Screen
  <2>12. QED
    BY <1>1, <1>3, <2>11, ProgramKeeps
<1>9. CASE /\ \E n \in 0 .. Len(composer[p]) - 1 :
                composer' = [composer EXCEPT ![p] = SubSeq(@, 1, n)]
           /\ UNCHANGED <<submitted, popup>>
  <2>1. PICK n \in 0 .. Len(composer[p]) - 1 :
          composer' = [composer EXCEPT ![p] = SubSeq(@, 1, n)]
    BY <1>9
  <2>2. PICK items : items = SubSeq(composer[p], 1, n)
    OBVIOUS
  <2>3. composer[p] \in Seq(Item) /\ Len(composer[p]) \in Nat /\ n \in Nat /\ n <= Len(composer[p])
    BY <1>4, <2>1
  <2>4. /\ items \in Seq(Item)
        /\ \A i \in DOMAIN items : i \in DOMAIN composer[p] /\ items[i] = composer[p][i]
    BY <2>2, <2>3
  <2>5. MeantFor(p, items)
    BY <1>4, <2>4 DEF MeantFor
  <2>6. composer' = [composer EXCEPT ![p] = items]
    BY <1>4, <2>1, <2>2
  <2>7. Screen'
    BY <1>1, <1>4, <1>9, <2>4, <2>5, <2>6, ComposerKeeps
  <2>8. QED
    BY <1>1, <1>3, <2>7, ProgramKeeps
<1>10. QED
  BY <1>2, <1>5, <1>6, <1>7, <1>8, <1>9 DEF Takes

LEMMA PopupClosesKeeps == ASSUME NEW p \in Pane PROVE Inv /\ PopupCloses(p) => Inv'
<1> SUFFICES ASSUME Inv, PopupCloses(p) PROVE Inv'
  OBVIOUS
<1>1. /\ UNCHANGED <<setup, call, locks, buffer, faults>> /\ setup' = setup
      /\ keys' = keys /\ composer' = composer /\ submitted' = submitted
      /\ popup' = [popup EXCEPT ![p] = FALSE]
  BY DEF PopupCloses, locks
<1>2. /\ popup' \in [Pane -> BOOLEAN] /\ composer' = [composer EXCEPT ![p] = composer[p]]
      /\ composer[p] \in Seq(Item) /\ MeantFor(p, composer[p])
  BY <1>1 DEF Inv, Screen
<1>3. Screen'
  BY <1>1, <1>2, ComposerKeeps
<1>4. QED
  BY <1>1, <1>3, Unmoved, ProgramKeeps

-----------------------------------------------------------------------------
LEMMA InvStep == Inv /\ [Next]_vars => Inv'
<1> SUFFICES ASSUME Inv, [Next]_vars PROVE Inv'
  OBVIOUS
<1>1. CASE \E s \in Sender : Step(s)
  <2>1. PICK s \in Sender : Step(s)
    BY <1>1
  <2>2. QED
    BY <2>1, BeginKeeps, CaptureBaselineKeeps, SetBufferKeeps, PasteBufferKeeps,
       ProbeEchoKeeps, PopupEnterKeeps, PopupCaptureKeeps, SendEnterKeeps,
       VerifySubmitKeeps, ClearComposerKeeps, ClearCaptureKeeps DEF Step
<1>2. CASE \E p \in Pane : Takes(p) \/ PopupCloses(p)
  BY <1>2, TakesKeeps, PopupClosesKeeps
<1>3. CASE Rest \/ UNCHANGED vars
  <2>1. UNCHANGED <<setup, call, locks, buffer, faults>> /\ setup' = setup /\ keys' = keys
        /\ UNCHANGED program
    BY <1>3 DEF Rest, vars
  <2>2. QED
    BY <2>1, Unmoved, ProgramKeeps
<1>4. QED
  BY <1>1, <1>2, <1>3 DEF Next

LEMMA InvHolds == Spec => []Inv
  BY InvInit, InvStep, PTL DEF Spec

\* The types, and the locks: each is held exactly while its call is at work,
\* whatever fails (the defers of Send, SendRaw, PressEnter and setAndPaste).
THEOREM TypeCorrect == Spec => []TypeOK
<1>1. Inv => TypeOK
  BY InvImplies
<1>2. QED
  BY <1>1, InvHolds, PTL

\* No text reaches a pane it was not meant for, however many calls share the
\* named buffer (setPasteMu of the Engine).
THEOREM TextStaysHome == Spec => []OwnText
<1>1. Inv => OwnText
  BY InvImplies
<1>2. QED
  BY <1>1, InvHolds, PTL

\* What a running call has staged or submitted stands in no submission next to the text
\* of another running call: the lock of the pane is held until a call returns.
THEOREM UnmergedAlways == Spec => Unmerged
<1> DEFINE Both(p) == {s \in Sender : Running(s) /\ \E j \in DOMAIN Last(submitted'[p]).items :
                                         Last(submitted'[p]).items[j].by = s}
           Apart == \A p \in Pane : submitted'[p] # submitted[p] => Cardinality(Both(p)) <= 1
<1>1. ASSUME Inv, [Next]_vars PROVE Apart
  <2> SUFFICES ASSUME NEW p \in Pane, submitted'[p] # submitted[p] PROVE Cardinality(Both(p)) <= 1
    OBVIOUS
  <2>1. /\ submitted \in [Pane -> Seq(SubmissionType)] /\ composer[p] \in Seq(Item)
        /\ MeantFor(p, composer[p])
    BY <1>1 DEF Inv, Screen
  <2>2. PICK q \in Pane : Takes(q) /\ submitted' # submitted
    <3>1. submitted' # submitted
      OBVIOUS
    <3>2. ASSUME NEW s \in Sender, Step(s) PROVE submitted' = submitted
      BY <3>2 DEF Step, Begin, CaptureBaseline, SetBuffer, PasteBuffer, ProbeEcho, PopupEnter, PopupCapture,
                  SendEnter, VerifySubmit, ClearComposer, ClearCapture, program
    <3>3. ASSUME NEW x \in Pane, PopupCloses(x) PROVE submitted' = submitted
      BY <3>3 DEF PopupCloses
    <3>4. ASSUME Rest \/ UNCHANGED vars PROVE submitted' = submitted
      BY <3>4 DEF Rest, vars, program
    <3>5. QED
      BY <1>1, <3>1, <3>2, <3>3, <3>4 DEF Next
  <2>3. PICK by \in Sender : submitted' = [submitted EXCEPT
                               ![q] = Append(@, [by |-> by, items |-> composer[q]])]
    <3>1. Head(keys[q]) \in KeyType
      BY <1>1, <2>2, KeyTaken DEF Takes
    <3>2. Head(keys[q]).by \in Sender
      BY <3>1 DEF KeyType
    <3>3. QED
      BY <2>2, <3>2 DEF Takes, program
  <2>4. q = p
    BY <2>1, <2>3
  <2>5. PICK new : new = [by |-> by, items |-> composer[p]]
    OBVIOUS
  <2>6. new \in SubmissionType /\ new.items = composer[p]
    BY <2>1, <2>5 DEF SubmissionType
  <2>7. submitted'[p] = Append(submitted[p], new)
    BY <2>1, <2>3, <2>4, <2>5
  <2>8. Last(submitted'[p]) = new
    BY <2>1, <2>6, <2>7 DEF Last
  <2>9. \A s, t \in Both(p) : s = t
    <3> SUFFICES ASSUME NEW s \in Both(p), NEW t \in Both(p) PROVE s = t
      OBVIOUS
    <3>1. Where(s) = p /\ Where(t) = p /\ Running(s) /\ Running(t)
      BY <1>1, <2>1, <2>6, <2>8, Jobs DEF MeantFor, Inv
    <3>2. QED
      BY <1>1, <3>1, CallFacts
  <2> HIDE DEF Both
  <2>10. CASE Both(p) = {}
    BY <2>10, FS_EmptySet
  <2>11. CASE Both(p) # {}
    <3>1. PICK s : Both(p) = {s}
      BY <2>9, <2>11
    <3>2. QED
      BY <3>1, FS_Singleton
  <2>12. QED
    BY <2>10, <2>11
<1>2. Apart => \A p \in Pane : LET new == submitted'[p] IN
                 new # submitted[p] =>
                   Cardinality({s \in Sender : Running(s) /\ \E j \in DOMAIN Last(new).items :
                                                  Last(new).items[j].by = s}) <= 1
  OBVIOUS
<1>3. QED
  BY <1>1, <1>2, InvHolds, PTL DEF Spec, Unmerged

-----------------------------------------------------------------------------
(* What the screen counts *)

LEMMA RowsTyped ==
  ASSUME NEW f \in FrameType
  PROVE  /\ Rows(f) \in Seq(Seq(Text)) /\ Len(Rows(f)) = Len(f.submitted) + 1
         /\ Len(f.submitted) \in Nat
         /\ DOMAIN Rows(f) = 1 .. Len(f.submitted) + 1
         /\ \A i \in 1 .. Len(f.submitted) : Rows(f)[i] = f.submitted[i]
         /\ Rows(f)[Len(f.submitted) + 1] = f.composer
  BY DEF FrameType, Rows

LEMMA OccurrencesIn ==
  ASSUME NEW f \in FrameType, NEW T, NEW x
  PROVE  x \in Occurrences(f, T) <=>
           \E i \in DOMAIN Rows(f) : \E j \in DOMAIN Rows(f)[i] : x = <<i, j>> /\ Rows(f)[i][j] \in T
<1> DEFINE Row(i) == {<<i, j>> : j \in {j \in DOMAIN Rows(f)[i] : Rows(f)[i][j] \in T}}
<1>1. Occurrences(f, T) = UNION {Row(i) : i \in DOMAIN Rows(f)}
  BY DEF Occurrences
<1>2. \A i \in DOMAIN Rows(f) : x \in Row(i) <=> \E j \in DOMAIN Rows(f)[i] : x = <<i, j>> /\ Rows(f)[i][j] \in T
  OBVIOUS
<1> HIDE DEF Row
<1>3. x \in UNION {Row(i) : i \in DOMAIN Rows(f)} <=> \E i \in DOMAIN Rows(f) : x \in Row(i)
  OBVIOUS
<1>4. QED
  BY <1>1, <1>2, <1>3

LEMMA OccurrencesFinite ==
  ASSUME NEW f \in FrameType, NEW T
  PROVE  IsFiniteSet(Occurrences(f, T)) /\ CountOccurrences(f, T) \in Nat
<1> DEFINE n == Len(Rows(f))
           Row(i) == {<<i, j>> : j \in {j \in DOMAIN Rows(f)[i] : Rows(f)[i][j] \in T}}
           Block == {Row(i) : i \in 1 .. n}
           row == [i \in 1 .. n |-> Row(i)]
<1>1. /\ Rows(f) \in Seq(Seq(Text)) /\ n \in Nat /\ DOMAIN Rows(f) = 1 .. n
  BY RowsTyped
<1>2. Occurrences(f, T) = UNION Block
  BY <1>1 DEF Occurrences
<1>3. ASSUME NEW i \in 1 .. n PROVE IsFiniteSet(Row(i))
  <2>1. PICK m \in Nat : m = Len(Rows(f)[i]) /\ DOMAIN Rows(f)[i] = 1 .. m
    BY <1>1
  <2>2. Row(i) \in SUBSET ((1 .. n) \X (1 .. m))
    BY <2>1
  <2>3. IsFiniteSet(1 .. n) /\ IsFiniteSet(1 .. m)
    BY <1>1, FS_Interval
  <2>4. IsFiniteSet((1 .. n) \X (1 .. m))
    BY <2>3, FS_Product
  <2>5. QED
    BY <2>2, <2>4, FS_Subset
<1>4. IsFiniteSet(1 .. n)
  BY <1>1, FS_Interval
<1> HIDE DEF Row, n
<1>5. row \in Surjection(1 .. n, Block)
  BY DEF Surjection
<1>6. IsFiniteSet(Block)
  BY <1>4, <1>5, FS_Surjection
<1>7. \A B \in Block : IsFiniteSet(B)
  BY <1>3
<1>8. IsFiniteSet(UNION Block)
  BY <1>6, <1>7, FS_UNION
<1>9. IsFiniteSet(Occurrences(f, T))
  BY <1>2, <1>8
<1>10. QED
  BY <1>9, FS_CardinalityType DEF CountOccurrences

\* One text more in the composer is one occurrence more, if it is one.
LEMMA CountStaged ==
  ASSUME NEW f \in FrameType, NEW g \in FrameType, NEW T, NEW x \in Text,
         g.submitted = f.submitted, g.composer = Append(f.composer, x)
  PROVE  CountOccurrences(g, T) = CountOccurrences(f, T) + (IF x \in T THEN 1 ELSE 0)
<1>1. PICK n \in Nat : n = Len(f.submitted)
  BY RowsTyped
<1>2. PICK m \in Nat : m = Len(f.composer)
  BY DEF FrameType
<1>3. /\ DOMAIN Rows(f) = 1 .. n + 1 /\ DOMAIN Rows(g) = 1 .. n + 1
      /\ \A i \in 1 .. n : Rows(g)[i] = Rows(f)[i]
      /\ Rows(f)[n + 1] = f.composer /\ Rows(g)[n + 1] = g.composer
  BY <1>1, RowsTyped
<1>4. /\ DOMAIN f.composer = 1 .. m /\ DOMAIN g.composer = 1 .. m + 1
      /\ \A j \in 1 .. m : g.composer[j] = f.composer[j]
      /\ g.composer[m + 1] = x
  BY <1>2 DEF FrameType
<1>5. Occurrences(g, T) = IF x \in T THEN Occurrences(f, T) \cup {<<n + 1, m + 1>>}
                                     ELSE Occurrences(f, T)
  <2>1. ASSUME NEW i \in 1 .. n + 1, NEW j \in DOMAIN Rows(g)[i], Rows(g)[i][j] \in T
        PROVE  \/ j \in DOMAIN Rows(f)[i] /\ Rows(f)[i][j] \in T
               \/ i = n + 1 /\ j = m + 1 /\ x \in T
    BY <1>3, <1>4, <2>1
  <2>2. ASSUME NEW i \in 1 .. n + 1, NEW j \in DOMAIN Rows(f)[i], Rows(f)[i][j] \in T
        PROVE  j \in DOMAIN Rows(g)[i] /\ Rows(g)[i][j] \in T
    BY <1>3, <1>4, <2>2
  <2>3. x \in T => m + 1 \in DOMAIN Rows(g)[n + 1] /\ Rows(g)[n + 1][m + 1] \in T
    BY <1>3, <1>4
  <2>4. \A z : z \in Occurrences(g, T) <=>
                 z \in (IF x \in T THEN Occurrences(f, T) \cup {<<n + 1, m + 1>>}
                                   ELSE Occurrences(f, T))
    <3> TAKE z
    <3>1. z \in Occurrences(g, T) <=>
            \E i \in 1 .. n + 1 : \E j \in DOMAIN Rows(g)[i] : z = <<i, j>> /\ Rows(g)[i][j] \in T
      BY <1>3, OccurrencesIn
    <3>2. z \in Occurrences(f, T) <=>
            \E i \in 1 .. n + 1 : \E j \in DOMAIN Rows(f)[i] : z = <<i, j>> /\ Rows(f)[i][j] \in T
      BY <1>3, OccurrencesIn
    <3>3. n + 1 \in 1 .. n + 1
      OBVIOUS
    <3>4. QED
      BY <2>1, <2>2, <2>3, <3>1, <3>2, <3>3
  <2>5. QED
    BY <2>4
<1>6. <<n + 1, m + 1>> \notin Occurrences(f, T)
  <2> SUFFICES ASSUME <<n + 1, m + 1>> \in Occurrences(f, T) PROVE FALSE
    OBVIOUS
  <2>1. PICK i \in 1 .. n + 1 : \E j \in DOMAIN Rows(f)[i] : <<n + 1, m + 1>> = <<i, j>>
    BY <1>3, OccurrencesIn
  <2>2. m + 1 \in DOMAIN Rows(f)[n + 1]
    BY <2>1
  <2>3. QED
    BY <1>3, <1>4, <2>2
<1>7. IsFiniteSet(Occurrences(f, T)) /\ CountOccurrences(f, T) \in Nat
  BY OccurrencesFinite
<1>8. Cardinality(Occurrences(f, T) \cup {<<n + 1, m + 1>>}) = Cardinality(Occurrences(f, T)) + 1
  BY <1>6, <1>7, FS_AddElement
<1>9. CASE x \in T
  BY <1>5, <1>8, <1>9 DEF CountOccurrences
<1>10. CASE x \notin T
  BY <1>5, <1>7, <1>10 DEF CountOccurrences
<1>11. QED
  BY <1>9, <1>10

\* A submission moves the composer into the history.
LEMMA CountSubmitted ==
  ASSUME NEW f \in FrameType, NEW g \in FrameType, NEW T,
         g.submitted = Append(f.submitted, f.composer), g.composer = << >>
  PROVE  CountOccurrences(g, T) = CountOccurrences(f, T)
<1>1. PICK n \in Nat : n = Len(f.submitted)
  BY RowsTyped
<1>2. Len(g.submitted) = n + 1 /\ (n + 1) + 1 = n + 2
  BY <1>1 DEF FrameType
<1>3. /\ DOMAIN Rows(f) = 1 .. n + 1 /\ DOMAIN Rows(g) = 1 .. n + 2
      /\ \A i \in 1 .. n + 1 : Rows(g)[i] = g.submitted[i]
      /\ \A i \in 1 .. n : Rows(f)[i] = f.submitted[i]
      /\ Rows(f)[n + 1] = f.composer /\ Rows(g)[n + 2] = << >>
  BY <1>1, <1>2, RowsTyped
<1>4. \A i \in 1 .. n + 1 : Rows(g)[i] = Rows(f)[i]
  <2>1. \A i \in 1 .. n : g.submitted[i] = f.submitted[i]
    BY <1>1 DEF FrameType
  <2>2. g.submitted[n + 1] = f.composer
    BY <1>1 DEF FrameType
  <2>3. \A i \in 1 .. n + 1 : i \in 1 .. n \/ i = n + 1
    OBVIOUS
  <2>4. QED
    BY <1>3, <2>1, <2>2, <2>3
<1>5. \A z : z \in Occurrences(g, T) <=> z \in Occurrences(f, T)
  <2> TAKE z
  <2>1. z \in Occurrences(g, T) <=>
          \E i \in 1 .. n + 2 : \E j \in DOMAIN Rows(g)[i] : z = <<i, j>> /\ Rows(g)[i][j] \in T
    BY <1>3, OccurrencesIn
  <2>2. z \in Occurrences(f, T) <=>
          \E i \in 1 .. n + 1 : \E j \in DOMAIN Rows(f)[i] : z = <<i, j>> /\ Rows(f)[i][j] \in T
    BY <1>3, OccurrencesIn
  <2>3. DOMAIN Rows(g)[n + 2] = {}
    BY <1>3
  <2>4. \A i : i \in 1 .. n + 2 <=> i \in 1 .. n + 1 \/ i = n + 2
    OBVIOUS
  <2>5. QED
    BY <1>4, <2>1, <2>2, <2>3, <2>4
<1>6. Occurrences(g, T) = Occurrences(f, T)
  BY <1>5
<1>7. QED
  BY <1>6 DEF CountOccurrences

\* A cut takes occurrences away, if any.
LEMMA CountCut ==
  ASSUME NEW f \in FrameType, NEW g \in FrameType, NEW T,
         g.submitted = f.submitted, NEW k \in 0 .. Len(f.composer) - 1,
         g.composer = SubSeq(f.composer, 1, k)
  PROVE  CountOccurrences(g, T) <= CountOccurrences(f, T)
<1>1. PICK n \in Nat : n = Len(f.submitted)
  BY RowsTyped
<1>2. /\ DOMAIN Rows(f) = 1 .. n + 1 /\ DOMAIN Rows(g) = 1 .. n + 1
      /\ \A i \in 1 .. n : Rows(g)[i] = Rows(f)[i]
      /\ Rows(f)[n + 1] = f.composer /\ Rows(g)[n + 1] = g.composer
  BY <1>1, RowsTyped
<1>3. \A j \in DOMAIN g.composer : j \in DOMAIN f.composer /\ g.composer[j] = f.composer[j]
  BY DEF FrameType
<1>4. ASSUME NEW i \in 1 .. n + 1, NEW j \in DOMAIN Rows(g)[i]
      PROVE  j \in DOMAIN Rows(f)[i] /\ Rows(f)[i][j] = Rows(g)[i][j]
  BY <1>2, <1>3
<1>5. Occurrences(g, T) \in SUBSET Occurrences(f, T)
  <2> SUFFICES ASSUME NEW z \in Occurrences(g, T) PROVE z \in Occurrences(f, T)
    OBVIOUS
  <2>1. PICK i \in 1 .. n + 1 : \E j \in DOMAIN Rows(g)[i] : z = <<i, j>> /\ Rows(g)[i][j] \in T
    BY <1>2, OccurrencesIn
  <2>2. QED
    BY <1>2, <1>4, <2>1, OccurrencesIn
<1>6. QED
  BY <1>5, OccurrencesFinite, FS_Subset DEF CountOccurrences
-----------------------------------------------------------------------------
(* What a call finds in its pane: w is the setup, s the call and c where it *)
(* stands; K are the keys of the pane, C its composer, D its submissions; n *)
(* is how often the screen shows the text, and m how often it was in the    *)
(* frame of the baseline.                                                   *)

Like(w, s) == {x \in Text : x = w.job[s].text \/ {x, w.job[s].text} \subseteq w.chips}

Alike(w, s, k) == w.job[k.by].text \in Like(w, s)

Probing(w, s) == w.job[s].kind \in {"send", "insert"}

Only(K, what) == \A i \in DOMAIN K : K[i].what = what

No(K, what) == \A i \in DOMAIN K : K[i].what # what

Shows(w, s, C) == \E j \in DOMAIN C : C[j].text \in Like(w, s)

Holds(C, s) == \E j \in DOMAIN C : C[j].by = s

\* Nothing that is left of an earlier call undoes an echo.
Behind(w, s, K) ==
  \A i, j \in DOMAIN K : i < j /\ K[i].what = "paste" /\ Alike(w, s, K[i]) =>
     K[j].what # "C-u" /\ (K[j].what = "paste" => Alike(w, s, K[j]))

\* An Enter sent now submits the text, or a draft that looks the same.
Armed(w, s, K, C) ==
  /\ C = << >> \/ Shows(w, s, C)
  /\ No(K, "C-u")
  /\ \A i \in DOMAIN K : K[i].what = "paste" => Alike(w, s, K[i])

Fits(w, s, pc) ==
  /\ pc \in {"baseline", "probe", "popup", "recapture", "verify", "clear", "cleared"} => Probing(w, s)
  /\ pc \in {"set", "paste"} => w.job[s].kind # "enter"
  /\ pc = "enter" => w.job[s].kind # "raw"

\* What an echo says of the pane, and what a clear does.
Course(w, s, pc, n, m, K, C) ==
  Probing(w, s) =>
    /\ pc = "baseline" => Behind(w, s, K)
    /\ pc \in {"set", "paste", "probe"} => Behind(w, s, K) /\ (n > m => Armed(w, s, K, C))
    /\ pc \in {"popup", "recapture", "enter"} => Armed(w, s, K, C)
    /\ pc = "verify" => No(K, "C-u")
    /\ pc \in {"clear", "cleared"} =>
         /\ \A i, j \in DOMAIN K : i < j /\ K[i].what = "C-u" => K[j].what = "C-u"
         /\ n > m \/ (Only(K, "C-u") /\ ~Holds(C, s))

\* The queue of the first call on a pane.
First(w, s, pc, n, m, K) ==
  /\ pc \in {"idle", "baseline"} => K = << >>
  /\ pc \in {"set", "paste"} => Only(K, "C-u") /\ (Probing(w, s) => n <= m)
  /\ pc = "probe" => n <= m \/ No(K, "paste")
  /\ pc \in {"popup", "recapture", "enter", "verify", "clear", "cleared"} => No(K, "paste")
  /\ \A i, j \in DOMAIN K : i < j => ~(K[i].what = "paste" /\ K[j].what = "C-u")

\* An Enter of a send finds its text, or nothing.
Aimed(w, s, K, C) ==
  w.job[s].kind = "send" =>
    \A i \in DOMAIN K : K[i].by = s /\ K[i].what = "enter" =>
      /\ C = << >> \/ Shows(w, s, C)
      /\ \A j \in DOMAIN K : j < i =>
           K[j].what # "C-u" /\ (K[j].what = "paste" => Alike(w, s, K[j]))

\* Only the running call sends keys, and its text is the last in the composer.
Follows(s, pc, K, C) ==
  pc \notin {"idle", "done"} =>
    /\ \A i, j \in DOMAIN K : i < j /\ K[i].by = s => K[j].by = s
    /\ \A i \in DOMAIN C : C[i].by = s => i = Len(C) /\ \A j \in DOMAIN K : K[j].by = s

Pastes(k, s) == k.by = s /\ k.what = "paste"

Coming(K, s) == \E i \in DOMAIN K : Pastes(K[i], s)

Given(D, s) == \E i \in DOMAIN D : Holds(D[i].items, s)

Once(C, s) == \A i, j \in DOMAIN C : C[i].by = s /\ C[j].by = s => i = j

\* There is one copy of the text of a call: on its way, staged or submitted.
Single(s, pc, K, C, D) ==
  /\ \A i, j \in DOMAIN K : Pastes(K[i], s) /\ Pastes(K[j], s) => i = j
  /\ Once(C, s)
  /\ \A i \in DOMAIN D : Once(D[i].items, s)
  /\ \A i, j \in DOMAIN D : Holds(D[i].items, s) /\ Holds(D[j].items, s) => i = j
  /\ ~(Coming(K, s) /\ Holds(C, s))
  /\ ~(Coming(K, s) /\ Given(D, s))
  /\ ~(Holds(C, s) /\ Given(D, s))
  /\ pc \in {"idle", "baseline", "set", "paste"} =>
       ~Coming(K, s) /\ ~Holds(C, s) /\ ~Given(D, s)

\* A submission of the text is younger than the baseline.
Since(w, s, c, D) ==
  Probing(w, s) /\ c.pc \notin {"idle", "baseline", "done"} =>
    /\ Len(c.base.submitted) <= Len(D)
    /\ \A i \in DOMAIN D : Holds(D[i].items, s) => i > Len(c.base.submitted)

\* A send that is not past its probe, or failed there, pressed no Enter that
\* submitted or will submit the text.
Withheld(w, s, c, K, D) ==
  /\ w.job[s].kind = "send"
  /\ c.pc \in {"baseline", "set", "paste", "probe"} \/ c.result \in {"error", "probe"}
  => /\ \A i \in DOMAIN K : ~(K[i].by = s /\ K[i].what = "enter")
     /\ \A i \in DOMAIN D : Holds(D[i].items, s) => D[i].by # s

Parts(w, s, c, n, m, K, C, D) ==
  /\ Fits(w, s, c.pc)
  /\ Course(w, s, c.pc, n, m, K, C)
  /\ Aimed(w, s, K, C)
  /\ Follows(s, c.pc, K, C)
  /\ Single(s, c.pc, K, C, D)
  /\ Since(w, s, c, D)
  /\ Withheld(w, s, c, K, D)

-----------------------------------------------------------------------------
(* Steps of a call, as they concern its pane *)

\* From c to d with the key that is sent, if one is; o is the floor that d has.
Turn(w, s, c, d, key, D, n, m, o) ==
  \/ /\ c.pc = "idle" /\ key = None /\ d.result = None
     /\ \/ w.job[s].kind = "raw" /\ d.pc = "set"
        \/ w.job[s].kind = "enter" /\ d.pc = "enter"
        \/ Probing(w, s) /\ d.pc = "baseline"
  \/ /\ c.pc = "baseline" /\ d.pc = "set" /\ key = None /\ d.result = None
     /\ o = n /\ Len(d.base.submitted) = Len(D)
  \/ /\ d.base = c.base /\ o = m /\ d.result = None
     /\ \/ c.pc = "set" /\ d.pc = "paste" /\ key = None
        \/ c.pc = "paste" /\ d.pc = "probe" /\ key = "paste" /\ w.job[s].kind # "raw"
        \/ c.pc = "probe" /\ d.pc = "probe" /\ key = None
        \/ c.pc = "probe" /\ d.pc \in {"popup", "enter"} /\ key = None /\ n > m
        \/ c.pc = "popup" /\ d.pc = "recapture" /\ key = "enter"
        \/ c.pc = "recapture" /\ d.pc = "enter" /\ key = None
        \/ c.pc = "enter" /\ d.pc = "verify" /\ key = "enter" /\ w.job[s].kind # "enter"
        \/ c.pc = "verify" /\ d.pc = "verify" /\ key = None
        \/ c.pc = "verify" /\ d.pc = "clear" /\ key = None /\ n > m
        \/ c.pc = "clear" /\ d.pc = "cleared" /\ key = "C-u"
        \/ c.pc = "cleared" /\ d.pc = "clear" /\ key = None
  \/ /\ c.pc = "cleared" /\ d.pc = "set" /\ key = None /\ d.result = None
     /\ o = n /\ n = m /\ Len(c.base.submitted) = Len(D) /\ Len(d.base.submitted) = Len(D)
  \/ /\ c.pc # "done" /\ d.pc = "done"
     /\ \/ /\ key = None
           /\ d.result \in {"error", "probe"} =>
                w.job[s].kind = "enter" \/ c.pc \in {"idle", "baseline", "set", "paste", "probe"}
        \/ key = "paste" /\ c.pc = "paste"
        \/ /\ key = "enter" /\ c.pc \in {"popup", "enter"}
           /\ d.result \in {"error", "probe"} => w.job[s].kind = "enter"
        \/ key = "C-u" /\ c.pc = "clear" /\ d.result \notin {"error", "probe"}

Sends(K, L, s, key) ==
  IF key = None THEN L = K ELSE L = Append(K, [by |-> s, what |-> key])

LEMMA Grown ==
  ASSUME NEW K \in Seq(KeyType), NEW L, NEW s \in Sender, NEW key \in {None, "paste", "enter", "C-u"},
         Sends(K, L, s, key)
  PROVE  /\ L \in Seq(KeyType)
         /\ key = None => L = K
         /\ \E N \in Nat :
              /\ DOMAIN K = 1 .. N
              /\ key # None =>
                   /\ DOMAIN L = 1 .. N + 1 /\ L[N + 1].by = s /\ L[N + 1].what = key
                   /\ \A i \in 1 .. N : L[i] = K[i]
<1>1. CASE key = None
  <2>1. L = K
    BY <1>1 DEF Sends
  <2>2. Len(K) \in Nat /\ DOMAIN K = 1 .. Len(K)
    OBVIOUS
  <2>3. QED
    BY <1>1, <2>1, <2>2
<1>2. CASE key # None
  <2>1. PICK k \in KeyType : k.by = s /\ k.what = key /\ L = Append(K, k)
    BY <1>2 DEF Sends, KeyType
  <2>2. PICK N \in Nat : N = Len(K)
    OBVIOUS
  <2>3. /\ L \in Seq(KeyType) /\ DOMAIN K = 1 .. N /\ DOMAIN L = 1 .. N + 1
        /\ L[N + 1] = k /\ \A i \in 1 .. N : L[i] = K[i]
    BY <2>1, <2>2
  <2>4. QED
    BY <1>2, <2>1, <2>3
<1>3. QED
  BY <1>1, <1>2

Typed(w, s, c, d, key, K, L, C, D, n, m, o) ==
  /\ w \in Workloads /\ s \in Sender
  /\ c \in CallType /\ d \in CallType
  /\ key \in {None, "paste", "enter", "C-u"}
  /\ K \in Seq(KeyType) /\ C \in Seq(Item) /\ D \in Seq(SubmissionType)
  /\ n \in Nat /\ m \in Nat /\ o \in Nat
  /\ Sends(K, L, s, key)
  /\ Turn(w, s, c, d, key, D, n, m, o)
  /\ Parts(w, s, c, n, m, K, C, D)
  /\ c.pc = "idle" => Behind(w, s, K) /\ \A i \in DOMAIN K : K[i].by # s

LEMMA LikeItself ==
  ASSUME NEW w \in Workloads, NEW s \in Sender
  PROVE  /\ w.job[s].text \in Like(w, s)
         /\ w.job[s].kind \in {"send", "insert", "raw", "enter"}
  BY ConstantsOK DEF Like, Job

\* What Typed says, part by part.
LEMMA Unfold ==
  ASSUME NEW w, NEW s, NEW c, NEW d, NEW key, NEW K, NEW L, NEW C, NEW D, NEW n, NEW m, NEW o,
         Typed(w, s, c, d, key, K, L, C, D, n, m, o)
  PROVE  /\ w \in Workloads /\ s \in Sender /\ key \in {None, "paste", "enter", "C-u"}
         /\ K \in Seq(KeyType) /\ C \in Seq(Item) /\ D \in Seq(SubmissionType)
         /\ n \in Nat /\ m \in Nat /\ o \in Nat
         /\ Sends(K, L, s, key) /\ Turn(w, s, c, d, key, D, n, m, o)
         /\ Fits(w, s, c.pc) /\ Course(w, s, c.pc, n, m, K, C) /\ Aimed(w, s, K, C)
         /\ Follows(s, c.pc, K, C) /\ Single(s, c.pc, K, C, D) /\ Since(w, s, c, D)
         /\ Withheld(w, s, c, K, D)
         /\ c.pc = "idle" => Behind(w, s, K) /\ \A i \in DOMAIN K : K[i].by # s
  BY DEF Typed, Parts

LEMMA Joined ==
  ASSUME NEW w, NEW s, NEW c, NEW d, NEW key, NEW K, NEW L, NEW C, NEW D, NEW n, NEW m, NEW o,
         Typed(w, s, c, d, key, K, L, C, D, n, m, o)
  PROVE  \E N \in Nat :
           /\ DOMAIN K = 1 .. N
           /\ key = None => L = K
           /\ key # None => /\ DOMAIN L = 1 .. N + 1 /\ L[N + 1].by = s /\ L[N + 1].what = key
                            /\ \A i \in 1 .. N : L[i] = K[i]
<1>1. /\ s \in Sender /\ key \in {None, "paste", "enter", "C-u"} /\ K \in Seq(KeyType)
      /\ Sends(K, L, s, key)
  BY Unfold
<1>2. QED
  BY <1>1, Grown

LEMMA FitsTurn ==
  ASSUME NEW w, NEW s, NEW c, NEW d, NEW key, NEW K, NEW L, NEW C, NEW D, NEW n, NEW m, NEW o,
         Typed(w, s, c, d, key, K, L, C, D, n, m, o)
  PROVE  Fits(w, s, d.pc)
<1>1. /\ Turn(w, s, c, d, key, D, n, m, o) /\ Fits(w, s, c.pc)
      /\ w.job[s].kind \in {"send", "insert", "raw", "enter"}
  BY Unfold, LikeItself
<1>2. QED
  BY <1>1 DEF Turn, Fits, Probing

LEMMA AimedTurn ==
  ASSUME NEW w, NEW s, NEW c, NEW d, NEW key, NEW K, NEW L, NEW C, NEW D, NEW n, NEW m, NEW o,
         Typed(w, s, c, d, key, K, L, C, D, n, m, o)
  PROVE  Aimed(w, s, L, C)
<1>1. PICK N \in Nat :
        /\ DOMAIN K = 1 .. N
        /\ key = None => L = K
        /\ key # None => /\ DOMAIN L = 1 .. N + 1 /\ L[N + 1].by = s /\ L[N + 1].what = key
                         /\ \A i \in 1 .. N : L[i] = K[i]
  BY Joined
<1>2. /\ Turn(w, s, c, d, key, D, n, m, o) /\ Course(w, s, c.pc, n, m, K, C)
      /\ Aimed(w, s, K, C)
  BY Unfold
<1>3. key = "enter" /\ w.job[s].kind = "send" => Armed(w, s, K, C)
  BY <1>2 DEF Turn, Course, Probing, None
<1>4. CASE key = None
  BY <1>1, <1>2, <1>4
<1>5. CASE key # None
  <2>1. ASSUME w.job[s].kind = "send", NEW i \in 1 .. N + 1, L[i].by = s, L[i].what = "enter"
        PROVE  /\ C = << >> \/ Shows(w, s, C)
               /\ \A j \in 1 .. N + 1 : j < i =>
                    L[j].what # "C-u" /\ (L[j].what = "paste" => Alike(w, s, L[j]))
    <3>1. \A j \in 1 .. N + 1 : j < i => j \in 1 .. N /\ L[j] = K[j]
      BY <1>1, <1>5
    <3>2. CASE i \in 1 .. N
      BY <1>1, <1>2, <1>5, <2>1, <3>1, <3>2 DEF Aimed
    <3>3. CASE i = N + 1
      BY <1>1, <1>3, <1>5, <2>1, <3>1, <3>3 DEF Armed, No
    <3>4. QED
      BY <3>2, <3>3
  <2>2. QED
    BY <1>1, <1>5, <2>1 DEF Aimed
<1>6. QED
  BY <1>4, <1>5

LEMMA FollowsTurn ==
  ASSUME NEW w, NEW s, NEW c, NEW d, NEW key, NEW K, NEW L, NEW C, NEW D, NEW n, NEW m, NEW o,
         Typed(w, s, c, d, key, K, L, C, D, n, m, o)
  PROVE  Follows(s, d.pc, L, C)
<1>1. PICK N \in Nat :
        /\ DOMAIN K = 1 .. N
        /\ key = None => L = K
        /\ key # None => /\ DOMAIN L = 1 .. N + 1 /\ L[N + 1].by = s /\ L[N + 1].what = key
                         /\ \A i \in 1 .. N : L[i] = K[i]
  BY Joined
<1>2. /\ Turn(w, s, c, d, key, D, n, m, o) /\ Follows(s, c.pc, K, C) /\ Single(s, c.pc, K, C, D)
      /\ c.pc = "idle" => \A i \in DOMAIN K : K[i].by # s
  BY Unfold
<1>3. d.pc # "done" =>
        /\ \A i, j \in 1 .. N : i < j /\ K[i].by = s => K[j].by = s
        /\ \A i \in DOMAIN C : C[i].by = s => i = Len(C) /\ \A j \in 1 .. N : K[j].by = s
  <2>1. CASE c.pc = "idle"
    BY <1>1, <1>2, <2>1 DEF Single, Holds
  <2>2. CASE c.pc # "idle"
    <3>1. d.pc # "done" => c.pc # "done"
      BY <1>2, <2>2 DEF Turn
    <3>2. QED
      BY <1>1, <1>2, <2>2, <3>1 DEF Follows
  <2>3. QED
    BY <2>1, <2>2
<1>4. CASE key = None
  BY <1>1, <1>3, <1>4 DEF Follows
<1>5. CASE key # None
  <2>1. \A j \in 1 .. N + 1 : j \in 1 .. N \/ j = N + 1
    OBVIOUS
  <2>2. d.pc # "done" =>
          /\ \A i, j \in 1 .. N + 1 : i < j /\ L[i].by = s => L[j].by = s
          /\ \A i \in DOMAIN C : C[i].by = s => i = Len(C) /\ \A j \in 1 .. N + 1 : L[j].by = s
    BY <1>1, <1>3, <1>5, <2>1
  <2>3. QED
    BY <1>1, <1>5, <2>2 DEF Follows
<1>6. QED
  BY <1>4, <1>5

LEMMA SingleTurn ==
  ASSUME NEW w, NEW s, NEW c, NEW d, NEW key, NEW K, NEW L, NEW C, NEW D, NEW n, NEW m, NEW o,
         Typed(w, s, c, d, key, K, L, C, D, n, m, o)
  PROVE  Single(s, d.pc, L, C, D)
<1>1. PICK N \in Nat :
        /\ DOMAIN K = 1 .. N
        /\ key = None => L = K
        /\ key # None => /\ DOMAIN L = 1 .. N + 1 /\ L[N + 1].by = s /\ L[N + 1].what = key
                         /\ \A i \in 1 .. N : L[i] = K[i]
  BY Joined
<1>2. /\ Turn(w, s, c, d, key, D, n, m, o) /\ Single(s, c.pc, K, C, D)
      /\ Course(w, s, c.pc, n, m, K, C) /\ Since(w, s, c, D) /\ Fits(w, s, c.pc)
      /\ n \in Nat /\ m \in Nat /\ DOMAIN D = 1 .. Len(D) /\ Len(D) \in Nat
  BY Unfold
<1>3. d.pc \in {"idle", "baseline", "set", "paste"} =>
        key = None /\ ~Coming(K, s) /\ ~Holds(C, s) /\ ~Given(D, s)
  <2>1. CASE c.pc \in {"idle", "baseline", "set", "paste"}
    BY <1>2, <2>1 DEF Turn, Single
  <2>2. CASE c.pc = "cleared" /\ d.pc = "set"
    <3>1. /\ key = None /\ n = m /\ Len(c.base.submitted) = Len(D) /\ Probing(w, s)
      BY <1>2, <2>2 DEF Turn, Fits
    <3>2. Only(K, "C-u") /\ ~Holds(C, s)
      BY <1>2, <2>2, <3>1 DEF Course
    <3>3. ~Given(D, s)
      BY <1>2, <2>2, <3>1 DEF Since, Given
    <3>4. QED
      BY <3>1, <3>2, <3>3 DEF Only, Coming, Pastes
  <2>3. QED
    BY <1>2, <2>1, <2>2 DEF Turn
<1>4. key = "paste" => c.pc = "paste" /\ ~Coming(K, s) /\ ~Holds(C, s) /\ ~Given(D, s)
  BY <1>2 DEF Turn, Single, None
<1>5. CASE key = None
  BY <1>1, <1>2, <1>3, <1>5 DEF Single
<1>6. CASE key # None
  <2>1. \A j \in 1 .. N + 1 : j \in 1 .. N \/ j = N + 1
    OBVIOUS
  <2>2. CASE key = "paste"
    <3>1. \A i \in 1 .. N + 1 : Pastes(L[i], s) => i = N + 1
      BY <1>1, <1>4, <1>6, <2>1, <2>2 DEF Coming, Pastes
    <3>2. QED
      BY <1>1, <1>2, <1>3, <1>4, <1>6, <2>2, <3>1 DEF Single
  <2>3. CASE key # "paste"
    <3>1. \A i \in 1 .. N + 1 : Pastes(L[i], s) => i \in 1 .. N /\ Pastes(K[i], s)
      BY <1>1, <1>6, <2>1, <2>3 DEF Pastes
    <3>2. Coming(L, s) => Coming(K, s)
      BY <1>1, <1>6, <3>1 DEF Coming
    <3>3. \A i, j \in 1 .. N + 1 : Pastes(L[i], s) /\ Pastes(L[j], s) => i = j
      BY <1>1, <1>2, <3>1 DEF Single
    <3>4. QED
      BY <1>1, <1>2, <1>3, <1>6, <3>2, <3>3 DEF Single
  <2>4. QED
    BY <2>2, <2>3
<1>7. QED
  BY <1>5, <1>6

LEMMA SinceTurn ==
  ASSUME NEW w, NEW s, NEW c, NEW d, NEW key, NEW K, NEW L, NEW C, NEW D, NEW n, NEW m, NEW o,
         Typed(w, s, c, d, key, K, L, C, D, n, m, o)
  PROVE  Since(w, s, d, D)
<1>1. /\ Turn(w, s, c, d, key, D, n, m, o) /\ Since(w, s, c, D) /\ Single(s, c.pc, K, C, D)
      /\ Len(D) \in Nat /\ DOMAIN D = 1 .. Len(D)
  BY Unfold
<1>2. CASE d.base = c.base /\ c.pc \notin {"idle", "baseline", "done"}
  BY <1>1, <1>2 DEF Since
<1>3. CASE d.pc = "set" /\ Len(d.base.submitted) = Len(D)
  <2>1. ~Given(D, s)
    BY SingleTurn, <1>3 DEF Single
  <2>2. QED
    BY <1>1, <1>3, <2>1 DEF Since, Given
<1>4. CASE d.pc \in {"baseline", "done"} \/ ~Probing(w, s)
  BY <1>4 DEF Since
<1>5. QED
  BY <1>1, <1>2, <1>3, <1>4 DEF Turn, Probing

LEMMA WithheldTurn ==
  ASSUME NEW w, NEW s, NEW c, NEW d, NEW key, NEW K, NEW L, NEW C, NEW D, NEW n, NEW m, NEW o,
         Typed(w, s, c, d, key, K, L, C, D, n, m, o)
  PROVE  Withheld(w, s, d, L, D)
<1>1. PICK N \in Nat :
        /\ DOMAIN K = 1 .. N
        /\ key = None => L = K
        /\ key # None => /\ DOMAIN L = 1 .. N + 1 /\ L[N + 1].by = s /\ L[N + 1].what = key
                         /\ \A i \in 1 .. N : L[i] = K[i]
  BY Joined
<1>2. /\ Turn(w, s, c, d, key, D, n, m, o) /\ Withheld(w, s, c, K, D) /\ Fits(w, s, c.pc)
      /\ Course(w, s, c.pc, n, m, K, C) /\ Single(s, c.pc, K, C, D)
      /\ c.pc = "idle" => \A i \in DOMAIN K : K[i].by # s
      /\ n \in Nat /\ m \in Nat
  BY Unfold
<1>3. SUFFICES ASSUME w.job[s].kind = "send",
                      d.pc \in {"baseline", "set", "paste", "probe"} \/ d.result \in {"error", "probe"}
               PROVE  /\ \A i \in DOMAIN L : ~(L[i].by = s /\ L[i].what = "enter")
                      /\ \A i \in DOMAIN D : Holds(D[i].items, s) => D[i].by # s
  BY DEF Withheld
<1>4. key \in {None, "paste"} /\ c.pc \in {"idle", "baseline", "set", "paste", "probe", "cleared"}
      /\ (c.pc = "cleared" => d.pc = "set")
  BY <1>2, <1>3 DEF Turn, None
<1>5. /\ \A i \in DOMAIN K : ~(K[i].by = s /\ K[i].what = "enter")
      /\ \A i \in DOMAIN D : Holds(D[i].items, s) => D[i].by # s
  <2>1. CASE c.pc = "idle"
    BY <1>2, <2>1 DEF Single, Given
  <2>2. CASE c.pc \in {"baseline", "set", "paste", "probe"}
    BY <1>2, <1>3, <2>2 DEF Withheld
  <2>3. CASE c.pc = "cleared"
    <3>1. n = m /\ Probing(w, s) /\ d.pc = "set"
      BY <1>2, <1>4, <2>3 DEF Turn, Fits
    <3>2. Only(K, "C-u")
      BY <1>2, <2>3, <3>1 DEF Course
    <3>3. ~Given(D, s)
      BY SingleTurn, <3>1 DEF Single
    <3>4. QED
      BY <3>2, <3>3 DEF Only, Given
  <2>4. QED
    BY <1>4, <2>1, <2>2, <2>3
<1>6. QED
  BY <1>1, <1>4, <1>5

LEMMA CourseTurn ==
  ASSUME NEW w, NEW s, NEW c, NEW d, NEW key, NEW K, NEW L, NEW C, NEW D, NEW n, NEW m, NEW o,
         Typed(w, s, c, d, key, K, L, C, D, n, m, o)
  PROVE  Course(w, s, d.pc, n, o, L, C)
<1>1. PICK N \in Nat :
        /\ DOMAIN K = 1 .. N
        /\ key = None => L = K
        /\ key # None => /\ DOMAIN L = 1 .. N + 1 /\ L[N + 1].by = s /\ L[N + 1].what = key
                         /\ \A i \in 1 .. N : L[i] = K[i]
  BY Joined
<1>2. /\ Turn(w, s, c, d, key, D, n, m, o) /\ Course(w, s, c.pc, n, m, K, C)
      /\ c.pc = "idle" => Behind(w, s, K)
      /\ n \in Nat /\ m \in Nat /\ o \in Nat /\ w.job[s].text \in Like(w, s)
  BY Unfold, LikeItself
<1>3. SUFFICES ASSUME Probing(w, s) PROVE Course(w, s, d.pc, n, o, L, C)
  BY DEF Course
<1>4. CASE key = None
  <2>1. L = K
    BY <1>1, <1>4
  <2>2. CASE c.pc = "cleared" /\ d.pc = "set"
    <3>1. n = o /\ Only(K, "C-u")
      BY <1>2, <1>3, <2>2 DEF Turn, Course
    <3>2. Behind(w, s, K)
      BY <3>1 DEF Only, Behind
    <3>3. QED
      BY <1>2, <2>1, <2>2, <3>1, <3>2 DEF Course
  <2>3. CASE c.pc # "cleared" \/ d.pc # "set"
    <3>1. CASE c.pc = "verify" /\ d.pc = "clear"
      <4>1. n > o /\ No(K, "C-u")
        BY <1>2, <1>3, <3>1 DEF Turn, Course
      <4>2. QED
        BY <2>1, <3>1, <4>1 DEF Course, No
    <3>2. CASE c.pc # "verify" \/ d.pc # "clear"
      BY <1>2, <1>3, <1>4, <2>1, <2>3, <3>2 DEF Turn, Course, Probing, None
    <3>3. QED
      BY <3>1, <3>2
  <2>4. QED
    BY <2>2, <2>3
<1>5. CASE key # None
  <2>1. \A j \in 1 .. N + 1 : j \in 1 .. N \/ j = N + 1
    OBVIOUS
  <2>2. CASE d.pc = "done"
    BY <2>2 DEF Course
  <2>3. CASE key = "paste" /\ d.pc = "probe"
    <3>1. c.pc = "paste" /\ o = m
      BY <1>2, <2>3 DEF Turn, None
    <3>2. Behind(w, s, K) /\ (n > m => Armed(w, s, K, C))
      BY <1>2, <1>3, <3>1 DEF Course
    <3>3. Alike(w, s, L[N + 1])
      BY <1>1, <1>2, <1>5 DEF Alike
    <3>4. Behind(w, s, L)
      <4> SUFFICES ASSUME NEW i \in 1 .. N + 1, NEW j \in 1 .. N + 1, i < j,
                          L[i].what = "paste", Alike(w, s, L[i])
                   PROVE  L[j].what # "C-u" /\ (L[j].what = "paste" => Alike(w, s, L[j]))
        BY <1>1, <1>5 DEF Behind
      <4>1. i \in 1 .. N /\ L[i] = K[i]
        BY <1>1, <1>5
      <4>2. QED
        BY <1>1, <1>5, <2>1, <2>3, <3>2, <3>3, <4>1 DEF Behind
    <3>5. Armed(w, s, K, C) => Armed(w, s, L, C)
      BY <1>1, <1>5, <2>1, <2>3, <3>3 DEF Armed, No
    <3>6. QED
      BY <2>3, <3>1, <3>2, <3>4, <3>5 DEF Course
  <2>4. CASE key = "enter" /\ d.pc # "done"
    <3>1. c.pc \in {"popup", "enter"} /\ d.pc \in {"recapture", "verify"}
      BY <1>2, <2>4 DEF Turn, None
    <3>2. Armed(w, s, K, C)
      BY <1>2, <1>3, <3>1 DEF Course
    <3>3. Armed(w, s, L, C)
      BY <1>1, <1>5, <2>1, <2>4, <3>2 DEF Armed, No
    <3>4. QED
      BY <3>1, <3>3 DEF Course, Armed
  <2>5. CASE key = "C-u" /\ d.pc # "done"
    <3>1. c.pc = "clear" /\ d.pc = "cleared" /\ o = m
      BY <1>2, <2>5 DEF Turn, None
    <3>2. /\ \A i, j \in 1 .. N : i < j /\ K[i].what = "C-u" => K[j].what = "C-u"
          /\ n > m \/ (Only(K, "C-u") /\ ~Holds(C, s))
      BY <1>1, <1>2, <1>3, <3>1 DEF Course
    <3>3. \A i, j \in 1 .. N + 1 : i < j /\ L[i].what = "C-u" => L[j].what = "C-u"
      BY <1>1, <1>5, <2>1, <2>5, <3>2
    <3>4. Only(K, "C-u") => Only(L, "C-u")
      BY <1>1, <1>5, <2>1, <2>5 DEF Only
    <3>5. QED
      BY <1>1, <1>5, <3>1, <3>2, <3>3, <3>4 DEF Course
  <2>6. QED
    BY <1>2, <1>5, <2>2, <2>3, <2>4, <2>5 DEF Turn, None
<1>6. QED
  BY <1>4, <1>5

\* The queue of the first call on a pane, as it goes on.
LEMMA FirstTurn ==
  ASSUME NEW w, NEW s, NEW c, NEW d, NEW key, NEW K, NEW L, NEW C, NEW D, NEW n, NEW m, NEW o,
         Typed(w, s, c, d, key, K, L, C, D, n, m, o), First(w, s, c.pc, n, m, K)
  PROVE  First(w, s, d.pc, n, o, L)
<1>1. PICK N \in Nat :
        /\ DOMAIN K = 1 .. N
        /\ key = None => L = K
        /\ key # None => /\ DOMAIN L = 1 .. N + 1 /\ L[N + 1].by = s /\ L[N + 1].what = key
                         /\ \A i \in 1 .. N : L[i] = K[i]
  BY Joined
<1>2. /\ Turn(w, s, c, d, key, D, n, m, o) /\ Course(w, s, c.pc, n, m, K, C)
      /\ Fits(w, s, c.pc) /\ n \in Nat /\ m \in Nat /\ o \in Nat /\ K \in Seq(KeyType)
  BY Unfold
<1>3. CASE key = None
  <2>1. L = K
    BY <1>1, <1>3
  <2>2. CASE c.pc \in {"idle", "baseline"}
    <3>1. K = << >> /\ DOMAIN K = {}
      BY <1>1, <2>2 DEF First
    <3>2. d.pc = "set" => (Probing(w, s) => n <= o)
      BY <1>2, <2>2 DEF Turn, Probing
    <3>3. d.pc # "probe" /\ d.pc # "paste"
      BY <1>2, <2>2 DEF Turn
    <3>4. QED
      BY <2>1, <3>1, <3>2, <3>3 DEF First, Only, No
  <2>3. CASE c.pc = "cleared" /\ d.pc = "set"
    <3>1. n = m /\ n = o /\ Probing(w, s)
      BY <1>2, <2>3 DEF Turn, Fits
    <3>2. Only(K, "C-u")
      BY <1>2, <2>3, <3>1 DEF Course
    <3>3. QED
      BY <1>2, <2>1, <2>3, <3>1, <3>2 DEF First, Only
  <2>4. CASE c.pc \notin {"idle", "baseline"} /\ (c.pc # "cleared" \/ d.pc # "set")
    <3>1. \A i, j \in DOMAIN K : i < j => ~(K[i].what = "paste" /\ K[j].what = "C-u")
      BY DEF First
    <3>2. CASE d.pc = "done"
      BY <2>1, <3>1, <3>2 DEF First
    <3>3. CASE c.pc = "set" /\ d.pc = "paste"
      BY <1>2, <2>1, <3>3 DEF Turn, First
    <3>4. CASE c.pc = "probe" /\ d.pc \in {"probe", "popup", "enter"}
      BY <1>2, <2>1, <3>1, <3>4 DEF Turn, First
    <3>5. CASE c.pc \in {"recapture", "verify", "cleared"} /\ d.pc \in {"enter", "verify", "clear"}
      BY <2>1, <3>1, <3>5 DEF First
    <3>6. QED
      BY <1>2, <1>3, <2>4, <3>2, <3>3, <3>4, <3>5 DEF Turn, None
  <2>5. QED
    BY <2>2, <2>3, <2>4
<1>4. CASE key # None
  <2>1. \A j \in 1 .. N + 1 : j \in 1 .. N \/ j = N + 1
    OBVIOUS
  <2>2. \A i, j \in DOMAIN K : i < j => ~(K[i].what = "paste" /\ K[j].what = "C-u")
    BY DEF First
  <2>3. CASE key = "paste"
    <3>1. c.pc = "paste" /\ d.pc \in {"probe", "done"} /\ (d.pc = "probe" => o = m /\ w.job[s].kind # "raw")
      BY <1>2, <2>3 DEF Turn, None
    <3>2. Only(K, "C-u") /\ (Probing(w, s) => n <= m)
      BY <3>1 DEF First
    <3>3. d.pc = "probe" => Probing(w, s)
      BY FitsTurn DEF Fits
    <3>4. \A i, j \in 1 .. N + 1 : i < j => ~(L[i].what = "paste" /\ L[j].what = "C-u")
      BY <1>1, <1>4, <2>1, <2>3, <3>2 DEF Only
    <3>5. QED
      BY <1>1, <1>4, <3>1, <3>2, <3>3, <3>4 DEF First
  <2>4. CASE key = "enter"
    <3>1. c.pc \in {"popup", "enter"} /\ d.pc \in {"recapture", "verify", "done"}
      BY <1>2, <2>4 DEF Turn, None
    <3>2. No(K, "paste")
      BY <3>1 DEF First
    <3>3. \A i \in 1 .. N + 1 : L[i].what # "paste"
      BY <1>1, <1>4, <2>1, <2>4, <3>2 DEF No
    <3>4. QED
      BY <1>1, <1>4, <3>1, <3>3 DEF First, No
  <2>5. CASE key = "C-u"
    <3>1. c.pc = "clear" /\ d.pc \in {"cleared", "done"}
      BY <1>2, <2>5 DEF Turn, None
    <3>2. No(K, "paste")
      BY <3>1 DEF First
    <3>3. \A i \in 1 .. N + 1 : L[i].what # "paste"
      BY <1>1, <1>4, <2>1, <2>5, <3>2 DEF No
    <3>4. QED
      BY <1>1, <1>4, <3>1, <3>3 DEF First, No
  <2>6. QED
    BY <1>2, <1>4, <2>3, <2>4, <2>5, Unfold
<1>5. QED
  BY <1>3, <1>4

\* A step of a call keeps all of it.
LEMMA PartsTurn ==
  ASSUME NEW w, NEW s, NEW c, NEW d, NEW key, NEW K, NEW L, NEW C, NEW D, NEW n, NEW m, NEW o,
         Typed(w, s, c, d, key, K, L, C, D, n, m, o)
  PROVE  Parts(w, s, d, n, o, L, C, D)
  BY FitsTurn, CourseTurn, AimedTurn, FollowsTurn, SingleTurn, SinceTurn, WithheldTurn DEF Parts

-----------------------------------------------------------------------------
(* Keys the program takes *)

\* The first key k of K leaves the queue, and does one of four things to the composer
\* and the submissions, or nothing.
Taken(w, s, k, C, E, D, F, n, o) ==
  \/ E = C /\ F = D /\ o = n
  \/ /\ k.what = "paste" /\ F = D
     /\ E = Append(C, [by |-> k.by, text |-> w.job[k.by].text])
     /\ o = n + (IF Alike(w, s, k) THEN 1 ELSE 0)
  \/ /\ k.what = "enter" /\ C # << >> /\ E = << >> /\ o = n
     /\ F = Append(D, [by |-> k.by, items |-> C])
  \/ /\ k.what = "C-u" /\ F = D /\ o <= n
     /\ \E j \in 0 .. Len(C) - 1 : E = SubSeq(C, 1, j)

Eaten(w, s, c, k, K, L, C, E, D, F, n, m, o) ==
  /\ w \in Workloads /\ s \in Sender /\ c \in CallType
  /\ K \in Seq(KeyType) /\ C \in Seq(Item) /\ D \in Seq(SubmissionType)
  /\ n \in Nat /\ m \in Nat /\ o \in Nat
  /\ K # << >> /\ k = Head(K) /\ L = Tail(K)
  /\ Taken(w, s, k, C, E, D, F, n, o)
  /\ Parts(w, s, c, n, m, K, C, D)

LEMMA Unpack ==
  ASSUME NEW w, NEW s, NEW c, NEW k, NEW K, NEW L, NEW C, NEW E, NEW D, NEW F,
         NEW n, NEW m, NEW o, Eaten(w, s, c, k, K, L, C, E, D, F, n, m, o)
  PROVE  /\ w \in Workloads /\ s \in Sender /\ k \in KeyType
         /\ K \in Seq(KeyType) /\ C \in Seq(Item) /\ D \in Seq(SubmissionType)
         /\ n \in Nat /\ m \in Nat /\ o \in Nat
         /\ Taken(w, s, k, C, E, D, F, n, o)
         /\ Fits(w, s, c.pc) /\ Course(w, s, c.pc, n, m, K, C) /\ Aimed(w, s, K, C)
         /\ Follows(s, c.pc, K, C) /\ Single(s, c.pc, K, C, D) /\ Since(w, s, c, D)
         /\ Withheld(w, s, c, K, D)
  BY DEF Eaten, Parts

LEMMA Shortened ==
  ASSUME NEW w, NEW s, NEW c, NEW k, NEW K, NEW L, NEW C, NEW E, NEW D, NEW F,
         NEW n, NEW m, NEW o, Eaten(w, s, c, k, K, L, C, E, D, F, n, m, o)
  PROVE  \E N \in Nat :
           /\ DOMAIN K = 1 .. N + 1 /\ DOMAIN L = 1 .. N /\ K[1] = k
           /\ \A i \in 1 .. N : L[i] = K[i + 1]
<1>1. K \in Seq(KeyType) /\ K # << >> /\ k = Head(K) /\ L = Tail(K)
  BY DEF Eaten
<1>2. PICK N \in Nat : N + 1 = Len(K)
  <2>1. Len(K) \in Nat /\ Len(K) # 0
    BY <1>1
  <2>2. Len(K) - 1 \in Nat /\ (Len(K) - 1) + 1 = Len(K)
    BY <2>1
  <2>3. QED
    BY <2>2
<1>3. QED
  BY <1>1, <1>2

\* The composer after a key.
LEMMA Composed ==
  ASSUME NEW w, NEW s, NEW c, NEW k, NEW K, NEW L, NEW C, NEW E, NEW D, NEW F,
         NEW n, NEW m, NEW o, Eaten(w, s, c, k, K, L, C, E, D, F, n, m, o)
  PROVE  \/ E = C /\ F = D /\ o = n
         \/ /\ k.what = "paste" /\ F = D /\ E # << >>
            /\ o = n + (IF Alike(w, s, k) THEN 1 ELSE 0)
            /\ \E N \in Nat :
                 /\ DOMAIN C = 1 .. N /\ DOMAIN E = 1 .. N + 1 /\ Len(E) = N + 1
                 /\ E[N + 1].by = k.by /\ E[N + 1].text = w.job[k.by].text
                 /\ \A i \in 1 .. N : E[i] = C[i]
         \/ /\ k.what = "enter" /\ C # << >> /\ E = << >> /\ DOMAIN E = {} /\ o = n
            /\ \E N \in Nat :
                 /\ DOMAIN D = 1 .. N /\ DOMAIN F = 1 .. N + 1 /\ Len(D) = N /\ Len(F) = N + 1
                 /\ F[N + 1].by = k.by /\ F[N + 1].items = C
                 /\ \A i \in 1 .. N : F[i] = D[i]
         \/ /\ k.what = "C-u" /\ F = D /\ o <= n
            /\ \A i \in DOMAIN E : i \in DOMAIN C /\ i # Len(C) /\ E[i] = C[i]
<1>1. /\ w \in Workloads /\ k \in KeyType /\ C \in Seq(Item) /\ D \in Seq(SubmissionType)
      /\ Taken(w, s, k, C, E, D, F, n, o)
  BY Unpack
<1>2. k.by \in Sender
  BY <1>1 DEF KeyType
<1>3. CASE /\ k.what = "paste" /\ F = D
           /\ E = Append(C, [by |-> k.by, text |-> w.job[k.by].text])
           /\ o = n + (IF Alike(w, s, k) THEN 1 ELSE 0)
  <2>1. PICK item : item = [by |-> k.by, text |-> w.job[k.by].text]
    OBVIOUS
  <2>2. item \in Item /\ item.by = k.by /\ item.text = w.job[k.by].text
    BY <1>1, <1>2, <2>1, ConstantsOK DEF Item, Job
  <2>3. PICK N \in Nat : N = Len(C)
    BY <1>1
  <2>4. /\ DOMAIN C = 1 .. N /\ DOMAIN E = 1 .. N + 1 /\ Len(E) = N + 1 /\ E[N + 1] = item
        /\ E # << >> /\ \A i \in 1 .. N : E[i] = C[i]
    BY <1>1, <1>3, <2>1, <2>2, <2>3
  <2>5. QED
    BY <1>3, <2>2, <2>4
<1>4. CASE /\ k.what = "enter" /\ C # << >> /\ E = << >> /\ o = n
           /\ F = Append(D, [by |-> k.by, items |-> C])
  <2>1. PICK new : new = [by |-> k.by, items |-> C]
    OBVIOUS
  <2>2. new \in SubmissionType /\ new.by = k.by /\ new.items = C
    BY <1>1, <1>2, <2>1 DEF SubmissionType
  <2>3. PICK N \in Nat : N = Len(D)
    BY <1>1
  <2>4. /\ DOMAIN D = 1 .. N /\ DOMAIN F = 1 .. N + 1 /\ Len(D) = N /\ Len(F) = N + 1
        /\ F[N + 1] = new /\ \A i \in 1 .. N : F[i] = D[i]
    BY <1>1, <1>4, <2>1, <2>2, <2>3
  <2>5. QED
    BY <1>4, <2>2, <2>4
<1>5. CASE /\ k.what = "C-u" /\ F = D /\ o <= n
           /\ \E j \in 0 .. Len(C) - 1 : E = SubSeq(C, 1, j)
  <2>1. PICK j \in 0 .. Len(C) - 1 : E = SubSeq(C, 1, j)
    BY <1>5
  <2>2. Len(C) \in Nat /\ j \in Nat /\ j < Len(C)
    BY <1>1
  <2>3. \A i \in DOMAIN E : i \in DOMAIN C /\ i # Len(C) /\ E[i] = C[i]
    BY <1>1, <2>1, <2>2
  <2>4. QED
    BY <1>5, <2>3
<1>6. QED
  BY <1>1, <1>3, <1>4, <1>5 DEF Taken

LEMMA AimedTaken ==
  ASSUME NEW w, NEW s, NEW c, NEW k, NEW K, NEW L, NEW C, NEW E, NEW D, NEW F,
         NEW n, NEW m, NEW o, Eaten(w, s, c, k, K, L, C, E, D, F, n, m, o)
  PROVE  Aimed(w, s, L, E)
<1>1. PICK N \in Nat : /\ DOMAIN K = 1 .. N + 1 /\ DOMAIN L = 1 .. N /\ K[1] = k
                       /\ \A i \in 1 .. N : L[i] = K[i + 1]
  BY Shortened
<1>2. 1 \in 1 .. N + 1 /\ \A i \in 1 .. N : i + 1 \in 1 .. N + 1 /\ 1 < i + 1
  OBVIOUS
<1>3. Aimed(w, s, K, C)
  BY Unpack
<1>4. SUFFICES ASSUME w.job[s].kind = "send", NEW i \in 1 .. N, L[i].by = s, L[i].what = "enter"
               PROVE  /\ E = << >> \/ Shows(w, s, E)
                      /\ \A j \in 1 .. N : j < i =>
                           L[j].what # "C-u" /\ (L[j].what = "paste" => Alike(w, s, L[j]))
  BY <1>1 DEF Aimed
<1>5. /\ C = << >> \/ Shows(w, s, C)
      /\ \A j \in 1 .. N + 1 : j < i + 1 =>
           K[j].what # "C-u" /\ (K[j].what = "paste" => Alike(w, s, K[j]))
  BY <1>1, <1>2, <1>3, <1>4 DEF Aimed
<1>6. k.what # "C-u" /\ (k.what = "paste" => Alike(w, s, k))
  BY <1>1, <1>2, <1>5
<1>7. E = << >> \/ Shows(w, s, E)
  BY <1>5, <1>6, Composed DEF Shows, Alike
<1>8. QED
  BY <1>1, <1>2, <1>5, <1>7

LEMMA FollowsTaken ==
  ASSUME NEW w, NEW s, NEW c, NEW k, NEW K, NEW L, NEW C, NEW E, NEW D, NEW F,
         NEW n, NEW m, NEW o, Eaten(w, s, c, k, K, L, C, E, D, F, n, m, o)
  PROVE  Follows(s, c.pc, L, E)
<1>1. PICK N \in Nat : /\ DOMAIN K = 1 .. N + 1 /\ DOMAIN L = 1 .. N /\ K[1] = k
                       /\ \A i \in 1 .. N : L[i] = K[i + 1]
  BY Shortened
<1>2. 1 \in 1 .. N + 1 /\ \A i \in 1 .. N : i + 1 \in 1 .. N + 1 /\ 1 < i + 1
  OBVIOUS
<1>3. SUFFICES ASSUME c.pc \notin {"idle", "done"} PROVE Follows(s, c.pc, L, E)
  BY DEF Follows
<1>4. /\ \A i, j \in 1 .. N + 1 : i < j /\ K[i].by = s => K[j].by = s
      /\ \A i \in DOMAIN C : C[i].by = s => i = Len(C) /\ \A j \in 1 .. N + 1 : K[j].by = s
      /\ ~(Coming(K, s) /\ Holds(C, s)) /\ C \in Seq(Item)
  <2>1. Follows(s, c.pc, K, C) /\ Single(s, c.pc, K, C, D) /\ C \in Seq(Item)
    BY Unpack
  <2>2. ~(Coming(K, s) /\ Holds(C, s))
    BY <2>1 DEF Single
  <2>3. QED
    BY <1>1, <1>3, <2>1, <2>2 DEF Follows
<1>5. \A i, j \in 1 .. N : i < j /\ L[i].by = s => L[j].by = s
  BY <1>1, <1>2, <1>4
<1>6. ASSUME NEW i \in DOMAIN E, E[i].by = s
      PROVE  i = Len(E) /\ \A j \in 1 .. N : L[j].by = s
  <2>1. CASE E = C
    BY <1>1, <1>2, <1>4, <1>6, <2>1
  <2>2. CASE k.what = "paste" /\ E # C
    <3>1. PICK M \in Nat : /\ DOMAIN C = 1 .. M /\ DOMAIN E = 1 .. M + 1 /\ Len(E) = M + 1
                           /\ E[M + 1].by = k.by
                           /\ \A x \in 1 .. M : E[x] = C[x]
      BY <2>2, Composed
    <3>2. CASE i = M + 1
      BY <1>1, <1>2, <1>4, <1>6, <3>1, <3>2
    <3>3. CASE i \in 1 .. M
      <4>1. C[i].by = s /\ K[1].by = s
        BY <1>2, <1>4, <1>6, <3>1, <3>3
      <4>2. Coming(K, s) /\ Holds(C, s)
        BY <1>1, <1>2, <2>2, <3>1, <3>3, <4>1 DEF Coming, Holds, Pastes
      <4>3. QED
        BY <1>4, <4>2
    <3>4. QED
      BY <3>1, <3>2, <3>3
  <2>3. CASE k.what # "paste" /\ E # C
    BY <1>4, <1>6, <2>3, Composed
  <2>4. QED
    BY <2>1, <2>2, <2>3
<1>7. QED
  BY <1>1, <1>5, <1>6 DEF Follows

LEMMA SingleTaken ==
  ASSUME NEW w, NEW s, NEW c, NEW k, NEW K, NEW L, NEW C, NEW E, NEW D, NEW F,
         NEW n, NEW m, NEW o, Eaten(w, s, c, k, K, L, C, E, D, F, n, m, o)
  PROVE  Single(s, c.pc, L, E, F)
<1>1. PICK N \in Nat : /\ DOMAIN K = 1 .. N + 1 /\ DOMAIN L = 1 .. N /\ K[1] = k
                       /\ \A i \in 1 .. N : L[i] = K[i + 1]
  BY Shortened
<1>2. 1 \in 1 .. N + 1 /\ \A i \in 1 .. N : i + 1 \in 1 .. N + 1 /\ 1 < i + 1
  OBVIOUS
<1>3. Single(s, c.pc, K, C, D) /\ k \in KeyType
  BY Unpack
<1>4. /\ Coming(L, s) => Coming(K, s)
      /\ Coming(L, s) => ~Pastes(k, s)
      /\ Pastes(k, s) => Coming(K, s)
      /\ \A i, j \in 1 .. N : Pastes(L[i], s) /\ Pastes(L[j], s) => i = j
  <2>1. \A i, j \in 1 .. N + 1 : Pastes(K[i], s) /\ Pastes(K[j], s) => i = j
    BY <1>1, <1>3 DEF Single
  <2>2. \A i \in 1 .. N : Pastes(L[i], s) => Pastes(K[i + 1], s)
    BY <1>1
  <2>3. Coming(L, s) => Coming(K, s)
    BY <1>1, <1>2, <2>2 DEF Coming
  <2>4. Pastes(k, s) => Coming(K, s)
    BY <1>1, <1>2 DEF Coming
  <2>5. ASSUME Coming(L, s), Pastes(k, s)
        PROVE  FALSE
    <3>1. PICK i \in 1 .. N : Pastes(L[i], s)
      BY <1>1, <2>5 DEF Coming
    <3>2. Pastes(K[i + 1], s) /\ Pastes(K[1], s)
      BY <1>1, <2>2, <2>5, <3>1
    <3>3. i + 1 = 1
      BY <1>2, <2>1, <3>2
    <3>4. QED
      BY <3>3
  <2>6. ASSUME NEW i \in 1 .. N, NEW j \in 1 .. N, Pastes(L[i], s), Pastes(L[j], s)
        PROVE  i = j
    <3>1. Pastes(K[i + 1], s) /\ Pastes(K[j + 1], s)
      BY <2>2, <2>6
    <3>2. i + 1 = j + 1
      BY <1>2, <2>1, <3>1
    <3>3. QED
      BY <3>2
  <2>7. QED
    BY <2>3, <2>4, <2>5, <2>6
<1>5. CASE E = C /\ F = D
  BY <1>1, <1>3, <1>4, <1>5 DEF Single
<1>6. CASE k.what = "paste" /\ F = D /\ E # C
  <2>1. PICK M \in Nat : /\ DOMAIN C = 1 .. M /\ DOMAIN E = 1 .. M + 1
                         /\ E[M + 1].by = k.by
                         /\ \A x \in 1 .. M : E[x] = C[x]
    BY <1>6, Composed
  <2>2. \A x \in 1 .. M + 1 : x \in 1 .. M \/ x = M + 1
    OBVIOUS
  <2>3. CASE k.by = s
    <3>1. Pastes(k, s)
      BY <1>6, <2>3 DEF Pastes
    <3>2. ~Coming(L, s) /\ ~Holds(C, s) /\ ~Given(D, s) /\ c.pc \notin {"idle", "baseline", "set", "paste"}
      BY <1>3, <1>4, <3>1 DEF Single
    <3>3. Once(E, s)
      BY <2>1, <2>2, <3>2 DEF Once, Holds
    <3>4. QED
      BY <1>1, <1>3, <1>4, <1>6, <3>2, <3>3 DEF Single
  <2>4. CASE k.by # s
    <3>1. (Holds(E, s) => Holds(C, s)) /\ (Once(C, s) => Once(E, s))
      BY <2>1, <2>2, <2>4 DEF Once, Holds
    <3>2. QED
      BY <1>1, <1>3, <1>4, <1>6, <3>1 DEF Single
  <2>5. QED
    BY <2>3, <2>4
<1>7. CASE k.what = "enter" /\ F # D
  <2>1. PICK M \in Nat : /\ DOMAIN D = 1 .. M /\ DOMAIN F = 1 .. M + 1
                         /\ F[M + 1].items = C
                         /\ \A x \in 1 .. M : F[x] = D[x]
    BY <1>7, Composed
  <2>2. DOMAIN E = {}
    BY <1>7, Composed
  <2>3. \A x \in 1 .. M + 1 : x \in 1 .. M \/ x = M + 1
    OBVIOUS
  <2>4. ~Holds(E, s) /\ Once(E, s)
    BY <2>2 DEF Holds, Once
  <2>5. /\ \A x \in 1 .. M + 1 : Holds(F[x].items, s) =>
             (x \in 1 .. M /\ Holds(D[x].items, s)) \/ (x = M + 1 /\ Holds(C, s))
        /\ \A x \in 1 .. M + 1 : Once(F[x].items, s)
    BY <1>3, <2>1, <2>3 DEF Single
  <2>6. Given(F, s) => Given(D, s) \/ Holds(C, s)
    BY <2>1, <2>5 DEF Given
  <2>7. \A i, j \in 1 .. M + 1 : Holds(F[i].items, s) /\ Holds(F[j].items, s) => i = j
    BY <1>3, <2>1, <2>5 DEF Single, Given
  <2>8. QED
    BY <1>1, <1>3, <1>4, <2>1, <2>4, <2>5, <2>6, <2>7 DEF Single
<1>8. CASE F = D /\ \A i \in DOMAIN E : i \in DOMAIN C /\ E[i] = C[i]
  <2>1. (Holds(E, s) => Holds(C, s)) /\ (Once(C, s) => Once(E, s))
    BY <1>8 DEF Once, Holds
  <2>2. QED
    BY <1>1, <1>3, <1>4, <1>8, <2>1 DEF Single
<1>9. QED
  <2>1. \/ E = C /\ F = D
        \/ k.what = "paste" /\ F = D
        \/ k.what = "enter" /\ F # D
        \/ F = D /\ \A i \in DOMAIN E : i \in DOMAIN C /\ E[i] = C[i]
    <3>1. ASSUME NEW M \in Nat, DOMAIN D = 1 .. M, DOMAIN F = 1 .. M + 1 PROVE F # D
      BY <3>1
    <3>2. QED
      BY <3>1, Composed
  <2>2. QED
    BY <1>5, <1>6, <1>7, <1>8, <2>1

LEMMA SinceTaken ==
  ASSUME NEW w, NEW s, NEW c, NEW k, NEW K, NEW L, NEW C, NEW E, NEW D, NEW F,
         NEW n, NEW m, NEW o, Eaten(w, s, c, k, K, L, C, E, D, F, n, m, o)
  PROVE  Since(w, s, c, F)
<1>1. Since(w, s, c, D) /\ c \in CallType /\ DOMAIN D = 1 .. Len(D) /\ Len(D) \in Nat
  <2>1. Since(w, s, c, D) /\ D \in Seq(SubmissionType)
    BY Unpack
  <2>2. c \in CallType
    BY DEF Eaten
  <2>3. QED
    BY <2>1, <2>2
<1>2. CASE F = D
  BY <1>1, <1>2
<1>3. CASE F # D
  <2>1. PICK M \in Nat : /\ DOMAIN D = 1 .. M /\ DOMAIN F = 1 .. M + 1
                         /\ Len(D) = M /\ Len(F) = M + 1
                         /\ \A x \in 1 .. M : F[x] = D[x]
    BY <1>3, Composed
  <2>2. Len(c.base.submitted) \in Nat
    BY <1>1 DEF CallType, FrameType
  <2>3. \A x \in 1 .. M + 1 : x \in 1 .. M \/ x = M + 1
    OBVIOUS
  <2>4. QED
    BY <1>1, <2>1, <2>2, <2>3 DEF Since
<1>4. QED
  BY <1>2, <1>3

LEMMA WithheldTaken ==
  ASSUME NEW w, NEW s, NEW c, NEW k, NEW K, NEW L, NEW C, NEW E, NEW D, NEW F,
         NEW n, NEW m, NEW o, Eaten(w, s, c, k, K, L, C, E, D, F, n, m, o)
  PROVE  Withheld(w, s, c, L, F)
<1>1. PICK N \in Nat : /\ DOMAIN K = 1 .. N + 1 /\ DOMAIN L = 1 .. N /\ K[1] = k
                       /\ \A i \in 1 .. N : L[i] = K[i + 1]
  BY Shortened
<1>2. 1 \in 1 .. N + 1 /\ \A i \in 1 .. N : i + 1 \in 1 .. N + 1 /\ 1 < i + 1
  OBVIOUS
<1>3. Withheld(w, s, c, K, D)
  BY Unpack
<1>4. SUFFICES ASSUME w.job[s].kind = "send",
                      c.pc \in {"baseline", "set", "paste", "probe"} \/ c.result \in {"error", "probe"}
               PROVE  /\ \A i \in 1 .. N : ~(L[i].by = s /\ L[i].what = "enter")
                      /\ \A i \in DOMAIN F : Holds(F[i].items, s) => F[i].by # s
  BY <1>1 DEF Withheld
<1>5. /\ \A i \in 1 .. N + 1 : ~(K[i].by = s /\ K[i].what = "enter")
      /\ \A i \in DOMAIN D : Holds(D[i].items, s) => D[i].by # s
  BY <1>1, <1>3, <1>4 DEF Withheld
<1>6. \A i \in 1 .. N : ~(L[i].by = s /\ L[i].what = "enter")
  BY <1>1, <1>2, <1>5
<1>7. CASE F = D
  BY <1>5, <1>6, <1>7
<1>8. CASE F # D
  <2>1. PICK M \in Nat : /\ DOMAIN D = 1 .. M /\ DOMAIN F = 1 .. M + 1
                         /\ F[M + 1].by = k.by /\ k.what = "enter"
                         /\ \A x \in 1 .. M : F[x] = D[x]
    BY <1>8, Composed
  <2>2. k.by # s
    BY <1>1, <1>2, <1>5, <2>1
  <2>3. \A x \in 1 .. M + 1 : x \in 1 .. M \/ x = M + 1
    OBVIOUS
  <2>4. QED
    BY <1>5, <1>6, <2>1, <2>2, <2>3
<1>9. QED
  BY <1>7, <1>8

LEMMA CourseTaken ==
  ASSUME NEW w, NEW s, NEW c, NEW k, NEW K, NEW L, NEW C, NEW E, NEW D, NEW F,
         NEW n, NEW m, NEW o, Eaten(w, s, c, k, K, L, C, E, D, F, n, m, o)
  PROVE  Course(w, s, c.pc, o, m, L, E)
<1>1. PICK N \in Nat : /\ DOMAIN K = 1 .. N + 1 /\ DOMAIN L = 1 .. N /\ K[1] = k
                       /\ \A i \in 1 .. N : L[i] = K[i + 1]
  BY Shortened
<1>2. 1 \in 1 .. N + 1 /\ \A i \in 1 .. N : i + 1 \in 1 .. N + 1 /\ 1 < i + 1
  OBVIOUS
<1>3. /\ Course(w, s, c.pc, n, m, K, C) /\ n \in Nat /\ m \in Nat /\ o \in Nat /\ k \in KeyType
      /\ Follows(s, c.pc, K, C)
  BY Unpack
<1>4. SUFFICES ASSUME Probing(w, s) PROVE Course(w, s, c.pc, o, m, L, E)
  BY DEF Course
<1>5. Behind(w, s, K) => Behind(w, s, L)
  <2> SUFFICES ASSUME Behind(w, s, K), NEW i \in 1 .. N, NEW j \in 1 .. N, i < j,
                      L[i].what = "paste", Alike(w, s, L[i])
               PROVE  L[j].what # "C-u" /\ (L[j].what = "paste" => Alike(w, s, L[j]))
    BY <1>1 DEF Behind
  <2>1. L[i] = K[i + 1] /\ L[j] = K[j + 1] /\ i + 1 < j + 1 /\ i + 1 \in DOMAIN K /\ j + 1 \in DOMAIN K
    BY <1>1, <1>2
  <2>2. QED
    BY <2>1 DEF Behind
<1>6. Armed(w, s, K, C) => Armed(w, s, L, E)
  <2> SUFFICES ASSUME Armed(w, s, K, C) PROVE Armed(w, s, L, E)
    OBVIOUS
  <2>1. k.what # "C-u" /\ (k.what = "paste" => Alike(w, s, k))
    BY <1>1, <1>2 DEF Armed, No
  <2>2. E = << >> \/ Shows(w, s, E)
    BY <2>1, Composed DEF Armed, Shows, Alike
  <2>3. No(L, "C-u") /\ \A i \in 1 .. N : L[i].what = "paste" => Alike(w, s, L[i])
    BY <1>1, <1>2 DEF Armed, No
  <2>4. QED
    BY <1>1, <2>2, <2>3 DEF Armed
<1>7. CASE c.pc = "baseline"
  BY <1>3, <1>4, <1>5, <1>7 DEF Course
<1>8. CASE c.pc \in {"set", "paste", "probe"}
  <2>1. Behind(w, s, K) /\ (n > m => Armed(w, s, K, C))
    BY <1>3, <1>4, <1>8 DEF Course
  <2>2. o > m => Armed(w, s, L, E)
    <3>1. CASE n > m
      BY <1>6, <2>1, <3>1
    <3>2. CASE ~(n > m) /\ o > m
      <4>1. k.what = "paste" /\ Alike(w, s, k) /\ Shows(w, s, E)
        BY <1>3, <3>2, Composed DEF Shows, Alike
      <4>2. \A i \in 1 .. N : L[i].what # "C-u" /\ (L[i].what = "paste" => Alike(w, s, L[i]))
        BY <1>1, <1>2, <2>1, <4>1 DEF Behind
      <4>3. QED
        BY <1>1, <4>1, <4>2 DEF Armed, No
    <3>3. QED
      BY <3>1, <3>2
  <2>3. QED
    BY <1>5, <1>8, <2>1, <2>2 DEF Course
<1>9. CASE c.pc \in {"popup", "recapture", "enter"}
  BY <1>3, <1>4, <1>6, <1>9 DEF Course
<1>10. CASE c.pc = "verify"
  <2>1. No(K, "C-u")
    BY <1>3, <1>4, <1>10 DEF Course
  <2>2. No(L, "C-u")
    BY <1>1, <1>2, <2>1 DEF No
  <2>3. QED
    BY <1>10, <2>2 DEF Course
<1>11. CASE c.pc \in {"clear", "cleared"}
  <2>1. /\ \A i, j \in 1 .. N + 1 : i < j /\ K[i].what = "C-u" => K[j].what = "C-u"
        /\ n > m \/ (Only(K, "C-u") /\ ~Holds(C, s))
    BY <1>1, <1>3, <1>4, <1>11 DEF Course
  <2>2. \A i, j \in 1 .. N : i < j /\ L[i].what = "C-u" => L[j].what = "C-u"
    BY <1>1, <1>2, <2>1
  <2>3. o > m \/ (Only(L, "C-u") /\ ~Holds(E, s))
    <3>1. CASE Only(K, "C-u") /\ ~Holds(C, s)
      <4>1. k.what = "C-u" /\ Only(L, "C-u")
        BY <1>1, <1>2, <3>1 DEF Only
      <4>2. ~Holds(E, s)
        BY <3>1, <4>1, Composed DEF Holds
      <4>3. QED
        BY <4>1, <4>2
    <3>2. CASE n > m /\ k.what = "C-u" /\ E # C
      <4>1. \A i \in DOMAIN E : i \in DOMAIN C /\ i # Len(C) /\ E[i] = C[i]
        BY <3>2, Composed
      <4>2. \A i \in DOMAIN C : C[i].by = s => i = Len(C)
        BY <1>3, <1>11 DEF Follows
      <4>3. ~Holds(E, s)
        BY <4>1, <4>2 DEF Holds
      <4>4. Only(L, "C-u")
        BY <1>1, <1>2, <2>1, <3>2 DEF Only
      <4>5. QED
        BY <4>3, <4>4
    <3>3. CASE n > m /\ (k.what # "C-u" \/ (E = C /\ o = n))
      <4>1. CASE k.what = "paste"
        <5>1. o \in {n, n + 1}
          BY <1>3, <4>1, Composed
        <5>2. QED
          BY <1>3, <3>3, <5>1
      <4>2. CASE k.what # "paste"
        <5>1. o = n
          BY <3>3, <4>2, Composed
        <5>2. QED
          BY <3>3, <5>1
      <4>3. QED
        BY <4>1, <4>2
    <3>4. CASE n > m /\ k.what = "C-u" /\ E = C /\ o # n
      <4>1. \A i \in DOMAIN C : C[i].by = s => i = Len(C)
        BY <1>3, <1>11 DEF Follows
      <4>2. \A i \in DOMAIN C : i # Len(C)
        BY <3>4, Composed
      <4>3. ~Holds(E, s)
        BY <3>4, <4>1, <4>2 DEF Holds
      <4>4. Only(L, "C-u")
        BY <1>1, <1>2, <2>1, <3>4 DEF Only
      <4>5. QED
        BY <4>3, <4>4
    <3>5. QED
      BY <2>1, <3>1, <3>2, <3>3, <3>4
  <2>4. QED
    BY <1>1, <1>11, <2>2, <2>3 DEF Course
<1>12. CASE c.pc \in {"idle", "done"}
  BY <1>12 DEF Course
<1>13. QED
  <2>1. c \in CallType
    BY DEF Eaten
  <2>2. QED
    BY <1>7, <1>8, <1>9, <1>10, <1>11, <1>12, <2>1 DEF CallType

LEMMA FirstTaken ==
  ASSUME NEW w, NEW s, NEW c, NEW k, NEW K, NEW L, NEW C, NEW E, NEW D, NEW F,
         NEW n, NEW m, NEW o, Eaten(w, s, c, k, K, L, C, E, D, F, n, m, o),
         First(w, s, c.pc, n, m, K), \A i \in DOMAIN K : K[i].by = s
  PROVE  First(w, s, c.pc, o, m, L)
<1>1. PICK N \in Nat : /\ DOMAIN K = 1 .. N + 1 /\ DOMAIN L = 1 .. N /\ K[1] = k
                       /\ \A i \in 1 .. N : L[i] = K[i + 1]
  BY Shortened
<1>2. 1 \in 1 .. N + 1 /\ \A i \in 1 .. N : i + 1 \in 1 .. N + 1 /\ 1 < i + 1
  OBVIOUS
<1>3. n \in Nat /\ m \in Nat /\ o \in Nat /\ Single(s, c.pc, K, C, D)
  BY Unpack
<1>4. K # << >>
  BY DEF Eaten
<1>5. c.pc \notin {"idle", "baseline"}
  BY <1>4 DEF First
<1>6. c.pc \in {"set", "paste"} => Only(L, "C-u") /\ (Probing(w, s) => o <= m)
  <2> SUFFICES ASSUME c.pc \in {"set", "paste"} PROVE Only(L, "C-u") /\ (Probing(w, s) => o <= m)
    OBVIOUS
  <2>1. Only(K, "C-u") /\ (Probing(w, s) => n <= m)
    BY DEF First
  <2>2. k.what = "C-u" /\ Only(L, "C-u")
    <3>1. \A i \in 1 .. N + 1 : K[i].what = "C-u"
      BY <1>1, <2>1 DEF Only
    <3>2. QED
      BY <1>1, <1>2, <3>1 DEF Only
  <2>3. o <= n
    BY <1>3, <2>2, Composed
  <2>4. QED
    BY <1>3, <2>1, <2>2, <2>3
<1>7. No(K, "paste") => No(L, "paste")
  BY <1>1, <1>2 DEF No
<1>8. c.pc = "probe" => o <= m \/ No(L, "paste")
  <2> SUFFICES ASSUME c.pc = "probe", n <= m, ~(o <= m) PROVE No(L, "paste")
    BY <1>3, <1>7, Composed DEF First, No
  <2>1. k.what = "paste"
    BY <1>3, Composed
  <2>2. \A i, j \in 1 .. N + 1 : Pastes(K[i], s) /\ Pastes(K[j], s) => i = j
    BY <1>1, <1>3 DEF Single
  <2>3. \A i \in 1 .. N : L[i].what # "paste"
    BY <1>1, <1>2, <2>1, <2>2 DEF Pastes
  <2>4. QED
    BY <1>1, <2>3 DEF No
<1>9. \A i, j \in 1 .. N : i < j => ~(L[i].what = "paste" /\ L[j].what = "C-u")
  <2>1. \A i, j \in 1 .. N + 1 : i < j => ~(K[i].what = "paste" /\ K[j].what = "C-u")
    BY <1>1 DEF First
  <2>2. QED
    BY <1>1, <1>2, <2>1
<1>10. QED
  BY <1>1, <1>5, <1>6, <1>7, <1>8, <1>9 DEF First

\* A key the program takes keeps all of it.
LEMMA PartsTaken ==
  ASSUME NEW w, NEW s, NEW c, NEW k, NEW K, NEW L, NEW C, NEW E, NEW D, NEW F,
         NEW n, NEW m, NEW o, Eaten(w, s, c, k, K, L, C, E, D, F, n, m, o)
  PROVE  Parts(w, s, c, o, m, L, E, F)
  BY Unpack, CourseTaken, AimedTaken, FollowsTaken, SingleTaken, SinceTaken, WithheldTaken DEF Parts

-----------------------------------------------------------------------------
(* The pane in the state *)

View(C, D) == [composer |-> Texts(C), submitted |-> [i \in DOMAIN D |-> Texts(D[i].items)],
               popup |-> FALSE]

Count(C, D, T) == CountOccurrences(View(C, D), T)

LEMMA TextsTyped ==
  ASSUME NEW C \in Seq(Item)
  PROVE  /\ Texts(C) \in Seq(Text) /\ Len(Texts(C)) = Len(C)
         /\ DOMAIN Texts(C) = DOMAIN C
         /\ \A i \in DOMAIN C : Texts(C)[i] = C[i].text
<1>1. PICK N \in Nat : N = Len(C) /\ DOMAIN C = 1 .. N /\ \A i \in 1 .. N : C[i] \in Item
  OBVIOUS
<1>2. Texts(C) \in [1 .. N -> Text]
  BY <1>1 DEF Texts, Item
<1>3. DOMAIN Texts(C) = 1 .. N /\ \A i \in 1 .. N : Texts(C)[i] = C[i].text
  BY <1>1 DEF Texts
<1>4. QED
  BY <1>1, <1>2, <1>3

LEMMA ViewTyped ==
  ASSUME NEW C \in Seq(Item), NEW D \in Seq(SubmissionType)
  PROVE  /\ View(C, D) \in FrameType
         /\ Len(View(C, D).submitted) = Len(D)
         /\ DOMAIN View(C, D).submitted = DOMAIN D
         /\ \A i \in DOMAIN D : View(C, D).submitted[i] = Texts(D[i].items)
<1>1. PICK shown : shown = [i \in DOMAIN D |-> Texts(D[i].items)]
  OBVIOUS
<1>2. PICK N \in Nat : N = Len(D) /\ DOMAIN D = 1 .. N /\ \A i \in 1 .. N : D[i] \in SubmissionType
  OBVIOUS
<1>3. \A x \in SubmissionType : Texts(x.items) \in Seq(Text)
  BY TextsTyped DEF SubmissionType
<1>4. shown \in [1 .. N -> Seq(Text)]
  BY <1>1, <1>2, <1>3
<1>5. shown \in Seq(Seq(Text)) /\ Len(shown) = N
  BY <1>2, <1>4
<1>6. View(C, D) = [composer |-> Texts(C), submitted |-> shown, popup |-> FALSE]
  BY <1>1 DEF View
<1>7. View(C, D).submitted = shown /\ View(C, D) \in FrameType
  BY <1>5, <1>6, TextsTyped DEF FrameType
<1>8. QED
  BY <1>1, <1>2, <1>5, <1>7

LEMMA CountTyped ==
  ASSUME NEW C \in Seq(Item), NEW D \in Seq(SubmissionType), NEW T
  PROVE  Count(C, D, T) \in Nat
  BY ViewTyped, OccurrencesFinite DEF Count

\* What the engine counts in a capture of the pane.
LEMMA CountFrame ==
  ASSUME NEW p \in Pane, NEW T
  PROVE  /\ CountOccurrences(Frame(p), T) = Count(composer[p], submitted[p], T)
         /\ Frame(p).submitted = View(composer[p], submitted[p]).submitted
<1>1. /\ Frame(p).composer = View(composer[p], submitted[p]).composer
      /\ Frame(p).submitted = View(composer[p], submitted[p]).submitted
  BY DEF Frame, View
<1>2. Rows(Frame(p)) = Rows(View(composer[p], submitted[p]))
  BY <1>1 DEF Rows
<1>3. Occurrences(Frame(p), T) = Occurrences(View(composer[p], submitted[p]), T)
  BY <1>2 DEF Occurrences
<1>4. QED
  BY <1>1, <1>3 DEF CountOccurrences, Count

LEMMA CountOneMore ==
  ASSUME NEW C \in Seq(Item), NEW D \in Seq(SubmissionType), NEW T, NEW item \in Item
  PROVE  Count(Append(C, item), D, T) = Count(C, D, T) + (IF item.text \in T THEN 1 ELSE 0)
<1>1. PICK E \in Seq(Item) : E = Append(C, item)
  <2>1. Append(C, item) \in Seq(Item)
    OBVIOUS
  <2>2. QED
    BY <2>1, Zenon
<1>2. PICK N \in Nat : N = Len(C) /\ DOMAIN C = 1 .. N /\ DOMAIN E = 1 .. N + 1
                       /\ E[N + 1] = item /\ \A i \in 1 .. N : E[i] = C[i]
  BY <1>1
<1>3. item.text \in Text
  BY DEF Item
<1>4. Texts(E) = Append(Texts(C), item.text)
  <2>1. /\ Texts(C) \in Seq(Text) /\ Len(Texts(C)) = N /\ Texts(E) \in Seq(Text)
        /\ Len(Texts(E)) = N + 1
        /\ \A i \in 1 .. N : Texts(E)[i] = Texts(C)[i]
        /\ Texts(E)[N + 1] = item.text
    <3>1. Len(E) = N + 1
      BY <1>1, <1>2
    <3>2. QED
      BY <1>2, <3>1, TextsTyped
  <2>2. QED
    BY <1>3, <2>1
<1>5. /\ View(C, D) \in FrameType /\ View(E, D) \in FrameType
      /\ View(E, D).submitted = View(C, D).submitted
      /\ View(E, D).composer = Append(View(C, D).composer, item.text)
  BY <1>4, ViewTyped DEF View
<1>6. CountOccurrences(View(E, D), T)
        = CountOccurrences(View(C, D), T) + (IF item.text \in T THEN 1 ELSE 0)
  BY <1>3, <1>5, CountStaged
<1>7. QED
  BY <1>1, <1>6 DEF Count

LEMMA CountMoved ==
  ASSUME NEW C \in Seq(Item), NEW D \in Seq(SubmissionType), NEW T,
         NEW new \in SubmissionType, new.items = C
  PROVE  Count(<< >>, Append(D, new), T) = Count(C, D, T)
<1>1. PICK F \in Seq(SubmissionType) : F = Append(D, new)
  <2>1. Append(D, new) \in Seq(SubmissionType)
    OBVIOUS
  <2>2. QED
    BY <2>1, Zenon
<1>2. PICK N \in Nat : N = Len(D) /\ DOMAIN D = 1 .. N /\ DOMAIN F = 1 .. N + 1 /\ Len(F) = N + 1
                       /\ F[N + 1] = new /\ \A i \in 1 .. N : F[i] = D[i]
  BY <1>1
<1>3. << >> \in Seq(Item) /\ Texts(<< >>) = << >>
  <2>1. << >> \in Seq(Item) /\ Len(<< >>) = 0
    OBVIOUS
  <2>2. Texts(<< >>) \in Seq(Text) /\ Len(Texts(<< >>)) = 0
    BY <2>1, TextsTyped
  <2>3. QED
    BY <2>1, <2>2
<1>4. View(C, D) \in FrameType /\ View(<< >>, F) \in FrameType
  BY <1>3, ViewTyped
<1>5. View(<< >>, F).submitted = Append(View(C, D).submitted, View(C, D).composer)
  <2>1. PICK a, b : a = View(C, D).submitted /\ b = View(<< >>, F).submitted
    OBVIOUS
  <2>2. /\ a \in Seq(Seq(Text)) /\ b \in Seq(Seq(Text)) /\ Texts(C) \in Seq(Text)
        /\ Len(a) = N /\ Len(b) = N + 1
    BY <1>2, <1>3, <1>4, <2>1, ViewTyped, TextsTyped DEF FrameType
  <2>3. /\ \A i \in 1 .. N : a[i] = Texts(D[i].items)
        /\ \A i \in 1 .. N + 1 : b[i] = Texts(F[i].items)
    BY <1>2, <1>3, <2>1, ViewTyped
  <2>4. /\ \A i \in 1 .. N : b[i] = a[i]
        /\ b[N + 1] = Texts(C)
    BY <1>2, <2>3
  <2>5. b = Append(a, Texts(C))
    BY <2>2, <2>4
  <2>6. QED
    BY <2>1, <2>5 DEF View
<1>6. View(<< >>, F).composer = << >>
  BY <1>3 DEF View
<1>7. CountOccurrences(View(<< >>, F), T) = CountOccurrences(View(C, D), T)
  BY <1>4, <1>5, <1>6, CountSubmitted
<1>8. QED
  BY <1>1, <1>7 DEF Count

LEMMA CountLess ==
  ASSUME NEW C \in Seq(Item), NEW D \in Seq(SubmissionType), NEW T, NEW k \in 0 .. Len(C) - 1
  PROVE  Count(SubSeq(C, 1, k), D, T) <= Count(C, D, T)
<1>1. PICK N \in Nat : N = Len(C) /\ DOMAIN C = 1 .. N /\ k \in Nat /\ k < N
  OBVIOUS
<1>2. PICK E \in Seq(Item) : E = SubSeq(C, 1, k)
  <2>1. SubSeq(C, 1, k) \in Seq(Item)
    BY <1>1
  <2>2. QED
    BY <2>1, Zenon
<1>3. Len(E) = k /\ DOMAIN E = 1 .. k /\ \A i \in 1 .. k : E[i] = C[i] /\ i \in DOMAIN C
  BY <1>1, <1>2
<1>4. /\ Texts(C) \in Seq(Text) /\ Len(Texts(C)) = N /\ Texts(E) \in Seq(Text)
      /\ Len(Texts(E)) = k /\ \A i \in 1 .. k : Texts(E)[i] = Texts(C)[i]
  BY <1>1, <1>3, TextsTyped
<1>5. Texts(E) = SubSeq(Texts(C), 1, k)
  BY <1>1, <1>4
<1>6. /\ View(C, D) \in FrameType /\ View(E, D) \in FrameType
      /\ View(E, D).submitted = View(C, D).submitted
      /\ View(C, D).composer = Texts(C)
      /\ View(E, D).composer = SubSeq(View(C, D).composer, 1, k)
      /\ k \in 0 .. Len(View(C, D).composer) - 1
  BY <1>1, <1>4, <1>5, ViewTyped DEF View
<1>7. CountOccurrences(View(E, D), T) <= CountOccurrences(View(C, D), T)
  BY <1>6, CountCut
<1>8. QED
  BY <1>2, <1>7 DEF Count

-----------------------------------------------------------------------------
(* The invariant of a pane *)

Shown(s) == Count(composer[Where(s)], submitted[Where(s)], Like(setup, s))

Floor(s) == CountOccurrences(call[s].base, Like(setup, s))

\* No other call for the pane has begun.
Lone(s) == \A x \in Sender : x # s /\ Where(x) = Where(s) => call[x].pc = "idle"

\* Keys are sent by calls that have begun.
Begun == \A p \in Pane : \A i \in DOMAIN keys[p] : call[keys[p][i].by].pc # "idle"

Whole(s) == Parts(setup, s, call[s], Shown(s), Floor(s),
                  keys[Where(s)], composer[Where(s)], submitted[Where(s)])

Alone(s) == Lone(s) => First(setup, s, call[s].pc, Shown(s), Floor(s), keys[Where(s)])

Careful ==
  /\ Begun
  /\ \A s \in Sender : Paired(Where(s)) => Whole(s) /\ Alone(s)
  /\ NeverBlind

\* What has its type in a pane.
LEMMA PaneTyped ==
  ASSUME Inv, NEW s \in Sender
  PROVE  /\ setup \in Workloads /\ Where(s) \in Pane /\ call[s] \in CallType
         /\ keys[Where(s)] \in Seq(KeyType) /\ composer[Where(s)] \in Seq(Item)
         /\ submitted[Where(s)] \in Seq(SubmissionType)
         /\ Shown(s) \in Nat /\ Floor(s) \in Nat
<1>1. /\ setup \in Workloads /\ Where(s) \in Pane /\ call[s] \in CallType
      /\ keys[Where(s)] \in Seq(KeyType) /\ composer[Where(s)] \in Seq(Item)
      /\ submitted[Where(s)] \in Seq(SubmissionType)
  BY Jobs DEF Inv, Keys, Screen
<1>2. Shown(s) \in Nat
  BY <1>1, CountTyped DEF Shown
<1>3. call[s].base \in FrameType
  BY <1>1 DEF CallType
<1>4. Floor(s) \in Nat
  BY <1>3, OccurrencesFinite DEF Floor
<1>5. QED
  BY <1>1, <1>2, <1>4

\* The keys of another call do not concern a call that does not run.
LEMMA PartsOther ==
  ASSUME NEW w, NEW x, NEW c, NEW n, NEW m, NEW K \in Seq(KeyType), NEW L, NEW C, NEW D,
         NEW s \in Sender, NEW key \in {None, "paste", "enter", "C-u"}, s # x,
         Sends(K, L, s, key), c.pc \in {"idle", "done"},
         Parts(w, x, c, n, m, K, C, D)
  PROVE  Parts(w, x, c, n, m, L, C, D)
<1>1. CASE key = None
  BY <1>1 DEF Sends
<1>2. CASE key # None
  <2>1. PICK N \in Nat :
          /\ DOMAIN K = 1 .. N /\ DOMAIN L = 1 .. N + 1
          /\ L[N + 1].by = s /\ \A i \in 1 .. N : L[i] = K[i]
    BY <1>2, Grown
  <2>2. \A i \in 1 .. N + 1 : i \in 1 .. N \/ i = N + 1
    OBVIOUS
  <2>3. \A i \in 1 .. N + 1 : L[i].by = x => i \in 1 .. N /\ L[i] = K[i]
    BY <2>1, <2>2
  <2>4. Aimed(w, x, L, C)
    <3>1. Aimed(w, x, K, C)
      BY DEF Parts
    <3>2. \A i, j \in 1 .. N + 1 : i \in 1 .. N /\ j < i => j \in 1 .. N /\ L[j] = K[j]
      BY <2>1
    <3>3. QED
      BY <2>1, <2>3, <3>1, <3>2 DEF Aimed
  <2>5. Single(x, c.pc, L, C, D)
    <3>1. Single(x, c.pc, K, C, D)
      BY DEF Parts
    <3>2. \A i \in 1 .. N + 1 : Pastes(L[i], x) => i \in 1 .. N /\ Pastes(K[i], x)
      BY <2>3 DEF Pastes
    <3>3. Coming(L, x) => Coming(K, x)
      BY <2>1, <3>2 DEF Coming
    <3>4. \A i, j \in 1 .. N + 1 : Pastes(L[i], x) /\ Pastes(L[j], x) => i = j
      BY <2>1, <3>1, <3>2 DEF Single
    <3>5. QED
      BY <2>1, <3>1, <3>3, <3>4 DEF Single
  <2>6. Withheld(w, x, c, L, D)
    <3>1. Withheld(w, x, c, K, D)
      BY DEF Parts
    <3>2. QED
      BY <2>1, <2>3, <3>1 DEF Withheld
  <2>7. Follows(x, c.pc, L, C) /\ Course(w, x, c.pc, n, m, L, C)
    BY DEF Follows, Course
  <2>8. QED
    BY <2>4, <2>5, <2>6, <2>7 DEF Parts
<1>3. QED
  BY <1>1, <1>2

\* What the second call of a pane finds when it begins.
LEMMA BehindFirst ==
  ASSUME Inv, Careful, NEW s \in Sender, Paired(Where(s)), call[s].pc = "idle",
         paneLock[Where(s)] = None
  PROVE  /\ Behind(setup, s, keys[Where(s)])
         /\ \A i \in DOMAIN keys[Where(s)] : keys[Where(s)][i].by # s
<1>1. PICK K : K = keys[Where(s)]
  OBVIOUS
<1>2. Where(s) \in Pane /\ K \in Seq(KeyType) /\ MeantFor(Where(s), K)
  BY <1>1, PaneTyped DEF Inv, Keys
<1>3. ASSUME NEW i \in DOMAIN K
      PROVE  K[i].by \in Sender /\ Where(K[i].by) = Where(s) /\ call[K[i].by].pc # "idle" /\ K[i].by # s
  <2>1. K[i] \in KeyType
    BY <1>2, <1>3
  <2>2. K[i].by \in Sender /\ K[i].by # None
    BY <2>1, ConstantsOK DEF KeyType
  <2>3. QED
    BY <1>1, <1>2, <1>3, <2>2 DEF MeantFor, Careful, Begun
<1>4. ASSUME NEW i \in DOMAIN K, NEW j \in DOMAIN K, i < j, K[i].what = "paste"
      PROVE  K[j].what # "C-u" /\ K[j].what # "paste"
  <2>1. PICK f \in Sender : f = K[i].by /\ f # s /\ Where(f) = Where(s)
    BY <1>3, <1>4
  <2>2. \A x \in Sender : Where(x) = Where(s) => x \in {f, s}
    BY <2>1 DEF Paired
  <2>3. Lone(f)
    BY <2>1, <2>2 DEF Lone
  <2>4. /\ First(setup, f, call[f].pc, Shown(f), Floor(f), K)
        /\ Single(f, call[f].pc, K, composer[Where(s)], submitted[Where(s)])
    BY <1>1, <2>1, <2>3 DEF Careful, Alone, Whole, Parts
  <2>5. K[j].what # "C-u"
    BY <1>4, <2>4 DEF First
  <2>6. K[j].by = f
    BY <1>3, <1>4, <2>2
  <2>7. K[j].what # "paste"
    <3>1. K[j].what = "paste" => Pastes(K[i], f) /\ Pastes(K[j], f)
      BY <1>4, <2>1, <2>6 DEF Pastes
    <3>2. i # j
      BY <1>2, <1>4
    <3>3. QED
      BY <1>4, <2>4, <3>1, <3>2 DEF Single
  <2>8. QED
    BY <2>5, <2>7
<1>5. QED
  BY <1>1, <1>3, <1>4 DEF Behind

\* A step of a call.
LEMMA TurnCareful ==
  ASSUME Inv, Inv', Careful, NEW s \in Sender,
         NEW key \in {None, "paste", "enter", "C-u"}, NEW L,
         setup' = setup, UNCHANGED program,
         \A x \in Sender : x # s => call'[x] = call[x],
         \A p \in Pane : p # Where(s) => keys'[p] = keys[p],
         keys'[Where(s)] = L, Sends(keys[Where(s)], L, s, key),
         paneLock[Where(s)] \in {None, s},
         Turn(setup, s, call[s], call'[s], key, submitted[Where(s)],
              Shown(s), Floor(s), Floor(s)')
  PROVE  Careful'
<1>1. PICK p : p = Where(s)
  OBVIOUS
<1>2. \A x \in Sender : Where(x)' = Where(x) /\ Where(x) \in Pane
  BY PaneTyped DEF Where
<1>3. composer' = composer /\ submitted' = submitted
  BY DEF program
<1>4. \A x \in Sender : Shown(x)' = Shown(x)
  BY <1>2, <1>3 DEF Shown
<1>5. PICK c, d : c = call[s] /\ d = call'[s]
  OBVIOUS
<1>6. d.pc # "idle" /\ c.pc # "done"
  BY <1>5 DEF Turn
<1>7. \A x \in Sender : x # s /\ Where(x) = p => call[x].pc \in {"idle", "done"}
  <2> SUFFICES ASSUME NEW x \in Sender, x # s, Where(x) = p PROVE call[x].pc \in {"idle", "done"}
    OBVIOUS
  <2>1. paneLock[Where(x)] # x
    BY <1>1, PaneTyped, Jobs
  <2>2. QED
    BY <2>1, CallFacts DEF Running
<1>8. Begun'
  <2>1. ASSUME NEW q \in Pane, NEW i \in DOMAIN keys'[q]
        PROVE  call'[keys'[q][i].by].pc # "idle"
    <3>1. \A x \in Sender : call[x].pc # "idle" => call'[x].pc # "idle"
      BY <1>5, <1>6
    <3>2. /\ keys \in [Pane -> Seq(KeyType)]
          /\ \A j \in DOMAIN keys[q] : call[keys[q][j].by].pc # "idle"
      BY DEF Inv, Keys, Careful, Begun
    <3>3. \A j \in DOMAIN keys[q] : keys[q][j].by \in Sender
      <4>1. keys[q] \in Seq(KeyType)
        BY <3>2
      <4>2. \A j \in DOMAIN keys[q] : keys[q][j] \in KeyType
        BY <4>1
      <4>3. QED
        BY <4>2 DEF KeyType
    <3>4. CASE i \in DOMAIN keys[q] /\ keys'[q][i] = keys[q][i]
      BY <3>1, <3>2, <3>3, <3>4
    <3>5. CASE ~(i \in DOMAIN keys[q] /\ keys'[q][i] = keys[q][i])
      <4>1. q = p /\ keys[q] \in Seq(KeyType) /\ keys'[q] = L
        BY <1>1, <1>2, <2>1, <3>2, <3>5
      <4>2. key # None
        BY <1>1, <3>5, <4>1 DEF Sends
      <4>3. PICK N \in Nat : /\ DOMAIN keys[q] = 1 .. N /\ DOMAIN L = 1 .. N + 1
                             /\ L[N + 1].by = s /\ \A j \in 1 .. N : L[j] = keys[q][j]
        BY <1>1, <4>1, <4>2, Grown
      <4>4. i = N + 1
        BY <2>1, <3>5, <4>1, <4>3
      <4>5. QED
        BY <1>5, <1>6, <4>1, <4>3, <4>4
    <3>6. QED
      BY <3>4, <3>5
  <2>2. QED
    BY <2>1 DEF Begun
<1>9. \A x \in Sender : Paired(Where(x))' => Paired(Where(x))
  BY <1>2 DEF Paired
<1>10. ASSUME Paired(Where(s)) PROVE Whole(s)' /\ Alone(s)'
  <2>1. /\ setup \in Workloads /\ c \in CallType /\ d \in CallType
        /\ keys[p] \in Seq(KeyType) /\ composer[p] \in Seq(Item)
        /\ submitted[p] \in Seq(SubmissionType)
        /\ Shown(s) \in Nat /\ Floor(s) \in Nat
    BY <1>1, <1>5, PaneTyped DEF Inv
  <2>2. Floor(s)' \in Nat
    <3>1. d.base \in FrameType
      BY <2>1 DEF CallType
    <3>2. CountOccurrences(d.base, Like(setup, s)) \in Nat
      BY <3>1, OccurrencesFinite
    <3>3. QED
      BY <1>5, <3>2 DEF Floor
  <2>3. c.pc = "idle" => Behind(setup, s, keys[p]) /\ \A i \in DOMAIN keys[p] : keys[p][i].by # s
    <3>1. c.pc = "idle" => paneLock[Where(s)] = None
      BY <1>5 DEF Inv, Locks, Running
    <3>2. QED
      BY <1>1, <1>5, <1>10, <3>1, BehindFirst
  <2>4. PICK o \in Nat : o = Floor(s)'
    BY <2>2
  <2>5. Parts(setup, s, c, Shown(s), Floor(s), keys[p], composer[p], submitted[p])
    BY <1>1, <1>5, <1>10 DEF Careful, Whole
  <2>6. Typed(setup, s, c, d, key, keys[p], L, composer[p], submitted[p], Shown(s), Floor(s), o)
    BY <1>1, <1>5, <2>1, <2>3, <2>4, <2>5 DEF Typed
  <2>7. Parts(setup, s, d, Shown(s), o, L, composer[p], submitted[p])
    BY <2>6, PartsTurn
  <2>8. Whole(s)'
    BY <1>1, <1>2, <1>3, <1>4, <1>5, <2>4, <2>7 DEF Whole
  <2>9. Lone(s)' => First(setup, s, d.pc, Shown(s), o, L)
    <3>1. Lone(s)' => Lone(s)
      BY <1>2 DEF Lone
    <3>2. Lone(s) => First(setup, s, c.pc, Shown(s), Floor(s), keys[p])
      BY <1>1, <1>5, <1>10 DEF Careful, Alone
    <3>3. QED
      BY <2>6, <3>1, <3>2, FirstTurn
  <2>10. Alone(s)'
    BY <1>1, <1>2, <1>4, <1>5, <2>4, <2>9 DEF Alone
  <2>11. QED
    BY <2>8, <2>10
<1>11. ASSUME NEW x \in Sender, x # s, Where(x) = p, Paired(Where(x))
       PROVE  Whole(x)' /\ Alone(x)'
  <2>1. call[x].pc \in {"idle", "done"} /\ call'[x] = call[x]
    BY <1>7, <1>11
  <2>2. Parts(setup, x, call[x], Shown(x), Floor(x), keys[p], composer[p], submitted[p])
    BY <1>11 DEF Careful, Whole
  <2>3. keys[p] \in Seq(KeyType)
    BY <1>1, PaneTyped
  <2>4. Parts(setup, x, call[x], Shown(x), Floor(x), L, composer[p], submitted[p])
    BY <1>1, <1>11, <2>1, <2>2, <2>3, PartsOther
  <2>5. Floor(x)' = Floor(x)
    BY <2>1 DEF Floor
  <2>6. Whole(x)'
    BY <1>1, <1>2, <1>3, <1>4, <1>11, <2>1, <2>4, <2>5 DEF Whole
  <2>7. ~Lone(x)'
    BY <1>1, <1>2, <1>5, <1>6, <1>11 DEF Lone
  <2>8. QED
    BY <2>6, <2>7 DEF Alone
<1>12. ASSUME NEW x \in Sender, Where(x) # p, Paired(Where(x))
       PROVE  Whole(x)' /\ Alone(x)'
  <2>1. x # s /\ call'[x] = call[x] /\ keys'[Where(x)] = keys[Where(x)]
    BY <1>1, <1>2, <1>12
  <2>2. Floor(x)' = Floor(x)
    BY <2>1 DEF Floor
  <2>3. Whole(x) /\ Alone(x)
    BY <1>12 DEF Careful
  <2>4. Whole(x)'
    BY <1>2, <1>3, <1>4, <2>1, <2>2, <2>3 DEF Whole
  <2>5. Lone(x)' => Lone(x)
    BY <1>1, <1>2, <1>12 DEF Lone
  <2>6. Alone(x)'
    BY <1>2, <1>4, <2>1, <2>2, <2>3, <2>5 DEF Alone
  <2>7. QED
    BY <2>4, <2>6
<1>13. NeverBlind'
  <2>1. \A q \in Pane : Paired(q)' => Paired(q)
    BY <1>2 DEF Paired
  <2>2. \A x : Kind(x)' = Kind(x) /\ LookAlikes(x)' = LookAlikes(x)
    BY DEF Kind, LookAlikes
  <2>3. NeverBlind
    BY DEF Careful
  <2>4. QED
    BY <1>3, <2>1, <2>2, <2>3 DEF NeverBlind
<1>14. QED
  BY <1>1, <1>8, <1>9, <1>10, <1>11, <1>12, <1>13 DEF Careful

-----------------------------------------------------------------------------
(* Each step of a call *)

\* A step that changes nothing but where the call stands, and perhaps sends a key.
LEMMA GoesCarefully ==
  ASSUME Inv, Inv', Careful, NEW s \in Sender,
         NEW key \in {None, "paste", "enter", "C-u"}, NEW d,
         setup' = setup, UNCHANGED program,
         call' = [call EXCEPT ![s] = d],
         IF key = None THEN keys' = keys ELSE
           keys' = [keys EXCEPT ![Where(s)] = Append(@, [by |-> s, what |-> key])],
         paneLock[Where(s)] \in {None, s},
         Turn(setup, s, call[s], d, key, submitted[Where(s)], Shown(s), Floor(s),
              CountOccurrences(d.base, Like(setup, s)))
  PROVE  Careful'
<1>1. /\ call \in [Sender -> CallType] /\ keys \in [Pane -> Seq(KeyType)] /\ Where(s) \in Pane
  BY Jobs DEF Inv, Keys
<1>2. call'[s] = d /\ \A x \in Sender : x # s => call'[x] = call[x]
  BY <1>1
<1>3. PICK L : L = keys'[Where(s)]
  OBVIOUS
<1>4. Sends(keys[Where(s)], L, s, key) /\ \A p \in Pane : p # Where(s) => keys'[p] = keys[p]
  BY <1>1, <1>3 DEF Sends
<1>5. Floor(s)' = CountOccurrences(d.base, Like(setup, s))
  BY <1>2 DEF Floor
<1>6. QED
  BY <1>2, <1>3, <1>4, <1>5, TurnCareful

\* A call that returns.
LEMMA EndsCarefully ==
  ASSUME Inv, Inv', Careful, NEW s \in Sender, NEW result,
         NEW key \in {None, "paste", "enter", "C-u"},
         setup' = setup, UNCHANGED program, Finish(s, result),
         IF key = None THEN keys' = keys ELSE
           keys' = [keys EXCEPT ![Where(s)] = Append(@, [by |-> s, what |-> key])],
         paneLock[Where(s)] \in {None, s}, call[s].pc # "done",
         \/ /\ key = None
            /\ result \in {"error", "probe"} =>
                 \/ setup.job[s].kind = "enter"
                 \/ call[s].pc \in {"idle", "baseline", "set", "paste", "probe"}
         \/ key = "paste" /\ call[s].pc = "paste"
         \/ /\ key = "enter" /\ call[s].pc \in {"popup", "enter"}
            /\ result \in {"error", "probe"} => setup.job[s].kind = "enter"
         \/ key = "C-u" /\ call[s].pc = "clear" /\ result \notin {"error", "probe"}
  PROVE  Careful'
<1>1. PICK d : d = [Idle EXCEPT !.pc = "done", !.result = result]
  OBVIOUS
<1>2. d.pc = "done" /\ d.result = result
  BY <1>1 DEF Idle
<1>3. call' = [call EXCEPT ![s] = d]
  BY <1>1 DEF Finish
<1>4. Turn(setup, s, call[s], d, key, submitted[Where(s)], Shown(s), Floor(s),
           CountOccurrences(d.base, Like(setup, s)))
  BY <1>2 DEF Turn
<1>5. QED
  BY <1>3, <1>4, GoesCarefully

\* A call that goes on, and keeps its baseline.
LEMMA OnCarefully ==
  ASSUME Inv, Inv', Careful, NEW s \in Sender, NEW pc, NEW d,
         NEW key \in {None, "paste", "enter", "C-u"},
         setup' = setup, UNCHANGED program,
         call' = [call EXCEPT ![s] = d],
         d.pc = pc, d.base = call[s].base, d.result = None,
         IF key = None THEN keys' = keys ELSE
           keys' = [keys EXCEPT ![Where(s)] = Append(@, [by |-> s, what |-> key])],
         paneLock[Where(s)] = s,
         \/ call[s].pc = "set" /\ pc = "paste" /\ key = None
         \/ call[s].pc = "paste" /\ pc = "probe" /\ key = "paste" /\ setup.job[s].kind # "raw"
         \/ call[s].pc = "probe" /\ pc = "probe" /\ key = None
         \/ call[s].pc = "probe" /\ pc \in {"popup", "enter"} /\ key = None /\ Shown(s) > Floor(s)
         \/ call[s].pc = "popup" /\ pc = "recapture" /\ key = "enter"
         \/ call[s].pc = "recapture" /\ pc = "enter" /\ key = None
         \/ call[s].pc = "enter" /\ pc = "verify" /\ key = "enter" /\ setup.job[s].kind # "enter"
         \/ call[s].pc = "verify" /\ pc = "verify" /\ key = None
         \/ call[s].pc = "verify" /\ pc = "clear" /\ key = None /\ Shown(s) > Floor(s)
         \/ call[s].pc = "clear" /\ pc = "cleared" /\ key = "C-u"
         \/ call[s].pc = "cleared" /\ pc = "clear" /\ key = None
  PROVE  Careful'
<1>1. CountOccurrences(d.base, Like(setup, s)) = Floor(s)
  BY DEF Floor
<1>2. Turn(setup, s, call[s], d, key, submitted[Where(s)], Shown(s), Floor(s), Floor(s))
  BY DEF Turn
<1>3. QED
  BY <1>1, <1>2, GoesCarefully

\* The engine's own counts.
LEMMA EchoCounts ==
  ASSUME Inv, NEW s \in Sender
  PROVE  /\ Echoed(s, Frame(Where(s))) <=> Shown(s) > Floor(s)
         /\ CountOccurrences(Frame(Where(s)), Like(setup, s)) = Shown(s)
         /\ Len(Frame(Where(s)).submitted) = Len(submitted[Where(s)])
<1>1. LookAlikes(s) = Like(setup, s)
  BY DEF LookAlikes, Like
<1>2. /\ Where(s) \in Pane /\ composer[Where(s)] \in Seq(Item)
      /\ submitted[Where(s)] \in Seq(SubmissionType)
  BY PaneTyped
<1>3. CountOccurrences(Frame(Where(s)), Like(setup, s)) = Shown(s)
  BY <1>2, CountFrame DEF Shown
<1>4. Len(Frame(Where(s)).submitted) = Len(submitted[Where(s)])
  BY <1>2, CountFrame, ViewTyped
<1>5. QED
  BY <1>1, <1>3, <1>4 DEF Echoed, Floor

\* The record that a Goto or an Again leaves.
LEMMA Moved ==
  ASSUME Inv, NEW s \in Sender, NEW pc, Goto(s, pc) \/ Again(s, pc)
  PROVE  \E d : /\ call' = [call EXCEPT ![s] = d]
                /\ d.pc = pc /\ d.base = call[s].base /\ d.result = call[s].result
<1>1. PICK n : call' = [call EXCEPT ![s].pc = pc, ![s].tries = n]
  BY DEF Goto, Again
<1>2. PICK d : d = [call[s] EXCEPT !.pc = pc, !.tries = n]
  OBVIOUS
<1>3. call[s] \in CallType /\ call \in [Sender -> CallType]
  BY DEF Inv
<1>4. d.pc = pc /\ d.base = call[s].base /\ d.result = call[s].result
  BY <1>2, <1>3 DEF CallType
<1>5. call' = [call EXCEPT ![s] = d]
  BY <1>1, <1>2, <1>3
<1>6. QED
  BY <1>4, <1>5

\* What a running call has besides.
LEMMA Runs ==
  ASSUME Inv, NEW s \in Sender, call[s].pc \notin {"idle", "done"}
  PROVE  paneLock[Where(s)] = s /\ call[s].result = None
  BY CallFacts DEF Running

LEMMA BeginCarefully ==
  ASSUME Inv, Inv', Careful, NEW s \in Sender, Begin(s) PROVE Careful'
<1>1. /\ setup' = setup /\ keys' = keys /\ UNCHANGED program
      /\ call[s].pc = "idle" /\ paneLock[Where(s)] = None
  BY DEF Begin, At, MayEnter
<1>2. CASE Goto(s, CASE setup.job[s].kind = "raw" -> "set"
                     [] setup.job[s].kind = "enter" -> "enter"
                     [] OTHER -> "baseline")
  <2>1. PICK pc : /\ Goto(s, pc)
                  /\ \/ setup.job[s].kind = "raw" /\ pc = "set"
                     \/ setup.job[s].kind = "enter" /\ pc = "enter"
                     \/ Probing(setup, s) /\ pc = "baseline"
    <3>1. setup.job[s].kind \in {"send", "insert", "raw", "enter"}
      BY Jobs DEF Inv
    <3>2. CASE setup.job[s].kind = "raw"
      BY <1>2, <3>2
    <3>3. CASE setup.job[s].kind = "enter"
      BY <1>2, <3>3
    <3>4. CASE setup.job[s].kind \in {"send", "insert"}
      BY <1>2, <3>4 DEF Probing
    <3>5. QED
      BY <3>1, <3>2, <3>3, <3>4
  <2>2. PICK d : call' = [call EXCEPT ![s] = d] /\ d.pc = pc /\ d.result = call[s].result
    BY <2>1, Moved
  <2>3. call[s].result = None
    BY <1>1, CallFacts DEF At
  <2>4. Turn(setup, s, call[s], d, None, submitted[Where(s)], Shown(s), Floor(s),
             CountOccurrences(d.base, Like(setup, s)))
    BY <1>1, <2>1, <2>2, <2>3 DEF Turn
  <2>5. QED
    BY <1>1, <2>2, <2>4, GoesCarefully
<1>3. CASE Finish(s, "error")
  BY <1>1, <1>3, EndsCarefully
<1>4. QED
  BY <1>2, <1>3 DEF Begin

LEMMA BaselineCarefully ==
  ASSUME Inv, Inv', Careful, NEW s \in Sender, CaptureBaseline(s) PROVE Careful'
<1>1. /\ setup' = setup /\ keys' = keys /\ UNCHANGED program /\ call[s].pc = "baseline"
  BY DEF CaptureBaseline, At
<1>2. paneLock[Where(s)] = s /\ call[s].result = None /\ call[s] \in CallType /\ call \in [Sender -> CallType]
  BY <1>1, Runs DEF Inv
<1>3. CASE call' = [call EXCEPT ![s].pc = "set", ![s].base = Frame(Where(s))]
  <2>1. PICK d : d = [call[s] EXCEPT !.pc = "set", !.base = Frame(Where(s))]
    OBVIOUS
  <2>2. d.pc = "set" /\ d.base = Frame(Where(s)) /\ d.result = None
    BY <1>2, <2>1 DEF CallType
  <2>3. call' = [call EXCEPT ![s] = d]
    BY <1>2, <1>3, <2>1
  <2>4. Turn(setup, s, call[s], d, None, submitted[Where(s)], Shown(s), Floor(s),
             CountOccurrences(d.base, Like(setup, s)))
    BY <1>1, <2>2, EchoCounts DEF Turn
  <2>5. QED
    BY <1>1, <1>2, <2>3, <2>4, GoesCarefully
<1>4. CASE Finish(s, "error")
  BY <1>1, <1>2, <1>4, EndsCarefully
<1>5. QED
  BY <1>3, <1>4 DEF CaptureBaseline

LEMMA SetBufferCarefully ==
  ASSUME Inv, Inv', Careful, NEW s \in Sender, SetBuffer(s) PROVE Careful'
<1>1. /\ setup' = setup /\ keys' = keys /\ UNCHANGED program /\ call[s].pc = "set"
  BY DEF SetBuffer, At
<1>2. paneLock[Where(s)] = s /\ call[s].result = None
  BY <1>1, Runs
<1>3. CASE Goto(s, "paste")
  <2>1. PICK d : /\ call' = [call EXCEPT ![s] = d]
                 /\ d.pc = "paste" /\ d.base = call[s].base /\ d.result = call[s].result
    BY <1>3, Moved
  <2>2. QED
    BY <1>1, <1>2, <2>1, OnCarefully
<1>4. CASE Finish(s, "error")
  BY <1>1, <1>2, <1>4, EndsCarefully
<1>5. QED
  BY <1>3, <1>4 DEF SetBuffer

LEMMA PasteBufferCarefully ==
  ASSUME Inv, Inv', Careful, NEW s \in Sender, PasteBuffer(s) PROVE Careful'
<1>1. /\ setup' = setup /\ UNCHANGED program /\ call[s].pc = "paste"
  BY DEF PasteBuffer, At
<1>2. paneLock[Where(s)] = s /\ call[s].result = None /\ buffer = s
  BY <1>1, Runs, CallFacts DEF Inv, BufferHeld, At
<1>3. Pasted(s) => keys' = [keys EXCEPT ![Where(s)] = Append(@, [by |-> s, what |-> "paste"])]
  BY <1>2 DEF Pasted
<1>4. CASE Pasted(s) /\ setup.job[s].kind # "raw" /\ Goto(s, "probe")
  <2>1. PICK d : /\ call' = [call EXCEPT ![s] = d]
                 /\ d.pc = "probe" /\ d.base = call[s].base /\ d.result = call[s].result
    BY <1>4, Moved
  <2>2. QED
    BY <1>1, <1>2, <1>3, <1>4, <2>1, OnCarefully DEF None
<1>5. CASE Pasted(s) /\ \E result : Finish(s, result)
  BY <1>1, <1>2, <1>3, <1>5, EndsCarefully DEF None
<1>6. CASE keys' = keys /\ Finish(s, "error")
  BY <1>1, <1>2, <1>6, EndsCarefully
<1>7. QED
  BY <1>4, <1>5, <1>6 DEF PasteBuffer

LEMMA ProbeEchoCarefully ==
  ASSUME Inv, Inv', Careful, NEW s \in Sender, ProbeEcho(s) PROVE Careful'
<1>1. /\ setup' = setup /\ keys' = keys /\ UNCHANGED program /\ call[s].pc = "probe"
  BY DEF ProbeEcho, At
<1>2. paneLock[Where(s)] = s /\ call[s].result = None /\ call[s] \in CallType /\ call \in [Sender -> CallType]
  BY <1>1, Runs DEF Inv
<1>3. CASE /\ Echoed(s, Frame(Where(s)))
           /\ call' = [call EXCEPT
                ![s].pc = IF popupNewlyOpen(Frame(Where(s)), call[s].base) THEN "popup" ELSE "enter",
                ![s].pre = Frame(Where(s))]
  <2>1. PICK pc \in {"popup", "enter"} :
          call' = [call EXCEPT ![s].pc = pc, ![s].pre = Frame(Where(s))]
    BY <1>3
  <2>2. PICK d : d = [call[s] EXCEPT !.pc = pc, !.pre = Frame(Where(s))]
    OBVIOUS
  <2>3. d.pc = pc /\ d.base = call[s].base /\ d.result = None
    BY <1>2, <2>2 DEF CallType
  <2>4. call' = [call EXCEPT ![s] = d]
    BY <1>2, <2>1, <2>2
  <2>5. Shown(s) > Floor(s)
    BY <1>3, EchoCounts
  <2>6. QED
    BY <1>1, <1>2, <2>3, <2>4, <2>5, OnCarefully
<1>4. CASE Again(s, "probe")
  <2>1. PICK d : /\ call' = [call EXCEPT ![s] = d]
                 /\ d.pc = "probe" /\ d.base = call[s].base /\ d.result = call[s].result
    BY <1>4, Moved
  <2>2. QED
    BY <1>1, <1>2, <2>1, OnCarefully
<1>5. CASE \E result : Finish(s, result)
  BY <1>1, <1>2, <1>5, EndsCarefully
<1>6. QED
  BY <1>3, <1>4, <1>5 DEF ProbeEcho

LEMMA PopupEnterCarefully ==
  ASSUME Inv, Inv', Careful, NEW s \in Sender, PopupEnter(s) PROVE Careful'
<1>1. setup' = setup /\ UNCHANGED program /\ call[s].pc = "popup"
  BY DEF PopupEnter, At
<1>2. paneLock[Where(s)] = s /\ call[s].result = None
  BY <1>1, Runs
<1>3. CASE SendKey(s, "enter") /\ Goto(s, "recapture")
  <2>1. PICK d : /\ call' = [call EXCEPT ![s] = d]
                 /\ d.pc = "recapture" /\ d.base = call[s].base /\ d.result = call[s].result
    BY <1>3, Moved
  <2>2. QED
    BY <1>1, <1>2, <1>3, <2>1, OnCarefully DEF SendKey, None
<1>4. CASE SendKey(s, "enter") /\ Finish(s, "staged")
  BY <1>1, <1>2, <1>4, EndsCarefully DEF SendKey, None
<1>5. CASE keys' = keys /\ Finish(s, "staged")
  BY <1>1, <1>2, <1>5, EndsCarefully
<1>6. QED
  BY <1>3, <1>4, <1>5 DEF PopupEnter

LEMMA RecaptureCarefully ==
  ASSUME Inv, Inv', Careful, NEW s \in Sender, PopupCapture(s) PROVE Careful'
<1>1. setup' = setup /\ keys' = keys /\ UNCHANGED program /\ call[s].pc = "recapture"
  BY DEF PopupCapture, At
<1>2. paneLock[Where(s)] = s /\ call[s].result = None /\ call[s] \in CallType /\ call \in [Sender -> CallType]
  BY <1>1, Runs DEF Inv
<1>3. CASE call' = [call EXCEPT ![s].pc = "enter", ![s].pre = Frame(Where(s))]
  <2>1. PICK d : d = [call[s] EXCEPT !.pc = "enter", !.pre = Frame(Where(s))]
    OBVIOUS
  <2>2. d.pc = "enter" /\ d.base = call[s].base /\ d.result = None
    BY <1>2, <2>1 DEF CallType
  <2>3. call' = [call EXCEPT ![s] = d]
    BY <1>2, <1>3, <2>1
  <2>4. QED
    BY <1>1, <1>2, <2>2, <2>3, OnCarefully
<1>4. CASE Finish(s, "staged")
  BY <1>1, <1>2, <1>4, EndsCarefully
<1>5. QED
  BY <1>3, <1>4 DEF PopupCapture

LEMMA SendEnterCarefully ==
  ASSUME Inv, Inv', Careful, NEW s \in Sender, SendEnter(s) PROVE Careful'
<1>1. setup' = setup /\ UNCHANGED program /\ call[s].pc = "enter"
  BY DEF SendEnter, At
<1>2. paneLock[Where(s)] = s /\ call[s].result = None
  BY <1>1, Runs
<1>3. CASE SendKey(s, "enter") /\ setup.job[s].kind # "enter" /\ Goto(s, "verify")
  <2>1. PICK d : /\ call' = [call EXCEPT ![s] = d]
                 /\ d.pc = "verify" /\ d.base = call[s].base /\ d.result = call[s].result
    BY <1>3, Moved
  <2>2. QED
    BY <1>1, <1>2, <1>3, <2>1, OnCarefully DEF SendKey, None
<1>4. CASE /\ SendKey(s, "enter") \/ keys' = keys
           /\ \E result : /\ Finish(s, result)
                          /\ result \in {"error", "probe"} => setup.job[s].kind = "enter"
  <2>1. PICK result : /\ Finish(s, result)
                      /\ result \in {"error", "probe"} => setup.job[s].kind = "enter"
    BY <1>4
  <2>2. CASE SendKey(s, "enter")
    BY <1>1, <1>2, <2>1, <2>2, EndsCarefully DEF SendKey, None
  <2>3. CASE keys' = keys
    BY <1>1, <1>2, <2>1, <2>3, EndsCarefully
  <2>4. QED
    BY <1>4, <2>2, <2>3
<1>5. CASE (SendKey(s, "enter") \/ keys' = keys) /\ Finish(s, IF setup.job[s].kind = "enter" THEN "error" ELSE "staged")
  BY <1>4, <1>5
<1>6. CASE SendKey(s, "enter") /\ setup.job[s].kind = "enter" /\ Finish(s, "sent")
  BY <1>4, <1>6
<1>7. QED
  BY <1>3, <1>5, <1>6 DEF SendEnter

LEMMA VerifySubmitCarefully ==
  ASSUME Inv, Inv', Careful, NEW s \in Sender, VerifySubmit(s) PROVE Careful'
<1>1. setup' = setup /\ keys' = keys /\ UNCHANGED program /\ call[s].pc = "verify"
  BY DEF VerifySubmit, At
<1>2. paneLock[Where(s)] = s /\ call[s].result = None
  BY <1>1, Runs
<1>3. CASE Again(s, "verify")
  <2>1. PICK d : /\ call' = [call EXCEPT ![s] = d]
                 /\ d.pc = "verify" /\ d.base = call[s].base /\ d.result = call[s].result
    BY <1>3, Moved
  <2>2. QED
    BY <1>1, <1>2, <2>1, OnCarefully
<1>4. CASE Echoed(s, Frame(Where(s))) /\ Goto(s, "clear")
  <2>1. PICK d : /\ call' = [call EXCEPT ![s] = d]
                 /\ d.pc = "clear" /\ d.base = call[s].base /\ d.result = call[s].result
    BY <1>4, Moved
  <2>2. Shown(s) > Floor(s)
    BY <1>4, EchoCounts
  <2>3. QED
    BY <1>1, <1>2, <2>1, <2>2, OnCarefully
<1>5. CASE \E result \in {"ok", "unverified"} : Finish(s, result)
  BY <1>1, <1>2, <1>5, EndsCarefully
<1>6. QED
  BY <1>3, <1>4, <1>5 DEF VerifySubmit

LEMMA ClearCarefully ==
  ASSUME Inv, Inv', Careful, NEW s \in Sender, ClearComposer(s) PROVE Careful'
<1>1. setup' = setup /\ UNCHANGED program /\ call[s].pc = "clear"
  BY DEF ClearComposer, At
<1>2. paneLock[Where(s)] = s /\ call[s].result = None /\ call[s] \in CallType /\ call \in [Sender -> CallType]
  BY <1>1, Runs DEF Inv
<1>3. CASE SendKey(s, "C-u") /\ call' = [call EXCEPT ![s].pc = "cleared"]
  <2>1. PICK d : d = [call[s] EXCEPT !.pc = "cleared"]
    OBVIOUS
  <2>2. d.pc = "cleared" /\ d.base = call[s].base /\ d.result = None
    BY <1>2, <2>1 DEF CallType
  <2>3. call' = [call EXCEPT ![s] = d]
    BY <1>2, <1>3, <2>1
  <2>4. QED
    BY <1>1, <1>2, <1>3, <2>2, <2>3, OnCarefully DEF SendKey, None
<1>4. CASE SendKey(s, "C-u") /\ Finish(s, "unverified")
  BY <1>1, <1>2, <1>4, EndsCarefully DEF SendKey, None
<1>5. CASE keys' = keys /\ Finish(s, "unverified")
  BY <1>1, <1>2, <1>5, EndsCarefully
<1>6. QED
  BY <1>3, <1>4, <1>5 DEF ClearComposer

LEMMA ClearCaptureCarefully ==
  ASSUME Inv, Inv', Careful, NEW s \in Sender, ClearCapture(s) PROVE Careful'
<1>1. setup' = setup /\ keys' = keys /\ UNCHANGED program /\ call[s].pc = "cleared"
  BY DEF ClearCapture, At
<1>2. paneLock[Where(s)] = s /\ call[s].result = None
  BY <1>1, Runs
<1>3. CASE /\ Restored(s)
           /\ call' = [call EXCEPT ![s] =
                [Idle EXCEPT !.pc = "set", !.base = Frame(Where(s)), !.retries = call[s].retries + 1]]
  <2>1. PICK d : d = [Idle EXCEPT !.pc = "set", !.base = Frame(Where(s)),
                                  !.retries = call[s].retries + 1]
    OBVIOUS
  <2>2. d.pc = "set" /\ d.base = Frame(Where(s)) /\ d.result = None
    BY <2>1 DEF Idle
  <2>3. call' = [call EXCEPT ![s] = d]
    BY <1>3, <2>1
  <2>4. call[s].base = Frame(Where(s))
    BY <1>3 DEF Restored
  <2>5. Turn(setup, s, call[s], d, None, submitted[Where(s)], Shown(s), Floor(s),
             CountOccurrences(d.base, Like(setup, s)))
    BY <1>1, <2>2, <2>4, EchoCounts DEF Turn, Floor
  <2>6. QED
    BY <1>1, <1>2, <2>3, <2>5, GoesCarefully
<1>4. CASE Again(s, "clear")
  <2>1. PICK d : /\ call' = [call EXCEPT ![s] = d]
                 /\ d.pc = "clear" /\ d.base = call[s].base /\ d.result = call[s].result
    BY <1>4, Moved
  <2>2. QED
    BY <1>1, <1>2, <2>1, OnCarefully
<1>5. CASE Finish(s, "unverified")
  BY <1>1, <1>2, <1>5, EndsCarefully
<1>6. QED
  BY <1>3, <1>4, <1>5 DEF ClearCapture

-----------------------------------------------------------------------------
(* The program takes a key, or closes its popup *)

\* What the program does to a pane, as one of the four cases of Taken.
LEMMA TakesKey ==
  ASSUME Inv, NEW p \in Pane, Takes(p), NEW s \in Sender, Where(s) = p
  PROVE  Taken(setup, s, Head(keys[p]), composer[p], composer'[p], submitted[p], submitted'[p],
               Shown(s), Count(composer'[p], submitted'[p], Like(setup, s)))
<1> DEFINE T == Like(setup, s)
<1>1. PICK k, C, D : k = Head(keys[p]) /\ C = composer[p] /\ D = submitted[p]
  OBVIOUS
<1>2. /\ C \in Seq(Item) /\ D \in Seq(SubmissionType) /\ setup \in Workloads
      /\ composer \in [Pane -> Seq(Item)] /\ submitted \in [Pane -> Seq(SubmissionType)]
      /\ Shown(s) = Count(C, D, T) /\ Count(C, D, T) \in Nat
  BY <1>1, PaneTyped DEF Inv, Screen, Shown
<1>3. k \in KeyType /\ k.by \in Sender
  <2>1. keys[p] # << >> /\ keys' = [keys EXCEPT ![p] = Tail(@)] /\ setup' = setup
    BY DEF Takes
  <2>2. k \in KeyType
    BY <1>1, <2>1, KeyTaken
  <2>3. QED
    BY <2>2 DEF KeyType
<1> HIDE DEF T
<1>4. CASE UNCHANGED program
  <2>1. composer'[p] = C /\ submitted'[p] = D
    BY <1>1, <1>4 DEF program
  <2>2. QED
    BY <1>1, <1>2, <2>1 DEF Taken, T
<1>5. CASE /\ k.what = "paste"
           /\ Stage(p, [by |-> k.by, text |-> setup.job[k.by].text])
           /\ UNCHANGED submitted
  <2>1. PICK item : item = [by |-> k.by, text |-> setup.job[k.by].text]
    OBVIOUS
  <2>2. item \in Item /\ item.text = setup.job[k.by].text
    BY <1>2, <1>3, <2>1, Jobs DEF Item
  <2>3. composer'[p] = Append(C, item) /\ submitted'[p] = D
    BY <1>1, <1>2, <1>5, <2>1 DEF Stage
  <2>4. Count(Append(C, item), D, T) = Count(C, D, T) + (IF item.text \in T THEN 1 ELSE 0)
    BY <1>2, <2>2, CountOneMore
  <2>5. item.text \in T <=> Alike(setup, s, k)
    BY <2>2 DEF T, Alike
  <2>6. Count(composer'[p], submitted'[p], T)
          = Count(C, D, T) + (IF Alike(setup, s, k) THEN 1 ELSE 0)
    BY <2>3, <2>4, <2>5
  <2>7. QED
    BY <1>1, <1>2, <1>5, <2>1, <2>3, <2>6 DEF Taken, T
<1>6. CASE UNCHANGED <<composer, submitted>>
  <2>1. composer'[p] = C /\ submitted'[p] = D
    BY <1>1, <1>6
  <2>2. QED
    BY <1>1, <1>2, <2>1 DEF Taken, T
<1>7. CASE /\ k.what = "enter" /\ composer[p] # << >>
           /\ submitted' = [submitted EXCEPT ![p] = Append(@, [by |-> k.by, items |-> composer[p]])]
           /\ composer' = [composer EXCEPT ![p] = << >>]
  <2>1. PICK new : new = [by |-> k.by, items |-> C]
    OBVIOUS
  <2>2. new \in SubmissionType /\ new.items = C
    BY <1>2, <1>3, <2>1 DEF SubmissionType
  <2>3. composer'[p] = << >> /\ submitted'[p] = Append(D, new)
    BY <1>1, <1>2, <1>7, <2>1
  <2>4. Count(<< >>, Append(D, new), T) = Count(C, D, T)
    BY <1>2, <2>2, CountMoved
  <2>5. QED
    BY <1>1, <1>2, <1>7, <2>1, <2>3, <2>4 DEF Taken, T
<1>8. CASE /\ k.what = "C-u"
           /\ \E n \in 0 .. Len(composer[p]) - 1 :
                composer' = [composer EXCEPT ![p] = SubSeq(@, 1, n)]
           /\ UNCHANGED submitted
  <2>1. PICK n \in 0 .. Len(C) - 1 : composer' = [composer EXCEPT ![p] = SubSeq(@, 1, n)]
    BY <1>1, <1>8
  <2>2. composer'[p] = SubSeq(C, 1, n) /\ submitted'[p] = D
    BY <1>1, <1>2, <1>8, <2>1
  <2>3. Count(SubSeq(C, 1, n), D, T) <= Count(C, D, T)
    BY <1>2, <2>1, CountLess
  <2>4. QED
    BY <1>1, <1>2, <1>8, <2>2, <2>3 DEF Taken, T
<1>9. QED
  BY <1>1, <1>4, <1>5, <1>6, <1>7, <1>8 DEF Takes

\* A pane that the program does not touch.
LEMMA PaneAlone ==
  ASSUME Inv, Careful, NEW x \in Sender, setup' = setup, call' = call,
         keys'[Where(x)] = keys[Where(x)], composer'[Where(x)] = composer[Where(x)],
         submitted'[Where(x)] = submitted[Where(x)], Paired(Where(x))
  PROVE  Whole(x)' /\ Alone(x)'
<1>1. \A y \in Sender : Where(y)' = Where(y)
  BY DEF Where
<1>2. Shown(x)' = Shown(x) /\ Floor(x)' = Floor(x)
  BY <1>1 DEF Shown, Floor
<1>3. Whole(x) /\ Alone(x)
  BY DEF Careful
<1>4. Whole(x)'
  BY <1>1, <1>2, <1>3 DEF Whole
<1>5. Lone(x)' => Lone(x)
  BY <1>1 DEF Lone
<1>6. Alone(x)'
  BY <1>1, <1>2, <1>3, <1>5 DEF Alone
<1>7. QED
  BY <1>4, <1>6

\* The invariants of a pane whose program does nothing that they see.
LEMMA CarefulRests ==
  ASSUME Inv, Careful, setup' = setup, call' = call, keys' = keys, composer' = composer,
         submitted' = submitted
  PROVE  Careful'
<1>1. \A x \in Sender : Where(x)' = Where(x)
  BY DEF Where
<1>2. \A p : Paired(p)' => Paired(p)
  BY <1>1 DEF Paired
<1>3. Begun'
  BY DEF Careful, Begun
<1>4. \A x \in Sender : Paired(Where(x))' => Whole(x)' /\ Alone(x)'
  <2> SUFFICES ASSUME NEW x \in Sender, Paired(Where(x))' PROVE Whole(x)' /\ Alone(x)'
    OBVIOUS
  <2>1. Paired(Where(x))
    BY <1>1 DEF Paired
  <2>2. QED
    BY <2>1, PaneAlone
<1>5. NeverBlind'
  <2>1. \A x : Kind(x)' = Kind(x) /\ LookAlikes(x)' = LookAlikes(x)
    BY DEF Kind, LookAlikes
  <2>2. NeverBlind
    BY DEF Careful
  <2>3. QED
    BY <1>2, <2>1, <2>2 DEF NeverBlind
<1>6. QED
  BY <1>3, <1>4, <1>5 DEF Careful

LEMMA TakesCarefully ==
  ASSUME Inv, Inv', Careful, NEW p \in Pane, Takes(p) PROVE Careful'
<1>1. /\ setup' = setup /\ call' = call /\ keys[p] # << >>
      /\ keys' = [keys EXCEPT ![p] = Tail(@)]
  BY DEF Takes
<1>2. PICK k : k = Head(keys[p])
  OBVIOUS
<1>3. /\ keys \in [Pane -> Seq(KeyType)] /\ composer \in [Pane -> Seq(Item)]
      /\ submitted \in [Pane -> Seq(SubmissionType)] /\ setup \in Workloads
      /\ MeantFor(p, keys[p])
  BY DEF Inv, Keys, Screen
<1>4. k \in KeyType /\ Where(k.by) = p
  BY <1>1, <1>2, KeyTaken
<1>5. k.by \in Sender
  BY <1>4 DEF KeyType
<1>6. PICK K, L : K = keys[p] /\ L = Tail(K)
  OBVIOUS
<1>7. /\ keys'[p] = L /\ \A q \in Pane \ {p} : keys'[q] = keys[q]
      /\ K \in Seq(KeyType) /\ K # << >> /\ L \in Seq(KeyType)
      /\ \A i \in DOMAIN L : i + 1 \in DOMAIN K /\ L[i] = K[i + 1]
      /\ 1 \in DOMAIN K /\ K[1] = k
  BY <1>1, <1>2, <1>3, <1>6
<1>8. \A q \in Pane \ {p} : composer'[q] = composer[q] /\ submitted'[q] = submitted[q]
  BY <1>3 DEF Takes, Stage, program
<1>9. \A x \in Sender : Where(x)' = Where(x) /\ Where(x) \in Pane
  <2>1. \A x \in Sender : Where(x) \in Pane
    BY PaneTyped
  <2>2. QED
    BY <1>1, <2>1 DEF Where
<1>10. \A q : Paired(q)' => Paired(q)
  BY <1>9 DEF Paired
<1>11. Begun'
  <2> SUFFICES ASSUME NEW q \in Pane, NEW i \in DOMAIN keys'[q]
               PROVE  call[keys'[q][i].by].pc # "idle"
    BY <1>1 DEF Begun
  <2>1. \A j \in DOMAIN keys[q] : call[keys[q][j].by].pc # "idle"
    BY DEF Careful, Begun
  <2>2. CASE q = p
    <3>1. i \in DOMAIN L /\ keys'[q][i] = L[i]
      BY <1>7, <2>2
    <3>2. i + 1 \in DOMAIN K /\ L[i] = K[i + 1]
      BY <1>7, <3>1
    <3>3. QED
      BY <1>6, <2>1, <2>2, <3>1, <3>2
  <2>3. CASE q # p
    BY <1>7, <2>1, <2>3
  <2>4. QED
    BY <2>2, <2>3
<1>12. ASSUME NEW x \in Sender, Where(x) # p, Paired(Where(x)) PROVE Whole(x)' /\ Alone(x)'
  BY <1>1, <1>7, <1>8, <1>9, <1>12, PaneAlone
<1>13. ASSUME NEW x \in Sender, Where(x) = p, Paired(p) PROVE Whole(x)' /\ Alone(x)'
  <2>1. PICK c, C, E, D, F, n, m, o :
          /\ c = call[x] /\ C = composer[p] /\ E = composer'[p]
          /\ D = submitted[p] /\ F = submitted'[p]
          /\ n = Shown(x) /\ m = Floor(x) /\ o = Count(E, F, Like(setup, x))
    OBVIOUS
  <2>2. Taken(setup, x, k, C, E, D, F, n, o)
    BY <1>2, <1>13, <2>1, TakesKey
  <2>3. /\ c \in CallType /\ C \in Seq(Item) /\ D \in Seq(SubmissionType)
        /\ n \in Nat /\ m \in Nat
    BY <1>13, <2>1, PaneTyped
  <2>4. o \in Nat
    <3>1. E \in Seq(Item) /\ F \in Seq(SubmissionType)
      BY <2>1 DEF Inv, Screen
    <3>2. QED
      BY <2>1, <3>1, CountTyped
  <2>5. Parts(setup, x, c, n, m, K, C, D) /\ (Lone(x) => First(setup, x, c.pc, n, m, K))
    BY <1>6, <1>13, <2>1 DEF Careful, Whole, Alone
  <2>6. Eaten(setup, x, c, k, K, L, C, E, D, F, n, m, o)
    BY <1>2, <1>3, <1>6, <1>7, <2>2, <2>3, <2>4, <2>5 DEF Eaten
  <2>7. Parts(setup, x, c, o, m, L, E, F)
    BY <2>6, PartsTaken
  <2>8. Shown(x)' = o /\ Floor(x)' = m
    BY <1>1, <1>9, <1>13, <2>1 DEF Shown, Floor
  <2>9. Whole(x)'
    BY <1>1, <1>7, <1>9, <1>13, <2>1, <2>7, <2>8 DEF Whole
  <2>10. Lone(x) => First(setup, x, c.pc, o, m, L)
    <3> SUFFICES ASSUME Lone(x) PROVE First(setup, x, c.pc, o, m, L)
      OBVIOUS
    <3>1. ASSUME NEW i \in DOMAIN K PROVE K[i].by = x
      <4>1. K[i] \in KeyType
        BY <1>7, <3>1
      <4>2. K[i].by \in Sender /\ K[i].by # None
        BY <4>1, ConstantsOK DEF KeyType
      <4>3. Where(K[i].by) = p /\ call[K[i].by].pc # "idle"
        BY <1>3, <1>6, <3>1, <4>2 DEF MeantFor, Careful, Begun
      <4>4. QED
        BY <1>13, <4>2, <4>3 DEF Lone
    <3>2. QED
      BY <2>5, <2>6, <3>1, FirstTaken
  <2>11. Lone(x)' => Lone(x)
    BY <1>1, <1>9 DEF Lone
  <2>12. Alone(x)'
    BY <1>1, <1>7, <1>9, <1>13, <2>1, <2>8, <2>10, <2>11 DEF Alone
  <2>13. QED
    BY <2>9, <2>12
<1>14. NeverBlind'
  <2>1. \A x : Kind(x)' = Kind(x) /\ LookAlikes(x)' = LookAlikes(x)
    BY <1>1 DEF Kind, LookAlikes
  <2> SUFFICES ASSUME NEW q \in Pane, NEW i \in DOMAIN submitted'[q], Paired(q),
                      submitted'[q][i].by # None, Kind(submitted'[q][i].by) = "send"
               PROVE  \E j \in DOMAIN submitted'[q][i].items :
                        submitted'[q][i].items[j].text \in LookAlikes(submitted'[q][i].by)
    BY <1>10, <2>1 DEF NeverBlind
  <2>2. CASE i \in DOMAIN submitted[q] /\ submitted'[q][i] = submitted[q][i]
    BY <2>2 DEF Careful, NeverBlind
  <2>3. CASE ~(i \in DOMAIN submitted[q] /\ submitted'[q][i] = submitted[q][i])
    <3>1. q = p
      BY <1>8, <2>3
    <3>2. PICK x \in Sender : x = k.by /\ Where(x) = p
      BY <1>4, <1>5
    <3>3. /\ k.what = "enter" /\ composer[p] # << >>
          /\ submitted' = [submitted EXCEPT
               ![p] = Append(@, [by |-> k.by, items |-> composer[p]])]
      BY <1>2, <1>3, <2>3, <3>1 DEF Takes, program
    <3>4. PICK new : new = [by |-> k.by, items |-> composer[p]]
      OBVIOUS
    <3>5. new \in SubmissionType /\ new.by = k.by /\ new.items = composer[p]
      BY <1>3, <1>5, <3>4 DEF SubmissionType
    <3>6. submitted'[p] = Append(submitted[p], new) /\ submitted[p] \in Seq(SubmissionType)
      BY <1>3, <3>3, <3>4
    <3>7. submitted'[q][i] = new
      BY <2>3, <3>1, <3>5, <3>6
    <3>8. Aimed(setup, x, K, composer[p])
      BY <1>6, <3>1, <3>2 DEF Careful, Whole, Parts
    <3>9. Kind(x) = "send" /\ setup.job[x].kind = "send"
      BY <3>2, <3>5, <3>7 DEF Kind
    <3>10. Shows(setup, x, composer[p])
      BY <1>7, <3>2, <3>3, <3>8, <3>9 DEF Aimed
    <3>11. QED
      BY <3>2, <3>5, <3>7, <3>10 DEF Shows, LookAlikes, Like
  <2>4. QED
    BY <2>2, <2>3
<1>15. QED
  BY <1>9, <1>10, <1>11, <1>12, <1>13, <1>14 DEF Careful

-----------------------------------------------------------------------------
LEMMA CarefulInit == Init => Careful
<1> SUFFICES ASSUME Init PROVE Careful
  OBVIOUS
<1>1. Inv
  BY InvInit
<1>2. \A s \in Sender : call[s] = Idle /\ Where(s) \in Pane
  BY <1>1, PaneTyped DEF Init
<1>3. \A p \in Pane : keys[p] = << >> /\ DOMAIN keys[p] = {}
  BY DEF Init
<1>4. Begun
  BY <1>3 DEF Begun
<1>5. ASSUME NEW p \in Pane
      PROVE  /\ \A i \in DOMAIN composer[p] : composer[p][i].by = None
             /\ \A i \in DOMAIN submitted[p] :
                  /\ submitted[p][i].by = None
                  /\ \A j \in DOMAIN submitted[p][i].items : submitted[p][i].items[j].by = None
  <2>1. composer[p] = Author(setup.draft)
    BY DEF Init
  <2>2. PICK old : old = [by |-> None, items |-> Author(setup.history)]
    OBVIOUS
  <2>3. submitted[p] = << >> \/ submitted[p] = <<old>>
    BY <2>2 DEF Init
  <2>4. \A texts : \A i \in DOMAIN Author(texts) : Author(texts)[i].by = None
    BY DEF Author
  <2>5. \A i \in DOMAIN submitted[p] : submitted[p][i] = old
    BY <2>3
  <2>6. QED
    BY <2>1, <2>2, <2>4, <2>5
<1>6. ASSUME NEW s \in Sender PROVE Whole(s) /\ Alone(s)
  <2>1. PICK c, n, m, K, C, D :
          /\ c = call[s] /\ n = Shown(s) /\ m = Floor(s) /\ K = keys[Where(s)]
          /\ C = composer[Where(s)] /\ D = submitted[Where(s)]
    OBVIOUS
  <2>2. c.pc = "idle" /\ c.result = None /\ K = << >> /\ DOMAIN K = {} /\ s # None
    BY <1>1, <1>2, <1>3, <2>1, Jobs DEF Idle, Inv
  <2>3. ~Holds(C, s) /\ ~Given(D, s) /\ ~Coming(K, s)
    BY <1>2, <1>5, <2>1, <2>2 DEF Holds, Given, Coming
  <2>4. Fits(setup, s, c.pc) /\ Course(setup, s, c.pc, n, m, K, C) /\ Follows(s, c.pc, K, C)
    BY <2>2 DEF Fits, Course, Follows
  <2>5. Aimed(setup, s, K, C)
    BY <2>2 DEF Aimed
  <2>6. Single(s, c.pc, K, C, D)
    BY <2>2, <2>3 DEF Single, Holds, Given, Once
  <2>7. Since(setup, s, c, D) /\ Withheld(setup, s, c, K, D)
    BY <2>2 DEF Since, Withheld, None
  <2>8. First(setup, s, c.pc, n, m, K)
    BY <2>2 DEF First
  <2>9. QED
    BY <2>1, <2>4, <2>5, <2>6, <2>7, <2>8 DEF Whole, Alone, Parts
<1>7. NeverBlind
  BY <1>5 DEF NeverBlind
<1>8. QED
  BY <1>4, <1>6, <1>7 DEF Careful

LEMMA CarefulStep == Inv /\ Inv' /\ Careful /\ [Next]_vars => Careful'
<1> SUFFICES ASSUME Inv, Inv', Careful, [Next]_vars PROVE Careful'
  OBVIOUS
<1>1. CASE \E s \in Sender : Step(s)
  <2>1. PICK s \in Sender : Step(s)
    BY <1>1
  <2>2. QED
    BY <2>1, BeginCarefully, BaselineCarefully, SetBufferCarefully, PasteBufferCarefully,
       ProbeEchoCarefully, PopupEnterCarefully, RecaptureCarefully, SendEnterCarefully,
       VerifySubmitCarefully, ClearCarefully, ClearCaptureCarefully DEF Step
<1>2. CASE \E p \in Pane : Takes(p)
  BY <1>2, TakesCarefully
<1>3. CASE (\E p \in Pane : PopupCloses(p)) \/ Rest \/ UNCHANGED vars
  <2>1. setup' = setup /\ call' = call /\ keys' = keys /\ composer' = composer
        /\ submitted' = submitted
    BY <1>3 DEF PopupCloses, Rest, vars, program
  <2>2. QED
    BY <2>1, CarefulRests
<1>4. QED
  BY <1>1, <1>2, <1>3 DEF Next

LEMMA CarefulHolds == Spec => []Careful
<1>1. Inv /\ Careful /\ [Next]_vars => (Inv /\ Careful)'
  BY InvStep, CarefulStep
<1>2. QED
  BY InvInit, CarefulInit, <1>1, PTL DEF Spec

\* Where the text of a call was submitted.
LEMMA SubmissionsAre ==
  ASSUME NEW s
  PROVE  \A x \in Submissions(s) :
           \E i \in DOMAIN submitted[Where(s)] :
             \E j \in DOMAIN submitted[Where(s)][i].items :
               x = <<i, j>> /\ submitted[Where(s)][i].items[j].by = s
  BY DEF Submissions

\* A set whose members are all the same.
LEMMA AtMostOne ==
  ASSUME NEW S, \A x, y \in S : x = y
  PROVE  Cardinality(S) <= 1
<1>1. CASE S = {}
  <2>1. Cardinality(S) = 0
    BY <1>1, FS_EmptySet, Zenon
  <2>2. QED
    BY <2>1
<1>2. CASE S # {}
  <2>1. PICK x : S = {x}
    BY <1>2
  <2>2. Cardinality(S) = 1
    BY <2>1, FS_Singleton, Zenon
  <2>3. QED
    BY <2>2
<1>3. QED
  BY <1>1, <1>2

\* The text of a call stands in one place of the submissions, if in any.
Singly == \A s \in Sender : Paired(Where(s)) => \A x, y \in Submissions(s) : x = y

LEMMA OneSubmission == Careful => Singly
<1> SUFFICES ASSUME Careful, NEW s \in Sender, Paired(Where(s))
             PROVE  \A x, y \in Submissions(s) : x = y
  BY DEF Singly
<1>1. PICK D : D = submitted[Where(s)]
  OBVIOUS
<1>2. /\ \A i \in DOMAIN D : Once(D[i].items, s)
      /\ \A i, j \in DOMAIN D : Holds(D[i].items, s) /\ Holds(D[j].items, s) => i = j
  BY <1>1 DEF Careful, Whole, Parts, Single
<1>3. ASSUME NEW x \in Submissions(s), NEW y \in Submissions(s) PROVE x = y
  <2>1. PICK i \in DOMAIN D : \E j \in DOMAIN D[i].items : x = <<i, j>> /\ D[i].items[j].by = s
    BY <1>1, SubmissionsAre
  <2>2. PICK j \in DOMAIN D[i].items : x = <<i, j>> /\ D[i].items[j].by = s
    BY <2>1
  <2>3. PICK a \in DOMAIN D : \E b \in DOMAIN D[a].items : y = <<a, b>> /\ D[a].items[b].by = s
    BY <1>1, SubmissionsAre
  <2>4. PICK b \in DOMAIN D[a].items : y = <<a, b>> /\ D[a].items[b].by = s
    BY <2>3
  <2>5. i = a
    BY <1>2, <2>2, <2>4 DEF Holds
  <2>6. QED
    BY <1>2, <2>2, <2>4, <2>5 DEF Once
<1>4. QED
  BY <1>3

\* A call submits its text at most once, in every pane of at most two calls: the
\* recovery pastes again only when the first paste is gone without a submission
\* (clearToBaseline compares with the frame of the baseline).
THEOREM SubmittedOnceAlways == Spec => []SubmittedOnce
<1>1. Careful => SubmittedOnce
  BY OneSubmission, AtMostOne DEF SubmittedOnce, Singly
<1>2. QED
  BY <1>1, CarefulHolds, PTL

\* What Withheld says of every call.
LEMMA CarefulWithholds == Careful => WithheldMeansUnsubmitted
<1> SUFFICES ASSUME Careful, NEW s \in Sender, Paired(Where(s)), Kind(s) = "send",
                    call[s].result \in {"error", "probe"}, NEW x \in Submissions(s)
             PROVE  submitted[Where(s)][x[1]].by # s
  BY DEF WithheldMeansUnsubmitted
<1>1. Withheld(setup, s, call[s], keys[Where(s)], submitted[Where(s)])
  BY DEF Careful, Whole, Parts
<1>2. \A i \in DOMAIN submitted[Where(s)] :
        Holds(submitted[Where(s)][i].items, s) => submitted[Where(s)][i].by # s
  BY <1>1 DEF Withheld, Kind
<1>3. QED
  BY <1>2, SubmissionsAre DEF Holds

\* A call that reports a plain error or a failed probe has not submitted its text, and
\* none of its Enters that are still queued will (Send returns them before any Enter).
THEOREM WithheldAlways == Spec => []WithheldMeansUnsubmitted
  BY CarefulWithholds, CarefulHolds, PTL

\* What the Enter of a send submits holds its text, or one that looks the same
\* (probeEcho: the text occurs more often than in the baseline).
THEOREM NeverBlindAlways == Spec => []NeverBlind
<1>1. Careful => NeverBlind
  BY DEF Careful
<1>2. QED
  BY <1>1, CarefulHolds, PTL

-----------------------------------------------------------------------------
(* What the callers are promised *)

\* Where a step leaves its call.
Starts(s) == At(s, "idle") /\ MayEnter(s) /\ call'[s].pc \notin {"idle", "done"}
Rejects(s) == At(s, "idle") /\ MayEnter(s) /\ call'[s].pc = "done" /\ call'[s].result = "error"
Proceeds(s) == Running(s) /\ call'[s].pc \notin {"idle", "done"}
Returns(s) == Running(s) /\ call'[s].pc = "done" /\ call'[s].result \in Results

\* A step moves one call on, and no text that was submitted.
LEMMA StepOutcome ==
  ASSUME Inv, NEW s \in Sender, Step(s)
  PROVE  /\ setup' = setup /\ submitted' = submitted
         /\ \A x \in Sender \ {s} : call'[x] = call[x]
         /\ Starts(s) \/ Rejects(s) \/ Proceeds(s) \/ Returns(s)
<1>1. call \in [Sender -> CallType] /\ DOMAIN call[s] = DOMAIN Idle
  BY DEF Inv, CallType, Idle
<1>2. setup' = setup /\ submitted' = submitted
  BY DEF Step, Begin, CaptureBaseline, SetBuffer, PasteBuffer, ProbeEcho, PopupEnter, PopupCapture,
         SendEnter, VerifySubmit, ClearComposer, ClearCapture, program
<1>3. ASSUME NEW result \in Results, Finish(s, result)
      PROVE  /\ call'[s].pc = "done" /\ call'[s].result = result
             /\ \A x \in Sender \ {s} : call'[x] = call[x]
  BY <1>1, <1>3 DEF Finish, Idle
<1>4. ASSUME NEW pc \in {"baseline", "set", "paste", "probe", "popup", "recapture", "enter", "verify",
                         "clear", "cleared"},
             Goto(s, pc) \/ Again(s, pc)
      PROVE  /\ call'[s].pc \notin {"idle", "done"}
             /\ \A x \in Sender \ {s} : call'[x] = call[x]
  BY <1>1, <1>4 DEF Goto, Again, CallType
<1>5. CASE Begin(s)
  <2>1. CASE \E pc \in {"set", "enter", "baseline"} : Goto(s, pc)
    BY <1>2, <1>4, <1>5, <2>1 DEF Begin, Starts
  <2>2. CASE Finish(s, "error")
    BY <1>2, <1>3, <1>5, <2>2 DEF Begin, Rejects, Results
  <2>3. QED
    BY <1>5, <2>1, <2>2 DEF Begin
<1>6. CASE CaptureBaseline(s)
  <2>1. CASE call' = [call EXCEPT ![s].pc = "set", ![s].base = Frame(Where(s))]
    BY <1>1, <1>2, <1>6, <2>1 DEF CaptureBaseline, Proceeds, Running, At, CallType
  <2>2. CASE Finish(s, "error")
    BY <1>2, <1>3, <1>6, <2>2 DEF CaptureBaseline, Returns, Running, At, Results
  <2>3. QED
    BY <1>6, <2>1, <2>2 DEF CaptureBaseline
<1>7. CASE SetBuffer(s)
  BY <1>2, <1>3, <1>4, <1>7 DEF SetBuffer, Proceeds, Returns, Running, At, Results
<1>8. CASE PasteBuffer(s)
  BY <1>2, <1>3, <1>4, <1>8 DEF PasteBuffer, Proceeds, Returns, Running, At, Results
<1>9. CASE ProbeEcho(s)
  <2>1. CASE \E pc \in {"popup", "enter"} : call' = [call EXCEPT ![s].pc = pc, ![s].pre = Frame(Where(s))]
    BY <1>1, <1>2, <1>9, <2>1 DEF ProbeEcho, Proceeds, Running, At, CallType
  <2>2. CASE Again(s, "probe")
    BY <1>2, <1>4, <1>9, <2>2 DEF ProbeEcho, Proceeds, Running, At
  <2>3. CASE \E result \in Results : Finish(s, result)
    BY <1>2, <1>3, <1>9, <2>3 DEF ProbeEcho, Returns, Running, At
  <2>4. QED
    BY <1>9, <2>1, <2>2, <2>3 DEF ProbeEcho, Results
<1>10. CASE PopupEnter(s)
  BY <1>2, <1>3, <1>4, <1>10 DEF PopupEnter, Proceeds, Returns, Running, At, Results
<1>11. CASE PopupCapture(s)
  <2>1. CASE call' = [call EXCEPT ![s].pc = "enter", ![s].pre = Frame(Where(s))]
    BY <1>1, <1>2, <1>11, <2>1 DEF PopupCapture, Proceeds, Running, At, CallType
  <2>2. CASE Finish(s, "staged")
    BY <1>2, <1>3, <1>11, <2>2 DEF PopupCapture, Returns, Running, At, Results
  <2>3. QED
    BY <1>11, <2>1, <2>2 DEF PopupCapture
<1>12. CASE SendEnter(s)
  <2>1. CASE Goto(s, "verify")
    BY <1>2, <1>4, <1>12, <2>1 DEF SendEnter, Proceeds, Running, At
  <2>2. CASE \E result \in Results : Finish(s, result)
    BY <1>2, <1>3, <1>12, <2>2 DEF SendEnter, Returns, Running, At
  <2>3. QED
    BY <1>12, <2>1, <2>2 DEF SendEnter, Results
<1>13. CASE VerifySubmit(s)
  <2>1. CASE Goto(s, "clear") \/ Again(s, "verify")
    BY <1>2, <1>4, <1>13, <2>1 DEF VerifySubmit, Proceeds, Running, At
  <2>2. CASE \E result \in Results : Finish(s, result)
    BY <1>2, <1>3, <1>13, <2>2 DEF VerifySubmit, Returns, Running, At
  <2>3. QED
    BY <1>13, <2>1, <2>2 DEF VerifySubmit, Results
<1>14. CASE ClearComposer(s)
  <2>1. CASE call' = [call EXCEPT ![s].pc = "cleared"]
    BY <1>1, <1>2, <1>14, <2>1 DEF ClearComposer, Proceeds, Running, At, CallType
  <2>2. CASE Finish(s, "unverified")
    BY <1>2, <1>3, <1>14, <2>2 DEF ClearComposer, Returns, Running, At, Results
  <2>3. QED
    BY <1>14, <2>1, <2>2 DEF ClearComposer
<1>15. CASE ClearCapture(s)
  <2>1. CASE call' = [call EXCEPT ![s] =
               [Idle EXCEPT !.pc = "set", !.base = Frame(Where(s)), !.retries = call[s].retries + 1]]
    BY <1>1, <1>2, <1>15, <2>1 DEF ClearCapture, Proceeds, Running, At, Idle
  <2>2. CASE Again(s, "clear")
    BY <1>2, <1>4, <1>15, <2>2 DEF ClearCapture, Proceeds, Running, At
  <2>3. CASE Finish(s, "unverified")
    BY <1>2, <1>3, <1>15, <2>3 DEF ClearCapture, Returns, Running, At, Results
  <2>4. QED
    BY <1>15, <2>1, <2>2, <2>3 DEF ClearCapture
<1>16. QED
  BY <1>5, <1>6, <1>7, <1>8, <1>9, <1>10, <1>11, <1>12, <1>13, <1>14, <1>15 DEF Step

\* While nothing is submitted, the counts stand.
LEMMA CountsStand ==
  ASSUME setup' = setup, submitted' = submitted
  PROVE  /\ \A s \in Sender : Where(s)' = Where(s) /\ CopiesOf(s)' = CopiesOf(s)
         /\ \A s \in Sender : PressedItself(s)' = PressedItself(s)
<1>1. \A s \in Sender : Where(s)' = Where(s) /\ Kind(s)' = Kind(s)
  BY DEF Where, Kind
<1>2. \A s \in Sender : Submissions(s)' = Submissions(s) /\ Paired(Where(s))' = Paired(Where(s))
  BY <1>1 DEF Submissions, Paired
<1>3. QED
  BY <1>1, <1>2 DEF CopiesOf, PressedItself

\* A call whose Enter submitted its text is not said to have withheld it.
Told == \A s \in Sender : PressedItself(s) => call[s].result \notin {"error", "probe"}

LEMMA PressedIsTold == WithheldMeansUnsubmitted => Told
BY DEF WithheldMeansUnsubmitted, PressedItself, Told

\* A step of a call is one that Delivery allows the call.
LEMMA StepPromised ==
  ASSUME Inv, Inv', Told', NEW s \in Sender, Step(s)
  PROVE  \/ Promise!Start(s) \/ Promise!Answer(s)
         \/ UNCHANGED <<[x \in Sender |-> Where(x)], [x \in Sender |-> StateOf(x)],
                        [x \in Sender |-> CopiesOf(x)], {x \in Sender : PressedItself(x)}>>
<1>1. /\ setup' = setup /\ submitted' = submitted
      /\ \A x \in Sender \ {s} : call'[x] = call[x]
      /\ Starts(s) \/ Rejects(s) \/ Proceeds(s) \/ Returns(s)
  BY StepOutcome
<1>2. /\ \A x \in Sender : Where(x)' = Where(x) /\ CopiesOf(x)' = CopiesOf(x)
      /\ \A x \in Sender : PressedItself(x)' = PressedItself(x)
  BY <1>1, CountsStand
<1>3. \A x \in Sender \ {s} : StateOf(x)' = StateOf(x)
  BY <1>1 DEF StateOf, At
<1>4. UNCHANGED <<[x \in Sender |-> Where(x)], [x \in Sender |-> CopiesOf(x)],
                  {x \in Sender : PressedItself(x)}>>
  BY <1>2
<1>5. MayEnter(s) /\ At(s, "idle") => Promise!Free(s)
  <2>1. SUFFICES ASSUME MayEnter(s), At(s, "idle"), NEW d \in Sender, StateOf(d) = "running"
                 PROVE  Where(d) # Where(s)
    <3>1. At(s, "idle") => StateOf(s) = "waiting"
      BY DEF StateOf, At
    <3>2. QED
      BY <3>1 DEF Promise!Free
  <2>2. call[d].result # "running" /\ d # None
    <3>1. call[d] \in CallType /\ d # None
      BY CallFacts
    <3>2. QED
      BY <3>1 DEF CallType, None
  <2>3. Running(d)
    BY <2>1, <2>2 DEF StateOf, At, Running
  <2>4. QED
    BY <2>1, <2>2, <2>3, CallFacts DEF MayEnter
<1>6. ASSUME NEW a, StateOf(s)' = a
      PROVE  [x \in Sender |-> StateOf(x)]' = [[x \in Sender |-> StateOf(x)] EXCEPT ![s] = a]
  BY <1>3, <1>6
<1>7. CASE Starts(s)
  <2>1. StateOf(s)' = "running"
    BY <1>7 DEF Starts, StateOf, At
  <2>2. QED
    BY <1>4, <1>5, <1>6, <1>7, <2>1 DEF Starts, Promise!Start
<1>8. ASSUME NEW a \in Results, call'[s].pc = "done", call'[s].result = a,
             Running(s) \/ (MayEnter(s) /\ At(s, "idle") /\ a = "error")
      PROVE  Promise!Answer(s)
  <2>1. StateOf(s)' = a
    BY <1>8 DEF StateOf, At
  <2>2. a \in {"error", "probe"} => ~PressedItself(s)
    BY <1>2, <1>8 DEF Told
  <2>3. Running(s) => StateOf(s) = "running"
    BY DEF Running, StateOf, At
  <2>4. a \in Promise!Answers
    BY DEF Promise!Answers, Promise!Withholding, Results
  <2>5. QED
    BY <1>4, <1>5, <1>6, <1>8, <2>1, <2>2, <2>3, <2>4 DEF Promise!Answer, Promise!Withholding
<1>9. CASE Proceeds(s)
  <2>1. StateOf(s)' = StateOf(s)
    BY <1>9 DEF Proceeds, Running, StateOf, At
  <2>2. QED
    BY <1>3, <1>4, <2>1
<1>10. QED
  BY <1>1, <1>7, <1>8, <1>9 DEF Rejects, Returns, Results

\* A submission of a pane: what has been submitted stays.
LEMMA NewSubmission ==
  ASSUME Inv, NEW p \in Pane, Takes(p), submitted' # submitted
  PROVE  \E new \in SubmissionType :
           submitted'[p] = Append(submitted[p], new)
           /\ \A q \in Pane \ {p} : submitted'[q] = submitted[q]
<1>1. submitted \in [Pane -> Seq(SubmissionType)] /\ composer[p] \in Seq(Item)
  BY DEF Inv, Screen
<1>2. Head(keys[p]).by \in Sender
  <2>1. Head(keys[p]) \in KeyType
    BY KeyTaken DEF Takes
  <2>2. QED
    BY <2>1 DEF KeyType
<1>3. PICK new : new = [by |-> Head(keys[p]).by, items |-> composer[p]]
  OBVIOUS
<1>4. new \in SubmissionType
  BY <1>1, <1>2, <1>3 DEF SubmissionType
<1>5. submitted' = [submitted EXCEPT ![p] = Append(@, new)]
  BY <1>3 DEF Takes, program
<1>6. QED
  BY <1>1, <1>4, <1>5

\* A submission lands texts for the first time, and of one call at most by its own Enter.
LEMMA TakesPromised ==
  ASSUME Inv, Inv', Careful', Singly, Singly', Told', NEW p \in Pane, Takes(p)
  PROVE  \/ Promise!Land(p)
         \/ UNCHANGED <<[x \in Sender |-> Where(x)], [x \in Sender |-> StateOf(x)],
                        [x \in Sender |-> CopiesOf(x)], {x \in Sender : PressedItself(x)}>>
<1>1. setup' = setup /\ call' = call
  BY DEF Takes
<1>2. \A x \in Sender : /\ StateOf(x)' = StateOf(x) /\ Where(x)' = Where(x) /\ Kind(x)' = Kind(x)
                        /\ Where(x) \in Pane
  BY <1>1, Jobs DEF StateOf, At, Where, Kind, Inv
<1>3. \A x \in Sender : Paired(Where(x))' = Paired(Where(x))
  BY <1>2 DEF Paired
<1>4. CASE submitted' = submitted
  BY <1>1, <1>2, <1>4, CountsStand
<1>5. CASE submitted' # submitted
  <2>1. PICK new \in SubmissionType : /\ submitted'[p] = Append(submitted[p], new)
                                      /\ \A q \in Pane \ {p} : submitted'[q] = submitted[q]
    BY <1>5, NewSubmission
  <2>2. PICK D : D = submitted[p] /\ D \in Seq(SubmissionType)
    BY DEF Inv, Screen
  <2>3. /\ DOMAIN D \subseteq DOMAIN Append(D, new) /\ \A i \in DOMAIN D : Append(D, new)[i] = D[i]
        /\ \A i \in DOMAIN Append(D, new) : i \in DOMAIN D \/ Append(D, new)[i] = new
    BY <2>1, <2>2
  <2>4. ASSUME NEW x \in Sender, Where(x) # p
        PROVE  Submissions(x)' = Submissions(x) /\ PressedItself(x)' = PressedItself(x)
    <3>1. submitted'[Where(x)] = submitted[Where(x)]
      BY <1>2, <2>1, <2>4
    <3>2. Submissions(x)' = Submissions(x)
      BY <1>2, <3>1 DEF Submissions
    <3>3. QED
      BY <1>2, <1>3, <3>1, <3>2 DEF PressedItself
  <2>5. ASSUME NEW x \in Sender, Where(x) = p, NEW y \in Submissions(x)
        PROVE  y \in Submissions(x)' /\ submitted'[p][y[1]] = submitted[p][y[1]]
    <3>1. PICK i \in DOMAIN D : \E j \in DOMAIN D[i].items : y = <<i, j>> /\ D[i].items[j].by = x
      BY <2>2, <2>5, SubmissionsAre
    <3>2. PICK j \in DOMAIN D[i].items : y = <<i, j>> /\ D[i].items[j].by = x
      BY <3>1
    <3>3. submitted'[p][i] = D[i] /\ i \in DOMAIN submitted'[p]
      BY <2>1, <2>2, <2>3
    <3>4. QED
      BY <1>2, <2>2, <2>5, <3>2, <3>3 DEF Submissions
  <2>6. \A x \in Sender : Paired(Where(x)) =>
          /\ \A y, z \in Submissions(x) : y = z
          /\ \A y, z \in Submissions(x)' : y = z
    BY <1>3 DEF Singly
  <2> DEFINE S == {x \in Sender : /\ Where(x) = p /\ Paired(Where(x))
                                  /\ Submissions(x) = {} /\ Submissions(x)' # {}}
  <2>7. ASSUME NEW x \in Sender, x \notin S, Paired(Where(x))
        PROVE  Submissions(x)' = Submissions(x) /\ PressedItself(x)' = PressedItself(x)
    <3>1. CASE Where(x) # p
      BY <2>4, <3>1
    <3>2. CASE Where(x) = p
      <4>1. Submissions(x)' = Submissions(x)
        BY <2>5, <2>6, <2>7, <3>2
      <4>2. QED
        BY <1>2, <1>3, <2>5, <3>2, <4>1 DEF PressedItself
    <3>3. QED
      BY <3>1, <3>2
  <2>8. ASSUME NEW x \in S
        PROVE  CopiesOf(x) = 0 /\ CopiesOf(x)' = 1 /\ StateOf(x) # "waiting"
    <3>1. CopiesOf(x) = 0
      BY FS_EmptySet DEF CopiesOf
    <3>2. PICK y : Submissions(x)' = {y}
      <4>1. PICK y \in Submissions(x)' : \A z \in Submissions(x)' : z = y
        BY <2>6
      <4>2. QED
        BY <4>1
    <3>3. CopiesOf(x)' = 1
      BY <1>3, <3>2, FS_Singleton DEF CopiesOf
    <3>4. call[x].pc # "idle"
      <4>1. PICK E : E = submitted'[p]
        OBVIOUS
      <4>2. y \in Submissions(x)'
        BY <3>2
      <4>3. PICK i \in DOMAIN E : \E j \in DOMAIN E[i].items : E[i].items[j].by = x
        BY <1>2, <4>1, <4>2 DEF Submissions
      <4>4. Given(E, x)
        BY <4>3 DEF Given, Holds
      <4>5. Single(x, call[x].pc, keys'[p], composer'[p], E)
        BY <1>1, <1>2, <1>3, <4>1 DEF Careful, Whole, Parts
      <4>6. QED
        BY <4>4, <4>5 DEF Single
    <3>5. call[x].result # "waiting"
      <4>1. call[x] \in CallType
        BY CallFacts
      <4>2. QED
        BY <4>1 DEF CallType, None
    <3>6. QED
      BY <3>1, <3>3, <3>4, <3>5 DEF StateOf, At
  <2>9. [x \in Sender |-> CopiesOf(x)]' = [x \in Sender |-> IF x \in S THEN 1 ELSE CopiesOf(x)]
    <3>1. \A x \in Sender \ S : CopiesOf(x)' = CopiesOf(x)
      BY <1>3, <2>7 DEF CopiesOf
    <3>2. \A x \in S : CopiesOf(x)' = 1
      BY <2>8
    <3> HIDE DEF S
    <3>3. QED
      BY <3>1, <3>2
  <2>10. \A x \in Sender : PressedItself(x) => PressedItself(x)'
    BY <1>2, <1>3, <2>4, <2>5 DEF PressedItself
  <2>11. ASSUME NEW x \in Sender, PressedItself(x)', ~PressedItself(x)
         PROVE  x \in S /\ x = new.by /\ StateOf(x) \notin {"error", "probe"}
    <3>1. Paired(Where(x))
      BY <1>3, <2>11 DEF PressedItself
    <3>2. x \in S
      BY <2>7, <2>11, <3>1
    <3>3. PICK y \in Submissions(x)' : submitted'[p][y[1]].by = x
      BY <1>2, <2>11, <3>2 DEF PressedItself
    <3>4. PICK E : E = submitted'[p]
      OBVIOUS
    <3>5. PICK i \in DOMAIN E : \E j \in DOMAIN E[i].items : y = <<i, j>> /\ E[i].items[j].by = x
      BY <1>2, <3>2, <3>3, <3>4 DEF Submissions
    <3>6. PICK j \in DOMAIN E[i].items : y = <<i, j>> /\ E[i].items[j].by = x
      BY <3>5
    <3>7. i \notin DOMAIN D
      <4>1. SUFFICES ASSUME i \in DOMAIN D PROVE FALSE
        OBVIOUS
      <4>2. E[i] = D[i]
        BY <2>1, <2>2, <2>3, <3>4, <4>1
      <4>3. y \in Submissions(x)
        BY <2>2, <3>2, <3>6, <4>1, <4>2 DEF Submissions
      <4>4. QED
        BY <3>2, <4>3
    <3>8. E[i] = new
      BY <2>1, <2>2, <2>3, <3>4, <3>7
    <3>9. x = new.by
      BY <3>3, <3>4, <3>6, <3>8
    <3>10. call'[x].result \notin {"error", "probe"}
      BY <2>11 DEF Told
    <3>11. QED
      BY <1>1, <3>2, <3>9, <3>10 DEF StateOf
  <2>12. \/ \A x \in Sender : PressedItself(x)' = PressedItself(x)
         \/ \E c \in S : /\ StateOf(c) \notin {"error", "probe"}
                         /\ {x \in Sender : PressedItself(x)}' = {x \in Sender : PressedItself(x)} \cup {c}
    <3> HIDE DEF S
    <3>1. \A x \in Sender : PressedItself(x) \in BOOLEAN /\ PressedItself(x)' \in BOOLEAN
      BY DEF PressedItself
    <3>2. S \subseteq Sender
      BY DEF S
    <3>3. QED
      BY <2>10, <2>11, <3>1, <3>2
  <2>13. S \in SUBSET {x \in Sender : Where(x) = p /\ StateOf(x) # "waiting" /\ CopiesOf(x) = 0}
    BY <2>8
  <2> HIDE DEF S
  <2>14. UNCHANGED <<[x \in Sender |-> Where(x)], [x \in Sender |-> StateOf(x)]>>
    BY <1>2
  <2>15. Promise!Land(p)
    BY <2>9, <2>12, <2>13, <2>14 DEF Promise!Land, Promise!Withholding
  <2>16. QED
    BY <2>15
<1>6. QED
  BY <1>4, <1>5

(* The engine keeps its promises (Send, SendRaw, PressEnter): the calls for a pane take turns,
   and whatever fails, a text is submitted at most once and never by the call that says
   that it was not. *)
THEOREM DeliversAlways == Spec => Delivers
<1>1. Init => Promise!Init
  <2> SUFFICES ASSUME Init PROVE Promise!Init
    OBVIOUS
  <2>1. Inv /\ Careful
    BY InvInit, CarefulInit
  <2>2. \A s \in Sender : Where(s) \in Pane /\ call[s] = Idle
    BY <2>1, Jobs DEF Inv, Init
  <2>3. \A s \in Sender : StateOf(s) = "waiting"
    BY <2>2 DEF StateOf, At, Idle
  <2>4. ASSUME NEW s \in Sender, Paired(Where(s)) PROVE Submissions(s) = {}
    <3>1. ~Given(submitted[Where(s)], s)
      BY <2>1, <2>2, <2>4 DEF Careful, Whole, Parts, Single, Idle
    <3>2. QED
      BY <3>1, SubmissionsAre DEF Given, Holds
  <2>5. \A s \in Sender : CopiesOf(s) = 0 /\ ~PressedItself(s)
    BY <2>4, FS_EmptySet DEF CopiesOf, PressedItself
  <2>6. QED
    BY <2>2, <2>3, <2>5 DEF Promise!Init
<1>2. Inv /\ Inv' /\ Careful' /\ Singly /\ Singly' /\ Told' /\ [Next]_vars
        => [Promise!Next]_<<[s \in Sender |-> Where(s)], [s \in Sender |-> StateOf(s)],
                            [s \in Sender |-> CopiesOf(s)], {s \in Sender : PressedItself(s)}>>
  <2> SUFFICES ASSUME Inv, Inv', Careful', Singly, Singly', Told', [Next]_vars
               PROVE  [Promise!Next]_<<[s \in Sender |-> Where(s)], [s \in Sender |-> StateOf(s)],
                            [s \in Sender |-> CopiesOf(s)], {s \in Sender : PressedItself(s)}>>
    OBVIOUS
  <2>1. ASSUME NEW s \in Sender, Step(s)
        PROVE  \/ Promise!Start(s) \/ Promise!Answer(s)
               \/ UNCHANGED <<[x \in Sender |-> Where(x)], [x \in Sender |-> StateOf(x)],
                              [x \in Sender |-> CopiesOf(x)], {x \in Sender : PressedItself(x)}>>
    BY <2>1, StepPromised
  <2>2. ASSUME NEW p \in Pane, Takes(p)
        PROVE  \/ Promise!Land(p)
               \/ UNCHANGED <<[x \in Sender |-> Where(x)], [x \in Sender |-> StateOf(x)],
                              [x \in Sender |-> CopiesOf(x)], {x \in Sender : PressedItself(x)}>>
    BY <2>2, TakesPromised
  <2>3. ASSUME (\E p \in Pane : PopupCloses(p)) \/ Rest \/ UNCHANGED vars
        PROVE  UNCHANGED <<[x \in Sender |-> Where(x)], [x \in Sender |-> StateOf(x)],
                           [x \in Sender |-> CopiesOf(x)], {x \in Sender : PressedItself(x)}>>
    <3>1. setup' = setup /\ call' = call /\ submitted' = submitted
      BY <2>3 DEF PopupCloses, Rest, vars, program
    <3>2. QED
      BY <3>1, CountsStand DEF StateOf, At
  <2>4. QED
    BY <2>1, <2>2, <2>3 DEF Next, Promise!Next
<1>3. Careful => Singly /\ Told
  BY OneSubmission, CarefulWithholds, PressedIsTold
<1>4. QED
  BY <1>1, <1>2, <1>3, InvHolds, CarefulHolds, PTL DEF Spec, Delivers, Promise!Spec

=============================================================================
