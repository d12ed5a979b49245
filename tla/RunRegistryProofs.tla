------------------------- MODULE RunRegistryProofs -------------------------
(***************************************************************************)
(* Proofs about RunRegistry, for every set of runs, handlers, records and  *)
(* finish requests.  Four inductive invariants, each on top of the first:  *)
(* Typed (types, and what a busy handler holds), Owned (who may close a    *)
(* record's channel and settle its outcome), RowsInv (the rows agree with  *)
(* their history) and the invariants of the tokens and the acknowledged    *)
(* finishes at the end.                                                    *)
(***************************************************************************)
EXTENDS RunRegistry, TLAPS

\* What the statements of the store make of a row is a row.
LEMMA RowTypes ==
  /\ NoRow \in Row
  /\ StartedRow \in Row
  /\ \A row \in Row :
       /\ CanRun(row) => RunningRow(row) \in Row
       /\ CanBlock(row) => BlockedRow(row) \in Row
       /\ RecoveredRow(row) \in Row
       /\ \A res \in Result : FinishedRow(row, res) \in Row
  <1> USE DEF Row, States, RunnerTerminal, Terminations, Codes
  <1>1. NoRow \in Row /\ StartedRow \in Row
    BY DEF NoRow, StartedRow
  <1>2. ASSUME NEW row \in Row
        PROVE  RunningRow(row) \in Row /\ BlockedRow(row) \in Row /\ RecoveredRow(row) \in Row
    BY DEF RunningRow, BlockedRow, RecoveredRow
  <1>3. ASSUME NEW row \in Row, NEW res \in Result
        PROVE  FinishedRow(row, res) \in Row
    BY DEF FinishedRow, Result
  <1> QED
    BY <1>1, <1>2, <1>3

\* What a handler starts with.
LEMMA LocalTypes ==
  /\ FreeRecord \in Record
  /\ NoFinish \in FinishLocals
  BY DEF FreeRecord, Record, NoFinish, NoInput, FinishLocals, FinishInput, Result,
         RunnerTerminal, Terminations, Codes, Notices

\* The updates the handlers make to a record keep its type.
LEMMA RecordUpdates ==
  ASSUME NEW e \in Record
  PROVE  /\ \A r \in Runs : [e EXCEPT !.run = r] \in Record
         /\ [e EXCEPT !.ready = TRUE] \in Record
         /\ [e EXCEPT !.claimed = TRUE] \in Record
         /\ \A b \in BOOLEAN : [e EXCEPT !.finishing = b] \in Record
         /\ [e EXCEPT !.buffer = "empty"] \in Record
         /\ \A n \in Notices \cup {"empty"} :
               [e EXCEPT !.notified = TRUE, !.buffer = n] \in Record
         /\ [e EXCEPT !.chan = "closed", !.closed = TRUE] \in Record
         /\ e.buffer \in Notices \cup {"empty"}
  BY DEF Record

\* The same for the locals of a finish.
LEMMA FinishUpdates ==
  ASSUME NEW f \in FinishLocals
  PROVE  /\ \A error \in {"transition", "other"} : [f EXCEPT !.error = error] \in FinishLocals
         /\ \A res \in Result : [f EXCEPT !.blocked = TRUE, !.result = res] \in FinishLocals
         /\ f.result \in Result /\ f.input \in FinishInput
  BY DEF FinishLocals

-----------------------------------------------------------------------------
(***************************************************************************)
(* Type correctness.  A handler that is not idle serves a run, and one     *)
(* inside a registration, a stream or a finish holds a record.             *)
(***************************************************************************)
Holding == RegisterPcs \cup FinishPcs \cup StreamPcs

Busy == \A t \in Handlers : /\ pc[t] # "idle" => job[t] \in Runs
                            /\ pc[t] \in Holding => rec[t] \in Addrs

Typed == TypeOK /\ Busy

\* The types hold in a core that has just started on an empty table.
LEMMA TypeInit == Init => Typed
  <1> SUFFICES ASSUME Init PROVE Typed
    OBVIOUS
  <1>1. <<>> \in Seq(Notices)
    OBVIOUS
  <1>2. TypeOK
    BY <1>1, RowTypes, LocalTypes DEF Init, TypeOK, Pcs
  <1>3. Busy
    BY DEF Init, Busy, Holding, RegisterPcs, FinishPcs, StreamPcs
  <1> QED
    BY <1>2, <1>3 DEF Typed

\* What every step that ends a handler does to the handlers' variables.
LEMMA ReturnTyped ==
  ASSUME Typed, NEW t \in Handlers, Return(t)
  PROVE  /\ pc' \in [Handlers -> Pcs]
         /\ job' \in [Handlers -> Runs \cup {NoRun}]
         /\ rec' \in [Handlers -> Addrs \cup {Nil}]
         /\ fin' \in [Handlers -> FinishLocals]
         /\ kept' \in [Handlers -> BOOLEAN]
         /\ Busy'
  BY LocalTypes
     DEF Typed, TypeOK, Return, Pcs, Busy, Holding, RegisterPcs, FinishPcs, StreamPcs

\* What every step that moves a handler on does, when it keeps its run and, in
\* a signal stream, its record.
LEMMA GotoTyped ==
  ASSUME Typed, NEW t \in Handlers, NEW label \in Pcs,
         Goto(t, label), job[t] \in Runs, UNCHANGED job,
         \/ UNCHANGED rec /\ (label \in Holding => rec[t] \in Addrs)
         \/ \E a \in Addrs : rec' = [rec EXCEPT ![t] = a]
  PROVE  pc' \in [Handlers -> Pcs] /\ rec' \in [Handlers -> Addrs \cup {Nil}] /\ Busy'
  BY DEF Typed, TypeOK, Goto, Busy

\* A request that comes in gives its handler a run.
LEMMA AcceptTyped ==
  ASSUME Typed, NEW t \in Handlers, NEW r \in Runs, NEW label \in Pcs,
         Accept(t, r, label),
         \/ UNCHANGED rec /\ label \notin Holding
         \/ \E a \in Addrs : rec' = [rec EXCEPT ![t] = a]
  PROVE  /\ pc' \in [Handlers -> Pcs]
         /\ job' \in [Handlers -> Runs \cup {NoRun}]
         /\ rec' \in [Handlers -> Addrs \cup {Nil}]
         /\ Busy'
  BY DEF Typed, TypeOK, Accept, Busy

\* blockedFinishResult returns a result.
LEMMA BlockedResultType ==
  ASSUME NEW input \in FinishInput
  PROVE  input \in Result /\ BlockedResult(input) \in Result
  BY DEF BlockedResult, FinishInput, Result, RunnerTerminal

\* Closing the signals of a subscriber keeps the types.
LEMMA CloseTyped ==
  ASSUME Typed, NEW a \in Addrs, CloseSignals(a)
  PROVE  heap' \in [Addrs -> Record] /\ panic' \in BOOLEAN
  <1>1. CASE MustClose(a)
    <2>1. /\ heap' = [heap EXCEPT ![a].chan = "closed", ![a].closed = TRUE]
          /\ panic' \in BOOLEAN
      BY <1>1 DEF CloseSignals, CloseChannel
    <2>2. [heap[a] EXCEPT !.chan = "closed", !.closed = TRUE] \in Record
      BY RecordUpdates DEF Typed, TypeOK
    <2>3. QED
      BY <2>1, <2>2 DEF Typed, TypeOK
  <1>2. CASE ~MustClose(a)
    BY <1>2 DEF CloseSignals, Typed, TypeOK
  <1>3. QED
    BY <1>1, <1>2

\* One step per critical section of the handlers.
LEMMA TypeStep == Typed /\ [Next]_vars => Typed'
  <1> SUFFICES ASSUME Typed, [Next]_vars PROVE Typed'
    OBVIOUS
  <1> USE DEF core, history, Pcs, Holding, RegisterPcs, FinishPcs, StreamPcs
  <1>1. ASSUME NEW t \in Handlers, NEW r \in Runs, RegisterReserve(t, r) PROVE Typed'
    <2>1. PICK a \in Addrs : /\ heap' = [heap EXCEPT ![a].run = r]
                             /\ runs' = [runs EXCEPT ![r] = a]
                             /\ rec' = [rec EXCEPT ![t] = a]
      BY <1>1 DEF RegisterReserve
    <2>2. heap' \in [Addrs -> Record]
      BY <2>1, RecordUpdates DEF Typed, TypeOK
    <2>3. QED
      BY <1>1, <2>1, <2>2, AcceptTyped DEF RegisterReserve, Typed, TypeOK
  <1>2. ASSUME NEW t \in Handlers, RegisterStart(t) PROVE Typed'
    <2>1. job[t] \in Runs /\ rec[t] \in Addrs
      BY <1>2 DEF RegisterStart, Typed, Busy
    <2>2. rows' \in [Runs -> Row]
      BY <1>2, <2>1, RowTypes DEF RegisterStart, Typed, TypeOK
    <2>3. \E label \in RegisterPcs : Goto(t, label)
      BY <1>2 DEF RegisterStart, RegisterPcs
    <2>4. QED
      BY <1>2, <2>1, <2>2, <2>3, GotoTyped
         DEF RegisterStart, Typed, TypeOK
  <1>3. ASSUME NEW t \in Handlers, RegisterUndo(t) PROVE Typed'
    BY <1>3, ReturnTyped DEF RegisterUndo, Typed, TypeOK
  <1>4. ASSUME NEW t \in Handlers, RegisterReady(t) PROVE Typed'
    <2>1. rec[t] \in Addrs
      BY <1>4 DEF RegisterReady, Typed, Busy
    <2>2. heap' \in [Addrs -> Record]
      BY <1>4, <2>1, RecordUpdates DEF RegisterReady, Typed, TypeOK
    <2>3. QED
      BY <1>4, <2>2, ReturnTyped DEF RegisterReady, Typed, TypeOK
  <1>5. ASSUME NEW r \in Runs, MarkRunning(r) PROVE Typed'
    BY <1>5, RowTypes DEF MarkRunning, Typed, TypeOK, Busy
  <1>6. ASSUME NEW t \in Handlers, NEW r \in Runs, Authenticate(t, r) PROVE Typed'
    BY <1>6, AcceptTyped DEF Authenticate, Typed, TypeOK
  <1>7. ASSUME NEW t \in Handlers, CallAllowed(t) \/ BlockAlreadyRecorded(t) PROVE Typed'
    BY <1>7, ReturnTyped DEF CallAllowed, BlockAlreadyRecorded, Typed, TypeOK
  <1>8. ASSUME NEW t \in Handlers, RecordBlock(t) PROVE Typed'
    <2>1. job[t] \in Runs
      BY <1>8 DEF RecordBlock, Typed, Busy
    <2>2. rows' \in [Runs -> Row]
      BY <1>8, <2>1, RowTypes DEF RecordBlock, Typed, TypeOK
    <2>3. kept' \in [Handlers -> BOOLEAN]
      BY <1>8 DEF RecordBlock, Typed, TypeOK
    <2>4. QED
      BY <1>8, <2>1, <2>2, <2>3, GotoTyped DEF RecordBlock, Typed, TypeOK
  <1>9. ASSUME NEW t \in Handlers, BlockNotRecorded(t) PROVE Typed'
    <2>1. job[t] \in Runs
      BY <1>9 DEF BlockNotRecorded, Typed, Busy
    <2>2. QED
      BY <1>9, <2>1, GotoTyped DEF BlockNotRecorded, Typed, TypeOK
  <1>10. ASSUME NEW t \in Handlers, Notify(t) PROVE Typed'
    <2>1. heap' \in [Addrs -> Record]
      <3> DEFINE a == runs[job[t]]
      <3>1. CASE NoticeWanted(job[t]) /\ ~heap[a].notified
        <4>1. job[t] \in Runs
          BY <1>10 DEF Notify, Typed, Busy
        <4>2. a \in Addrs
          BY <3>1, <4>1 DEF NoticeWanted, TokenLive, Registered, Typed, TypeOK
        <4>3. PICK n \in Notices \cup {"empty"} :
                heap' = [heap EXCEPT ![a].notified = TRUE, ![a].buffer = n]
          <5>1. heap[a].buffer \in Notices \cup {"empty"}
            BY <4>2, RecordUpdates DEF Typed, TypeOK
          <5>2. heap' = [heap EXCEPT ![a].notified = TRUE,
                                     ![a].buffer = IF @ # "empty" THEN @
                                                   ELSE IF kept[t] THEN "persisted"
                                                   ELSE "unpersisted"]
            BY <1>10, <3>1 DEF Notify
          <5>3. QED
            BY <5>1, <5>2, <4>2 DEF Notices, Typed, TypeOK
        <4>4. [heap[a] EXCEPT !.notified = TRUE, !.buffer = n] \in Record
          BY <4>2, RecordUpdates DEF Typed, TypeOK
        <4>5. QED
          BY <4>2, <4>3, <4>4 DEF Typed, TypeOK
      <3>2. CASE ~(NoticeWanted(job[t]) /\ ~heap[a].notified)
        BY <1>10, <3>2 DEF Notify, Typed, TypeOK
      <3>3. QED
        BY <3>1, <3>2
    <2>2. panic' \in BOOLEAN
      BY <1>10 DEF Notify
    <2>3. QED
      BY <1>10, <2>1, <2>2, ReturnTyped DEF Notify, Typed, TypeOK
  <1>11. ASSUME NEW t \in Handlers, NEW r \in Runs, Subscribe(t, r) PROVE Typed'
    <2>1. runs[r] \in Addrs
      BY <1>11 DEF Subscribe, Subscribable, TokenLive, Registered, Typed, TypeOK
    <2>2. heap' \in [Addrs -> Record]
      BY <1>11, <2>1, RecordUpdates DEF Subscribe, Typed, TypeOK
    <2>3. QED
      BY <1>11, <2>1, <2>2, AcceptTyped DEF Subscribe, Typed, TypeOK
  <1>12. ASSUME NEW t \in Handlers, StreamNotice(t) PROVE Typed'
    <2>1. job[t] \in Runs /\ rec[t] \in Addrs
      BY <1>12 DEF StreamNotice, Typed, Busy
    <2>2. heap' \in [Addrs -> Record]
      BY <1>12, <2>1, RecordUpdates DEF StreamNotice, Typed, TypeOK
    <2>3. heap[rec[t]].buffer \in Notices
      BY <1>12, <2>1, RecordUpdates DEF StreamNotice, Typed, TypeOK
    <2>4. delivered' \in [Runs -> Seq(Notices)]
      BY <1>12, <2>1, <2>3 DEF StreamNotice, Typed, TypeOK
    <2>5. QED
      BY <1>12, <2>1, <2>2, <2>4, GotoTyped DEF StreamNotice, Typed, TypeOK
  <1>13. ASSUME NEW t \in Handlers, StreamClosed(t) \/ StreamDisconnect(t) PROVE Typed'
    <2>1. job[t] \in Runs /\ rec[t] \in Addrs
      BY <1>13 DEF StreamClosed, StreamDisconnect, Typed, Busy
    <2>2. QED
      BY <1>13, <2>1, GotoTyped
         DEF StreamClosed, StreamDisconnect, Typed, TypeOK
  <1>14. ASSUME NEW t \in Handlers, Release(t) PROVE Typed'
    <2>1. rec[t] \in Addrs
      BY <1>14 DEF Release, Typed, Busy
    <2>2. QED
      BY <1>14, <2>1, CloseTyped, ReturnTyped DEF Release, Typed, TypeOK
  <1>15. ASSUME NEW t \in Handlers, NEW r \in Runs, NEW input \in Inputs,
                FinishRequest(t, r, input)
         PROVE Typed'
    <2>1. input \in FinishInput
      BY InputsAssumption
    <2>2. fin' \in [Handlers -> FinishLocals]
      BY <1>15, <2>1, BlockedResultType DEF FinishRequest, Typed, TypeOK, FinishLocals
    <2>3. QED
      BY <1>15, <2>2, AcceptTyped DEF FinishRequest, Typed, TypeOK
  <1>16. ASSUME NEW t \in Handlers, FinishClaim(t) PROVE Typed'
    <2>1. job[t] \in Runs
      BY <1>16 DEF FinishClaim, Typed, Busy
    <2>2. CASE TokenLive(job[t])
      <3>1. runs[job[t]] \in Addrs
        BY <2>1, <2>2 DEF TokenLive, Registered, Typed, TypeOK
      <3>2. heap' \in [Addrs -> Record]
        <4>1. heap' = [heap EXCEPT ![runs[job[t]]].finishing = TRUE]
          BY <1>16, <2>2 DEF FinishClaim
        <4>2. QED
          BY <3>1, <4>1, RecordUpdates DEF Typed, TypeOK
      <3>3. QED
        BY <1>16, <2>1, <2>2, <3>1, <3>2, GotoTyped
           DEF FinishClaim, Typed, TypeOK
    <2>3. CASE ~TokenLive(job[t])
      BY <1>16, <2>1, <2>3, GotoTyped, ReturnTyped
         DEF FinishClaim, Rejected, Typed, TypeOK
    <2>4. QED
      BY <2>2, <2>3
  <1>17. ASSUME NEW t \in Handlers, FinishWrite(t) PROVE Typed'
    <2>1. job[t] \in Runs /\ rec[t] \in Addrs
      BY <1>17 DEF FinishWrite, Typed, Busy
    <2>2. fin[t].result \in Result
      BY FinishUpdates DEF Typed, TypeOK
    <2>3. rows' \in [Runs -> Row]
      <3>1. \/ rows' = rows
            \/ rows' = [rows EXCEPT ![job[t]] = FinishedRow(rows[job[t]], fin[t].result)]
        BY <1>17 DEF FinishWrite
      <3>2. FinishedRow(rows[job[t]], fin[t].result) \in Row
        BY <2>1, <2>2, RowTypes DEF Typed, TypeOK
      <3>3. QED
        BY <3>1, <3>2 DEF Typed, TypeOK
    <2>4. fin' \in [Handlers -> FinishLocals]
      <3>1. \/ fin' = fin
            \/ \E error \in {"transition", "other"} : fin' = [fin EXCEPT ![t].error = error]
        BY <1>17 DEF FinishWrite
      <3>2. \A error \in {"transition", "other"} :
               [fin[t] EXCEPT !.error = error] \in FinishLocals
        BY FinishUpdates DEF Typed, TypeOK
      <3>3. QED
        BY <3>1, <3>2 DEF Typed, TypeOK
    <2>5. \E label \in {"finish_undo", "finish_remove"} : Goto(t, label)
      BY <1>17 DEF FinishWrite
    <2>6. QED
      BY <1>17, <2>1, <2>3, <2>4, <2>5, GotoTyped
         DEF FinishWrite, Typed, TypeOK
  <1>18. ASSUME NEW t \in Handlers, FinishUndo(t) PROVE Typed'
    <2>1. job[t] \in Runs /\ rec[t] \in Addrs
      BY <1>18 DEF FinishUndo, Typed, Busy
    <2>2. heap' \in [Addrs -> Record]
      BY <1>18, <2>1, RecordUpdates DEF FinishUndo, Typed, TypeOK
    <2>3. QED
      BY <1>18, <2>1, <2>2, GotoTyped, ReturnTyped
         DEF FinishUndo, Rejected, Typed, TypeOK
  <1>19. ASSUME NEW t \in Handlers, FinishReread(t) PROVE Typed'
    <2>1. job[t] \in Runs
      BY <1>19 DEF FinishReread, Typed, Busy
    <2>2. fin[t].input \in FinishInput
      BY FinishUpdates DEF Typed, TypeOK
    <2>3. fin' \in [Handlers -> FinishLocals]
      <3>1. \/ fin' = [fin EXCEPT ![t].blocked = TRUE,
                                  ![t].result = BlockedResult(fin[t].input)]
            \/ fin' = [fin EXCEPT ![t] = NoFinish]
        BY <1>19 DEF FinishReread, Return
      <3>2. BlockedResult(fin[t].input) \in Result
        BY <2>2, BlockedResultType
      <3>3. [fin[t] EXCEPT !.blocked = TRUE, !.result = BlockedResult(fin[t].input)]
              \in FinishLocals
        BY <3>2, FinishUpdates DEF Typed, TypeOK
      <3>4. QED
        BY <3>1, <3>3, LocalTypes DEF Typed, TypeOK
    <2>4. QED
      BY <1>19, <2>1, <2>3, GotoTyped, ReturnTyped
         DEF FinishReread, Typed, TypeOK
  <1>20. ASSUME NEW t \in Handlers, FinishRemove(t) PROVE Typed'
    <2>1. job[t] \in Runs /\ rec[t] \in Addrs
      BY <1>20 DEF FinishRemove, Typed, Busy
    <2>2. QED
      BY <1>20, <2>1, CloseTyped, ReturnTyped DEF FinishRemove, Typed, TypeOK
  <1>21. CASE Crash
    BY <1>21, LocalTypes DEF Crash, Typed, TypeOK, Busy
  <1>22. CASE Restart
    BY <1>22, RowTypes DEF Restart, RecoverExecutions, Typed, TypeOK, Busy
  <1>23. CASE StartSecondCore
    BY <1>23, RowTypes DEF StartSecondCore, RecoverExecutions, Typed, TypeOK, Busy
  <1>24. CASE UNCHANGED vars
    BY <1>24 DEF vars, Typed, TypeOK, Busy
  <1>25. QED
    BY <1>1, <1>2, <1>3, <1>4, <1>5, <1>6, <1>7, <1>8, <1>9, <1>10, <1>11, <1>12,
       <1>13, <1>14, <1>15, <1>16, <1>17, <1>18, <1>19, <1>20, <1>21, <1>22, <1>23,
       <1>24 DEF Next, HandlerStep, NewRequest

\* The variables of the registry keep their types, and a handler that is not
\* idle serves a run.
THEOREM TypeCorrect == Spec => []TypeOK
  <1>1. Typed => TypeOK
    BY DEF Typed
  <1> QED
    BY <1>1, TypeInit, TypeStep, PTL DEF Spec

-----------------------------------------------------------------------------
(***************************************************************************)
(* Who owns what.  The map points to records of the right run; a handler   *)
(* inside a registration or a finish owns the record the map points to,    *)
(* alone, and the flags `ready` and `finishing` say so to the others.      *)
(***************************************************************************)
Pointers == \A r \in Runs : runs[r] # Nil => heap[runs[r]].run = r

Owns(t) ==
    /\ pc[t] \in RegisterPcs => runs[job[t]] = rec[t] /\ ~heap[rec[t]].ready
    /\ pc[t] \in FinishPcs => /\ runs[job[t]] = rec[t]
                              /\ heap[rec[t]].ready
                              /\ heap[rec[t]].finishing

Owning(t) == pc[t] \in RegisterPcs \cup FinishPcs

Exclusive == \A t, u \in Handlers : Owning(t) /\ Owning(u) /\ job[t] = job[u] => t = u

\* `closed` mirrors the state of the channel, and nobody has panicked.
Channels == ~panic /\ \A a \in Addrs : heap[a].closed <=> heap[a].chan = "closed"

\* Nothing of a dead core is left.
Down == ~up => (\A t \in Handlers : pc[t] = "idle") /\ (\A r \in Runs : runs[r] = Nil)

Owned == /\ Pointers
         /\ \A t \in Handlers : Owns(t)
         /\ Exclusive
         /\ Channels
         /\ Down

\* Nobody owns anything in a core that has just started.
LEMMA OwnedInit == Init => Owned
  BY NilAssumption DEF Init, Owned, Pointers, Owns, Owning, Exclusive, Channels, Down, FreeRecord,
         RegisterPcs, FinishPcs

\* Ownership changes hands only at a registration, a claim and a removal.
LEMMA OwnedStep == Typed /\ Owned /\ [Next]_vars => Owned'
  <1> SUFFICES ASSUME Typed, Owned, [Next]_vars PROVE Owned'
    OBVIOUS
  <1> USE NilAssumption
      DEF core, history, Holding, RegisterPcs, FinishPcs, StreamPcs, Typed, TypeOK, Busy, Owned, Pointers, Owns,
          Owning, Exclusive, Channels, Down, Record
  <1>1. ASSUME NEW t \in Handlers, NEW r \in Runs, RegisterReserve(t, r) PROVE Owned'
    BY <1>1 DEF RegisterReserve, Accept, FreeRecord
  <1>2. ASSUME NEW t \in Handlers, RegisterStart(t) PROVE Owned'
    BY <1>2 DEF RegisterStart, Goto
  <1>3. ASSUME NEW t \in Handlers, RegisterUndo(t) PROVE Owned'
    BY <1>3 DEF RegisterUndo, Return
  <1>4. ASSUME NEW t \in Handlers, RegisterReady(t) PROVE Owned'
    BY <1>4 DEF RegisterReady, Return
  <1>5. ASSUME NEW r \in Runs, MarkRunning(r) PROVE Owned'
    BY <1>5 DEF MarkRunning
  <1>6. ASSUME NEW t \in Handlers, NEW r \in Runs, Authenticate(t, r) PROVE Owned'
    BY <1>6 DEF Authenticate, Accept
  <1>7. ASSUME NEW t \in Handlers, CallAllowed(t) \/ BlockAlreadyRecorded(t) PROVE Owned'
    <2>1. Pointers'
      BY <1>7 DEF CallAllowed, BlockAlreadyRecorded, Return
    <2>2. \A u \in Handlers : Owns(u)'
      BY <1>7 DEF CallAllowed, BlockAlreadyRecorded, Return
    <2>3. Exclusive'
      BY <1>7 DEF CallAllowed, BlockAlreadyRecorded, Return
    <2>4. Channels'
      BY <1>7 DEF CallAllowed, BlockAlreadyRecorded, Return
    <2>5. Down'
      BY <1>7 DEF CallAllowed, BlockAlreadyRecorded, Return
    <2>6. QED
      BY <2>1, <2>2, <2>3, <2>4, <2>5
  <1>8. ASSUME NEW t \in Handlers, RecordBlock(t) \/ BlockNotRecorded(t) PROVE Owned'
    BY <1>8 DEF RecordBlock, BlockNotRecorded, Goto
  <1>10. ASSUME NEW t \in Handlers, Notify(t) PROVE Owned'
    <2>1. /\ \A a \in Addrs : /\ heap'[a].run = heap[a].run
                               /\ heap'[a].ready = heap[a].ready
                               /\ heap'[a].finishing = heap[a].finishing
                               /\ heap'[a].closed = heap[a].closed
                               /\ heap'[a].chan = heap[a].chan
          /\ UNCHANGED <<runs, up>>
      BY <1>10 DEF Notify
    <2>2. ~panic'
      BY <1>10 DEF Notify, NoticeWanted, TokenLive, Registered
    <2>3. /\ pc' = [pc EXCEPT ![t] = "idle"]
          /\ \A u \in Handlers : u # t => job'[u] = job[u] /\ rec'[u] = rec[u]
      BY <1>10 DEF Notify, Return
    <2> QED
      BY <2>1, <2>2, <2>3
  <1>11. ASSUME NEW t \in Handlers, NEW r \in Runs, Subscribe(t, r) PROVE Owned'
    BY <1>11 DEF Subscribe, Subscribable, TokenLive, Registered, Accept
  <1>12. ASSUME NEW t \in Handlers, StreamNotice(t) PROVE Owned'
    BY <1>12 DEF StreamNotice, Goto
  <1>13. ASSUME NEW t \in Handlers, StreamClosed(t) \/ StreamDisconnect(t) PROVE Owned'
    <2>1. Pointers'
      BY <1>13 DEF StreamClosed, StreamDisconnect, Goto
    <2>2. \A u \in Handlers : Owns(u)'
      BY <1>13 DEF StreamClosed, StreamDisconnect, Goto
    <2>3. Exclusive'
      BY <1>13 DEF StreamClosed, StreamDisconnect, Goto
    <2>4. Channels'
      BY <1>13 DEF StreamClosed, StreamDisconnect, Goto
    <2>5. Down'
      BY <1>13 DEF StreamClosed, StreamDisconnect, Goto
    <2>6. QED
      BY <2>1, <2>2, <2>3, <2>4, <2>5
  <1>14. ASSUME NEW t \in Handlers, Release(t) PROVE Owned'
    <2>1. CASE MustClose(rec[t])
      BY <1>14, <2>1 DEF Release, CloseSignals, CloseChannel, MustClose, Return
    <2>2. CASE ~MustClose(rec[t])
      BY <1>14, <2>2 DEF Release, CloseSignals, Return
    <2>3. QED
      BY <2>1, <2>2
  <1>15. ASSUME NEW t \in Handlers, NEW r \in Runs, NEW input \in Inputs,
                FinishRequest(t, r, input)
         PROVE Owned'
    BY <1>15 DEF FinishRequest, Accept
  <1>16. ASSUME NEW t \in Handlers, FinishClaim(t) PROVE Owned'
    <2>1. CASE TokenLive(job[t])
      <3>1. job[t] \in Runs /\ runs[job[t]] \in Addrs
        BY <1>16, <2>1 DEF FinishClaim, TokenLive, Registered
      <3>2. /\ heap' = [heap EXCEPT ![runs[job[t]]].finishing = TRUE]
            /\ rec' = [rec EXCEPT ![t] = runs[job[t]]]
            /\ pc' = [pc EXCEPT ![t] = "finish_write"]
            /\ UNCHANGED <<job, runs, up, panic>>
        BY <1>16, <2>1 DEF FinishClaim, Goto
      <3>3. heap[runs[job[t]]].ready /\ ~heap[runs[job[t]]].finishing
        BY <2>1 DEF TokenLive, Registered
      <3>4. QED
        BY <3>1, <3>2, <3>3
    <2>2. CASE ~TokenLive(job[t])
      <3>1. CASE Return(t)
        BY <1>16, <2>2, <3>1 DEF FinishClaim, Return
      <3>2. CASE ~Return(t)
        <4>1. /\ pc' = [pc EXCEPT ![t] = "finish_reread"]
              /\ UNCHANGED <<heap, runs, job, rec, up, panic>>
          BY <1>16, <2>2, <3>2 DEF FinishClaim, Rejected, Goto
        <4>2. Pointers' /\ Channels'
          BY <4>1
        <4>3. \A u \in Handlers : Owns(u)'
          BY <4>1
        <4>4. Exclusive'
          BY <4>1
        <4>5. Down'
          BY <1>16, <4>1 DEF FinishClaim
        <4>6. QED
          BY <4>2, <4>3, <4>4, <4>5
      <3>3. QED
        BY <3>1, <3>2
    <2>3. QED
      BY <2>1, <2>2
  <1>17. ASSUME NEW t \in Handlers, FinishWrite(t) PROVE Owned'
    <2>1. Pointers'
      BY <1>17 DEF FinishWrite, Goto
    <2>2. \A u \in Handlers : Owns(u)'
      BY <1>17 DEF FinishWrite, Goto
    <2>3. Exclusive'
      BY <1>17 DEF FinishWrite, Goto
    <2>4. Channels'
      BY <1>17 DEF FinishWrite, Goto
    <2>5. Down'
      BY <1>17 DEF FinishWrite, Goto
    <2>6. QED
      BY <2>1, <2>2, <2>3, <2>4, <2>5
  <1>18. ASSUME NEW t \in Handlers, FinishUndo(t) PROVE Owned'
    <2>1. Pointers'
      BY <1>18 DEF FinishUndo, Rejected, Goto, Return
    <2>2. \A u \in Handlers : Owns(u)'
      BY <1>18 DEF FinishUndo, Rejected, Goto, Return
    <2>3. Exclusive'
      <3>1. \A u \in Handlers : Owning(u)' => Owning(u) /\ job'[u] = job[u]
        BY <1>18 DEF FinishUndo, Rejected, Goto, Return
      <3>2. QED
        BY <3>1
    <2>4. Channels'
      BY <1>18 DEF FinishUndo, Rejected, Goto, Return
    <2>5. Down'
      BY <1>18 DEF FinishUndo, Rejected, Goto, Return
    <2>6. QED
      BY <2>1, <2>2, <2>3, <2>4, <2>5
  <1>19. ASSUME NEW t \in Handlers, FinishReread(t) PROVE Owned'
    <2>1. CASE Return(t)
      BY <1>19, <2>1 DEF FinishReread, Return
    <2>2. CASE ~Return(t)
      BY <1>19, <2>2 DEF FinishReread, Goto
    <2>3. QED
      BY <2>1, <2>2
  <1>20. ASSUME NEW t \in Handlers, FinishRemove(t) PROVE Owned'
    BY <1>20 DEF FinishRemove, CloseSignals, CloseChannel, MustClose, Return
  <1>21. CASE Crash
    BY <1>21 DEF Crash, FreeRecord
  <1>22. CASE Restart \/ StartSecondCore
    BY <1>22 DEF Restart, StartSecondCore
  <1>24. CASE UNCHANGED vars
    BY <1>24 DEF vars
  <1>25. QED
    BY <1>1, <1>2, <1>3, <1>4, <1>5, <1>6, <1>7, <1>8, <1>10, <1>11, <1>12,
       <1>13, <1>14, <1>15, <1>16, <1>17, <1>18, <1>19, <1>20, <1>21, <1>22,
       <1>24 DEF Next, HandlerStep, NewRequest

\* Owned holds in every reachable state.
LEMMA OwnedAlways == Spec => []Owned
  BY TypeInit, TypeStep, OwnedInit, OwnedStep, PTL DEF Spec

\* SoleFinisher (Registry.Finish): two goroutines never settle the outcome of one
\* run at a time.
THEOREM OneFinisher == Spec => []SoleFinisher
  <1>1. Owned => SoleFinisher
    BY DEF Owned, Exclusive, Owning, SoleFinisher, Settling
  <1> QED
    BY <1>1, OwnedAlways, PTL

\* NoChannelPanic (Registry.Finish, Registry.Subscribe): none closes the signal
\* channel twice or sends on it after it was closed.
THEOREM ChannelsHold == Spec => []NoChannelPanic
  <1>1. Owned => NoChannelPanic
    BY DEF Owned, Channels, NoChannelPanic
  <1> QED
    BY <1>1, OwnedAlways, PTL

-----------------------------------------------------------------------------
(***************************************************************************)
(* The rows.  Each column agrees with the state, so that the WHERE clauses *)
(* of the UPDATEs mean what the lifecycle promises; and a step moves a row *)
(* along the lifecycle or leaves it alone.                                 *)
(***************************************************************************)
RowInv(row) ==
    /\ row.state = "absent" => row = NoRow
    /\ row.state \in {"starting", "running"} => ~row.policy /\ ~row.ended /\ row.term = "null"
    /\ row.state = "blocked" => row.policy /\ (row.ended <=> row.term # "null")

RowsInv == \A r \in Runs : RowInv(rows[r])

\* What one step of the registry may do to one row.
RowStep(old, new) ==
    \/ new = old
    \/ CanStart(old) /\ new = StartedRow
    \/ CanRun(old) /\ new = RunningRow(old)
    \/ CanBlock(old) /\ new = BlockedRow(old)
    \/ \E res \in Result : WellFormed(res) /\ CanFinish(old, res) /\ new = FinishedRow(old, res)

OneRowStep == \E r \in Runs : \E new : RowStep(rows[r], new) /\ rows' = [rows EXCEPT ![r] = new]

\* A step leaves the table alone, recovers it, or makes one legal write.
LEMMA RowsStep ==
  ASSUME Typed, [Next]_vars
  PROVE  \/ UNCHANGED rows
         \/ RecoverExecutions
         \/ OneRowStep
  <1> USE DEF Typed, Busy, OneRowStep
  <1>1. ASSUME NEW t \in Handlers, RegisterStart(t) PROVE UNCHANGED rows \/ OneRowStep
    BY <1>1 DEF RegisterStart, RowStep
  <1>2. ASSUME NEW r \in Runs, MarkRunning(r) PROVE OneRowStep
    BY <1>2 DEF MarkRunning, RowStep
  <1>3. ASSUME NEW t \in Handlers, RecordBlock(t) PROVE OneRowStep
    BY <1>3 DEF RecordBlock, RowStep
  <1>4. ASSUME NEW t \in Handlers, FinishWrite(t) PROVE UNCHANGED rows \/ OneRowStep
    <2>1. job[t] \in Runs /\ fin[t].result \in Result
      BY <1>4, FinishUpdates DEF FinishWrite, TypeOK
    <2>2. \/ UNCHANGED rows
          \/ /\ WellFormed(fin[t].result)
             /\ CanFinish(rows[job[t]], fin[t].result)
             /\ rows' = [rows EXCEPT ![job[t]] = FinishedRow(rows[job[t]], fin[t].result)]
      BY <1>4 DEF FinishWrite
    <2>3. QED
      BY <2>1, <2>2 DEF RowStep
  <1>5. ASSUME NEW t \in Handlers, NEW r \in Runs, NewRequest(t, r) PROVE UNCHANGED rows
    BY <1>5 DEF NewRequest, RegisterReserve, Authenticate, Subscribe, FinishRequest
  <1>6. ASSUME NEW t \in Handlers, HandlerStep(t) \/ StreamDisconnect(t),
               ~RegisterStart(t), ~RecordBlock(t), ~FinishWrite(t)
        PROVE  UNCHANGED rows
    BY <1>6 DEF HandlerStep, StreamDisconnect, RegisterUndo, RegisterReady, CallAllowed,
       BlockAlreadyRecorded, BlockNotRecorded, Notify, StreamNotice, StreamClosed, Release,
       FinishClaim, FinishUndo, FinishReread, FinishRemove
  <1>7. CASE Crash \/ Restart \/ StartSecondCore
    BY <1>7 DEF Crash, Restart, StartSecondCore
  <1>8. CASE UNCHANGED vars
    BY <1>8 DEF vars
  <1>9. QED
    BY <1>1, <1>2, <1>3, <1>4, <1>5, <1>6, <1>7, <1>8 DEF Next

\* A step of the store keeps a row in agreement with its history.
LEMMA RowInvStep ==
  ASSUME NEW old \in Row, RowInv(old), NEW new, RowStep(old, new)
  PROVE  new \in Row /\ RowInv(new)
  <1> USE DEF RowInv, Row, NoRow, Result, States, RunnerTerminal, Terminations
  <1>1. CASE CanStart(old) /\ new = StartedRow
    BY <1>1 DEF StartedRow
  <1>2. CASE CanRun(old) /\ new = RunningRow(old)
    BY <1>2 DEF CanRun, RunningRow
  <1>3. CASE CanBlock(old) /\ new = BlockedRow(old)
    BY <1>3 DEF CanBlock, BlockedRow
  <1>4. ASSUME NEW res \in Result, WellFormed(res), CanFinish(old, res),
               new = FinishedRow(old, res)
        PROVE  new \in Row /\ RowInv(new)
    BY <1>4 DEF WellFormed, CanFinish, FinishSources, FinishedRow
  <1>5. QED
    BY <1>1, <1>2, <1>3, <1>4 DEF RowStep

\* So does recovery.
LEMMA RowInvRecover ==
  ASSUME NEW old \in Row, RowInv(old)
  PROVE  RowInv(RecoveredRow(old))
  BY DEF RowInv, Row, NoRow, RecoveredRow

\* An empty table agrees with its history.
LEMMA RowsInvInit == Init => RowsInv
  BY DEF Init, RowsInv, RowInv, NoRow

\* Every step of the core keeps the table in agreement with its history.
LEMMA RowsInvStep == Typed /\ RowsInv /\ [Next]_vars => RowsInv'
  <1> SUFFICES ASSUME Typed, RowsInv, [Next]_vars PROVE RowsInv'
    OBVIOUS
  <1> USE DEF Typed, TypeOK, RowsInv
  <1>1. CASE UNCHANGED rows
    BY <1>1
  <1>2. CASE RecoverExecutions
    BY <1>2, RowInvRecover DEF RecoverExecutions
  <1>3. CASE OneRowStep
    BY <1>3, RowInvStep DEF OneRowStep
  <1>4. QED
    BY <1>1, <1>2, <1>3, RowsStep

-----------------------------------------------------------------------------
(***************************************************************************)
(* Refinement: a step of the registry, of a crash or of a restart is a     *)
(* step of the durable lifecycle or leaves the table alone.                *)
(***************************************************************************)
LEMMA RowStepRefines ==
  ASSUME NEW r \in Runs, rows \in [Runs -> Row], RowInv(rows[r]), NEW new,
         RowStep(rows[r], new), rows' = [rows EXCEPT ![r] = new]
  PROVE  UNCHANGED rows \/ Lifecycle!Begin(r) \/ Lifecycle!Run(r)
           \/ Lifecycle!Trip(r) \/ Lifecycle!Conclude(r)
  <1>1. CASE new = rows[r]
    BY <1>1
  <1>2. CASE CanStart(rows[r]) /\ new = StartedRow
    BY <1>2 DEF CanStart, RowInv, NoRow, StartedRow,
       Lifecycle!Begin, Lifecycle!NoRow, Lifecycle!StartedRow
  <1>3. CASE CanRun(rows[r]) /\ new = RunningRow(rows[r])
    BY <1>3 DEF CanRun, RunningRow, Lifecycle!Run
  <1>4. CASE CanBlock(rows[r]) /\ new = BlockedRow(rows[r])
    BY <1>4 DEF CanBlock, BlockedRow, Lifecycle!Trip
  <1>5. ASSUME NEW res \in Result, WellFormed(res), CanFinish(rows[r], res),
               new = FinishedRow(rows[r], res)
        PROVE  Lifecycle!Conclude(r)
    <2> DEFINE out == [state |-> res.state, term |-> res.term]
    <2>1. out \in Lifecycle!Outcome(rows[r])
      BY <1>5 DEF Lifecycle!Outcome, Lifecycle!RunnerTerminal, Lifecycle!Terminations, RunnerTerminal,
         Terminations, Result, WellFormed, CanFinish, FinishSources, RowInv, Row
    <2>2. Active(rows[r])
      BY <1>5 DEF Active, CanFinish, FinishSources, RowInv, Result, RunnerTerminal
    <2>3. new = [rows[r] EXCEPT !.state = out.state, !.term = out.term, !.ended = TRUE]
      BY <1>5 DEF FinishedRow
    <2>4. QED
      BY <2>1, <2>2, <2>3 DEF Lifecycle!Conclude, Lifecycle!Active, Active
  <1>6. QED
    BY <1>1, <1>2, <1>3, <1>4, <1>5 DEF RowStep

\* Whatever the handlers, crashes, restarts and second cores do, the table
\* behaves as the lifecycle says: the outcome of an execution is recorded at
\* most once, agrees with its history, and is never overwritten.
THEOREM RegistryRefinesLifecycle == Spec => LifecycleSpec
  <1>1. Init => Lifecycle!Init
    BY DEF Init, Lifecycle!Init, NoRow, Lifecycle!NoRow
  <1>2. Typed /\ RowsInv /\ [Next]_vars => [Lifecycle!Next]_rows
    <2> SUFFICES ASSUME Typed, RowsInv, [Next]_vars PROVE [Lifecycle!Next]_rows
      OBVIOUS
    <2>1. CASE RecoverExecutions
      BY <2>1 DEF RecoverExecutions, RecoveredRow,
         Lifecycle!Next, Lifecycle!Recover, Lifecycle!RecoveredRow
    <2>2. CASE OneRowStep
      BY <2>2, RowStepRefines DEF OneRowStep, Typed, TypeOK, RowsInv, Lifecycle!Next
    <2>3. QED
      BY <2>1, <2>2, RowsStep
  <1>3. QED
    BY <1>1, <1>2, TypeInit, TypeStep, RowsInvInit, RowsInvStep, PTL
       DEF Spec, LifecycleSpec, Lifecycle!Spec

-----------------------------------------------------------------------------
(***************************************************************************)
(* Credentials and outcomes.                                               *)
(***************************************************************************)

\* What a step does to a row is durable: an outcome and a policy decision stay,
\* and only a finish closes an open execution.
LEMMA RowStepDurable ==
  ASSUME NEW old \in Row, RowInv(old), NEW new, RowStep(old, new)
  PROVE  /\ old.ended => new = old
         /\ old.policy => new.policy
         /\ old.state # "absent" => new.state # "absent"
         /\ Active(old) => \/ Active(new)
                           \/ \E res \in Result : CanFinish(old, res) /\ new = FinishedRow(old, res)
  <1> USE DEF RowInv, Row, NoRow
  <1>1. CASE CanStart(old) /\ new = StartedRow
    BY <1>1 DEF CanStart, Active
  <1>2. CASE CanRun(old) /\ new = RunningRow(old)
    BY <1>2 DEF CanRun, RunningRow, Active
  <1>3. CASE CanBlock(old) /\ new = BlockedRow(old)
    BY <1>3 DEF CanBlock, BlockedRow, Active
  <1>4. ASSUME NEW res \in Result, CanFinish(old, res), new = FinishedRow(old, res)
        PROVE  ~old.ended /\ new.policy = old.policy /\ new.state # "absent"
    <2>1. ~old.ended
      BY <1>4 DEF CanFinish, FinishSources, Result, RunnerTerminal
    <2>2. new.policy = old.policy /\ new.state = res.state
      BY <1>4 DEF FinishedRow
    <2>3. QED
      BY <2>1, <2>2 DEF Result, RunnerTerminal
  <1>5. CASE new = old
    BY <1>5
  <1>6. QED
    BY <1>1, <1>2, <1>3, <1>4, <1>5 DEF RowStep

\* An outcome and a policy decision, once written, stay.
LEMMA Durable ==
  ASSUME Typed, RowsInv, [Next]_vars, NEW r \in Runs
  PROVE  /\ rows[r].ended => rows'[r] = rows[r]
         /\ rows[r].policy => rows'[r].policy
         /\ rows[r].state # "absent" => rows'[r].state # "absent"
  <1> USE DEF Typed, TypeOK, RowsInv
  <1>1. CASE OneRowStep
    BY <1>1, RowStepDurable DEF OneRowStep
  <1>2. CASE RecoverExecutions
    BY <1>2 DEF RecoverExecutions, RecoveredRow, RowInv, Row
  <1>3. QED
    BY <1>1, <1>2, RowsStep

\* A step that neither finishes the run nor recovers the table leaves an open
\* execution open.
LEMMA ActiveStays ==
  ASSUME Typed, RowsInv, [Next]_vars, NEW r \in Runs, Active(rows[r]), ~RecoverExecutions,
         ~\E res \in Result : CanFinish(rows[r], res) /\ rows'[r] = FinishedRow(rows[r], res)
  PROVE  Active(rows'[r])
  <1> USE DEF Typed, TypeOK, RowsInv
  <1>1. CASE OneRowStep
    BY <1>1, RowStepDurable DEF OneRowStep
  <1>2. CASE UNCHANGED rows
    BY <1>2
  <1>3. QED
    BY <1>1, <1>2, RowsStep

\* A credential that is accepted, and one that is about to be given out or given
\* back, belongs to an open execution.
Creds ==
    /\ \A r \in Runs : TokenLive(r) => Active(rows[r])
    /\ \A t \in Handlers : pc[t] \in {"register_ready", "finish_write", "finish_undo"}
                             => Active(rows[job[t]])

\* A token is accepted only while the outcome of its run is open.
LEMMA CredsStep ==
  ASSUME ~SecondCore, ~AmbiguousWrites, Typed, Owned, RowsInv, Creds, [Next]_vars
  PROVE  Creds'
  <1> USE NilAssumption
      DEF core, history, Holding, RegisterPcs, FinishPcs, StreamPcs, Typed, TypeOK, Busy, Owned,
          Pointers, Owns, Creds, TokenLive, Registered, Record
  <1>1. ASSUME NEW t \in Handlers, RegisterStart(t) PROVE Creds'
    <2>1. job[t] \in Runs /\ (pc' = [pc EXCEPT ![t] = "register_ready"]
                              \/ pc' = [pc EXCEPT ![t] = "register_undo"])
      BY <1>1 DEF RegisterStart, Goto
    <2>2. UNCHANGED <<runs, heap, job>>
      BY <1>1 DEF RegisterStart
    <2>3. CASE rows' = rows /\ pc' = [pc EXCEPT ![t] = "register_undo"]
      BY <2>1, <2>2, <2>3
    <2>4. CASE ~Active(rows[job[t]]) /\ rows' = [rows EXCEPT ![job[t]] = StartedRow]
      <3>1. Active(StartedRow)
        BY DEF Active, StartedRow, NoRow
      <3>2. \A r \in Runs : Active(rows[r]) => Active(rows'[r])
        BY <2>1, <2>4, <3>1
      <3>3. rows'[job[t]] = StartedRow
        BY <2>1, <2>4
      <3> QED
        BY <2>1, <2>2, <3>1, <3>2, <3>3
    <2>5. QED
      BY <1>1, <2>3, <2>4 DEF RegisterStart, CanStart, Active, Goto
  <1>2. ASSUME NEW t \in Handlers, RegisterReady(t) PROVE Creds'
    BY <1>2 DEF RegisterReady, Return
  <1>3. ASSUME NEW t \in Handlers, FinishWrite(t) PROVE Creds'
    <2>1. /\ job[t] \in Runs /\ rec[t] = runs[job[t]]
          /\ heap[runs[job[t]]].finishing
          /\ UNCHANGED <<runs, heap, job>>
      BY <1>3 DEF FinishWrite
    <2>2. CASE rows' = rows /\ pc' = [pc EXCEPT ![t] = "finish_undo"]
      BY <1>3, <2>1, <2>2 DEF FinishWrite
    <2>3. CASE /\ pc' = [pc EXCEPT ![t] = "finish_remove"]
               /\ rows' = [rows EXCEPT ![job[t]] = FinishedRow(rows[job[t]], fin[t].result)]
      <3>1. \A r \in Runs : r # job[t] => rows'[r] = rows[r]
        BY <2>3
      <3>2. \A u \in Handlers : u # t /\ Owning(u) => job[u] # job[t]
        BY <1>3 DEF FinishWrite, Exclusive, Owning
      <3>3. QED
        BY <2>1, <2>3, <3>1, <3>2 DEF Owning
    <2>4. QED
      BY <1>3, <2>2, <2>3 DEF FinishWrite, Goto
  <1>4. ASSUME NEW t \in Handlers, FinishUndo(t) PROVE Creds'
    <2>1. /\ job[t] \in Runs /\ rec[t] \in Addrs /\ rec[t] = runs[job[t]]
          /\ Active(rows[job[t]])
          /\ heap' = [heap EXCEPT ![rec[t]].finishing = FALSE]
          /\ UNCHANGED <<rows, runs>>
      BY <1>4 DEF FinishUndo
    <2>2. \A r \in Runs : TokenLive(r)' => Active(rows'[r])
      BY <2>1
    <2>3. \A u \in Handlers : pc'[u] \in {"register_ready", "finish_write", "finish_undo"}
                                => u # t /\ pc[u] = pc'[u] /\ job'[u] = job[u]
      BY <1>4 DEF FinishUndo, Rejected, Goto, Return
    <2>4. QED
      BY <2>1, <2>2, <2>3
  <1>5. CASE Restart
    BY <1>5 DEF Restart, Down
  <1>6. CASE Crash
    BY <1>6 DEF Crash
  <1>7. ASSUME NEW r \in Runs, MarkRunning(r) PROVE Creds'
    BY <1>7 DEF MarkRunning, CanRun, RunningRow, Active, Row
  <1>8. ASSUME NEW t \in Handlers, RecordBlock(t) PROVE Creds'
    BY <1>8 DEF RecordBlock, Goto, CanBlock, BlockedRow, Active, Row
  <1>9. ASSUME NEW t \in Handlers, NEW r \in Runs, RegisterReserve(t, r) PROVE Creds'
    BY <1>9 DEF RegisterReserve, Accept, FreeRecord
  <1>10. ASSUME NEW t \in Handlers, RegisterUndo(t) PROVE Creds'
    BY <1>10 DEF RegisterUndo, Return
  <1>11. ASSUME NEW t \in Handlers, FinishClaim(t) PROVE Creds'
    <2>1. CASE TokenLive(job[t])
      <3>1. /\ job[t] \in Runs /\ runs[job[t]] \in Addrs /\ Active(rows[job[t]])
            /\ heap' = [heap EXCEPT ![runs[job[t]]].finishing = TRUE]
            /\ pc' = [pc EXCEPT ![t] = "finish_write"]
            /\ UNCHANGED <<rows, runs, job>>
        BY <1>11, <2>1 DEF FinishClaim, Goto
      <3>2. QED
        BY <3>1
    <2>2. CASE ~TokenLive(job[t])
      <3>1. UNCHANGED <<rows, runs, heap>>
        BY <1>11, <2>2 DEF FinishClaim
      <3>2. \A u \in Handlers : pc'[u] \in {"register_ready", "finish_write", "finish_undo"}
                                  => u # t /\ pc[u] = pc'[u] /\ job'[u] = job[u]
        BY <1>11, <2>2 DEF FinishClaim, Rejected, Goto, Return
      <3>3. QED
        BY <3>1, <3>2
    <2>3. QED
      BY <2>1, <2>2
  <1>12. ASSUME NEW t \in Handlers, FinishRemove(t) PROVE Creds'
    BY <1>12 DEF FinishRemove, CloseSignals, CloseChannel, Return
  <1>13. ASSUME NEW t \in Handlers, Notify(t) PROVE Creds'
    BY <1>13 DEF Notify, NoticeWanted, Return
  <1>14. ASSUME NEW t \in Handlers, Release(t) PROVE Creds'
    <2>1. \A a \in Addrs : /\ heap'[a].ready = heap[a].ready
                           /\ heap'[a].finishing = heap[a].finishing
      <3>1. CASE MustClose(rec[t])
        BY <1>14, <3>1 DEF Release, CloseSignals, CloseChannel
      <3>2. CASE ~MustClose(rec[t])
        BY <1>14, <3>2 DEF Release, CloseSignals
      <3>3. QED
        BY <3>1, <3>2
    <2>2. QED
      BY <1>14, <2>1 DEF Release, Return
  <1>15. ASSUME NEW t \in Handlers, NEW r \in Runs, Subscribe(t, r) PROVE Creds'
    BY <1>15 DEF Subscribe, Accept
  <1>16. ASSUME NEW t \in Handlers, StreamNotice(t) PROVE Creds'
    BY <1>16 DEF StreamNotice, Goto
  <1>17. ASSUME NEW t \in Handlers, NEW r \in Runs,
                Authenticate(t, r) \/ \E input \in Inputs : FinishRequest(t, r, input)
         PROVE  Creds'
    <2>1. CASE Authenticate(t, r)
      BY <2>1 DEF Authenticate, Accept
    <2>2. CASE \E input \in Inputs : FinishRequest(t, r, input)
      BY <2>2 DEF FinishRequest, Accept
    <2> QED
      BY <1>17, <2>1, <2>2
  <1>18. ASSUME NEW t \in Handlers,
                \/ CallAllowed(t) \/ BlockAlreadyRecorded(t) \/ BlockNotRecorded(t)
                \/ StreamClosed(t) \/ StreamDisconnect(t) \/ FinishReread(t)
         PROVE  Creds'
    BY <1>18 DEF CallAllowed, BlockAlreadyRecorded, BlockNotRecorded, StreamClosed, StreamDisconnect,
       FinishReread, Goto, Return
  <1>19. CASE UNCHANGED vars
    BY <1>19 DEF vars
  <1>20. QED
    BY <1>1, <1>2, <1>3, <1>4, <1>5, <1>6, <1>7, <1>8, <1>9, <1>10, <1>11, <1>12, <1>13,
       <1>14, <1>15, <1>16, <1>17, <1>18, <1>19 DEF Next, HandlerStep, NewRequest, StartSecondCore

\* When no other core shares the database and no store call fails after its
\* write committed, the gateway never accepts the run token of an execution
\* whose outcome is recorded.
THEOREM TokensFollowOutcomes ==
  ASSUME ~SecondCore, ~AmbiguousWrites
  PROVE  Spec => []TokenImpliesActive
  <1>1. Init => Creds
    BY NilAssumption DEF Init, Creds, TokenLive, Registered
  <1>2. Typed /\ Owned /\ RowsInv /\ Creds /\ [Next]_vars => Creds'
    BY CredsStep
  <1>3. Creds => TokenImpliesActive
    BY DEF Creds, TokenImpliesActive
  <1>4. QED
    BY <1>1, <1>2, <1>3, TypeInit, TypeStep, OwnedInit, OwnedStep, RowsInvInit, RowsInvStep, PTL
       DEF Spec

\* An acknowledged finish left a recorded outcome and no registered record, and
\* no registration of that run can still succeed.
Acknowledged ==
    /\ \A r \in acked : rows[r].ended /\ ~Registered(r)
    /\ \A t \in Handlers : pc[t] = "register_ready" => job[t] \notin acked
    /\ \A t \in Handlers : pc[t] = "finish_remove" => rows[job[t]].ended

\* An acknowledged outcome stays where it was acknowledged.
LEMMA AcknowledgedStep ==
  ASSUME Typed, Owned, RowsInv, Acknowledged, [Next]_vars
  PROVE  Acknowledged'
  <1> USE NilAssumption
      DEF core, history, Holding, RegisterPcs, FinishPcs, StreamPcs, Typed, TypeOK, Busy, Owned,
          Pointers, Owns, Acknowledged, Registered, Record
  <1>1. \A r \in acked : rows'[r].ended
    BY Durable
  <1>2. ASSUME NEW t \in Handlers, job[t] \in Runs, rows[job[t]].ended PROVE rows'[job[t]].ended
    BY <1>2, Durable
  <1>3. ASSUME NEW t \in Handlers, RegisterStart(t) PROVE Acknowledged'
    <2>1. /\ job[t] \in Runs /\ runs' = runs /\ heap' = heap /\ job' = job /\ acked' = acked
          /\ \A u \in Handlers : u # t => pc'[u] = pc[u]
          /\ pc'[t] # "finish_remove"
      BY <1>3 DEF RegisterStart, Goto
    <2>2. pc'[t] = "register_ready" => job[t] \notin acked
      BY <1>3, <2>1 DEF RegisterStart, CanStart, RowsInv, RowInv, NoRow, Goto
    <2>3. \A u \in Handlers : pc'[u] = "register_ready" => job[u] \notin acked
      BY <2>1, <2>2
    <2>4. \A u \in Handlers : pc'[u] = "finish_remove" => rows'[job[u]].ended
      BY <1>2, <2>1
    <2>5. QED
      BY <1>1, <2>1, <2>3, <2>4
  <1>4. ASSUME NEW t \in Handlers, RegisterReady(t) PROVE Acknowledged'
    BY <1>1, <1>2, <1>4 DEF RegisterReady, Return
  <1>5. ASSUME NEW t \in Handlers, FinishWrite(t) PROVE Acknowledged'
    <2>1. pc'[t] = "finish_remove" => rows'[job[t]].ended
      <3>1. FinishedRow(rows[job[t]], fin[t].result).ended
        BY <1>5 DEF FinishWrite, FinishedRow, Row
      <3>2. QED
        BY <1>5, <3>1 DEF FinishWrite, Goto
    <2>2. QED
      BY <1>1, <1>2, <1>5, <2>1 DEF FinishWrite, Goto
  <1>6. ASSUME NEW t \in Handlers, FinishRemove(t) PROVE Acknowledged'
    <2>1. /\ job[t] \in Runs /\ rows'[job[t]].ended
          /\ runs' = [runs EXCEPT ![job[t]] = Nil]
          /\ acked' = acked \cup {job[t]}
          /\ \A u \in Handlers : pc'[u] # "idle" => u # t /\ pc'[u] = pc[u] /\ job'[u] = job[u]
      BY <1>2, <1>6 DEF FinishRemove, Return
    <2>2. \A u \in Handlers : pc[u] = "register_ready" => job[u] # job[t]
      BY <1>6 DEF FinishRemove, Exclusive, Owning
    <2>3. \A a \in Addrs : heap'[a].ready = heap[a].ready
      <3>1. CASE MustClose(rec[t])
        <4>1. rec[t] \in Addrs
          BY <1>6 DEF FinishRemove, Owning
        <4>2. heap' = [heap EXCEPT ![rec[t]].chan = "closed", ![rec[t]].closed = TRUE]
          BY <1>6, <3>1 DEF FinishRemove, CloseSignals, CloseChannel
        <4>3. QED
          BY <4>1, <4>2
      <3>2. CASE ~MustClose(rec[t])
        BY <1>6, <3>2 DEF FinishRemove, CloseSignals
      <3>3. QED
        BY <3>1, <3>2
    <2>4. \A r \in acked' : rows'[r].ended /\ ~Registered(r)'
      BY <1>1, <2>1, <2>3
    <2>5. \A u \in Handlers : pc'[u] = "register_ready" => job'[u] \notin acked'
      BY <2>1, <2>2
    <2>6. \A u \in Handlers : pc'[u] = "finish_remove" => rows'[job'[u]].ended
      BY <1>2, <2>1
    <2>7. QED
      BY <2>4, <2>5, <2>6
  <1>7. ASSUME acked' = acked,
               \A r \in Runs : Registered(r)' => Registered(r),
               \A u \in Handlers : pc'[u] \in {"register_ready", "finish_remove"}
                                     => pc'[u] = pc[u] /\ job'[u] = job[u]
        PROVE  Acknowledged'
    BY <1>1, <1>2, <1>7
  <1>8. ASSUME NEW t \in Handlers, NEW r \in Runs, NewRequest(t, r) PROVE Acknowledged'
    <2>1. \A q \in Runs : Registered(q)' => Registered(q)
      <3>1. CASE RegisterReserve(t, r)
        <4>1. PICK a \in Addrs : /\ heap[a] = FreeRecord
                                /\ heap' = [heap EXCEPT ![a].run = r]
                                /\ runs' = [runs EXCEPT ![r] = a]
          BY <3>1 DEF RegisterReserve
        <4>2. \A b \in Addrs : heap'[b].ready = heap[b].ready
          BY <4>1
        <4>3. ~heap[a].ready
          BY <4>1 DEF FreeRecord
        <4>4. QED
          BY <4>1, <4>2, <4>3
      <3>2. CASE Authenticate(t, r)
        BY <3>2 DEF Authenticate
      <3>3. CASE Subscribe(t, r)
        <4>1. runs' = runs /\ heap' = [heap EXCEPT ![runs[r]].claimed = TRUE]
          BY <3>3 DEF Subscribe
        <4>2. \A b \in Addrs : heap'[b].ready = heap[b].ready
          BY <4>1
        <4>3. QED
          BY <4>1, <4>2
      <3>4. CASE \E input \in Inputs : FinishRequest(t, r, input)
        BY <3>4 DEF FinishRequest
      <3>5. QED
        BY <1>8, <3>1, <3>2, <3>3, <3>4 DEF NewRequest
    <2>2. QED
      BY <1>7, <1>8, <2>1
         DEF NewRequest, RegisterReserve, Authenticate, Subscribe, FinishRequest, Accept
  <1>9. ASSUME NEW t \in Handlers,
               \/ RegisterUndo(t) \/ CallAllowed(t) \/ RecordBlock(t) \/ BlockAlreadyRecorded(t)
               \/ BlockNotRecorded(t) \/ StreamNotice(t) \/ StreamClosed(t) \/ StreamDisconnect(t)
               \/ FinishReread(t)
        PROVE  Acknowledged'
    <2>1. \A q \in Runs : Registered(q)' => Registered(q)
      <3>1. CASE RegisterUndo(t)
        BY <3>1 DEF RegisterUndo
      <3>2. CASE StreamNotice(t)
        <4>1. runs' = runs /\ heap' = [heap EXCEPT ![rec[t]].buffer = "empty"]
          BY <3>2 DEF StreamNotice
        <4>2. QED
          BY <4>1
      <3>3. CASE ~RegisterUndo(t) /\ ~StreamNotice(t)
        <4>1. runs' = runs /\ heap' = heap
          BY <1>9, <3>3 DEF CallAllowed, RecordBlock, BlockAlreadyRecorded, BlockNotRecorded,
             StreamClosed, StreamDisconnect, FinishReread
        <4>2. QED
          BY <4>1
      <3>4. QED
        BY <3>1, <3>2, <3>3
    <2>2. QED
      BY <1>7, <1>9, <2>1 DEF RegisterUndo, CallAllowed, RecordBlock, BlockAlreadyRecorded,
         BlockNotRecorded, StreamNotice, StreamClosed, StreamDisconnect, FinishReread, Goto, Return
  <1>10. ASSUME NEW t \in Handlers,
                Notify(t) \/ Release(t) \/ FinishClaim(t) \/ FinishUndo(t)
         PROVE  Acknowledged'
    <2>1. \A a \in Addrs : heap'[a].ready = heap[a].ready
      <3>1. CASE Notify(t)
        BY <3>1 DEF Notify
      <3>2. CASE Release(t) /\ MustClose(rec[t])
        BY SMTT(40), <3>2 DEF Release, CloseSignals, CloseChannel
      <3>3. CASE Release(t) /\ ~MustClose(rec[t])
        BY <3>3 DEF Release, CloseSignals
      <3>4. CASE FinishClaim(t)
        <4>1. CASE TokenLive(job[t])
          <5>1. heap' = [heap EXCEPT ![runs[job[t]]].finishing = TRUE]
            BY <3>4, <4>1 DEF FinishClaim
          <5>2. QED
            BY <5>1
        <4>2. CASE ~TokenLive(job[t])
          BY <3>4, <4>2 DEF FinishClaim
        <4>3. QED
          BY <4>1, <4>2
      <3>5. CASE FinishUndo(t)
        BY <3>5 DEF FinishUndo
      <3>6. QED
        BY <1>10, <3>1, <3>2, <3>3, <3>4, <3>5
    <2>2. runs' = runs /\ acked' = acked
      BY <1>10 DEF Notify, Release, FinishClaim, FinishUndo
    <2>3. \A u \in Handlers : pc'[u] \in {"register_ready", "finish_remove"}
                                => pc'[u] = pc[u] /\ job'[u] = job[u]
      BY <1>10 DEF Notify, Release, FinishClaim, FinishUndo, Rejected, Goto, Return
    <2>4. QED
      BY <1>7, <2>1, <2>2, <2>3
  <1>11. ASSUME NEW r \in Runs, MarkRunning(r) PROVE Acknowledged'
    BY <1>7, <1>11 DEF MarkRunning
  <1>12. CASE Crash \/ Restart \/ StartSecondCore
    BY <1>7, <1>12 DEF Crash, Restart, StartSecondCore
  <1>13. CASE UNCHANGED vars
    BY <1>7, <1>13 DEF vars
  <1>14. QED
    BY <1>3, <1>4, <1>5, <1>6, <1>8, <1>9, <1>10, <1>11, <1>12, <1>13
       DEF Next, HandlerStep, NewRequest

\* A finish that was answered 200 stays final, whatever is in flight: its
\* outcome is in the table and its token is never accepted again.
THEOREM AcknowledgedFinishIsFinal == Spec => []AckedIsFinal
  <1>1. Init => Acknowledged
    BY DEF Init, Acknowledged
  <1>2. Typed /\ Owned /\ RowsInv /\ Acknowledged /\ [Next]_vars => Acknowledged'
    BY AcknowledgedStep
  <1>3. Acknowledged => AckedIsFinal
    BY DEF Acknowledged, AckedIsFinal, TokenLive
  <1>4. QED
    BY <1>1, <1>2, <1>3, TypeInit, TypeStep, OwnedInit, OwnedStep, RowsInvInit, RowsInvStep, PTL
       DEF Spec

-----------------------------------------------------------------------------
(***************************************************************************)
(* Notices: what a notice says is true, and a run gets one, on whatever    *)
(* streams and in whatever lives of the core.                              *)
(***************************************************************************)

\* The part of the registry that every invariant here rests on.
Registry == Typed /\ Owned /\ RowsInv

\* It holds in every state.
LEMMA RegistryAlways == Spec => []Registry
  BY TypeInit, TypeStep, OwnedInit, OwnedStep, RowsInvInit, RowsInvStep, PTL DEF Spec, Registry

-----------------------------------------------------------------------------
(***************************************************************************)
(* A notice is true.  A handler that knows its block to be in the table,   *)
(* and a notice that waits in a record, have the policy in the row.        *)
(***************************************************************************)
NoticeInv ==
    /\ \A t \in Handlers : kept[t] => pc[t] = "notify" /\ rows[job[t]].policy
    /\ \A a \in Addrs :
        heap[a].buffer = "persisted" => heap[a].run \in Runs /\ rows[heap[a].run].policy
    /\ \A t \in Handlers : pc[t] = "stream" => heap[rec[t]].run = job[t]
    /\ NoticeIsTrue

\* No policy decision is ever taken back.
PolicyStays == \A r \in Runs : rows[r].policy => rows'[r].policy

\* There are no notices before the first call.
LEMMA NoticeInit == Init => NoticeInv
  BY DEF Init, NoticeInv, NoticeIsTrue, FreeRecord

\* A step that gives no handler news of a block, opens no stream and writes no
\* notice leaves NoticeInv.
LEMMA NoticeSame ==
  ASSUME Typed, NoticeInv, PolicyStays, UNCHANGED delivered,
         \A a \in Addrs : heap'[a].run = heap[a].run
                          /\ heap'[a].buffer \in {heap[a].buffer, "empty"},
         \A t \in Handlers : kept'[t] => kept[t] /\ pc'[t] = pc[t] /\ job'[t] = job[t],
         \A t \in Handlers : pc'[t] = "stream" => pc[t] = "stream" /\ job'[t] = job[t]
                                                  /\ rec'[t] = rec[t]
  PROVE  NoticeInv'
  <1> USE DEF NoticeInv, PolicyStays, Typed, TypeOK, Busy, Holding, StreamPcs
  <1>1. \A t \in Handlers : kept'[t] => pc'[t] = "notify" /\ rows'[job'[t]].policy
    OBVIOUS
  <1>2. \A a \in Addrs : heap'[a].buffer = "persisted" => heap'[a].run \in Runs
                                                          /\ rows'[heap'[a].run].policy
    OBVIOUS
  <1>3. \A t \in Handlers : pc'[t] = "stream" => heap'[rec'[t]].run = job'[t]
    OBVIOUS
  <1>4. NoticeIsTrue'
    BY DEF NoticeIsTrue
  <1>5. QED
    BY <1>1, <1>2, <1>3, <1>4

\* Closing the channel of a record leaves its run and its buffer alone.
LEMMA CloseKeeps ==
  ASSUME NEW a \in Addrs, heap \in [Addrs -> Record], CloseSignals(a)
  PROVE  \A b \in Addrs : heap'[b].run = heap[b].run /\ heap'[b].buffer = heap[b].buffer
  <1>1. CASE MustClose(a)
    <2>1. heap' = [heap EXCEPT ![a].chan = "closed", ![a].closed = TRUE]
      BY <1>1 DEF CloseSignals, CloseChannel
    <2>2. QED
      BY <2>1 DEF Record
  <1>2. CASE ~MustClose(a)
    BY <1>2 DEF CloseSignals
  <1>3. QED
    BY <1>1, <1>2

\* Every step of the core keeps the notices true.
LEMMA NoticeStep == Registry /\ NoticeInv /\ [Next]_vars => NoticeInv'
  <1> SUFFICES ASSUME Registry, NoticeInv, [Next]_vars PROVE NoticeInv'
    OBVIOUS
  <1>0. Typed /\ Owned /\ RowsInv /\ PolicyStays
    BY Durable DEF Registry, PolicyStays
  <1> USE <1>0, NilAssumption
      DEF core, history, Typed, TypeOK, Busy, Holding, RegisterPcs, FinishPcs, StreamPcs, Record
  <1>1. ASSUME NEW t \in Handlers, NEW r \in Runs, RegisterReserve(t, r) PROVE NoticeInv'
    <2>1. PICK a \in Addrs : /\ heap[a] = FreeRecord
                             /\ heap' = [heap EXCEPT ![a].run = r]
                             /\ rec' = [rec EXCEPT ![t] = a]
      BY <1>1 DEF RegisterReserve
    <2>2. /\ pc[t] = "idle" /\ pc' = [pc EXCEPT ![t] = "register_start"]
          /\ job' = [job EXCEPT ![t] = r] /\ UNCHANGED <<rows, kept, delivered>>
      BY <1>1 DEF RegisterReserve, Accept
    <2>3. \A b \in Addrs : heap'[b].buffer = "persisted" => heap'[b].run = heap[b].run
                                                            /\ heap[b].buffer = "persisted"
      BY <2>1 DEF FreeRecord
    <2>4. \A u \in Handlers : pc'[u] = "stream" =>
              pc[u] = "stream" /\ u # t /\ heap[rec[u]].run = job[u] /\ rec[u] # a
      BY <2>1, <2>2 DEF NoticeInv, FreeRecord
    <2>5. \A u \in Handlers : pc'[u] = "stream" => heap'[rec'[u]].run = job'[u]
      BY <2>1, <2>2, <2>4
    <2>6. QED
      BY <2>2, <2>3, <2>5 DEF NoticeInv, NoticeIsTrue
  <1>2. ASSUME NEW t \in Handlers, RecordBlock(t) PROVE NoticeInv'
    <2>1. /\ pc[t] = "request" /\ pc' = [pc EXCEPT ![t] = "notify"]
          /\ kept' = [kept EXCEPT ![t] = TRUE] \/ kept' = kept
          /\ rows' = [rows EXCEPT ![job[t]] = BlockedRow(@)]
          /\ UNCHANGED <<heap, job, rec, delivered>>
      BY <1>2 DEF RecordBlock, Goto
    <2>2. job[t] \in Runs /\ rows'[job[t]].policy
      BY <2>1 DEF BlockedRow, Row
    <2>3. QED
      BY <2>1, <2>2 DEF NoticeInv, NoticeIsTrue, PolicyStays
  <1>3. ASSUME NEW t \in Handlers, Notify(t) PROVE NoticeInv'
    <2>1. /\ pc[t] = "notify" /\ pc' = [pc EXCEPT ![t] = "idle"]
          /\ kept' = [kept EXCEPT ![t] = FALSE]
          /\ job' = [job EXCEPT ![t] = NoRun] /\ rec' = [rec EXCEPT ![t] = Nil]
          /\ UNCHANGED <<rows, delivered>>
      BY <1>3 DEF Notify, Return
    <2>2. CASE heap' = heap
      BY <2>1, <2>2, NoticeSame
    <2>3. CASE heap' # heap
      <3> DEFINE a == runs[job[t]]
      <3>1. /\ a \in Addrs /\ heap[a].run = job[t] /\ job[t] \in Runs
            /\ heap' = [heap EXCEPT ![a].notified = TRUE,
                                    ![a].buffer = IF @ # "empty" THEN @
                                                  ELSE IF kept[t] THEN "persisted"
                                                  ELSE "unpersisted"]
        BY <1>3, <2>3 DEF Notify, NoticeWanted, TokenLive, Registered, Owned, Pointers
      <3>2. \A b \in Addrs : heap'[b].run = heap[b].run
        BY <3>1
      <3>3. \A b \in Addrs : heap'[b].buffer = "persisted" =>
                heap[b].buffer = "persisted" \/ (b = a /\ kept[t])
        BY <3>1
      <3>4. QED
        BY <2>1, <3>1, <3>2, <3>3 DEF NoticeInv, NoticeIsTrue
    <2>4. QED
      BY <2>2, <2>3
  <1>4. ASSUME NEW t \in Handlers, NEW r \in Runs, Subscribe(t, r) PROVE NoticeInv'
    <2>1. runs[r] \in Addrs /\ heap[runs[r]].run = r
      BY <1>4 DEF Subscribe, Subscribable, TokenLive, Registered, Owned, Pointers
    <2>2. /\ pc[t] = "idle" /\ pc' = [pc EXCEPT ![t] = "stream"]
          /\ job' = [job EXCEPT ![t] = r] /\ rec' = [rec EXCEPT ![t] = runs[r]]
          /\ heap' = [heap EXCEPT ![runs[r]].claimed = TRUE]
          /\ UNCHANGED <<rows, kept, delivered>>
      BY <1>4 DEF Subscribe, Accept
    <2>3. \A b \in Addrs : heap'[b].run = heap[b].run /\ heap'[b].buffer = heap[b].buffer
      BY <2>1, <2>2
    <2>4. QED
      BY <2>1, <2>2, <2>3 DEF NoticeInv, NoticeIsTrue
  <1>5. ASSUME NEW t \in Handlers, StreamNotice(t) PROVE NoticeInv'
    <2>1. /\ pc[t] = "stream" /\ pc' = [pc EXCEPT ![t] = "release"]
          /\ heap' = [heap EXCEPT ![rec[t]].buffer = "empty"]
          /\ UNCHANGED <<rows, job, rec, kept>>
      BY <1>5 DEF StreamNotice, Goto
    <2>2. job[t] \in Runs /\ rec[t] \in Addrs /\ heap[rec[t]].run = job[t]
      BY <2>1 DEF NoticeInv
    <2>3. heap[rec[t]].buffer = "persisted" => rows[job[t]].policy
      BY <2>2 DEF NoticeInv
    <2>4. delivered' = [delivered EXCEPT ![job[t]] = Append(@, heap[rec[t]].buffer)]
      BY <1>5 DEF StreamNotice
    <2>5. NoticeIsTrue'
      BY <2>1, <2>2, <2>3, <2>4 DEF NoticeInv, NoticeIsTrue
    <2>6. QED
      BY <2>1, <2>2, <2>5 DEF NoticeInv
  <1>6. CASE Crash
    BY <1>6 DEF Crash, FreeRecord, NoticeInv, NoticeIsTrue
  <1>8. ASSUME NEW t \in Handlers, Release(t) \/ FinishRemove(t) PROVE NoticeInv'
    <2>1. rec[t] \in Addrs /\ CloseSignals(rec[t]) /\ Return(t) /\ UNCHANGED delivered
      BY <1>8 DEF Release, FinishRemove
    <2>2. QED
      BY <2>1, CloseKeeps, NoticeSame DEF Return
  <1>9. ASSUME NEW t \in Handlers,
               \/ RegisterStart(t) \/ RegisterUndo(t) \/ CallAllowed(t)
               \/ BlockAlreadyRecorded(t) \/ BlockNotRecorded(t)
               \/ StreamClosed(t) \/ StreamDisconnect(t) \/ FinishWrite(t) \/ FinishReread(t)
        PROVE  NoticeInv'
    <2>1. UNCHANGED <<heap, delivered>>
      BY <1>9 DEF RegisterStart, RegisterUndo, CallAllowed, BlockAlreadyRecorded,
                  BlockNotRecorded, StreamClosed, StreamDisconnect, FinishWrite, FinishReread
    <2>2. pc[t] # "notify" /\ \A u \in Handlers : kept[u] => pc[u] = "notify"
      BY <1>9 DEF NoticeInv, RegisterStart, RegisterUndo, CallAllowed, BlockAlreadyRecorded,
                  BlockNotRecorded, StreamClosed, StreamDisconnect, FinishWrite, FinishReread
    <2>3. /\ pc' = [pc EXCEPT ![t] = pc'[t]] /\ pc'[t] # "stream"
          /\ \A u \in Handlers \ {t} : job'[u] = job[u] /\ rec'[u] = rec[u]
          /\ \A u \in Handlers : kept'[u] => kept[u]
      BY <1>9 DEF RegisterStart, RegisterUndo, CallAllowed, BlockAlreadyRecorded,
                  BlockNotRecorded, StreamClosed, StreamDisconnect, FinishWrite, FinishReread,
                  Goto, Return
    <2>4. QED
      BY <2>1, <2>2, <2>3, NoticeSame
  <1>10. ASSUME NEW t \in Handlers, RegisterReady(t) \/ FinishClaim(t) \/ FinishUndo(t)
         PROVE  NoticeInv'
    <2>1. UNCHANGED delivered
          /\ \A a \in Addrs : heap'[a].run = heap[a].run /\ heap'[a].buffer = heap[a].buffer
      <3>1. CASE RegisterReady(t)
        BY <3>1 DEF RegisterReady
      <3>2. CASE FinishClaim(t) /\ TokenLive(job[t])
        <4>1. runs[job[t]] \in Addrs
          BY <3>2 DEF FinishClaim, TokenLive, Registered
        <4>2. heap' = [heap EXCEPT ![runs[job[t]]].finishing = TRUE] /\ UNCHANGED delivered
          BY <3>2 DEF FinishClaim
        <4>3. QED
          BY <4>1, <4>2
      <3>3. CASE FinishClaim(t) /\ ~TokenLive(job[t])
        BY <3>3 DEF FinishClaim
      <3>4. CASE FinishUndo(t)
        BY <3>4 DEF FinishUndo
      <3>5. QED
        BY <1>10, <3>1, <3>2, <3>3, <3>4
    <2>2. pc[t] # "notify" /\ \A u \in Handlers : kept[u] => pc[u] = "notify"
      BY <1>10 DEF NoticeInv, RegisterReady, FinishClaim, FinishUndo
    <2>3. /\ pc' = [pc EXCEPT ![t] = pc'[t]] /\ pc'[t] # "stream"
          /\ \A u \in Handlers \ {t} : job'[u] = job[u] /\ rec'[u] = rec[u]
          /\ \A u \in Handlers : kept'[u] => kept[u]
      BY ZenonT(40), <1>10 DEF RegisterReady, FinishClaim, FinishUndo, Rejected, Goto, Return
    <2>4. QED
      BY <2>1, <2>2, <2>3, NoticeSame
  <1>11. ASSUME NEW t \in Handlers, NEW r \in Runs,
                \/ Authenticate(t, r)
                \/ \E input \in Inputs : FinishRequest(t, r, input)
         PROVE  NoticeInv'
    <2>1. /\ pc[t] = "idle" /\ pc'[t] # "stream" /\ pc' = [pc EXCEPT ![t] = pc'[t]]
          /\ job' = [job EXCEPT ![t] = r] /\ UNCHANGED <<heap, rec, kept, delivered>>
      BY <1>11 DEF Authenticate, FinishRequest, Accept
    <2>2. QED
      BY <2>1, NoticeSame DEF NoticeInv
  <1>12. ASSUME UNCHANGED <<heap, pc, job, rec, kept, delivered>> PROVE NoticeInv'
    BY <1>12, NoticeSame
  <1>13. CASE Restart \/ StartSecondCore \/ (\E r \in Runs : MarkRunning(r)) \/ UNCHANGED vars
    BY <1>12, <1>13 DEF Restart, StartSecondCore, MarkRunning, vars
  <1>14. QED
    BY <1>1, <1>2, <1>3, <1>4, <1>5, <1>6, <1>8, <1>9, <1>10, <1>11, <1>13
       DEF Next, HandlerStep, NewRequest

\* The notices of every state are true.
LEMMA NoticeAlways == Spec => []NoticeInv
  BY RegistryAlways, NoticeInit, NoticeStep, PTL DEF Spec

\* What a notice claims can be read in the table: no runner is told of a
\* recorded policy decision that is not there.
THEOREM NoticesAreTrue == Spec => []NoticeIsTrue
  <1>1. NoticeInv => NoticeIsTrue
    BY DEF NoticeInv
  <1>2. QED
    BY <1>1, NoticeAlways, PTL

-----------------------------------------------------------------------------
(***************************************************************************)
(* A run gets one notice.  A run ID is registered once in the life of its  *)
(* row, so all notices of a run go through one ready record; `notified`    *)
(* lets one pass, and once it is on a stream the record has no other.      *)
(***************************************************************************)
Begun(r) == rows[r].state # "absent"

OnceInv ==
    /\ \A a \in Addrs : /\ heap[a].buffer # "empty" => heap[a].notified
                        /\ heap[a].notified => heap[a].ready
                        /\ heap[a].ready => heap[a].run \in Runs /\ Begun(heap[a].run)
                        /\ heap[a].ready /\ delivered[heap[a].run] # <<>> =>
                              heap[a].notified /\ heap[a].buffer = "empty"
    /\ \A a, b \in Addrs : heap[a].ready /\ heap[b].ready /\ heap[a].run = heap[b].run => a = b
    /\ \A t \in Handlers : pc[t] = "register_ready" =>
          /\ Begun(job[t])
          /\ delivered[job[t]] = <<>>
          /\ \A a \in Addrs : heap[a].run = job[t] => ~heap[a].ready
    /\ \A r \in Runs : delivered[r] # <<>> => Begun(r)
    /\ OneCircuitBreak

\* No row is ever deleted while the registry runs.
BegunStays == \A r \in Runs : Begun(r) => Begun(r)'

\* No run has a notice before the first call.
LEMMA OnceInit == Init => OnceInv
  BY DEF Init, OnceInv, OneCircuitBreak, FreeRecord, Begun

\* A step that makes no record ready, sends nothing, delivers nothing and
\* completes no start leaves OnceInv.
LEMMA OnceSame ==
  ASSUME Typed, OnceInv, BegunStays, UNCHANGED delivered,
         \A a \in Addrs : /\ heap'[a].ready = heap[a].ready
                          /\ heap'[a].notified = heap[a].notified
                          /\ heap'[a].buffer = heap[a].buffer
                          /\ heap[a].ready \/ heap'[a].ready => heap'[a].run = heap[a].run,
         \A t \in Handlers : pc'[t] = "register_ready" =>
                                pc[t] = "register_ready" /\ job'[t] = job[t]
  PROVE  OnceInv'
  <1>0. \A t \in Handlers : pc[t] = "register_ready" => job[t] \in Runs
    BY DEF Typed, Busy
  <1>1. ASSUME NEW a \in Addrs
        PROVE  /\ heap'[a].buffer # "empty" => heap'[a].notified
               /\ heap'[a].notified => heap'[a].ready
               /\ heap'[a].ready => heap'[a].run \in Runs /\ Begun(heap[a].run)'
               /\ heap'[a].ready /\ delivered'[heap'[a].run] # <<>> =>
                     heap'[a].notified /\ heap'[a].buffer = "empty"
    <2>1. CASE heap[a].ready
      <3>1. heap'[a].run = heap[a].run /\ heap[a].run \in Runs /\ Begun(heap[a].run)
        BY <2>1 DEF OnceInv
      <3>2. rows'[heap'[a].run].state # "absent"
        BY <3>1 DEF BegunStays, Begun
      <3>3. QED
        BY <2>1, <3>1, <3>2 DEF OnceInv, Begun
    <2>2. CASE ~heap[a].ready
      BY <2>2 DEF OnceInv
    <2>3. QED
      BY <2>1, <2>2
  <1>2. \A a, b \in Addrs : heap'[a].ready /\ heap'[b].ready /\ heap'[a].run = heap'[b].run
                              => a = b
    BY DEF OnceInv
  <1>3. ASSUME NEW t \in Handlers, pc'[t] = "register_ready"
        PROVE  /\ Begun(job[t])'
               /\ delivered'[job'[t]] = <<>>
               /\ \A a \in Addrs : heap'[a].run = job'[t] => ~heap'[a].ready
    <2>1. pc[t] = "register_ready" /\ job'[t] = job[t] /\ job[t] \in Runs
      BY <1>0, <1>3
    <2>2. /\ Begun(job[t]) /\ delivered[job[t]] = <<>>
          /\ \A a \in Addrs : heap[a].run = job[t] => ~heap[a].ready
      BY <2>1 DEF OnceInv
    <2>3. rows'[job'[t]].state # "absent"
      BY <2>1, <2>2 DEF BegunStays, Begun
    <2>4. QED
      BY <2>1, <2>2, <2>3 DEF Begun
  <1>4. (\A r \in Runs : delivered'[r] # <<>> => Begun(r)') /\ OneCircuitBreak'
    BY DEF OnceInv, BegunStays, Begun, OneCircuitBreak
  <1>5. QED
    BY <1>1, <1>2, <1>3, <1>4 DEF OnceInv

\* What a step leaves of a record as far as its notices go.
Kept(a) == /\ heap'[a].run = heap[a].run
           /\ heap'[a].ready = heap[a].ready
           /\ heap'[a].notified = heap[a].notified
           /\ heap'[a].buffer = heap[a].buffer

\* The handlers that neither register a run nor pass a notice on keep the
\* records, whatever they do to the streams and the finish.
LEMMA HandlerEffects ==
  ASSUME Typed, NEW t \in Handlers, HandlerStep(t) \/ StreamDisconnect(t),
         ~RegisterStart(t), ~RegisterReady(t), ~Notify(t), ~StreamNotice(t)
  PROVE  /\ UNCHANGED delivered
         /\ \A u \in Handlers \ {t} : pc'[u] = pc[u] /\ job'[u] = job[u]
         /\ pc'[t] # "register_ready"
         /\ \A a \in Addrs : Kept(a)
  <1>h. heap \in [Addrs -> Record] /\ pc \in [Handlers -> Pcs] /\ job \in [Handlers -> Runs \cup {NoRun}]
    BY DEF Typed, TypeOK
  <1> USE DEF history
  <1>1. CASE Release(t) \/ FinishRemove(t)
    <2>1. /\ rec[t] \in Addrs /\ CloseSignals(rec[t]) /\ UNCHANGED delivered
          /\ pc' = [pc EXCEPT ![t] = "idle"] /\ job' = [job EXCEPT ![t] = NoRun]
      BY <1>1 DEF Release, FinishRemove, Return, Typed, Busy, Holding, TypeOK, StreamPcs, FinishPcs
    <2>2. \A a \in Addrs : Kept(a)
      <3>1. CASE MustClose(rec[t])
        <4>1. heap' = [heap EXCEPT ![rec[t]].chan = "closed", ![rec[t]].closed = TRUE]
          BY <2>1, <3>1 DEF CloseSignals, CloseChannel
        <4>2. QED
          BY <4>1, <1>h DEF Kept, Record
      <3>2. CASE ~MustClose(rec[t])
        BY <2>1, <3>2 DEF CloseSignals, Kept
      <3>3. QED
        BY <3>1, <3>2
    <2>3. QED
      BY <2>1, <2>2, <1>h
  <1>2. CASE FinishClaim(t)
    <2>1. /\ UNCHANGED delivered /\ pc' = [pc EXCEPT ![t] = pc'[t]] /\ pc'[t] # "register_ready"
          /\ \A u \in Handlers \ {t} : job'[u] = job[u]
      BY <1>2, <1>h DEF FinishClaim, Rejected, Goto, Return
    <2>2. \A a \in Addrs : Kept(a)
      <3>1. CASE TokenLive(job[t])
        <4>1. heap' = [heap EXCEPT ![runs[job[t]]].finishing = TRUE]
          BY <1>2, <3>1 DEF FinishClaim
        <4>2. QED
          BY <4>1, <1>h DEF Kept, Record
      <3>2. CASE ~TokenLive(job[t])
        BY <1>2, <3>2 DEF FinishClaim, Kept
      <3>3. QED
        BY <3>1, <3>2
    <2>3. QED
      BY <2>1, <2>2, <1>h
  <1>3. CASE FinishUndo(t)
    <2>1. /\ UNCHANGED delivered /\ pc' = [pc EXCEPT ![t] = pc'[t]] /\ pc'[t] # "register_ready"
          /\ \A u \in Handlers \ {t} : job'[u] = job[u]
      BY <1>3, <1>h DEF FinishUndo, Rejected, Goto, Return
    <2>2. heap' = [heap EXCEPT ![rec[t]].finishing = FALSE]
      BY <1>3 DEF FinishUndo
    <2>3. \A a \in Addrs : Kept(a)
      BY <2>2, <1>h DEF Kept, Record
    <2>4. QED
      BY <2>1, <2>3, <1>h
  <1>4. CASE \/ RegisterUndo(t) \/ CallAllowed(t) \/ RecordBlock(t) \/ BlockAlreadyRecorded(t)
             \/ BlockNotRecorded(t) \/ StreamClosed(t) \/ StreamDisconnect(t)
             \/ FinishWrite(t) \/ FinishReread(t)
    <2>1. UNCHANGED <<heap, delivered>>
      BY <1>4 DEF RegisterUndo, CallAllowed, RecordBlock, BlockAlreadyRecorded, BlockNotRecorded,
                  StreamClosed, StreamDisconnect, FinishWrite, FinishReread
    <2>2. /\ pc' = [pc EXCEPT ![t] = pc'[t]] /\ pc'[t] # "register_ready"
          /\ \A u \in Handlers \ {t} : job'[u] = job[u]
      BY <1>4, <1>h DEF RegisterUndo, CallAllowed, RecordBlock, BlockAlreadyRecorded,
                        BlockNotRecorded, StreamClosed, StreamDisconnect, FinishWrite,
                        FinishReread, Goto, Return
    <2>3. QED
      BY <2>1, <2>2, <1>h DEF Kept
  <1>5. QED
    BY <1>1, <1>2, <1>3, <1>4 DEF HandlerStep

\* Every step of the core sends at most one notice for a run.
LEMMA OnceStep == Registry /\ NoticeInv /\ OnceInv /\ [Next]_vars => OnceInv'
  <1> SUFFICES ASSUME Registry, NoticeInv, OnceInv, [Next]_vars PROVE OnceInv'
    OBVIOUS
  <1>0. Typed /\ Owned /\ BegunStays
    BY Durable DEF Registry, BegunStays, Begun
  <1>h. heap \in [Addrs -> Record]
    BY <1>0 DEF Typed, TypeOK
  <1> USE <1>0, NilAssumption DEF core, history, Typed, TypeOK, Busy, Holding, RegisterPcs,
                                  FinishPcs, StreamPcs
  <1>1. ASSUME NEW t \in Handlers, NEW r \in Runs, RegisterReserve(t, r) PROVE OnceInv'
    <2>1. PICK a \in Addrs : heap[a] = FreeRecord /\ heap' = [heap EXCEPT ![a].run = r]
      BY <1>1 DEF RegisterReserve
    <2>2. \A b \in Addrs : /\ heap'[b].ready = heap[b].ready
                           /\ heap'[b].notified = heap[b].notified
                           /\ heap'[b].buffer = heap[b].buffer
                           /\ heap[b].ready \/ heap'[b].ready => heap'[b].run = heap[b].run
      <3>1. ~heap[a].ready
        BY <2>1 DEF FreeRecord
      <3>2. ASSUME NEW b \in Addrs, b # a PROVE heap'[b] = heap[b]
        BY <2>1, <3>2, <1>h
      <3>3. heap'[a] = [FreeRecord EXCEPT !.run = r]
        BY <2>1, <1>h
      <3>4. /\ heap'[a].ready = heap[a].ready /\ heap'[a].notified = heap[a].notified
            /\ heap'[a].buffer = heap[a].buffer
        BY <2>1, <3>3 DEF FreeRecord
      <3>5. QED
        BY <3>1, <3>2, <3>4
    <2>3. /\ UNCHANGED delivered
          /\ \A u \in Handlers : pc'[u] = "register_ready" =>
                pc[u] = "register_ready" /\ job'[u] = job[u]
      BY <1>1 DEF RegisterReserve, Accept
    <2>4. QED
      BY <2>2, <2>3, OnceSame
  <1>2. ASSUME NEW t \in Handlers, RegisterStart(t) PROVE OnceInv'
    <2>1. UNCHANGED <<heap, job, delivered>> /\ pc' = [pc EXCEPT ![t] = pc'[t]]
      BY <1>2 DEF RegisterStart, Goto
    <2>2. CASE pc'[t] # "register_ready"
      <3>1. \A u \in Handlers : pc'[u] = "register_ready" => pc[u] = "register_ready"
        BY <2>1, <2>2
      <3>2. QED
        BY <2>1, <3>1, OnceSame
    <2>3. CASE pc'[t] = "register_ready"
      <3>1. /\ rows' = [rows EXCEPT ![job[t]] = StartedRow] /\ job[t] \in Runs
            /\ ~Begun(job[t])
        BY <1>2, <2>3 DEF RegisterStart, Goto, CanStart, Begun
      <3>2. Begun(job[t])'
        BY <2>1, <3>1 DEF Begun, StartedRow, NoRow
      <3>3. /\ delivered[job[t]] = <<>>
            /\ \A a \in Addrs : heap[a].run = job[t] => ~heap[a].ready
        BY <3>1 DEF OnceInv
      <3>4. \A u \in Handlers : pc'[u] = "register_ready" => u = t \/ pc[u] = "register_ready"
        BY <2>1
      <3>5. \A u \in Handlers : pc'[u] = "register_ready" =>
              /\ Begun(job[u])'
              /\ delivered'[job'[u]] = <<>>
              /\ \A a \in Addrs : heap'[a].run = job'[u] => ~heap'[a].ready
        BY <2>1, <3>2, <3>3, <3>4 DEF OnceInv, BegunStays, Begun
      <3>6. QED
        BY <2>1, <3>5 DEF OnceInv, OneCircuitBreak, BegunStays, Begun
    <2>4. QED
      BY <2>2, <2>3
  <1>3. ASSUME NEW t \in Handlers, RegisterReady(t) PROVE OnceInv'
    <2> DEFINE a == rec[t]
               r == job[t]
    <2>1. a \in Addrs /\ r \in Runs /\ heap[a].run = r /\ ~heap[a].ready
      BY <1>3 DEF RegisterReady, Owned, Owns, Pointers
    <2>2. /\ heap' = [heap EXCEPT ![a].ready = TRUE] /\ UNCHANGED <<rows, delivered>>
          /\ pc' = [pc EXCEPT ![t] = "idle"] /\ job' = [job EXCEPT ![t] = NoRun]
      BY <1>3 DEF RegisterReady, Return
    <2>3. \A b \in Addrs : /\ heap'[b].run = heap[b].run
                           /\ heap'[b].notified = heap[b].notified
                           /\ heap'[b].buffer = heap[b].buffer
                           /\ heap'[b].ready <=> heap[b].ready \/ b = a
      BY <2>1, <2>2, <1>h DEF Record
    <2>4. /\ Begun(r) /\ delivered[r] = <<>>
          /\ \A b \in Addrs : heap[b].run = r => ~heap[b].ready
      BY <1>3 DEF RegisterReady, OnceInv
    <2>5. \A u \in Handlers : pc'[u] = "register_ready" =>
            pc[u] = "register_ready" /\ u # t /\ job'[u] = job[u] /\ job[u] # r
      BY <1>3, <2>2 DEF RegisterReady, Owned, Exclusive, Owning
    <2>6. \A u \in Handlers : pc'[u] = "register_ready" =>
            /\ Begun(job[u])'
            /\ delivered'[job'[u]] = <<>>
            /\ \A b \in Addrs : heap'[b].run = job'[u] => ~heap'[b].ready
      BY <2>1, <2>2, <2>3, <2>5 DEF OnceInv, Begun
    <2>7. \A b \in Addrs : /\ heap'[b].buffer # "empty" => heap'[b].notified
                           /\ heap'[b].notified => heap'[b].ready
                           /\ heap'[b].ready => heap'[b].run \in Runs /\ Begun(heap[b].run)'
                           /\ heap'[b].ready /\ delivered'[heap'[b].run] # <<>> =>
                                 heap'[b].notified /\ heap'[b].buffer = "empty"
      BY <2>1, <2>2, <2>3, <2>4 DEF OnceInv, Begun
    <2>8. \A b, c \in Addrs : heap'[b].ready /\ heap'[c].ready /\ heap'[b].run = heap'[c].run
                                => b = c
      BY SMTT(30), <2>1, <2>3, <2>4 DEF OnceInv
    <2>9. QED
      BY <2>2, <2>6, <2>7, <2>8 DEF OnceInv, OneCircuitBreak, Begun
  <1>4. ASSUME NEW t \in Handlers, Notify(t) PROVE OnceInv'
    <2>1. /\ pc' = [pc EXCEPT ![t] = "idle"] /\ job' = [job EXCEPT ![t] = NoRun]
          /\ UNCHANGED <<rows, delivered>>
      BY <1>4 DEF Notify, Return
    <2>2. CASE heap' = heap
      BY <2>1, <2>2, OnceSame
    <2>3. CASE heap' # heap
      <3> DEFINE a == runs[job[t]]
      <3>1. /\ a \in Addrs /\ heap[a].ready /\ ~heap[a].notified
            /\ heap' = [heap EXCEPT ![a].notified = TRUE,
                                    ![a].buffer = IF @ # "empty" THEN @
                                                  ELSE IF kept[t] THEN "persisted"
                                                  ELSE "unpersisted"]
        BY <1>4, <2>3 DEF Notify, NoticeWanted, TokenLive, Registered
      <3>2. \A b \in Addrs : /\ heap'[b].run = heap[b].run /\ heap'[b].ready = heap[b].ready
                             /\ heap'[b].notified <=> heap[b].notified \/ b = a
                             /\ b # a => heap'[b].buffer = heap[b].buffer
        BY <3>1, <1>h DEF Record
      <3>3. delivered[heap[a].run] = <<>>
        BY <3>1 DEF OnceInv
      <3>4. \A u \in Handlers : pc'[u] = "register_ready" =>
              pc[u] = "register_ready" /\ job'[u] = job[u]
        BY <2>1
      <3>5. \A u \in Handlers : pc'[u] = "register_ready" =>
              /\ Begun(job[u])'
              /\ delivered'[job'[u]] = <<>>
              /\ \A b \in Addrs : heap'[b].run = job'[u] => ~heap'[b].ready
        <4> SUFFICES ASSUME NEW u \in Handlers, pc'[u] = "register_ready"
                     PROVE  /\ rows[job[u]].state # "absent"
                            /\ delivered[job[u]] = <<>>
                            /\ \A b \in Addrs : heap'[b].run = job[u] => ~heap'[b].ready
          BY <2>1, <3>4 DEF Begun
        <4>1. pc[u] = "register_ready"
          BY <3>4
        <4>2. QED
          BY SMTT(30), <3>2, <4>1 DEF OnceInv, Begun
      <3>6. \A b \in Addrs : /\ heap'[b].buffer # "empty" => heap'[b].notified
                             /\ heap'[b].notified => heap'[b].ready
                             /\ heap'[b].ready => heap'[b].run \in Runs /\ Begun(heap[b].run)'
                             /\ heap'[b].ready /\ delivered'[heap'[b].run] # <<>> =>
                                   heap'[b].notified /\ heap'[b].buffer = "empty"
        BY <2>1, <3>1, <3>2, <3>3 DEF OnceInv, Begun
      <3>7. \A b, c \in Addrs : heap'[b].ready /\ heap'[c].ready /\ heap'[b].run = heap'[c].run
                                  => b = c
        BY <3>2 DEF OnceInv
      <3>8. QED
        BY <2>1, <3>5, <3>6, <3>7 DEF OnceInv, OneCircuitBreak, Begun
    <2>4. QED
      BY <2>2, <2>3
  <1>5. ASSUME NEW t \in Handlers, StreamNotice(t) PROVE OnceInv'
    <2> DEFINE a == rec[t]
               r == job[t]
    <2>1. /\ a \in Addrs /\ r \in Runs /\ heap[a].run = r
          /\ heap[a].buffer # "empty" /\ heap[a].notified /\ heap[a].ready
          /\ Begun(r) /\ delivered[r] = <<>>
      BY <1>5 DEF StreamNotice, NoticeInv, OnceInv
    <2>2. /\ heap' = [heap EXCEPT ![a].buffer = "empty"] /\ UNCHANGED <<rows, job>>
          /\ delivered' = [delivered EXCEPT ![r] = Append(@, heap[a].buffer)]
          /\ pc' = [pc EXCEPT ![t] = "release"]
      BY <1>5 DEF StreamNotice, Goto
    <2>3. \A b \in Addrs : /\ heap'[b].run = heap[b].run /\ heap'[b].ready = heap[b].ready
                           /\ heap'[b].notified = heap[b].notified
                           /\ heap'[b].buffer = IF b = a THEN "empty" ELSE heap[b].buffer
      BY <2>1, <2>2, <1>h DEF Record
    <2>4. heap[a].buffer \in Notices
      BY <2>1, <1>h DEF Record
    <2>5. Len(delivered'[r]) = 1 /\ \A q \in Runs : q # r => delivered'[q] = delivered[q]
      BY <2>1, <2>2, <2>4
    <2>6. \A u \in Handlers : pc'[u] = "register_ready" => pc[u] = "register_ready" /\ job[u] # r
      BY <2>1, <2>2 DEF OnceInv
    <2>7. \A u \in Handlers : pc'[u] = "register_ready" =>
            /\ Begun(job[u])'
            /\ delivered'[job'[u]] = <<>>
            /\ \A b \in Addrs : heap'[b].run = job'[u] => ~heap'[b].ready
      BY <2>2, <2>3, <2>5, <2>6 DEF OnceInv, Begun
    <2>8. \A b \in Addrs : /\ heap'[b].buffer # "empty" => heap'[b].notified
                           /\ heap'[b].notified => heap'[b].ready
                           /\ heap'[b].ready => heap'[b].run \in Runs /\ Begun(heap[b].run)'
                           /\ heap'[b].ready /\ delivered'[heap'[b].run] # <<>> =>
                                 heap'[b].notified /\ heap'[b].buffer = "empty"
      BY <2>1, <2>2, <2>3, <2>5 DEF OnceInv, Begun
    <2>9. \A b, c \in Addrs : heap'[b].ready /\ heap'[c].ready /\ heap'[b].run = heap'[c].run
                                => b = c
      BY <2>3 DEF OnceInv
    <2>10. (\A q \in Runs : delivered'[q] # <<>> => Begun(q)') /\ OneCircuitBreak'
      BY <2>1, <2>2, <2>5 DEF OnceInv, OneCircuitBreak, Begun
    <2>11. QED
      BY <2>7, <2>8, <2>9, <2>10 DEF OnceInv
  <1>6. CASE Crash
    BY <1>6 DEF Crash, FreeRecord, OnceInv, OneCircuitBreak, Begun
  <1>7. ASSUME NEW t \in Handlers, HandlerStep(t) \/ StreamDisconnect(t),
               ~RegisterStart(t), ~RegisterReady(t), ~Notify(t), ~StreamNotice(t)
        PROVE  OnceInv'
    <2>1. UNCHANGED delivered /\ \A u \in Handlers \ {t} : pc'[u] = pc[u] /\ job'[u] = job[u]
      BY <1>7, HandlerEffects
    <2>2. pc'[t] # "register_ready"
      BY <1>7, HandlerEffects
    <2>3. \A a \in Addrs : Kept(a)
      BY <1>7, HandlerEffects
    <2>4. QED
      BY <2>1, <2>2, <2>3, OnceSame DEF Kept
  <1>8. ASSUME NEW t \in Handlers, NEW r \in Runs,
               \/ Authenticate(t, r) \/ Subscribe(t, r)
               \/ \E input \in Inputs : FinishRequest(t, r, input)
        PROVE  OnceInv'
    <2>1. /\ UNCHANGED delivered
          /\ pc' = [pc EXCEPT ![t] = pc'[t]] /\ pc'[t] # "register_ready"
          /\ job' = [job EXCEPT ![t] = r]
      BY <1>8 DEF Authenticate, Subscribe, FinishRequest, Accept
    <2>2. \A a \in Addrs : Kept(a)
      <3>1. CASE Subscribe(t, r)
        <4>1. /\ heap' = [heap EXCEPT ![runs[r]].claimed = TRUE] /\ runs[r] \in Addrs
          BY <3>1 DEF Subscribe, Subscribable, TokenLive, Registered
        <4>2. QED
          BY <4>1, <1>h DEF Kept, Record
      <3>2. CASE ~Subscribe(t, r)
        BY <1>8, <3>2 DEF Authenticate, FinishRequest, Kept
      <3>3. QED
        BY <3>1, <3>2
    <2>3. QED
      BY <2>1, <2>2, OnceSame DEF Kept
  <1>9. CASE Restart \/ StartSecondCore \/ (\E r \in Runs : MarkRunning(r)) \/ UNCHANGED vars
    <2>1. UNCHANGED <<heap, pc, job, delivered>>
      BY <1>9 DEF Restart, StartSecondCore, MarkRunning, vars
    <2>2. QED
      BY <2>1, OnceSame
  <1>10. QED
    BY <1>1, <1>2, <1>3, <1>4, <1>5, <1>6, <1>7, <1>8, <1>9 DEF Next, HandlerStep, NewRequest

\* A run has at most one notice in every state.
LEMMA OnceAlways == Spec => []OnceInv
  BY RegistryAlways, NoticeAlways, OnceInit, OnceStep, PTL DEF Spec

\* One circuit break per execution, however many calls of it are blocked, on
\* however many streams and in however many lives of the core.
THEOREM OneNoticePerRun == Spec => []OneCircuitBreak
  <1>1. OnceInv => OneCircuitBreak
    BY DEF OnceInv
  <1>2. QED
    BY <1>1, OnceAlways, PTL
=============================================================================
