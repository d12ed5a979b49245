------------------------- MODULE SupervisionProofs -------------------------
(***************************************************************************)
(* Proofs about Supervision, for every set of faults and any number of     *)
(* restarts of the core.  Four inductive invariants, each on top of the    *)
(* ones before it: the types; Tree (where the supervisor is says what has  *)
(* become of the child, and what it has put into its report); Table (the   *)
(* row says of the child only what the supervisor knows); and, when        *)
(* nothing fails, Quiet (the row is ready to take the report).             *)
(***************************************************************************)
EXTENDS Supervision, TLAPS

Early == {"register", "subscribe", "start"}
Late == {"finish", "done"}

\* The child and the report.  A supervisor that no longer watches the tree
\* knows it to be gone, or has said that it could not kill it.
Tree ==
    /\ sup \in Early => child = "none"
    /\ child = "none" =>
          mark = "none" /\ gateway = "idle" /\ ~exitSeen /\ ~waited /\ sweep = "none"
    /\ exitSeen => waited
    /\ waited => child \in {"left", "exited"}
    /\ ~waited /\ sweep # "none" => result.term = "failed"
    /\ waited /\ child = "left" => sweep = "failed" \/ result.term = "failed"
    /\ sup \in {"supervise", "terminate"} => child # "none"
    /\ sup \in Early \cup {"supervise"} => result = Undecided
    /\ sup \in {"terminate", "finish"} => result.state \in RunnerTerminal
    /\ sup = "terminate" => result.term = "not_required" /\ result.code = "none"
    /\ sup \in Late => child = "none" \/ waited \/ result.term = "failed"
    /\ result.term = "failed" => supErr /\ sup \in Late
    /\ result.state = "completed" => child = "exited" /\ exit = "zero" /\ sup \in Late

IInv == TypeOK /\ Tree

-----------------------------------------------------------------------------
\* Before the first step there is neither a child nor a report.
LEMMA InitIInv == Init => IInv
  <1>1. NoRow \in Row
    BY DEF NoRow, Row, States, Terminations
  <1>2. Undecided \in [state : RunnerTerminal \cup {"none"}, term : Terminations, code : Codes]
    BY DEF Undecided, Terminations, Codes
  <1>3. Init => TypeOK
    <2> SUFFICES ASSUME Init PROVE TypeOK
      OBVIOUS
    <2>1. summary \in Row /\ row \in Row /\ faults \in FaultSets
      BY <1>1 DEF Init
    <2>2. QED
      BY <1>2, <2>1 DEF Init, TypeOK, StopReasons
  <1>4. Init => Tree
    BY DEF Init, Tree, Early, Late, Undecided
  <1>5. QED
    BY <1>3, <1>4 DEF IInv

\* What the statements of the store make of a row is a row.
LEMMA RowTypes ==
  ASSUME NEW old \in Row
  PROVE  /\ StartedRow \in Row /\ RunningRow(old) \in Row /\ BlockedRow(old) \in Row
         /\ RecoveredRow(old) \in Row
  <1> USE DEF Row, States, RunnerTerminal
  <1>1. StartedRow \in Row
    BY DEF StartedRow, NoRow, Terminations
  <1>2. QED
    BY <1>1 DEF RunningRow, BlockedRow, RecoveredRow

\* So is what a finish makes of it, once the supervisor has decided.
LEMMA FinishTypes ==
  ASSUME TypeOK, result.state \in RunnerTerminal
  PROVE  FinishedRow(row, Stored) \in Row
  <1>1. /\ Stored.state \in RunnerTerminal \cup {"blocked"}
        /\ Stored.term = result.term
    BY DEF Stored, BlockedResult, TypeOK, RunnerTerminal
  <1>2. FinishedRow(row, Stored) = [row EXCEPT !.state = Stored.state, !.term = result.term,
                                               !.ended = TRUE]
    BY <1>1 DEF FinishedRow
  <1>3. QED
    BY <1>1, <1>2 DEF TypeOK, Row, States

\* A decision puts a state into the report and goes on to the termination, or
\* to the finish when the root is gone.
LEMMA DecideEffect ==
  ASSUME TypeOK, exitSeen' \in BOOLEAN, NEW state \in RunnerTerminal, NEW reason \in StopReasons,
         Decide(state, reason), result = Undecided
  PROVE  /\ result'.state = state /\ result'.code = "none"
         /\ result'.term = IF reason # "none" /\ exitSeen' THEN "succeeded" ELSE "not_required"
         /\ sup' = IF reason # "none" /\ ~exitSeen' THEN "terminate" ELSE "finish"
         /\ result' \in [state : RunnerTerminal \cup {"none"}, term : Terminations, code : Codes]
         /\ stop' \in StopReasons
  BY DEF Decide, Undecided, Terminations, Codes, RunnerTerminal

\* Every step keeps the types and what the supervisor knows of the tree.
LEMMA TreeStep == IInv /\ [Next]_vars => IInv'
  <1> SUFFICES ASSUME IInv, [Next]_vars PROVE IInv'
    OBVIOUS
  <1> USE DEF IInv, TypeOK, Tree, Early, Late, coreVars, supVars, envVars
  <1>1. CASE RegisterServed
    <2>1. TypeOK'
      <3>1. row' \in Row /\ live' \in BOOLEAN /\ supErr' \in BOOLEAN
        BY <1>1, RowTypes DEF RegisterServed
      <3>2. sup' \in {"subscribe", "done"}
        BY <1>1 DEF RegisterServed
      <3>3. QED
        BY <1>1, <3>1, <3>2 DEF RegisterServed
    <2>2. Tree'
      BY <1>1, RowTypes DEF RegisterServed
    <2>3. QED
      BY <2>1, <2>2
  <1>2. CASE RegisterFails
    BY <1>2 DEF RegisterFails
  <1>3. CASE SubscribeServed
    BY <1>3 DEF SubscribeServed
  <1>4. CASE SubscribeFails
    <2>1. TypeOK'
      BY <1>4 DEF SubscribeFails, FailBeforeChild, Undecided, RunnerTerminal, StopReasons, Terminations, Codes
    <2>2. Tree'
      BY <1>4 DEF SubscribeFails, FailBeforeChild, Undecided, RunnerTerminal, StopReasons, Terminations, Codes
    <2>3. QED
      BY <2>1, <2>2
  <1>5. CASE StartChild
    BY <1>5 DEF StartChild
  <1>6. CASE StartFails
    <2>1. TypeOK'
      BY <1>6 DEF StartFails, FailBeforeChild, Undecided, RunnerTerminal, StopReasons, Terminations, Codes
    <2>2. Tree'
      BY <1>6 DEF StartFails, FailBeforeChild, Undecided, RunnerTerminal, StopReasons, Terminations, Codes
    <2>3. QED
      BY <2>1, <2>2
  <1>7. CASE SeeExit
    BY <1>7, DecideEffect DEF SeeExit, Unmarked, ByExit, RunnerTerminal, StopReasons
  <1>8. CASE SeeCircuitBreak
    BY <1>8, DecideEffect DEF SeeCircuitBreak, Unmarked, ByExit, RunnerTerminal, StopReasons
  <1>9. CASE SeeSignalLost
    BY <1>9, DecideEffect DEF SeeSignalLost, Unmarked, ByExit, RunnerTerminal, StopReasons
  <1>10. CASE SeeDeadline
    BY <1>10, DecideEffect DEF SeeDeadline, Unmarked, ByExit, RunnerTerminal, StopReasons
  <1>11. CASE SeeInterrupt
    BY <1>11, DecideEffect DEF SeeInterrupt, Unmarked, ByExit, RunnerTerminal, StopReasons
  <1>12. CASE SeeMarked
    BY <1>12, DecideEffect DEF SeeMarked, Unmarked, ByExit, RunnerTerminal, StopReasons
  <1>13. CASE SeeMarkError
    BY <1>13, DecideEffect DEF SeeMarkError, Unmarked, ByExit, RunnerTerminal, StopReasons
  <1>14. CASE TerminateChild
    <2>1. TypeOK'
      BY <1>14 DEF TerminateChild, RootEnds
    <2>2. Tree'
      BY <1>14 DEF TerminateChild, RootEnds
    <2>3. QED
      BY <2>1, <2>2
  <1>15. CASE TerminateFails
    <2>1. TypeOK'
      BY <1>15 DEF TerminateFails, NotTerminated, Terminations, Codes, RunnerTerminal
    <2>2. Tree'
      BY <1>15 DEF TerminateFails, NotTerminated, Terminations, Codes, RunnerTerminal
    <2>3. QED
      BY <2>1, <2>2
  <1>16. CASE FinishServed
    <2>1. TypeOK'
      <3>1. row' \in Row
        BY <1>16, FinishTypes DEF FinishServed
      <3>2. live' \in BOOLEAN /\ supErr' \in BOOLEAN /\ summary' \in Row
        BY <1>16, <3>1 DEF FinishServed, Answer
      <3>3. sup' = "done" /\ UNCHANGED <<result, stop>>
        BY <1>16 DEF FinishServed, Answer, Return
      <3>4. QED
        BY <1>16, <3>1, <3>2, <3>3 DEF FinishServed
    <2>2. Tree'
      BY <1>16, FinishTypes DEF FinishServed, Answer, Return
    <2>3. QED
      BY <2>1, <2>2
  <1>17. CASE FinishRefused
    <2>1. TypeOK'
      <3>1. /\ result' \in {result, [result EXCEPT !.term = "succeeded"]}
            /\ stop' \in {stop, "policy_block"} /\ sup' \in {sup, "done"} /\ supErr' \in BOOLEAN
        BY <1>17 DEF FinishRefused, Answer, Return
      <3>2. [result EXCEPT !.term = "succeeded"]
              \in [state : RunnerTerminal \cup {"none"}, term : Terminations, code : Codes]
        BY DEF Terminations
      <3>3. stop' \in StopReasons
        BY <3>1 DEF StopReasons
      <3>4. QED
        BY <1>17, <3>1, <3>2, <3>3 DEF FinishRefused
    <2>2. Tree'
      BY <1>17 DEF FinishRefused, Answer, Return, Reconciles, Terminations, StopReasons
    <2>3. QED
      BY <2>1, <2>2
  <1>18. CASE FinishFails
    BY <1>18 DEF FinishFails, Answer, Return
  <1>19. CASE RecordBlock
    BY <1>19, RowTypes DEF RecordBlock
  <1>20. CASE Notify
    <2>1. TypeOK'
      <3>1. notified' \in BOOLEAN /\ stream' \in {stream, "notice"} /\ gateway' = "idle"
        BY <1>20 DEF Notify
      <3>2. QED
        BY <1>20, <3>1 DEF Notify
    <2>2. Tree'
      BY <1>20 DEF Notify
    <2>3. QED
      BY <2>1, <2>2
  <1>21. CASE DeliverNotice
    BY <1>21 DEF DeliverNotice
  <1>22. CASE MarkServed
    BY <1>22, RowTypes DEF MarkServed
  <1>23. CASE MarkFails
    BY <1>23 DEF MarkFails
  <1>24. CASE ChildExits
    BY <1>24 DEF ChildExits, RootEnds
  <1>25. CASE DeadlineFires
    BY <1>25 DEF DeadlineFires
  <1>26. CASE Interrupt
    BY <1>26 DEF Interrupt
  <1>27. CASE CallBlocked
    BY <1>27 DEF CallBlocked
  <1>28. CASE CutStream
    BY <1>28 DEF CutStream, LoseStream
  <1>29. CASE Crash
    <2>1. TypeOK'
      <3>1. /\ up' \in BOOLEAN /\ live' \in BOOLEAN /\ mark' \in {mark, "err"}
            /\ stream' \in {stream, "closed"} /\ heard' \in {heard, "lost"}
        BY <1>29 DEF Crash, LoseStream
      <3>2. QED
        BY <1>29, <3>1 DEF Crash
    <2>2. Tree'
      BY <1>29 DEF Crash, LoseStream
    <2>3. QED
      BY <2>1, <2>2
  <1>30. CASE Restart
    BY <1>30, RowTypes DEF Restart
  <1>31. CASE UNCHANGED vars
    BY <1>31 DEF vars
  <1>32. CASE TerminateReturns
    <2>1. CASE sweep = "failed"
      <3>1. TypeOK'
        BY <1>32, <2>1 DEF TerminateReturns, NotTerminated, Terminations, Codes, RunnerTerminal
      <3>2. Tree'
        BY <1>32, <2>1 DEF TerminateReturns, NotTerminated, RunnerTerminal
      <3>3. QED
        BY <3>1, <3>2
    <2>2. CASE sweep # "failed"
      <3>1. TypeOK'
        BY <1>32, <2>2 DEF TerminateReturns, Terminations
      <3>2. Tree'
        BY <1>32, <2>2 DEF TerminateReturns, Terminations
      <3>3. QED
        BY <3>1, <3>2
    <2>3. QED
      BY <2>1, <2>2
  <1>33. CASE DescendantsExit
    BY <1>33 DEF DescendantsExit
  <1>34. CASE Reap
    BY <1>34 DEF Reap
  <1>35. QED
    BY <1>1, <1>2, <1>3, <1>4, <1>5, <1>6, <1>7, <1>8, <1>9, <1>10, <1>11, <1>12, <1>13, <1>14, <1>15, <1>16, <1>17, <1>18, <1>19, <1>20, <1>21, <1>22, <1>23, <1>24, <1>25, <1>26, <1>27, <1>28, <1>29, <1>30, <1>31, <1>32, <1>33, <1>34
       DEF Next, SupervisorStep, BlockStep, MarkStep, Environment

\* The types and the tree, in every state.
LEMMA Inductive == Spec => []IInv
  BY InitIInv, TreeStep, PTL DEF Spec

\* The variables of the supervisor and of its core keep their types.
THEOREM TypeCorrect == Spec => []TypeOK
  <1>1. IInv => TypeOK
    BY DEF IInv
  <1>2. QED
    BY <1>1, Inductive, PTL

\* NoOrphan: whatever ends the supervision, the command returns after the root
\* is gone and its group was swept, or it says that it could not kill the tree.
THEOREM NoTreeIsOrphaned == Spec => []NoOrphan
  <1>1. IInv => NoOrphan
    BY DEF IInv, TypeOK, Tree, Late, NoOrphan
  <1>2. QED
    BY <1>1, Inductive, PTL

-----------------------------------------------------------------------------
\* The row.  A policy decision stays; a finish is the last thing that happens to
\* a row, and it says of the tree no more than the supervisor knew.
Table ==
    /\ sup = "register" => row = NoRow
    /\ row.state \in {"absent", "starting", "running"} => ~row.policy /\ ~row.ended
    /\ row.policy => row.state \in {"blocked", "termination_failed"}
    /\ row.term # "null" => /\ sup = "done"
                            /\ row.term = result.term
    /\ sup = "done" /\ ~supErr =>
          /\ row.ended /\ summary = row
          /\ row.policy => row.state = "blocked"
          /\ row.state = "completed" => exit = "zero" /\ child = "exited"

\* What a finish that is answered 200 has written.
LEMMA FinishEffect ==
  ASSUME IInv, Table, FinishServed
  PROVE  /\ row'.ended /\ row'.policy = row.policy /\ row'.term = result.term
         /\ row'.state \in RunnerTerminal \cup {"blocked"}
         /\ row.state = "blocked" => row'.state \in {"blocked", "termination_failed"}
         /\ row.state = "blocked" /\ result.term # "failed" => row'.state = "blocked"
         /\ row.state # "blocked" => row'.state = result.state /\ ~row.policy
  <1> USE DEF IInv, TypeOK, Tree, Table, Late
  <1>1. result.state \in RunnerTerminal /\ FinishAccepted /\ CanFinish(row, Stored)
    BY DEF FinishServed
  <1>2. Stored.term = result.term /\ Stored.state \in RunnerTerminal \cup {"blocked"}
    BY <1>1 DEF Stored, BlockedResult, RunnerTerminal
  <1>3. row' = [row EXCEPT !.state = Stored.state, !.term = Stored.term, !.ended = TRUE]
    BY DEF FinishServed, FinishedRow
  <1>4. /\ row'.ended /\ row'.policy = row.policy /\ row'.term = result.term
        /\ row'.state = Stored.state
    BY <1>2, <1>3 DEF Row
  <1>5. row.state = "blocked" => /\ Stored.state \in {"blocked", "termination_failed"}
                                 /\ result.term # "failed" => Stored.state = "blocked"
    BY <1>1 DEF Stored, BlockedResult, FinishAccepted, AcceptedWhenBlocked
  <1>6. row.state # "blocked" => Stored.state = result.state
    BY DEF Stored
  <1>7. row.state # "termination_failed"
    BY <1>1 DEF CanFinish, FinishSources
  <1>8. QED
    BY <1>1, <1>2, <1>4, <1>5, <1>6, <1>7

\* Every step leaves the table true.
LEMMA TableStep == IInv /\ Table /\ [Next]_vars => Table'
  <1> SUFFICES ASSUME IInv, Table, [Next]_vars PROVE Table'
    OBVIOUS
  <1> USE DEF IInv, TypeOK, Tree, Table, Early, Late, coreVars, supVars, envVars
  <1>1. CASE RegisterServed
    BY <1>1 DEF RegisterServed, StartedRow, NoRow
  <1>2. CASE RegisterFails
    BY <1>2 DEF RegisterFails
  <1>3. CASE SubscribeServed
    BY <1>3 DEF SubscribeServed
  <1>4. CASE SubscribeFails \/ StartFails
    BY <1>4 DEF SubscribeFails, StartFails, FailBeforeChild
  <1>5. CASE StartChild
    BY <1>5 DEF StartChild
  <1>6. CASE SeeExit
    BY <1>6 DEF SeeExit, Decide
  <1>7. CASE SeeCircuitBreak
    BY <1>7 DEF SeeCircuitBreak, Decide
  <1>8. CASE SeeSignalLost
    BY <1>8 DEF SeeSignalLost, Decide
  <1>9. CASE SeeDeadline
    BY <1>9 DEF SeeDeadline, Decide
  <1>10. CASE SeeInterrupt
    BY <1>10 DEF SeeInterrupt, Decide
  <1>11. CASE SeeMarked
    BY <1>11 DEF SeeMarked, Decide
  <1>12. CASE SeeMarkError
    BY <1>12 DEF SeeMarkError, Decide
  <1>13. CASE TerminateChild \/ TerminateReturns \/ TerminateFails
    BY <1>13 DEF TerminateChild, TerminateReturns, TerminateFails
  <1>14. CASE FinishServed
    <2>1. /\ sup' = "done" /\ (supErr' \/ (supErr' = supErr /\ summary' = row'))
          /\ UNCHANGED <<child, exit, result>> /\ sup = "finish"
      BY <1>14 DEF FinishServed, Answer, Return
    <2>2. row'.state # "absent" /\ row'.state # "starting" /\ row'.state # "running"
      BY <1>14, FinishEffect DEF RunnerTerminal
    <2>3. row'.policy => row'.state \in {"blocked", "termination_failed"}
      BY <1>14, FinishEffect
    <2>4. row'.term = result.term
      BY <1>14, FinishEffect
    <2>5. ~supErr => result.term # "failed"
      OBVIOUS
    <2>6. ~supErr /\ row'.policy => row'.state = "blocked"
      BY <1>14, <2>5, FinishEffect
    <2>7. row'.state = "completed" => exit = "zero" /\ child = "exited"
      BY <1>14, FinishEffect
    <2>8. row'.ended
      BY <1>14, FinishEffect
    <2>9. QED
      BY <2>1, <2>2, <2>3, <2>4, <2>6, <2>7, <2>8
  <1>15. CASE FinishRefused \/ FinishFails
    BY <1>15 DEF FinishRefused, FinishFails, Answer, Return
  <1>16. CASE RecordBlock
    BY <1>16 DEF RecordBlock, CanBlock, BlockedRow, Row
  <1>17. CASE Notify
    BY <1>17 DEF Notify
  <1>18. CASE DeliverNotice
    BY <1>18 DEF DeliverNotice
  <1>19. CASE MarkServed
    BY <1>19 DEF MarkServed, CanRun, RunningRow, Row
  <1>20. CASE MarkFails
    BY <1>20 DEF MarkFails
  <1>21. CASE ChildExits \/ DescendantsExit \/ Reap
    BY <1>21 DEF ChildExits, RootEnds, DescendantsExit, Reap
  <1>22. CASE DeadlineFires
    BY <1>22 DEF DeadlineFires
  <1>23. CASE Interrupt
    BY <1>23 DEF Interrupt
  <1>24. CASE CallBlocked
    BY <1>24 DEF CallBlocked
  <1>25. CASE CutStream
    BY <1>25 DEF CutStream
  <1>26. CASE Crash
    BY <1>26 DEF Crash
  <1>27. CASE Restart
    <2>1. CASE row.state \in {"starting", "running"}
      <3>1. row' = [row EXCEPT !.state = "interrupted", !.ended = TRUE]
        BY <1>27, <2>1 DEF Restart, RecoveredRow
      <3>2. row'.state = "interrupted" /\ row'.term = row.term /\ row'.policy = row.policy
        BY <3>1 DEF Row
      <3>3. sup # "register"
        BY <2>1 DEF NoRow
      <3>4. ~row.policy /\ ~row.ended
        BY <2>1
      <3>5. QED
        BY <1>27, <3>2, <3>3, <3>4 DEF Restart
    <2>2. CASE row.state \notin {"starting", "running"}
      BY <1>27, <2>2 DEF Restart, RecoveredRow
    <2>3. QED
      BY <2>1, <2>2
  <1>28. CASE UNCHANGED vars
    BY <1>28 DEF vars
  <1>29. QED
    BY <1>1, <1>2, <1>3, <1>4, <1>5, <1>6, <1>7, <1>8, <1>9, <1>10, <1>11, <1>12, <1>13, <1>14, <1>15, <1>16, <1>17, <1>18, <1>19, <1>20, <1>21, <1>22, <1>23, <1>24, <1>25, <1>26, <1>27, <1>28
       DEF Next, SupervisorStep, BlockStep, MarkStep, Environment

\* What is said of the row holds in every state.
LEMMA TableAlways == Spec => []Table
  <1>1. Init => Table
    BY DEF Init, Table, NoRow
  <1>2. QED
    BY <1>1, Inductive, TableStep, PTL DEF Spec

\* TerminationIsTruthful: a row that says the tree ended, or was terminated, is
\* right about the root, and about descendants unless their sweep failed.
THEOREM TerminationsAreTrue == Spec => []TerminationIsTruthful
  <1>1. IInv /\ Table => TerminationIsTruthful
    BY DEF IInv, TypeOK, Tree, Late, Table, TerminationIsTruthful
  <1>2. QED
    BY <1>1, Inductive, TableAlways, PTL

\* SuccessIsRecorded: a command that returns no error has its outcome in the
\* table, and neither a late request nor a restart of the core takes it back.
THEOREM SuccessesAreRecorded == Spec => []SuccessIsRecorded
  <1>1. Table => SuccessIsRecorded
    BY DEF Table, SuccessIsRecorded
  <1>2. QED
    BY <1>1, TableAlways, PTL

-----------------------------------------------------------------------------
\* When nothing fails: the row waits for the report, and the state in the report
\* is one that the row can take, whatever the background `running` request and
\* the gateway make of the row meanwhile.
Registered == {"subscribe", "start", "supervise", "terminate", "finish"}

Quiet == faults = {} =>
    /\ up
    /\ sup \in Registered =>
          live /\ row.state \in {"starting", "running", "blocked"} /\ row.term = "null"
    /\ child = "none" /\ sup \in Registered => row.state = "starting"
    /\ sweep # "failed"
    /\ mark = "ok" \/ (mark = "read" /\ sup = "supervise") => row.state # "starting"
    /\ sup \in {"terminate", "finish"} =>
          /\ result.code = "none" /\ result.term \in {"not_required", "succeeded"}
          /\ result.state # "termination_failed"
          /\ result.state # "failed" => row.state # "starting"
    /\ sup = "finish" /\ result.term = "not_required" => exitSeen \/ child = "none"
    /\ sup = "finish" /\ child = "none" => result.term = "not_required"
    /\ sup = "done" /\ result.state # "none" => row.ended

\* A report is accepted by a row that waits for it.
LEMMA ReportFits ==
  ASSUME IInv, Table, Quiet, faults = {}, sup = "finish"
  PROVE  /\ FinishAccepted => live /\ WellFormed(Stored) /\ CanFinish(row, Stored)
         /\ ~FinishAccepted => Reconciles
         /\ row.state # "absent" /\ ~Unreachable
  <1> USE DEF IInv, TypeOK, Tree, Table, Quiet, Registered, Late
  <1>1. CASE row.state = "blocked"
    <2>1. child # "none"
      BY <1>1
    <2>2. FinishAccepted <=> result.term = "succeeded"
      BY <1>1 DEF FinishAccepted, AcceptedWhenBlocked
    <2>3. FinishAccepted => Stored.state = "blocked" /\ Stored.term = "succeeded"
                            /\ Stored.code = "none"
      BY <1>1, <2>2 DEF Stored, BlockedResult
    <2>4. QED
      BY <1>1, <2>1, <2>2, <2>3 DEF WellFormed, CanFinish, FinishSources, Reconciles, Unreachable
  <1>2. CASE row.state # "blocked"
    <2>1. FinishAccepted /\ Stored = result /\ result.state \in RunnerTerminal
      BY <1>2 DEF FinishAccepted, AcceptedWhenActive, Stored
    <2>2. WellFormed(result) /\ CanFinish(row, result)
      BY <1>2, <2>1 DEF WellFormed, CanFinish, FinishSources, RunnerTerminal
    <2>3. QED
      BY <1>2, <2>1, <2>2 DEF Unreachable
  <1>3. QED
    BY <1>1, <1>2

\* What may go wrong is settled at the start.
LEMMA FaultsStay == [Next]_vars => faults' = faults
  <1>1. SupervisorStep => faults' = faults
    BY DEF SupervisorStep, envVars, RegisterServed, RegisterFails, SubscribeServed, SubscribeFails,
           StartChild, StartFails, FailBeforeChild, SeeExit, SeeCircuitBreak, SeeSignalLost,
           SeeDeadline, SeeInterrupt, SeeMarked, SeeMarkError, TerminateChild, TerminateReturns,
           TerminateFails, RootEnds,
           FinishServed, FinishRefused, FinishFails
  <1>2. Reap \/ BlockStep \/ DeliverNotice \/ MarkStep \/ Environment \/ Restart
            => faults' = faults
    BY DEF Reap, DescendantsExit, BlockStep, MarkStep, Environment, envVars, RecordBlock, Notify, DeliverNotice,
           MarkServed, MarkFails, ChildExits, DeadlineFires, Interrupt, CallBlocked, CutStream,
           Crash, Restart
  <1>3. UNCHANGED vars => faults' = faults
    BY DEF vars, envVars
  <1>4. QED
    BY <1>1, <1>2, <1>3 DEF Next

\* Every step keeps the row ready for the report.
LEMMA QuietStep == IInv /\ Table /\ Quiet /\ [Next]_vars => Quiet'
  <1> SUFFICES ASSUME IInv, Table, Quiet, [Next]_vars, faults = {} PROVE Quiet'
    BY FaultsStay DEF Quiet
  <1> USE DEF IInv, TypeOK, Tree, Table, Quiet, Registered, Early, Late, coreVars, supVars, envVars
  <1>1. CASE RegisterServed
    BY <1>1 DEF RegisterServed, StartedRow, NoRow, Undecided
  <1>2. CASE RegisterFails
    BY <1>2 DEF RegisterFails, Undecided
  <1>3. CASE SubscribeServed
    BY <1>3 DEF SubscribeServed
  <1>4. CASE SubscribeFails \/ StartFails
    BY <1>4 DEF SubscribeFails, StartFails, FailBeforeChild, Undecided
  <1>5. CASE StartChild
    BY <1>5 DEF StartChild
  <1>6. CASE SeeExit
    BY <1>6, DecideEffect DEF SeeExit, Unmarked, ByExit, MarkPending, RunnerTerminal, StopReasons
  <1>7. CASE SeeCircuitBreak
    BY <1>7, DecideEffect DEF SeeCircuitBreak, Unmarked, ByExit, MarkPending, RunnerTerminal, StopReasons
  <1>8. CASE SeeSignalLost
    BY <1>8, DecideEffect DEF SeeSignalLost, Unmarked, ByExit, MarkPending, RunnerTerminal, StopReasons
  <1>9. CASE SeeDeadline
    BY <1>9, DecideEffect DEF SeeDeadline, Unmarked, ByExit, MarkPending, RunnerTerminal, StopReasons
  <1>10. CASE SeeInterrupt
    BY <1>10, DecideEffect DEF SeeInterrupt, Unmarked, ByExit, MarkPending, RunnerTerminal, StopReasons
  <1>11. CASE SeeMarked
    BY <1>11, DecideEffect DEF SeeMarked, Unmarked, ByExit, MarkPending, RunnerTerminal, StopReasons
  <1>12. CASE SeeMarkError
    BY <1>12, DecideEffect DEF SeeMarkError, Unmarked, ByExit, MarkPending, RunnerTerminal, StopReasons
  <1>13. CASE TerminateChild \/ TerminateReturns
    BY <1>13 DEF TerminateChild, TerminateReturns, RootEnds
  <1>14. CASE TerminateFails
    BY <1>14 DEF TerminateFails
  <1>15. CASE FinishServed
    <2>1. row'.ended /\ row'.state # "starting"
      BY <1>15, FinishEffect DEF RunnerTerminal
    <2>2. sup' = "done" /\ UNCHANGED <<up, mark, sweep>>
      BY <1>15 DEF FinishServed, Answer, Return
    <2>3. QED
      BY <2>1, <2>2
  <1>16. CASE FinishRefused
    BY <1>16, ReportFits DEF FinishRefused, Answer, Return, Reconciles
  <1>17. CASE FinishFails
    BY <1>17, ReportFits DEF FinishFails
  <1>18. CASE RecordBlock
    BY <1>18 DEF RecordBlock, CanBlock, BlockedRow, Row
  <1>19. CASE Notify
    BY <1>19 DEF Notify
  <1>20. CASE DeliverNotice
    BY <1>20 DEF DeliverNotice
  <1>21. CASE MarkServed
    BY <1>21 DEF MarkServed, CanRun, RunningRow, Row
  <1>22. CASE MarkFails
    BY <1>22 DEF MarkFails
  <1>23. CASE ChildExits \/ DescendantsExit \/ Reap
    BY <1>23 DEF ChildExits, RootEnds, DescendantsExit, Reap
  <1>24. CASE DeadlineFires
    BY <1>24 DEF DeadlineFires
  <1>25. CASE Interrupt
    BY <1>25 DEF Interrupt
  <1>26. CASE CallBlocked
    BY <1>26 DEF CallBlocked
  <1>27. CASE CutStream
    BY <1>27 DEF CutStream
  <1>28. CASE Crash \/ Restart
    BY <1>28 DEF Crash, Restart
  <1>29. CASE UNCHANGED vars
    BY <1>29 DEF vars
  <1>30. QED
    BY <1>1, <1>2, <1>3, <1>4, <1>5, <1>6, <1>7, <1>8, <1>9, <1>10, <1>11, <1>12, <1>13, <1>14, <1>15, <1>16, <1>17, <1>18, <1>19, <1>20, <1>21, <1>22, <1>23, <1>24, <1>25, <1>26, <1>27, <1>28, <1>29
       DEF Next, SupervisorStep, BlockStep, MarkStep, Environment

\* The row is ready in every state.
LEMMA QuietAlways == Spec => []Quiet
  <1>1. Init => Quiet
    BY DEF Init, Quiet, Registered
  <1>2. QED
    BY <1>1, Inductive, TableAlways, QuietStep, PTL DEF Spec

\* ReportIsAccepted: when nothing fails, what the supervisor has to report is
\* recorded, in every race of the exit, a block, the deadline, an interruption
\* and the `running` request.
THEOREM ReportsAreAccepted == Spec => []ReportIsAccepted
  <1>1. Quiet => ReportIsAccepted
    BY DEF Quiet, ReportIsAccepted
  <1>2. QED
    BY <1>1, QuietAlways, PTL
=============================================================================
