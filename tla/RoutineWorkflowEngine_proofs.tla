-------------------- MODULE RoutineWorkflowEngine_proofs --------------------
(* Proofs about the workflow engine, for every workflow, policy and bound.  *)
(* Each invariant has a lemma with one step per action of Next.             *)
EXTENDS RoutineWorkflowEngine, TLAPS

(* A counter of a family of counters stays a natural number. *)
LEMMA CountStep ==
  ASSUME NEW S, NEW f \in [S -> Nat], NEW m
  PROVE  [f EXCEPT ![m] = @ + 1] \in [S -> Nat]
<1>1. CASE m \in S
  BY <1>1
<1>2. CASE m \notin S
  BY <1>2
<1>. QED
  BY <1>1, <1>2

(* External writes and data exports need approval under every policy and    *)
(* every approval mode of the node.                                         *)
LEMMA ExternalNeedsApproval ==
  ASSUME NEW n \in Nodes, IsExternal(n)
  PROVE  NodeNeedsApproval(n)
BY DEF IsExternal, NodeNeedsApproval

(* Flags and values are apart because no prover at hand is good at both. *)
LEMMA FlagsStep ==
  FlagsTyped /\ [Next]_vars => FlagsTyped'
<1>. SUFFICES ASSUME FlagsTyped, [Next]_vars PROVE FlagsTyped'
  OBVIOUS
<1>. USE WorkflowAssumption 
     DEF WorkflowAssumption, FlagsTyped, vars, runRow, stepRows, loop, history
<1>1. CASE CreateRun
  BY <1>1 DEF CreateRun
<1>2. CASE FindRun
  BY <1>2 DEF FindRun
<1>3. CASE Cancel
  BY <1>3 DEF Cancel
<1>4. CASE StartChildOperation
  BY <1>4 DEF StartChildOperation
<1>5. CASE OperationSucceeds
  BY <1>5 DEF OperationSucceeds, SettleContext
<1>6. CASE OperationFails
  BY <1>6 DEF OperationFails, SettleContext
<1>7. CASE BackoffEnds
  BY <1>7 DEF BackoffEnds
<1>8. CASE RecoverRun
  BY <1>8 DEF RecoverRun, InFlight
<1>9. CASE InitializeSteps
  BY <1>9 DEF InitializeSteps
<1>10. CASE CompleteStarter
  BY <1>10 DEF CompleteStarter
<1>11. CASE OpenRun
  BY <1>11 DEF OpenRun
<1>12. CASE ContinueRefused
  BY <1>12 DEF ContinueRefused
<1>13. CASE ContinueRun
  BY <1>13 DEF ContinueRun
<1>14. CASE LoopOutOfBudget
  BY <1>14 DEF LoopOutOfBudget, LoopReturns, LeaveLoop
<1>15. CASE LoopPaused
  BY <1>15 DEF LoopPaused, LoopReturns, LeaveLoop
<1>16. CASE LoopPastDeadline
  BY <1>16 DEF LoopPastDeadline, LoopReturns, LeaveLoop
<1>17. CASE LoopWaits
  BY <1>17 DEF LoopWaits, LoopReturns, LeaveLoop
<1>18. CASE LoopStalls
  BY <1>18 DEF LoopStalls, LoopReturns, LeaveLoop
<1>19. CASE FinishRun
  BY <1>19 DEF FinishRun, LoopReturns, LeaveLoop
<1>20. CASE FindReadyNodes
  BY <1>20 DEF FindReadyNodes, Candidates, ReadyToRun
<1>21. CASE BatchDone
  BY <1>21 DEF BatchDone
<1>22. CASE PauseRun
  BY <1>22 DEF PauseRun, LeaveLoop
<1>23. CASE StartOperation
  BY <1>23 DEF StartOperation, MarkAttempt
<1>24. CASE RefuseOperation
  BY <1>24 DEF RefuseOperation, MarkAttempt
<1>25. CASE GiveUp
  BY <1>25 DEF GiveUp
<1>26. CASE NextCandidate
  BY <1>26 DEF NextCandidate
<1>27. CASE StopAfterNode
  BY <1>27 DEF StopAfterNode, LeaveLoop
<1>28. CASE RecordApproval
  BY <1>28 DEF RecordApproval
<1>29. CASE RecordRejection
  BY <1>29 DEF RecordRejection
<1>30. CASE RecordCancel
  BY <1>30 DEF RecordCancel
<1>31. CASE InterruptRun
  BY <1>31 DEF InterruptRun
<1>32. CASE Crash
  BY <1>32 DEF Crash, InFlight
<1>33. CASE DeadlinePasses
  BY <1>33 DEF DeadlinePasses
<1>34. ASSUME NEW n \in Nodes, Approve(n) PROVE FlagsTyped'
  BY <1>34 DEF Approve
<1>35. ASSUME NEW n \in Nodes, Reject(n) PROVE FlagsTyped'
  BY <1>35 DEF Reject
<1>36. ASSUME NEW n \in Nodes, SkipNode(n) PROVE FlagsTyped'
  BY <1>36 DEF SkipNode
<1>37. ASSUME NEW n \in Nodes, AskApproval(n) PROVE FlagsTyped'
  BY <1>37 DEF AskApproval
<1>38. ASSUME NEW n \in Nodes, EnterNode(n) PROVE FlagsTyped'
  BY <1>38 DEF EnterNode
<1>39. ASSUME NEW n \in Nodes, CancelStep(n) PROVE FlagsTyped'
  BY <1>39 DEF CancelStep
<1>40. ASSUME NEW n \in Nodes, InterruptStep(n) PROVE FlagsTyped'
  BY <1>40 DEF InterruptStep
<1>41. ASSUME NEW p \in Ports, CompleteStep(p) PROVE FlagsTyped'
  BY <1>41 DEF CompleteStep
<1>42. CASE UNCHANGED vars
  BY <1>42
<1>. QED
  BY <1>1, <1>2, <1>3, <1>4, <1>5, <1>6, <1>7, <1>8, <1>9, <1>10, <1>11, <1>12, <1>13, <1>14, <1>15, <1>16, <1>17, <1>18, <1>19, <1>20, <1>21, <1>22, <1>23, <1>24, <1>25, <1>26, <1>27, <1>28, <1>29, <1>30, <1>31, <1>32, <1>33, <1>34, <1>35, <1>36, <1>37, <1>38, <1>39, <1>40, <1>41, <1>42
  DEF Next, Handlers, Settle, Wake, Recover, Section

(* In particular the budget never goes below zero and the operation count  *)
(* written to the run row stays within the limit.                          *)
LEMMA ValuesStep ==
  ValuesTyped /\ [Next]_vars => ValuesTyped'
<1>. SUFFICES ASSUME ValuesTyped, [Next]_vars PROVE ValuesTyped'
  OBVIOUS
<1>. USE WorkflowAssumption 
     DEF WorkflowAssumption, ValuesTyped, vars, runRow, stepRows, loop, history,
         RunStatuses, TerminalRun, StepStatuses, TerminalStep,
         Active, Ports, Jobs, LoopJobs
<1>1. CASE CreateRun
  BY <1>1 DEF CreateRun
<1>2. CASE FindRun
  BY <1>2 DEF FindRun
<1>3. CASE Cancel
  BY <1>3 DEF Cancel
<1>4. CASE StartChildOperation
  BY <1>4 DEF StartChildOperation
<1>5. CASE OperationSucceeds
  BY <1>5 DEF OperationSucceeds, SettleContext
<1>6. CASE OperationFails
  BY <1>6 DEF OperationFails, SettleContext
<1>7. CASE BackoffEnds
  BY <1>7 DEF BackoffEnds
<1>8. CASE RecoverRun
  BY <1>8 DEF RecoverRun, InFlight
<1>9. CASE InitializeSteps
  BY <1>9 DEF InitializeSteps
<1>10. CASE CompleteStarter
  BY <1>10 DEF CompleteStarter
<1>11. CASE OpenRun
  BY <1>11 DEF OpenRun
<1>12. CASE ContinueRefused
  BY <1>12 DEF ContinueRefused
<1>13. CASE ContinueRun
  BY <1>13 DEF ContinueRun
<1>14. CASE LoopOutOfBudget
  BY <1>14 DEF LoopOutOfBudget, LoopReturns, LeaveLoop
<1>15. CASE LoopPaused
  BY <1>15 DEF LoopPaused, LoopReturns, LeaveLoop
<1>16. CASE LoopPastDeadline
  BY <1>16 DEF LoopPastDeadline, LoopReturns, LeaveLoop
<1>17. CASE LoopWaits
  BY <1>17 DEF LoopWaits, LoopReturns, LeaveLoop
<1>18. CASE LoopStalls
  BY <1>18 DEF LoopStalls, LoopReturns, LeaveLoop
<1>19. CASE FinishRun
  BY <1>19 DEF FinishRun, LoopReturns, LeaveLoop
<1>20. CASE FindReadyNodes
  BY <1>20 DEF FindReadyNodes, Candidates, ReadyToRun
<1>21. CASE BatchDone
  BY <1>21 DEF BatchDone
<1>22. CASE PauseRun
  BY <1>22 DEF PauseRun, LeaveLoop
<1>23. CASE StartOperation
  BY <1>23, CountStep DEF StartOperation, MarkAttempt
<1>24. CASE RefuseOperation
  BY <1>24, CountStep DEF RefuseOperation, MarkAttempt
<1>25. CASE GiveUp
  BY <1>25 DEF GiveUp
<1>26. CASE NextCandidate
  BY <1>26 DEF NextCandidate
<1>27. CASE StopAfterNode
  BY <1>27 DEF StopAfterNode, LeaveLoop
<1>28. CASE RecordApproval
  BY <1>28 DEF RecordApproval
<1>29. CASE RecordRejection
  BY <1>29 DEF RecordRejection
<1>30. CASE RecordCancel
  BY <1>30 DEF RecordCancel
<1>31. CASE InterruptRun
  BY <1>31 DEF InterruptRun
<1>32. CASE Crash
  BY <1>32 DEF Crash, InFlight
<1>33. CASE DeadlinePasses
  BY <1>33 DEF DeadlinePasses
<1>34. ASSUME NEW n \in Nodes, Approve(n) PROVE ValuesTyped'
  BY <1>34, CountStep DEF Approve
<1>35. ASSUME NEW n \in Nodes, Reject(n) PROVE ValuesTyped'
  BY <1>35 DEF Reject
<1>36. ASSUME NEW n \in Nodes, SkipNode(n) PROVE ValuesTyped'
  BY <1>36 DEF SkipNode
<1>37. ASSUME NEW n \in Nodes, AskApproval(n) PROVE ValuesTyped'
  BY <1>37 DEF AskApproval
<1>38. ASSUME NEW n \in Nodes, EnterNode(n) PROVE ValuesTyped'
  BY <1>38 DEF EnterNode
<1>39. ASSUME NEW n \in Nodes, CancelStep(n) PROVE ValuesTyped'
  BY <1>39 DEF CancelStep
<1>40. ASSUME NEW n \in Nodes, InterruptStep(n) PROVE ValuesTyped'
  BY <1>40 DEF InterruptStep
<1>41. ASSUME NEW p \in Ports, CompleteStep(p) PROVE ValuesTyped'
  BY <1>41 DEF CompleteStep
<1>42. CASE UNCHANGED vars
  BY <1>42
<1>. QED
  BY <1>1, <1>2, <1>3, <1>4, <1>5, <1>6, <1>7, <1>8, <1>9, <1>10, <1>11, <1>12, <1>13, <1>14, <1>15, <1>16, <1>17, <1>18, <1>19, <1>20, <1>21, <1>22, <1>23, <1>24, <1>25, <1>26, <1>27, <1>28, <1>29, <1>30, <1>31, <1>32, <1>33, <1>34, <1>35, <1>36, <1>37, <1>38, <1>39, <1>40, <1>41, <1>42
  DEF Next, Handlers, Settle, Wake, Recover, Section

(* The variables keep their types. *)
THEOREM TypeCorrect == Spec => []TypeOK
<1>1. Init => FlagsTyped
  BY DEF Init, FlagsTyped
<1>2. Init => ValuesTyped
  BY WorkflowAssumption
  DEF WorkflowAssumption, Init, ValuesTyped, RunStatuses, TerminalRun, StepStatuses,
      TerminalStep, Active, Ports, Jobs, LoopJobs
<1>. QED
  BY <1>1, <1>2, FlagsStep, ValuesStep, PTL DEF Spec, TypeOK

(* Every section leaves the loop's locals and the thread in agreement. *)
LEMMA LoopShapeStep ==
  ValuesTyped /\ LoopShape /\ [Next]_vars => LoopShape'
<1>. SUFFICES ASSUME ValuesTyped, LoopShape, [Next]_vars PROVE LoopShape'
  OBVIOUS
<1>. USE WorkflowAssumption 
     DEF WorkflowAssumption, LoopShape, ValuesTyped, LoopJobs, MayRetry, vars, runRow, stepRows, loop, history
<1>1. CASE CreateRun
  BY <1>1 DEF CreateRun
<1>2. CASE FindRun
  BY <1>2 DEF FindRun
<1>3. CASE Cancel
  BY <1>3 DEF Cancel
<1>4. CASE StartChildOperation
  BY <1>4 DEF StartChildOperation
<1>5. CASE OperationSucceeds
  BY <1>5 DEF OperationSucceeds, SettleContext
<1>6. CASE OperationFails
  BY <1>6 DEF OperationFails, SettleContext
<1>7. CASE BackoffEnds
  BY <1>7 DEF BackoffEnds
<1>8. CASE RecoverRun
  BY <1>8 DEF RecoverRun, InFlight
<1>9. CASE InitializeSteps
  BY <1>9 DEF InitializeSteps
<1>10. CASE CompleteStarter
  BY <1>10 DEF CompleteStarter
<1>11. CASE OpenRun
  BY <1>11 DEF OpenRun
<1>12. CASE ContinueRefused
  BY <1>12 DEF ContinueRefused
<1>13. CASE ContinueRun
  BY <1>13 DEF ContinueRun
<1>14. CASE LoopOutOfBudget
  BY <1>14 DEF LoopOutOfBudget, LoopReturns, LeaveLoop
<1>15. CASE LoopPaused
  BY <1>15 DEF LoopPaused, LoopReturns, LeaveLoop
<1>16. CASE LoopPastDeadline
  BY <1>16 DEF LoopPastDeadline, LoopReturns, LeaveLoop
<1>17. CASE LoopWaits
  BY <1>17 DEF LoopWaits, LoopReturns, LeaveLoop
<1>18. CASE LoopStalls
  BY <1>18 DEF LoopStalls, LoopReturns, LeaveLoop
<1>19. CASE FinishRun
  BY <1>19 DEF FinishRun, LoopReturns, LeaveLoop
<1>20. CASE FindReadyNodes
  BY <1>20 DEF FindReadyNodes, Candidates, ReadyToRun
<1>21. CASE BatchDone
  BY <1>21 DEF BatchDone
<1>22. CASE PauseRun
  BY <1>22 DEF PauseRun, LeaveLoop
<1>23. CASE StartOperation
  BY <1>23 DEF StartOperation, MarkAttempt
<1>24. CASE RefuseOperation
  BY <1>24 DEF RefuseOperation, MarkAttempt
<1>25. CASE GiveUp
  BY <1>25 DEF GiveUp
<1>26. CASE NextCandidate
  BY <1>26 DEF NextCandidate
<1>27. CASE StopAfterNode
  BY <1>27 DEF StopAfterNode, LeaveLoop
<1>28. CASE RecordApproval
  BY <1>28 DEF RecordApproval
<1>29. CASE RecordRejection
  BY <1>29 DEF RecordRejection
<1>30. CASE RecordCancel
  BY <1>30 DEF RecordCancel
<1>31. CASE InterruptRun
  BY <1>31 DEF InterruptRun
<1>32. CASE Crash
  BY <1>32 DEF Crash, InFlight
<1>33. CASE DeadlinePasses
  BY <1>33 DEF DeadlinePasses
<1>34. ASSUME NEW n \in Nodes, Approve(n) PROVE LoopShape'
  BY <1>34 DEF Approve
<1>35. ASSUME NEW n \in Nodes, Reject(n) PROVE LoopShape'
  BY <1>35 DEF Reject
<1>36. ASSUME NEW n \in Nodes, SkipNode(n) PROVE LoopShape'
  BY <1>36 DEF SkipNode
<1>37. ASSUME NEW n \in Nodes, AskApproval(n) PROVE LoopShape'
  BY <1>37 DEF AskApproval
<1>38. ASSUME NEW n \in Nodes, EnterNode(n) PROVE LoopShape'
  BY <1>38 DEF EnterNode
<1>39. ASSUME NEW n \in Nodes, CancelStep(n) PROVE LoopShape'
  BY <1>39 DEF CancelStep
<1>40. ASSUME NEW n \in Nodes, InterruptStep(n) PROVE LoopShape'
  BY <1>40 DEF InterruptStep
<1>41. ASSUME NEW p \in Ports, CompleteStep(p) PROVE LoopShape'
  BY <1>41 DEF CompleteStep
<1>42. CASE UNCHANGED vars
  BY <1>42
<1>. QED
  BY <1>1, <1>2, <1>3, <1>4, <1>5, <1>6, <1>7, <1>8, <1>9, <1>10, <1>11, <1>12, <1>13, <1>14, <1>15, <1>16, <1>17, <1>18, <1>19, <1>20, <1>21, <1>22, <1>23, <1>24, <1>25, <1>26, <1>27, <1>28, <1>29, <1>30, <1>31, <1>32, <1>33, <1>34, <1>35, <1>36, <1>37, <1>38, <1>39, <1>40, <1>41, <1>42
  DEF Next, Handlers, Settle, Wake, Recover, Section

(* A run has all its step rows or none, and without them nothing has run. *)
LEMMA StepsTogetherStep ==
  ValuesTyped /\ LoopShape /\ StepsTogether /\ [Next]_vars => StepsTogether'
<1>. SUFFICES ASSUME ValuesTyped, LoopShape, StepsTogether, [Next]_vars PROVE StepsTogether'
  OBVIOUS
<1>. USE WorkflowAssumption 
     DEF WorkflowAssumption, StepsTogether, NoSteps, LoopShape, ValuesTyped,
         LoopJobs, Active, TerminalStep, TerminalRun, Unfinished, vars, runRow, stepRows, loop, history
<1>1. CASE CreateRun
  BY <1>1 DEF CreateRun
<1>2. CASE FindRun
  BY <1>2 DEF FindRun
<1>3. CASE Cancel
  BY <1>3 DEF Cancel
<1>4. CASE StartChildOperation
  BY <1>4 DEF StartChildOperation
<1>5. CASE OperationSucceeds
  BY <1>5 DEF OperationSucceeds, SettleContext
<1>6. CASE OperationFails
  BY <1>6 DEF OperationFails, SettleContext
<1>7. CASE BackoffEnds
  BY <1>7 DEF BackoffEnds
<1>8. CASE RecoverRun
  BY <1>8 DEF RecoverRun, InFlight
<1>9. CASE InitializeSteps
  BY <1>9 DEF InitializeSteps
<1>10. CASE CompleteStarter
  BY <1>10 DEF CompleteStarter
<1>11. CASE OpenRun
  BY <1>11 DEF OpenRun
<1>12. CASE ContinueRefused
  BY <1>12 DEF ContinueRefused
<1>13. CASE ContinueRun
  BY <1>13 DEF ContinueRun
<1>14. CASE LoopOutOfBudget
  BY <1>14 DEF LoopOutOfBudget, LoopReturns, LeaveLoop
<1>15. CASE LoopPaused
  BY <1>15 DEF LoopPaused, LoopReturns, LeaveLoop
<1>16. CASE LoopPastDeadline
  BY <1>16 DEF LoopPastDeadline, LoopReturns, LeaveLoop
<1>17. CASE LoopWaits
  BY <1>17 DEF LoopWaits, LoopReturns, LeaveLoop
<1>18. CASE LoopStalls
  BY <1>18 DEF LoopStalls, LoopReturns, LeaveLoop
<1>19. CASE FinishRun
  BY <1>19 DEF FinishRun, LoopReturns, LeaveLoop
<1>20. CASE FindReadyNodes
  BY <1>20 DEF FindReadyNodes, Candidates, ReadyToRun
<1>21. CASE BatchDone
  BY <1>21 DEF BatchDone
<1>22. CASE PauseRun
  BY <1>22 DEF PauseRun, LeaveLoop
<1>23. CASE StartOperation
  BY <1>23 DEF StartOperation, MarkAttempt
<1>24. CASE RefuseOperation
  BY <1>24 DEF RefuseOperation, MarkAttempt
<1>25. CASE GiveUp
  BY <1>25 DEF GiveUp
<1>26. CASE NextCandidate
  BY <1>26 DEF NextCandidate
<1>27. CASE StopAfterNode
  BY <1>27 DEF StopAfterNode, LeaveLoop
<1>28. CASE RecordApproval
  BY <1>28 DEF RecordApproval
<1>29. CASE RecordRejection
  BY <1>29 DEF RecordRejection
<1>30. CASE RecordCancel
  BY <1>30 DEF RecordCancel
<1>31. CASE InterruptRun
  BY <1>31 DEF InterruptRun
<1>32. CASE Crash
  BY <1>32 DEF Crash, InFlight
<1>33. CASE DeadlinePasses
  BY <1>33 DEF DeadlinePasses
<1>34. ASSUME NEW n \in Nodes, Approve(n) PROVE StepsTogether'
  BY <1>34 DEF Approve
<1>35. ASSUME NEW n \in Nodes, Reject(n) PROVE StepsTogether'
  BY <1>35 DEF Reject
<1>36. ASSUME NEW n \in Nodes, SkipNode(n) PROVE StepsTogether'
  BY <1>36 DEF SkipNode
<1>37. ASSUME NEW n \in Nodes, AskApproval(n) PROVE StepsTogether'
  BY <1>37 DEF AskApproval
<1>38. ASSUME NEW n \in Nodes, EnterNode(n) PROVE StepsTogether'
  BY <1>38 DEF EnterNode
<1>39. ASSUME NEW n \in Nodes, CancelStep(n) PROVE StepsTogether'
  BY <1>39 DEF CancelStep
<1>40. ASSUME NEW n \in Nodes, InterruptStep(n) PROVE StepsTogether'
  BY <1>40 DEF InterruptStep
<1>41. ASSUME NEW p \in Ports, CompleteStep(p) PROVE StepsTogether'
  BY <1>41 DEF CompleteStep
<1>42. CASE UNCHANGED vars
  BY <1>42
<1>. QED
  BY <1>1, <1>2, <1>3, <1>4, <1>5, <1>6, <1>7, <1>8, <1>9, <1>10, <1>11, <1>12, <1>13, <1>14, <1>15, <1>16, <1>17, <1>18, <1>19, <1>20, <1>21, <1>22, <1>23, <1>24, <1>25, <1>26, <1>27, <1>28, <1>29, <1>30, <1>31, <1>32, <1>33, <1>34, <1>35, <1>36, <1>37, <1>38, <1>39, <1>40, <1>41, <1>42
  DEF Next, Handlers, Settle, Wake, Recover, Section

(* The two facts about the shape of the loop and of the rows that the other *)
(* invariants rest on.                                                      *)
THEOREM ShapeCorrect == Spec => [](ValuesTyped /\ LoopShape /\ StepsTogether)
<1>1. Init => LoopShape /\ StepsTogether
  BY WorkflowAssumption DEF WorkflowAssumption, Init, LoopShape, StepsTogether, NoSteps, LoopJobs
<1>. QED
  BY <1>1, TypeCorrect, LoopShapeStep, StepsTogetherStep, PTL DEF Spec, TypeOK

(* Every handler hands a run in progress to a loop or to recovery. *)
LEMMA OwnedStep ==
  ValuesTyped /\ LoopShape /\ Owned /\ [Next]_vars => Owned'
<1>. SUFFICES ASSUME ValuesTyped, LoopShape, Owned, [Next]_vars PROVE Owned'
  OBVIOUS
<1>. USE WorkflowAssumption 
     DEF Owned, LoopShape, LoopJobs, TerminalRun, vars, runRow, stepRows, loop, history
<1>1. CASE CreateRun
  BY <1>1 DEF CreateRun
<1>2. CASE FindRun
  BY <1>2 DEF FindRun
<1>3. CASE Cancel
  BY <1>3 DEF Cancel
<1>4. CASE StartChildOperation
  BY <1>4 DEF StartChildOperation
<1>5. CASE OperationSucceeds
  BY <1>5 DEF OperationSucceeds, SettleContext
<1>6. CASE OperationFails
  BY <1>6 DEF OperationFails, SettleContext
<1>7. CASE BackoffEnds
  BY <1>7 DEF BackoffEnds
<1>8. CASE RecoverRun
  BY <1>8 DEF RecoverRun, InFlight
<1>9. CASE InitializeSteps
  BY <1>9 DEF InitializeSteps
<1>10. CASE CompleteStarter
  BY <1>10 DEF CompleteStarter
<1>11. CASE OpenRun
  BY <1>11 DEF OpenRun
<1>12. CASE ContinueRefused
  BY <1>12 DEF ContinueRefused
<1>13. CASE ContinueRun
  BY <1>13 DEF ContinueRun
<1>14. CASE LoopOutOfBudget
  BY <1>14 DEF LoopOutOfBudget, LoopReturns, LeaveLoop
<1>15. CASE LoopPaused
  BY <1>15 DEF LoopPaused, LoopReturns, LeaveLoop
<1>16. CASE LoopPastDeadline
  BY <1>16 DEF LoopPastDeadline, LoopReturns, LeaveLoop
<1>17. CASE LoopWaits
  BY <1>17 DEF LoopWaits, LoopReturns, LeaveLoop
<1>18. CASE LoopStalls
  BY <1>18 DEF LoopStalls, LoopReturns, LeaveLoop
<1>19. CASE FinishRun
  BY <1>19 DEF FinishRun, LoopReturns, LeaveLoop
<1>20. CASE FindReadyNodes
  BY <1>20 DEF FindReadyNodes, Candidates, ReadyToRun
<1>21. CASE BatchDone
  BY <1>21 DEF BatchDone
<1>22. CASE PauseRun
  BY <1>22 DEF PauseRun, LeaveLoop
<1>23. CASE StartOperation
  BY <1>23 DEF StartOperation, MarkAttempt
<1>24. CASE RefuseOperation
  BY <1>24 DEF RefuseOperation, MarkAttempt
<1>25. CASE GiveUp
  BY <1>25 DEF GiveUp
<1>26. CASE NextCandidate
  BY <1>26 DEF NextCandidate
<1>27. CASE StopAfterNode
  BY <1>27 DEF StopAfterNode, LeaveLoop
<1>28. CASE RecordApproval
  BY <1>28 DEF RecordApproval
<1>29. CASE RecordRejection
  BY <1>29 DEF RecordRejection
<1>30. CASE RecordCancel
  BY <1>30 DEF RecordCancel
<1>31. CASE InterruptRun
  BY <1>31 DEF InterruptRun
<1>32. CASE Crash
  <2>1. crashes' > 0
    BY <1>32 DEF Crash, ValuesTyped
  <2>. QED
    BY <1>32, <2>1 DEF Crash
<1>33. CASE DeadlinePasses
  BY <1>33 DEF DeadlinePasses
<1>34. ASSUME NEW n \in Nodes, Approve(n) PROVE Owned'
  BY <1>34 DEF Approve
<1>35. ASSUME NEW n \in Nodes, Reject(n) PROVE Owned'
  BY <1>35 DEF Reject
<1>36. ASSUME NEW n \in Nodes, SkipNode(n) PROVE Owned'
  BY <1>36 DEF SkipNode
<1>37. ASSUME NEW n \in Nodes, AskApproval(n) PROVE Owned'
  BY <1>37 DEF AskApproval
<1>38. ASSUME NEW n \in Nodes, EnterNode(n) PROVE Owned'
  BY <1>38 DEF EnterNode
<1>39. ASSUME NEW n \in Nodes, CancelStep(n) PROVE Owned'
  BY <1>39 DEF CancelStep
<1>40. ASSUME NEW n \in Nodes, InterruptStep(n) PROVE Owned'
  BY <1>40 DEF InterruptStep
<1>41. ASSUME NEW p \in Ports, CompleteStep(p) PROVE Owned'
  BY <1>41 DEF CompleteStep
<1>42. CASE UNCHANGED vars
  BY <1>42
<1>. QED
  BY <1>1, <1>2, <1>3, <1>4, <1>5, <1>6, <1>7, <1>8, <1>9, <1>10, <1>11, <1>12, <1>13, <1>14, <1>15, <1>16, <1>17, <1>18, <1>19, <1>20, <1>21, <1>22, <1>23, <1>24, <1>25, <1>26, <1>27, <1>28, <1>29, <1>30, <1>31, <1>32, <1>33, <1>34, <1>35, <1>36, <1>37, <1>38, <1>39, <1>40, <1>41, <1>42
  DEF Next, Handlers, Settle, Wake, Recover, Section

(* A run in progress is never orphaned by the engine: through every handler *)
(* and every crash there is a live loop, a pending recovery or a section    *)
(* about to settle it.                                                      *)
THEOREM AttendedAlways == Spec => []Attended
<1>1. Init => Owned
  BY DEF Init, Owned
<1>2. Owned => Attended
  BY DEF Owned, Attended
<1>. QED
  BY <1>1, <1>2, ShapeCorrect, OwnedStep, PTL DEF Spec

(* In a live run an approval is spent by the start it pays for. *)
LEMMA ApprovalCreditStep ==
  ValuesTyped /\ LoopShape /\ StepsTogether /\ ApprovalCredit /\ [Next]_vars /\ ~DryRun => ApprovalCredit'
<1>. SUFFICES ASSUME ValuesTyped, LoopShape, StepsTogether, ApprovalCredit, [Next]_vars, ~DryRun PROVE ApprovalCredit'
  OBVIOUS
<1>. USE WorkflowAssumption 
     DEF WorkflowAssumption, ApprovalCredit, LoopShape, ValuesTyped, LoopJobs, MayRetry, vars, runRow, stepRows, loop, history
<1>1. CASE CreateRun
  BY <1>1 DEF CreateRun
<1>2. CASE FindRun
  BY <1>2 DEF FindRun
<1>3. CASE Cancel
  BY <1>3 DEF Cancel
<1>4. CASE StartChildOperation
  BY <1>4 DEF StartChildOperation
<1>5. CASE OperationSucceeds
  BY <1>5 DEF OperationSucceeds, SettleContext
<1>6. CASE OperationFails
  BY <1>6 DEF OperationFails, SettleContext
<1>7. CASE BackoffEnds
  BY <1>7 DEF BackoffEnds
<1>8. CASE RecoverRun
  BY <1>8 DEF RecoverRun, InFlight
<1>9. CASE InitializeSteps
  BY <1>9 DEF InitializeSteps, StepsTogether, NoSteps
<1>10. CASE CompleteStarter
  BY <1>10 DEF CompleteStarter
<1>11. CASE OpenRun
  BY <1>11 DEF OpenRun
<1>12. CASE ContinueRefused
  BY <1>12 DEF ContinueRefused
<1>13. CASE ContinueRun
  BY <1>13 DEF ContinueRun
<1>14. CASE LoopOutOfBudget
  BY <1>14 DEF LoopOutOfBudget, LoopReturns, LeaveLoop
<1>15. CASE LoopPaused
  BY <1>15 DEF LoopPaused, LoopReturns, LeaveLoop
<1>16. CASE LoopPastDeadline
  BY <1>16 DEF LoopPastDeadline, LoopReturns, LeaveLoop
<1>17. CASE LoopWaits
  BY <1>17 DEF LoopWaits, LoopReturns, LeaveLoop
<1>18. CASE LoopStalls
  BY <1>18 DEF LoopStalls, LoopReturns, LeaveLoop
<1>19. CASE FinishRun
  BY <1>19 DEF FinishRun, LoopReturns, LeaveLoop
<1>20. CASE FindReadyNodes
  BY <1>20 DEF FindReadyNodes, Candidates, ReadyToRun
<1>21. CASE BatchDone
  BY <1>21 DEF BatchDone
<1>22. CASE PauseRun
  BY <1>22 DEF PauseRun, LeaveLoop
<1>23. CASE StartOperation
  BY <1>23 DEF StartOperation, MarkAttempt
<1>24. CASE RefuseOperation
  BY <1>24 DEF RefuseOperation, MarkAttempt
<1>25. CASE GiveUp
  BY <1>25 DEF GiveUp
<1>26. CASE NextCandidate
  BY <1>26 DEF NextCandidate
<1>27. CASE StopAfterNode
  BY <1>27 DEF StopAfterNode, LeaveLoop
<1>28. CASE RecordApproval
  BY <1>28 DEF RecordApproval
<1>29. CASE RecordRejection
  BY <1>29 DEF RecordRejection
<1>30. CASE RecordCancel
  BY <1>30 DEF RecordCancel
<1>31. CASE InterruptRun
  BY <1>31 DEF InterruptRun
<1>32. CASE Crash
  BY <1>32 DEF Crash, InFlight
<1>33. CASE DeadlinePasses
  BY <1>33 DEF DeadlinePasses
<1>34. ASSUME NEW n \in Nodes, Approve(n) PROVE ApprovalCredit'
  BY <1>34 DEF Approve
<1>35. ASSUME NEW n \in Nodes, Reject(n) PROVE ApprovalCredit'
  BY <1>35 DEF Reject
<1>36. ASSUME NEW n \in Nodes, SkipNode(n) PROVE ApprovalCredit'
  BY <1>36 DEF SkipNode
<1>37. ASSUME NEW n \in Nodes, AskApproval(n) PROVE ApprovalCredit'
  BY <1>37 DEF AskApproval
<1>38. ASSUME NEW n \in Nodes, EnterNode(n) PROVE ApprovalCredit'
  BY <1>38, ~DryRun, ExternalNeedsApproval DEF EnterNode, MustAsk
<1>39. ASSUME NEW n \in Nodes, CancelStep(n) PROVE ApprovalCredit'
  BY <1>39 DEF CancelStep
<1>40. ASSUME NEW n \in Nodes, InterruptStep(n) PROVE ApprovalCredit'
  BY <1>40 DEF InterruptStep
<1>41. ASSUME NEW p \in Ports, CompleteStep(p) PROVE ApprovalCredit'
  BY <1>41 DEF CompleteStep
<1>42. CASE UNCHANGED vars
  BY <1>42
<1>. QED
  BY <1>1, <1>2, <1>3, <1>4, <1>5, <1>6, <1>7, <1>8, <1>9, <1>10, <1>11, <1>12, <1>13, <1>14, <1>15, <1>16, <1>17, <1>18, <1>19, <1>20, <1>21, <1>22, <1>23, <1>24, <1>25, <1>26, <1>27, <1>28, <1>29, <1>30, <1>31, <1>32, <1>33, <1>34, <1>35, <1>36, <1>37, <1>38, <1>39, <1>40, <1>41, <1>42
  DEF Next, Handlers, Settle, Wake, Recover, Section

(* In a live run no external write or data export is started without an     *)
(* approval of its own: execs never overtakes grants, through retries,      *)
(* crashes, recoveries and lost updates of the run's context.               *)
THEOREM WritesApprovedAlways == Spec => []WritesApproved
<1>1. CASE DryRun
  BY <1>1, PTL DEF WritesApproved
<1>2. CASE ~DryRun
  <2>1. Init => ApprovalCredit
    BY DEF Init, ApprovalCredit
  <2>2. ApprovalCredit /\ ValuesTyped => WritesApproved
    BY DEF ApprovalCredit, WritesApproved
  <2>. QED
    BY <1>2, <2>1, <2>2, ShapeCorrect, ApprovalCreditStep, PTL DEF Spec
<1>. QED
  BY <1>1, <1>2

(* An interrupted step comes back to the loop only through Approve. *)
LEMMA UnverifiedHeldStep ==
  ValuesTyped /\ LoopShape /\ StepsTogether /\ UnverifiedHeld /\ [Next]_vars => UnverifiedHeld'
<1>. SUFFICES ASSUME ValuesTyped, LoopShape, StepsTogether, UnverifiedHeld, [Next]_vars PROVE UnverifiedHeld'
  OBVIOUS
<1>. USE WorkflowAssumption 
     DEF WorkflowAssumption, UnverifiedHeld, LoopShape, StepsTogether, NoSteps, ValuesTyped, LoopJobs,
         Active, TerminalStep, vars, runRow, stepRows, loop, history
<1>1. CASE CreateRun
  BY <1>1 DEF CreateRun
<1>2. CASE FindRun
  BY <1>2 DEF FindRun
<1>3. CASE Cancel
  BY <1>3 DEF Cancel
<1>4. CASE StartChildOperation
  BY <1>4 DEF StartChildOperation
<1>5. CASE OperationSucceeds
  BY <1>5 DEF OperationSucceeds, SettleContext
<1>6. CASE OperationFails
  BY <1>6 DEF OperationFails, SettleContext
<1>7. CASE BackoffEnds
  BY <1>7 DEF BackoffEnds
<1>8. CASE RecoverRun
  BY <1>8 DEF RecoverRun, InFlight
<1>9. CASE InitializeSteps
  BY <1>9 DEF InitializeSteps
<1>10. CASE CompleteStarter
  BY <1>10 DEF CompleteStarter
<1>11. CASE OpenRun
  BY <1>11 DEF OpenRun
<1>12. CASE ContinueRefused
  BY <1>12 DEF ContinueRefused
<1>13. CASE ContinueRun
  BY <1>13 DEF ContinueRun
<1>14. CASE LoopOutOfBudget
  BY <1>14 DEF LoopOutOfBudget, LoopReturns, LeaveLoop
<1>15. CASE LoopPaused
  BY <1>15 DEF LoopPaused, LoopReturns, LeaveLoop
<1>16. CASE LoopPastDeadline
  BY <1>16 DEF LoopPastDeadline, LoopReturns, LeaveLoop
<1>17. CASE LoopWaits
  BY <1>17 DEF LoopWaits, LoopReturns, LeaveLoop
<1>18. CASE LoopStalls
  BY <1>18 DEF LoopStalls, LoopReturns, LeaveLoop
<1>19. CASE FinishRun
  BY <1>19 DEF FinishRun, LoopReturns, LeaveLoop
<1>20. CASE FindReadyNodes
  BY <1>20 DEF FindReadyNodes, Candidates, ReadyToRun
<1>21. CASE BatchDone
  BY <1>21 DEF BatchDone
<1>22. CASE PauseRun
  BY <1>22 DEF PauseRun, LeaveLoop
<1>23. CASE StartOperation
  BY <1>23 DEF StartOperation, MarkAttempt
<1>24. CASE RefuseOperation
  BY <1>24 DEF RefuseOperation, MarkAttempt
<1>25. CASE GiveUp
  BY <1>25 DEF GiveUp
<1>26. CASE NextCandidate
  BY <1>26 DEF NextCandidate
<1>27. CASE StopAfterNode
  BY <1>27 DEF StopAfterNode, LeaveLoop
<1>28. CASE RecordApproval
  BY <1>28 DEF RecordApproval
<1>29. CASE RecordRejection
  BY <1>29 DEF RecordRejection
<1>30. CASE RecordCancel
  BY <1>30 DEF RecordCancel
<1>31. CASE InterruptRun
  BY <1>31 DEF InterruptRun
<1>32. CASE Crash
  BY <1>32 DEF Crash, InFlight
<1>33. CASE DeadlinePasses
  BY <1>33 DEF DeadlinePasses
<1>34. ASSUME NEW n \in Nodes, Approve(n) PROVE UnverifiedHeld'
  BY <1>34 DEF Approve
<1>35. ASSUME NEW n \in Nodes, Reject(n) PROVE UnverifiedHeld'
  BY <1>35 DEF Reject
<1>36. ASSUME NEW n \in Nodes, SkipNode(n) PROVE UnverifiedHeld'
  BY <1>36 DEF SkipNode
<1>37. ASSUME NEW n \in Nodes, AskApproval(n) PROVE UnverifiedHeld'
  BY <1>37 DEF AskApproval
<1>38. ASSUME NEW n \in Nodes, EnterNode(n) PROVE UnverifiedHeld'
  BY <1>38 DEF EnterNode
<1>39. ASSUME NEW n \in Nodes, CancelStep(n) PROVE UnverifiedHeld'
  BY <1>39 DEF CancelStep, Unfinished
<1>40. ASSUME NEW n \in Nodes, InterruptStep(n) PROVE UnverifiedHeld'
  BY <1>40 DEF InterruptStep
<1>41. ASSUME NEW p \in Ports, CompleteStep(p) PROVE UnverifiedHeld'
  BY <1>41 DEF CompleteStep
<1>42. CASE UNCHANGED vars
  BY <1>42
<1>. QED
  BY <1>1, <1>2, <1>3, <1>4, <1>5, <1>6, <1>7, <1>8, <1>9, <1>10, <1>11, <1>12, <1>13, <1>14, <1>15, <1>16, <1>17, <1>18, <1>19, <1>20, <1>21, <1>22, <1>23, <1>24, <1>25, <1>26, <1>27, <1>28, <1>29, <1>30, <1>31, <1>32, <1>33, <1>34, <1>35, <1>36, <1>37, <1>38, <1>39, <1>40, <1>41, <1>42
  DEF Next, Handlers, Settle, Wake, Recover, Section

(* The loop's budget and the run row's operation count agree. *)
LEMMA BudgetLedgerStep ==
  ValuesTyped /\ LoopShape /\ BudgetLedger /\ [Next]_vars => BudgetLedger'
<1>. SUFFICES ASSUME ValuesTyped, LoopShape, BudgetLedger, [Next]_vars PROVE BudgetLedger'
  OBVIOUS
<1>. USE WorkflowAssumption 
     DEF WorkflowAssumption, BudgetLedger, LoopShape, ValuesTyped, LoopJobs, vars, runRow, stepRows, loop, history
<1>1. CASE CreateRun
  BY <1>1 DEF CreateRun
<1>2. CASE FindRun
  BY <1>2 DEF FindRun
<1>3. CASE Cancel
  BY <1>3 DEF Cancel
<1>4. CASE StartChildOperation
  BY <1>4 DEF StartChildOperation
<1>5. CASE OperationSucceeds
  BY <1>5 DEF OperationSucceeds, SettleContext
<1>6. CASE OperationFails
  BY <1>6 DEF OperationFails, SettleContext
<1>7. CASE BackoffEnds
  BY <1>7 DEF BackoffEnds
<1>8. CASE RecoverRun
  BY <1>8 DEF RecoverRun, InFlight
<1>9. CASE InitializeSteps
  BY <1>9 DEF InitializeSteps
<1>10. CASE CompleteStarter
  BY <1>10 DEF CompleteStarter
<1>11. CASE OpenRun
  BY <1>11 DEF OpenRun
<1>12. CASE ContinueRefused
  BY <1>12 DEF ContinueRefused
<1>13. CASE ContinueRun
  BY <1>13 DEF ContinueRun
<1>14. CASE LoopOutOfBudget
  BY <1>14 DEF LoopOutOfBudget, LoopReturns, LeaveLoop
<1>15. CASE LoopPaused
  BY <1>15 DEF LoopPaused, LoopReturns, LeaveLoop
<1>16. CASE LoopPastDeadline
  BY <1>16 DEF LoopPastDeadline, LoopReturns, LeaveLoop
<1>17. CASE LoopWaits
  BY <1>17 DEF LoopWaits, LoopReturns, LeaveLoop
<1>18. CASE LoopStalls
  BY <1>18 DEF LoopStalls, LoopReturns, LeaveLoop
<1>19. CASE FinishRun
  BY <1>19 DEF FinishRun, LoopReturns, LeaveLoop
<1>20. CASE FindReadyNodes
  BY <1>20 DEF FindReadyNodes, Candidates, ReadyToRun
<1>21. CASE BatchDone
  BY <1>21 DEF BatchDone
<1>22. CASE PauseRun
  BY <1>22 DEF PauseRun, LeaveLoop
<1>23. CASE StartOperation
  BY <1>23 DEF StartOperation, MarkAttempt
<1>24. CASE RefuseOperation
  BY <1>24 DEF RefuseOperation, MarkAttempt
<1>25. CASE GiveUp
  BY <1>25 DEF GiveUp
<1>26. CASE NextCandidate
  BY <1>26 DEF NextCandidate
<1>27. CASE StopAfterNode
  BY <1>27 DEF StopAfterNode, LeaveLoop
<1>28. CASE RecordApproval
  BY <1>28 DEF RecordApproval
<1>29. CASE RecordRejection
  BY <1>29 DEF RecordRejection
<1>30. CASE RecordCancel
  BY <1>30 DEF RecordCancel
<1>31. CASE InterruptRun
  BY <1>31 DEF InterruptRun
<1>32. CASE Crash
  BY <1>32 DEF Crash, InFlight
<1>33. CASE DeadlinePasses
  BY <1>33 DEF DeadlinePasses
<1>34. ASSUME NEW n \in Nodes, Approve(n) PROVE BudgetLedger'
  BY <1>34 DEF Approve
<1>35. ASSUME NEW n \in Nodes, Reject(n) PROVE BudgetLedger'
  BY <1>35 DEF Reject
<1>36. ASSUME NEW n \in Nodes, SkipNode(n) PROVE BudgetLedger'
  BY <1>36 DEF SkipNode
<1>37. ASSUME NEW n \in Nodes, AskApproval(n) PROVE BudgetLedger'
  BY <1>37 DEF AskApproval
<1>38. ASSUME NEW n \in Nodes, EnterNode(n) PROVE BudgetLedger'
  BY <1>38 DEF EnterNode
<1>39. ASSUME NEW n \in Nodes, CancelStep(n) PROVE BudgetLedger'
  BY <1>39 DEF CancelStep
<1>40. ASSUME NEW n \in Nodes, InterruptStep(n) PROVE BudgetLedger'
  BY <1>40 DEF InterruptStep
<1>41. ASSUME NEW p \in Ports, CompleteStep(p) PROVE BudgetLedger'
  BY <1>41 DEF CompleteStep
<1>42. CASE UNCHANGED vars
  BY <1>42
<1>. QED
  BY <1>1, <1>2, <1>3, <1>4, <1>5, <1>6, <1>7, <1>8, <1>9, <1>10, <1>11, <1>12, <1>13, <1>14, <1>15, <1>16, <1>17, <1>18, <1>19, <1>20, <1>21, <1>22, <1>23, <1>24, <1>25, <1>26, <1>27, <1>28, <1>29, <1>30, <1>31, <1>32, <1>33, <1>34, <1>35, <1>36, <1>37, <1>38, <1>39, <1>40, <1>41, <1>42
  DEF Next, Handlers, Settle, Wake, Recover, Section

(* Without crashes the operation limit of the settings bounds everything a  *)
(* run starts, nested operations included, over all its loops.              *)
THEOREM BudgetAlways == Spec => []BudgetRespected
<1>1. Init => BudgetLedger
  BY DEF Init, BudgetLedger
<1>2. ValuesTyped /\ BudgetLedger => BudgetRespected
  BY WorkflowAssumption DEF WorkflowAssumption, ValuesTyped, BudgetLedger, BudgetRespected
<1>. QED
  BY <1>1, <1>2, ShapeCorrect, BudgetLedgerStep, PTL DEF Spec

(* What a crash interrupted is not started again before the user approves  *)
(* it, whatever its risk and whichever entry point continues the run.       *)
THEOREM InterruptedVerifiedAlways == Spec => InterruptedVerified
<1>1. Init => UnverifiedHeld
  BY DEF Init, UnverifiedHeld
<1>2. ValuesTyped /\ LoopShape /\ UnverifiedHeld /\ [Next]_vars
        => [\A n \in unverified : execs'[n] = execs[n]]_vars
  <2>. SUFFICES ASSUME ValuesTyped, UnverifiedHeld, Next, NEW n \in unverified
                PROVE  execs'[n] = execs[n]
    OBVIOUS
  <2>1. CASE StartOperation
    BY <2>1 DEF StartOperation, UnverifiedHeld, ValuesTyped
  <2>2. CASE ~StartOperation
    <3>. execs' = execs
      BY <2>2 DEF Next, Handlers, Settle, Wake, Recover, Section,
         CreateRun, FindRun, Cancel, StartChildOperation, OperationSucceeds, OperationFails, BackoffEnds, RecoverRun, InitializeSteps, CompleteStarter, OpenRun, ContinueRefused, ContinueRun, LoopOutOfBudget, LoopPaused, LoopPastDeadline, LoopWaits, LoopStalls, FinishRun, FindReadyNodes, BatchDone, PauseRun, RefuseOperation, GiveUp, NextCandidate, StopAfterNode, RecordApproval, RecordRejection, RecordCancel, InterruptRun, Crash, DeadlinePasses, Approve, Reject, SkipNode, AskApproval, EnterNode, CancelStep, InterruptStep, CompleteStep,
         SettleContext, LoopReturns, LeaveLoop, history
    <3>. QED
      OBVIOUS
  <2>. QED
    BY <2>1, <2>2
<1>. QED
  BY <1>1, <1>2, ShapeCorrect, UnverifiedHeldStep, PTL DEF Spec, InterruptedVerified

(* Work is handed out in the order of the edges and is not taken back. *)
LEMMA SuccessorsFreshStep ==
  ValuesTyped /\ LoopShape /\ StepsTogether /\ SuccessorsFresh /\ [Next]_vars => SuccessorsFresh'
<1>. SUFFICES ASSUME ValuesTyped, LoopShape, StepsTogether, SuccessorsFresh, [Next]_vars PROVE SuccessorsFresh'
  OBVIOUS
<1>. USE WorkflowAssumption 
     DEF WorkflowAssumption, SuccessorsFresh, Held, Incoming, EdgeActive, LoopShape, StepsTogether, NoSteps,
         ValuesTyped, LoopJobs, Active, TerminalStep, vars, runRow, stepRows, loop, history
<1>1. CASE CreateRun
  BY <1>1 DEF CreateRun
<1>2. CASE FindRun
  BY <1>2 DEF FindRun
<1>3. CASE Cancel
  BY <1>3 DEF Cancel
<1>4. CASE StartChildOperation
  BY <1>4 DEF StartChildOperation
<1>5. CASE OperationSucceeds
  BY <1>5 DEF OperationSucceeds, SettleContext
<1>6. CASE OperationFails
  BY <1>6 DEF OperationFails, SettleContext
<1>7. CASE BackoffEnds
  BY <1>7 DEF BackoffEnds
<1>8. CASE RecoverRun
  BY <1>8 DEF RecoverRun, InFlight
<1>9. CASE InitializeSteps
  BY <1>9 DEF InitializeSteps
<1>10. CASE CompleteStarter
  BY <1>10 DEF CompleteStarter
<1>11. CASE OpenRun
  BY <1>11 DEF OpenRun
<1>12. CASE ContinueRefused
  BY <1>12 DEF ContinueRefused
<1>13. CASE ContinueRun
  BY <1>13 DEF ContinueRun
<1>14. CASE LoopOutOfBudget
  BY <1>14 DEF LoopOutOfBudget, LoopReturns, LeaveLoop
<1>15. CASE LoopPaused
  BY <1>15 DEF LoopPaused, LoopReturns, LeaveLoop
<1>16. CASE LoopPastDeadline
  BY <1>16 DEF LoopPastDeadline, LoopReturns, LeaveLoop
<1>17. CASE LoopWaits
  BY <1>17 DEF LoopWaits, LoopReturns, LeaveLoop
<1>18. CASE LoopStalls
  BY <1>18 DEF LoopStalls, LoopReturns, LeaveLoop
<1>19. CASE FinishRun
  BY <1>19 DEF FinishRun, LoopReturns, LeaveLoop
<1>20. CASE FindReadyNodes
  BY <1>20 DEF FindReadyNodes, Candidates, ReadyToRun
<1>21. CASE BatchDone
  BY <1>21 DEF BatchDone
<1>22. CASE PauseRun
  BY <1>22 DEF PauseRun, LeaveLoop
<1>23. CASE StartOperation
  BY <1>23 DEF StartOperation, MarkAttempt
<1>24. CASE RefuseOperation
  BY <1>24 DEF RefuseOperation, MarkAttempt
<1>25. CASE GiveUp
  BY <1>25 DEF GiveUp
<1>26. CASE NextCandidate
  BY <1>26 DEF NextCandidate
<1>27. CASE StopAfterNode
  BY <1>27 DEF StopAfterNode, LeaveLoop
<1>28. CASE RecordApproval
  BY <1>28 DEF RecordApproval
<1>29. CASE RecordRejection
  BY <1>29 DEF RecordRejection
<1>30. CASE RecordCancel
  BY <1>30 DEF RecordCancel
<1>31. CASE InterruptRun
  BY <1>31 DEF InterruptRun
<1>32. CASE Crash
  BY <1>32 DEF Crash, InFlight
<1>33. CASE DeadlinePasses
  BY <1>33 DEF DeadlinePasses
<1>34. ASSUME NEW n \in Nodes, Approve(n) PROVE SuccessorsFresh'
  BY <1>34 DEF Approve
<1>35. ASSUME NEW n \in Nodes, Reject(n) PROVE SuccessorsFresh'
  BY <1>35 DEF Reject
<1>36. ASSUME NEW n \in Nodes, SkipNode(n) PROVE SuccessorsFresh'
  BY <1>36 DEF SkipNode
<1>37. ASSUME NEW n \in Nodes, AskApproval(n) PROVE SuccessorsFresh'
  BY <1>37 DEF AskApproval
<1>38. ASSUME NEW n \in Nodes, EnterNode(n) PROVE SuccessorsFresh'
  BY <1>38 DEF EnterNode
<1>39. ASSUME NEW n \in Nodes, CancelStep(n) PROVE SuccessorsFresh'
  BY <1>39 DEF CancelStep, Unfinished
<1>40. ASSUME NEW n \in Nodes, InterruptStep(n) PROVE SuccessorsFresh'
  BY <1>40 DEF InterruptStep, InFlight
<1>41. ASSUME NEW p \in Ports, CompleteStep(p) PROVE SuccessorsFresh'
  BY <1>41 DEF CompleteStep
<1>42. CASE UNCHANGED vars
  BY <1>42
<1>. QED
  BY <1>1, <1>2, <1>3, <1>4, <1>5, <1>6, <1>7, <1>8, <1>9, <1>10, <1>11, <1>12, <1>13, <1>14, <1>15, <1>16, <1>17, <1>18, <1>19, <1>20, <1>21, <1>22, <1>23, <1>24, <1>25, <1>26, <1>27, <1>28, <1>29, <1>30, <1>31, <1>32, <1>33, <1>34, <1>35, <1>36, <1>37, <1>38, <1>39, <1>40, <1>41, <1>42
  DEF Next, Handlers, Settle, Wake, Recover, Section

(* A started operation has settled sources and an active edge, for good. *)
THEOREM DependenciesAlways == Spec => []DependenciesFirst
<1>1. Init => SuccessorsFresh
  BY WorkflowAssumption DEF WorkflowAssumption, Init, SuccessorsFresh, Held
<1>2. SuccessorsFresh /\ ValuesTyped => DependenciesFirst
  BY WorkflowAssumption
  DEF WorkflowAssumption, SuccessorsFresh, DependenciesFirst, ValuesTyped, Incoming, EdgeActive
<1>. QED
  BY <1>1, <1>2, ShapeCorrect, SuccessorsFreshStep, PTL DEF Spec

(* Nobody but the section on the thread takes the last waiting step away.   *)
LEMMA AskedForStep ==
  ValuesTyped /\ LoopShape /\ StepsTogether /\ AskedFor /\ [Next]_vars => AskedFor'
<1>. SUFFICES ASSUME ValuesTyped, LoopShape, StepsTogether, AskedFor, [Next]_vars PROVE AskedFor'
  OBVIOUS
<1>. USE WorkflowAssumption
     DEF WorkflowAssumption, AskedFor, Waiting, LoopShape, StepsTogether, NoSteps,
         ValuesTyped, LoopJobs, vars, runRow, stepRows, loop, history
<1>1. CASE CreateRun
  BY <1>1 DEF CreateRun
<1>2. CASE FindRun
  BY <1>2 DEF FindRun
<1>3. CASE Cancel
  BY <1>3 DEF Cancel
<1>4. CASE StartChildOperation
  BY <1>4 DEF StartChildOperation
<1>5. CASE OperationSucceeds
  BY <1>5 DEF OperationSucceeds, SettleContext
<1>6. CASE OperationFails
  BY <1>6 DEF OperationFails, SettleContext
<1>7. CASE BackoffEnds
  BY <1>7 DEF BackoffEnds
<1>8. CASE RecoverRun
  BY <1>8 DEF RecoverRun, InFlight
<1>9. CASE InitializeSteps
  BY <1>9 DEF InitializeSteps
<1>10. CASE CompleteStarter
  BY <1>10 DEF CompleteStarter
<1>11. CASE OpenRun
  BY <1>11 DEF OpenRun
<1>12. CASE ContinueRefused
  BY <1>12 DEF ContinueRefused
<1>13. CASE ContinueRun
  BY <1>13 DEF ContinueRun
<1>14. CASE LoopOutOfBudget
  BY <1>14 DEF LoopOutOfBudget, LoopReturns, LeaveLoop
<1>15. CASE LoopPaused
  BY <1>15 DEF LoopPaused, LoopReturns, LeaveLoop
<1>16. CASE LoopPastDeadline
  BY <1>16 DEF LoopPastDeadline, LoopReturns, LeaveLoop
<1>17. CASE LoopWaits
  BY <1>17 DEF LoopWaits, LoopReturns, LeaveLoop
<1>18. CASE LoopStalls
  BY <1>18 DEF LoopStalls, LoopReturns, LeaveLoop
<1>19. CASE FinishRun
  BY <1>19 DEF FinishRun, LoopReturns, LeaveLoop
<1>20. CASE FindReadyNodes
  BY <1>20 DEF FindReadyNodes, Candidates, ReadyToRun
<1>21. CASE BatchDone
  BY <1>21 DEF BatchDone
<1>22. CASE PauseRun
  BY <1>22 DEF PauseRun, LeaveLoop
<1>23. CASE StartOperation
  BY <1>23 DEF StartOperation, MarkAttempt
<1>24. CASE RefuseOperation
  BY <1>24 DEF RefuseOperation, MarkAttempt
<1>25. CASE GiveUp
  BY <1>25 DEF GiveUp
<1>26. CASE NextCandidate
  BY <1>26 DEF NextCandidate
<1>27. CASE StopAfterNode
  BY <1>27 DEF StopAfterNode, LeaveLoop
<1>28. CASE RecordApproval
  BY <1>28 DEF RecordApproval
<1>29. CASE RecordRejection
  BY <1>29 DEF RecordRejection
<1>30. CASE RecordCancel
  BY <1>30 DEF RecordCancel
<1>31. CASE InterruptRun
  BY <1>31 DEF InterruptRun
<1>32. CASE Crash
  BY <1>32 DEF Crash, InFlight
<1>33. CASE DeadlinePasses
  BY <1>33 DEF DeadlinePasses
<1>34. ASSUME NEW n \in Nodes, Approve(n) PROVE AskedFor'
  BY <1>34 DEF Approve
<1>35. ASSUME NEW n \in Nodes, Reject(n) PROVE AskedFor'
  BY <1>35 DEF Reject
<1>36. ASSUME NEW n \in Nodes, SkipNode(n) PROVE AskedFor'
  BY <1>36 DEF SkipNode
<1>37. ASSUME NEW n \in Nodes, AskApproval(n) PROVE AskedFor'
  BY <1>37 DEF AskApproval
<1>38. ASSUME NEW n \in Nodes, EnterNode(n) PROVE AskedFor'
  BY <1>38 DEF EnterNode
<1>39. ASSUME NEW n \in Nodes, CancelStep(n) PROVE AskedFor'
  BY <1>39 DEF CancelStep, Unfinished
<1>40. ASSUME NEW n \in Nodes, InterruptStep(n) PROVE AskedFor'
  BY <1>40 DEF InterruptStep, InFlight
<1>41. ASSUME NEW p \in Ports, CompleteStep(p) PROVE AskedFor'
  BY <1>41 DEF CompleteStep
<1>42. CASE UNCHANGED vars
  BY <1>42
<1>. QED
  BY <1>1, <1>2, <1>3, <1>4, <1>5, <1>6, <1>7, <1>8, <1>9, <1>10, <1>11, <1>12, <1>13, <1>14, <1>15, <1>16, <1>17, <1>18, <1>19, <1>20, <1>21, <1>22, <1>23, <1>24, <1>25, <1>26, <1>27, <1>28, <1>29, <1>30, <1>31, <1>32, <1>33, <1>34, <1>35, <1>36, <1>37, <1>38, <1>39, <1>40, <1>41, <1>42
  DEF Next, Handlers, Settle, Wake, Recover, Section

(* Without a crash a run that waits for approval has a step to approve,     *)
(* whatever is rejected, cancelled, delivered again or approved meanwhile.  *)
THEOREM AnswerableAlways == Spec => []WaitingIsAnswerable
<1>1. Init => AskedFor
  BY DEF Init, AskedFor
<1>2. AskedFor => WaitingIsAnswerable
  BY DEF AskedFor, WaitingIsAnswerable
<1>. QED
  BY <1>1, <1>2, ShapeCorrect, AskedForStep, PTL DEF Spec

=============================================================================
