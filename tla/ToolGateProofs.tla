--------------------------- MODULE ToolGateProofs ---------------------------
(***************************************************************************)
(* What holds of the gate of an MCP server for every set of calls, every   *)
(* number of queries and with or without watchdogs.  Gate is the inductive *)
(* invariant: between the lines of _call_locked and make_tool.run it says  *)
(* where a worker stands while the gate names it, while its task is about  *)
(* to interrupt, while its watchdog runs, and when its outcome is final.   *)
(***************************************************************************)
EXTENDS ToolGate, TLAPS

\* A worker exists from the request on, and the gate names a call only between its two assignments.
Spans ==
  /\ \A c \in Calls : task[c] = "idle" => worker[c] = "none"
  /\ named # None => worker[named] \in {"body", "query", "joining", "clearing"}
  /\ \A c \in Calls : dog[c] # "off" => worker[c] \in {"query", "joining"}

\* A task between its look at the gate and its interrupt was cancelled, and its body ran when it looked.
LooksFirst ==
  loop # None => /\ gone[loop] # "no"
                 /\ worker[loop] \in {"body", "query", "joining", "clearing", "releasing", "done"}

\* An outcome is fixed when the body ends, and the audit line is written before the gate is left.
Settled ==
  /\ \A c \in Calls : worker[c] \in {"none", "acquire", "admitted", "entering", "body", "query"}
                        => posted[c] = None
  /\ \A c \in Calls : worker[c] \in {"clearing", "releasing", "done"} /\ posted[c] # None
                        => audit[c] = posted[c]
  /\ \A c \in Calls : answer[c] \in Outcomes => worker[c] = "done" /\ audit[c] = answer[c]

Gate ==
  /\ TypeOK /\ OneBodyAtATime /\ Spans /\ LooksFirst /\ InterruptsOwnOrLeft /\ DogBitesOwn /\ Settled

-----------------------------------------------------------------------------
\* Every step keeps the types.
LEMMA StepTypes ==
  ASSUME TypeOK, LooksFirst, NEW c \in Calls, Task(c) \/ Worker(c) \/ Watchdog(c)
  PROVE  TypeOK'
<1>1. CASE Request(c)
  BY <1>1 DEF Request, Work, TypeOK
<1>2. CASE Cancel(c, "deadline") \/ Cancel(c, "client")
  BY <1>2 DEF Cancel, TypeOK
<1>3. CASE Answer(c)
  BY <1>3 DEF Answer, TypeOK
<1>4. CASE Wake(c)
  BY <1>4 DEF Wake, TypeOK
<1>5. CASE Interrupt(c)
  <2>1. engine # None => [engine EXCEPT !.hit = @ \cup {c}] \in Engine
    BY DEF TypeOK, Engine
  <2>2. engine' \in Engine \cup {None}
    BY <1>5, <2>1 DEF Interrupt
  <2>3. task' \in [Calls -> {"idle", "waiting", "answered"}]
    BY <1>5 DEF Interrupt, TypeOK
  <2>4. answer' \in [Calls -> Outcomes \cup {"deadline", "client", None}]
    BY <1>5, GateAssumption DEF Interrupt, TypeOK, LooksFirst
  <2> QED BY <1>5, <2>2, <2>3, <2>4 DEF Interrupt, TypeOK
<1>6. CASE Acquire(c)
  BY <1>6 DEF Acquire, Work, TypeOK, Holding
<1>7. CASE GiveUp(c)
  BY <1>7 DEF GiveUp, Work, TypeOK, Outcomes
<1>8. CASE CheckCancelled(c)
  BY <1>8 DEF CheckCancelled, Work, TypeOK, Holding
<1>9. CASE Enter(c)
  BY <1>9, GateAssumption DEF Enter, Work, TypeOK, Holding
<1>10. CASE Query(c)
  <2>1. PICK stubborn \in BOOLEAN : engine' = [of |-> c, stubborn |-> stubborn, hit |-> {}, bitten |-> {}]
    BY <1>10 DEF Query
  <2>2. engine' \in Engine
    BY <2>1 DEF Engine
  <2>3. left[c] - 1 \in Nat
    BY <1>10 DEF Query, TypeOK
  <2>4. left' \in [Calls -> Nat]
    BY <1>10, <2>3 DEF Query, TypeOK
  <2>5. worker' \in [Calls -> Holding \cup {"none", "acquire", "done"}]
    BY <1>10 DEF Query, Work, TypeOK, Holding
  <2>6. dog' \in [Calls -> {"off", "on", "fired", "bit"}]
    BY <1>10 DEF Query, TypeOK
  <2> QED BY <1>10, <2>2, <2>4, <2>5, <2>6 DEF Query, TypeOK
<1>11. CASE QueryEnd(c)
  BY <1>11 DEF QueryEnd, Work, TypeOK, Holding, BodyEnds, Outcomes
<1>12. CASE Join(c)
  BY <1>12 DEF Join, Work, TypeOK, Holding
<1>13. CASE Finish(c)
  BY <1>13 DEF Finish, Work, TypeOK, Holding, Outcomes
<1>14. CASE Clear(c)
  BY <1>14 DEF Clear, Work, TypeOK, Holding
<1>15. CASE Release(c)
  BY <1>15 DEF Release, Work, TypeOK
<1>16. CASE DogFires(c)
  BY <1>16 DEF DogFires, Dog, TypeOK
<1>17. CASE DogBites(c)
  BY <1>17 DEF DogBites, Dog, TypeOK, Engine
<1>18. CASE DogKills(c)
  BY <1>18 DEF DogKills, TypeOK
<1>19. CASE DogLeaves(c)
  BY <1>19 DEF DogLeaves, Dog, TypeOK
<1> QED BY <1>1, <1>2, <1>3, <1>4, <1>5, <1>6, <1>7, <1>8, <1>9, <1>10, <1>11, <1>12, <1>13, <1>14, <1>15,
     <1>16, <1>17, <1>18, <1>19 DEF Task, Worker, Watchdog

\* Every step keeps one body at a time: the lock goes with the worker's place.
LEMMA StepOneBody ==
  ASSUME TypeOK, OneBodyAtATime, Spans, NEW c \in Calls, Task(c) \/ Worker(c) \/ Watchdog(c)
  PROVE  OneBodyAtATime'
<1>1. CASE Request(c)
  BY <1>1 DEF Request, Work, OneBodyAtATime, Spans, Holding
<1>2. CASE Cancel(c, "deadline") \/ Cancel(c, "client")
  BY <1>2 DEF Cancel, OneBodyAtATime
<1>3. CASE Answer(c)
  BY <1>3 DEF Answer, OneBodyAtATime
<1>4. CASE Wake(c)
  BY <1>4 DEF Wake, OneBodyAtATime
<1>5. CASE Interrupt(c)
  BY <1>5 DEF Interrupt, OneBodyAtATime
<1>6. CASE Acquire(c)
  <2>1. \A d \in Calls : worker'[d] \in Holding <=> holder' = d
    BY <1>6, GateAssumption DEF Acquire, Work, TypeOK, OneBodyAtATime, Holding
  <2>2. named = None /\ named' = None
    BY <1>6 DEF Acquire, OneBodyAtATime
  <2>3. engine = None /\ engine' = None
    BY <1>6, GateAssumption DEF Acquire, OneBodyAtATime, TypeOK, Engine
  <2> QED BY <2>1, <2>2, <2>3 DEF OneBodyAtATime
<1>7. CASE GiveUp(c)
  BY <1>7 DEF GiveUp, Work, OneBodyAtATime, Holding
<1>8. CASE CheckCancelled(c)
  BY <1>8 DEF CheckCancelled, Work, OneBodyAtATime, Holding
<1>9. CASE Enter(c)
  BY <1>9 DEF Enter, Work, OneBodyAtATime, Holding
<1>10. CASE Query(c)
  BY <1>10 DEF Query, Work, TypeOK, OneBodyAtATime, Holding
<1>11. CASE QueryEnd(c)
  BY <1>11 DEF QueryEnd, Work, OneBodyAtATime, Holding
<1>12. CASE Join(c)
  BY <1>12 DEF Join, Work, TypeOK, OneBodyAtATime, Holding
<1>13. CASE Finish(c)
  BY <1>13 DEF Finish, Work, OneBodyAtATime, Holding
<1>14. CASE Clear(c)
  BY <1>14 DEF Clear, Work, OneBodyAtATime, Holding
<1>15. CASE Release(c)
  BY <1>15, GateAssumption DEF Release, Work, TypeOK, OneBodyAtATime, Spans, Holding
<1>16. CASE DogFires(c)
  BY <1>16 DEF DogFires, OneBodyAtATime
<1>17. CASE DogBites(c)
  BY <1>17 DEF DogBites, OneBodyAtATime
<1>18. CASE DogKills(c)
  BY <1>18 DEF DogKills, OneBodyAtATime
<1>19. CASE DogLeaves(c)
  BY <1>19 DEF DogLeaves, OneBodyAtATime
<1> QED BY <1>1, <1>2, <1>3, <1>4, <1>5, <1>6, <1>7, <1>8, <1>9, <1>10, <1>11, <1>12, <1>13, <1>14, <1>15,
     <1>16, <1>17, <1>18, <1>19 DEF Task, Worker, Watchdog

\* Every step keeps what Spans says of workers, the name in the gate and watchdogs.
LEMMA StepSpans ==
  ASSUME TypeOK, OneBodyAtATime, Spans, NEW c \in Calls, Task(c) \/ Worker(c) \/ Watchdog(c)
  PROVE  Spans'
<1>1. CASE Request(c)
  BY <1>1 DEF Request, Work, TypeOK, Spans
<1>2. CASE Cancel(c, "deadline") \/ Cancel(c, "client")
  BY <1>2 DEF Cancel, Spans
<1>3. CASE Answer(c)
  BY <1>3 DEF Answer, Spans
<1>4. CASE Wake(c)
  BY <1>4 DEF Wake, TypeOK, Spans
<1>5. CASE Interrupt(c)
  BY <1>5 DEF Interrupt, Spans
<1>6. CASE Acquire(c)
  BY <1>6 DEF Acquire, Work, Spans
<1>7. CASE GiveUp(c)
  BY <1>7 DEF GiveUp, Work, Spans
<1>8. CASE CheckCancelled(c)
  BY <1>8 DEF CheckCancelled, Work, Spans
<1>9. CASE Enter(c)
  BY <1>9 DEF Enter, Work, TypeOK, Spans
<1>10. CASE Query(c)
  BY <1>10 DEF Query, Work, TypeOK, Spans
<1>11. CASE QueryEnd(c)
  BY <1>11 DEF QueryEnd, Work, Spans
<1>12. CASE Join(c)
  BY <1>12 DEF Join, Work, TypeOK, Spans
<1>13. CASE Finish(c)
  BY <1>13 DEF Finish, Work, Spans
<1>14. CASE Clear(c)
  BY <1>14 DEF Clear, Work, Spans
<1>15. CASE Release(c)
  BY <1>15 DEF Release, Work, Spans
<1>16. CASE DogFires(c)
  BY <1>16 DEF DogFires, Dog, Spans
<1>17. CASE DogBites(c)
  BY <1>17 DEF DogBites, Dog, Spans
<1>18. CASE DogKills(c)
  BY <1>18 DEF DogKills, Spans
<1>19. CASE DogLeaves(c)
  BY <1>19 DEF DogLeaves, Dog, Spans
<1> QED BY <1>1, <1>2, <1>3, <1>4, <1>5, <1>6, <1>7, <1>8, <1>9, <1>10, <1>11, <1>12, <1>13, <1>14, <1>15,
     <1>16, <1>17, <1>18, <1>19 DEF Task, Worker, Watchdog

\* Every step keeps LooksFirst: Wake reads the name in the gate, and a worker only moves on.
LEMMA StepLooksFirst ==
  ASSUME TypeOK, Spans, LooksFirst, NEW c \in Calls, Task(c) \/ Worker(c) \/ Watchdog(c)
  PROVE  LooksFirst'
<1>1. CASE Request(c)
  BY <1>1 DEF Request, Loop, LooksFirst
<1>2. CASE Cancel(c, "deadline") \/ Cancel(c, "client")
  BY <1>2 DEF Cancel, Loop, LooksFirst
<1>3. CASE Answer(c)
  BY <1>3 DEF Answer, LooksFirst
<1>4. CASE Wake(c)
  BY <1>4 DEF Wake, Spans, LooksFirst
<1>5. CASE Interrupt(c)
  BY <1>5 DEF Interrupt, LooksFirst
<1>6. CASE Acquire(c)
  BY <1>6 DEF Acquire, Work, LooksFirst
<1>7. CASE GiveUp(c)
  BY <1>7 DEF GiveUp, Work, LooksFirst
<1>8. CASE CheckCancelled(c)
  BY <1>8 DEF CheckCancelled, Work, LooksFirst
<1>9. CASE Enter(c)
  BY <1>9 DEF Enter, Work, LooksFirst
<1>10. CASE Query(c)
  BY <1>10 DEF Query, Work, LooksFirst
<1>11. CASE QueryEnd(c)
  BY <1>11 DEF QueryEnd, Work, LooksFirst
<1>12. CASE Join(c)
  BY <1>12 DEF Join, Work, TypeOK, LooksFirst
<1>13. CASE Finish(c)
  BY <1>13 DEF Finish, Work, LooksFirst
<1>14. CASE Clear(c)
  BY <1>14 DEF Clear, Work, LooksFirst
<1>15. CASE Release(c)
  BY <1>15 DEF Release, Work, LooksFirst
<1>16. CASE DogFires(c)
  BY <1>16 DEF DogFires, LooksFirst
<1>17. CASE DogBites(c)
  BY <1>17 DEF DogBites, LooksFirst
<1>18. CASE DogKills(c)
  BY <1>18 DEF DogKills, LooksFirst
<1>19. CASE DogLeaves(c)
  BY <1>19 DEF DogLeaves, LooksFirst
<1> QED BY <1>1, <1>2, <1>3, <1>4, <1>5, <1>6, <1>7, <1>8, <1>9, <1>10, <1>11, <1>12, <1>13, <1>14, <1>15,
     <1>16, <1>17, <1>18, <1>19 DEF Task, Worker, Watchdog

\* Every step keeps InterruptsOwnOrLeft: a late interrupt finds its call inside the gate or done.
LEMMA StepInterrupts ==
  ASSUME TypeOK, OneBodyAtATime, Spans, LooksFirst, InterruptsOwnOrLeft, NEW c \in Calls, Task(c) \/ Worker(c) \/ Watchdog(c)
  PROVE  InterruptsOwnOrLeft'
<1>1. CASE Request(c)
  BY <1>1 DEF Request, Work, Spans, InterruptsOwnOrLeft
<1>2. CASE Cancel(c, "deadline") \/ Cancel(c, "client")
  BY <1>2 DEF Cancel, InterruptsOwnOrLeft
<1>3. CASE Answer(c)
  BY <1>3 DEF Answer, InterruptsOwnOrLeft
<1>4. CASE Wake(c)
  BY <1>4 DEF Wake, InterruptsOwnOrLeft
<1>5. CASE Interrupt(c)
  BY <1>5, GateAssumption DEF Interrupt, TypeOK, OneBodyAtATime, LooksFirst, InterruptsOwnOrLeft
<1>6. CASE Acquire(c)
  BY <1>6 DEF Acquire, Work, InterruptsOwnOrLeft
<1>7. CASE GiveUp(c)
  BY <1>7 DEF GiveUp, Work, InterruptsOwnOrLeft
<1>8. CASE CheckCancelled(c)
  BY <1>8 DEF CheckCancelled, Work, InterruptsOwnOrLeft
<1>9. CASE Enter(c)
  BY <1>9 DEF Enter, Work, InterruptsOwnOrLeft
<1>10. CASE Query(c)
  BY <1>10 DEF Query, InterruptsOwnOrLeft
<1>11. CASE QueryEnd(c)
  BY <1>11 DEF QueryEnd, InterruptsOwnOrLeft
<1>12. CASE Join(c)
  BY <1>12 DEF Join, Work, TypeOK, Engine, InterruptsOwnOrLeft
<1>13. CASE Finish(c)
  BY <1>13 DEF Finish, Work, InterruptsOwnOrLeft
<1>14. CASE Clear(c)
  BY <1>14 DEF Clear, Work, InterruptsOwnOrLeft
<1>15. CASE Release(c)
  BY <1>15 DEF Release, Work, InterruptsOwnOrLeft
<1>16. CASE DogFires(c)
  BY <1>16 DEF DogFires, InterruptsOwnOrLeft
<1>17. CASE DogBites(c)
  BY <1>17 DEF DogBites, InterruptsOwnOrLeft
<1>18. CASE DogKills(c)
  BY <1>18 DEF DogKills, InterruptsOwnOrLeft
<1>19. CASE DogLeaves(c)
  BY <1>19 DEF DogLeaves, InterruptsOwnOrLeft
<1> QED BY <1>1, <1>2, <1>3, <1>4, <1>5, <1>6, <1>7, <1>8, <1>9, <1>10, <1>11, <1>12, <1>13, <1>14, <1>15,
     <1>16, <1>17, <1>18, <1>19 DEF Task, Worker, Watchdog

\* Every step keeps DogBitesOwn: a watchdog that runs has its own body inside the gate.
LEMMA StepDogs ==
  ASSUME TypeOK, OneBodyAtATime, Spans, DogBitesOwn, NEW c \in Calls, Task(c) \/ Worker(c) \/ Watchdog(c)
  PROVE  DogBitesOwn'
<1>1. CASE Request(c)
  BY <1>1 DEF Request, DogBitesOwn
<1>2. CASE Cancel(c, "deadline") \/ Cancel(c, "client")
  BY <1>2 DEF Cancel, DogBitesOwn
<1>3. CASE Answer(c)
  BY <1>3 DEF Answer, DogBitesOwn
<1>4. CASE Wake(c)
  BY <1>4 DEF Wake, DogBitesOwn
<1>5. CASE Interrupt(c)
  BY <1>5 DEF Interrupt, DogBitesOwn
<1>6. CASE Acquire(c)
  BY <1>6 DEF Acquire, DogBitesOwn
<1>7. CASE GiveUp(c)
  BY <1>7 DEF GiveUp, DogBitesOwn
<1>8. CASE CheckCancelled(c)
  BY <1>8 DEF CheckCancelled, DogBitesOwn
<1>9. CASE Enter(c)
  BY <1>9 DEF Enter, DogBitesOwn
<1>10. CASE Query(c)
  BY <1>10 DEF Query, DogBitesOwn
<1>11. CASE QueryEnd(c)
  BY <1>11 DEF QueryEnd, DogBitesOwn
<1>12. CASE Join(c)
  BY <1>12 DEF Join, DogBitesOwn
<1>13. CASE Finish(c)
  BY <1>13 DEF Finish, DogBitesOwn
<1>14. CASE Clear(c)
  BY <1>14 DEF Clear, DogBitesOwn
<1>15. CASE Release(c)
  BY <1>15 DEF Release, DogBitesOwn
<1>16. CASE DogFires(c)
  BY <1>16 DEF DogFires, DogBitesOwn
<1>17. CASE DogBites(c)
  BY <1>17 DEF DogBites, TypeOK, OneBodyAtATime, Spans, DogBitesOwn
<1>18. CASE DogKills(c)
  BY <1>18 DEF DogKills, DogBitesOwn
<1>19. CASE DogLeaves(c)
  BY <1>19 DEF DogLeaves, DogBitesOwn
<1> QED BY <1>1, <1>2, <1>3, <1>4, <1>5, <1>6, <1>7, <1>8, <1>9, <1>10, <1>11, <1>12, <1>13, <1>14, <1>15,
     <1>16, <1>17, <1>18, <1>19 DEF Task, Worker, Watchdog

\* Every step keeps Settled: nothing writes an outcome or its audit line twice.
LEMMA StepSettled ==
  ASSUME TypeOK, Spans, Settled, NEW c \in Calls, Task(c) \/ Worker(c) \/ Watchdog(c)
  PROVE  Settled'
<1>1. CASE Request(c)
  BY <1>1 DEF Request, Work, Spans, Settled
<1>2. CASE Cancel(c, "deadline") \/ Cancel(c, "client")
  BY <1>2 DEF Cancel, Settled
<1>3. CASE Answer(c)
  BY <1>3, GateAssumption DEF Answer, Settled
<1>4. CASE Wake(c)
  BY <1>4 DEF Wake, TypeOK, Settled, BodyEnds, Outcomes
<1>5. CASE Interrupt(c)
  BY <1>5 DEF Interrupt, TypeOK, Settled, BodyEnds, Outcomes
<1>6. CASE Acquire(c)
  BY <1>6 DEF Acquire, Work, Settled
<1>7. CASE GiveUp(c)
  BY <1>7 DEF GiveUp, Work, TypeOK, Settled
<1>8. CASE CheckCancelled(c)
  BY <1>8 DEF CheckCancelled, Work, Settled
<1>9. CASE Enter(c)
  BY <1>9 DEF Enter, Work, Settled
<1>10. CASE Query(c)
  BY <1>10 DEF Query, Work, Settled
<1>11. CASE QueryEnd(c)
  BY <1>11 DEF QueryEnd, Work, TypeOK, Settled
<1>12. CASE Join(c)
  BY <1>12 DEF Join, Work, TypeOK, Settled
<1>13. CASE Finish(c)
  BY <1>13 DEF Finish, Work, TypeOK, Settled
<1>14. CASE Clear(c)
  BY <1>14 DEF Clear, Work, Settled
<1>15. CASE Release(c)
  BY <1>15, GateAssumption DEF Release, Work, TypeOK, Spans, Settled, BodyEnds, Outcomes
<1>16. CASE DogFires(c)
  BY <1>16, GateAssumption DEF DogFires, Dog, Watching, TypeOK, Spans, Settled, BodyEnds, Outcomes
<1>17. CASE DogBites(c)
  BY <1>17, GateAssumption DEF DogBites, Dog, TypeOK, Spans, Settled, BodyEnds, Outcomes
<1>18. CASE DogKills(c)
  BY <1>18, GateAssumption DEF DogKills, Watching, TypeOK, Spans, Settled, BodyEnds, Outcomes
<1>19. CASE DogLeaves(c)
  BY <1>19, GateAssumption DEF DogLeaves, Dog, TypeOK, Spans, Settled, BodyEnds, Outcomes
<1> QED BY <1>1, <1>2, <1>3, <1>4, <1>5, <1>6, <1>7, <1>8, <1>9, <1>10, <1>11, <1>12, <1>13, <1>14, <1>15,
     <1>16, <1>17, <1>18, <1>19 DEF Task, Worker, Watchdog

-----------------------------------------------------------------------------
\* The server starts with an empty gate.
LEMMA GateInit == Init => Gate
  BY GateAssumption DEF Init, Gate, TypeOK, OneBodyAtATime, Spans, LooksFirst, InterruptsOwnOrLeft, DogBitesOwn,
     Settled, Engine, Holding, BodyEnds, Outcomes

\* Every step of any task, worker or watchdog keeps Gate.
LEMMA GateStep == Gate /\ [Next]_vars => Gate'
<1> SUFFICES ASSUME Gate, [Next]_vars PROVE Gate'
  OBVIOUS
<1>1. ASSUME NEW c \in Calls, Task(c) \/ Worker(c) \/ Watchdog(c)
      PROVE  Gate'
  BY <1>1, StepTypes, StepOneBody, StepSpans, StepLooksFirst, StepInterrupts, StepDogs, StepSettled DEF Gate
<1>2. CASE UNCHANGED vars
  BY <1>2 DEF vars, Gate, TypeOK, OneBodyAtATime, Spans, LooksFirst, InterruptsOwnOrLeft, DogBitesOwn, Settled
<1> QED BY <1>1, <1>2 DEF Next

\* Gate holds in every state of the server.
LEMMA GateAlways == Spec => []Gate
  BY GateInit, GateStep, PTL DEF Spec

\* Every variable of the server has its type (mcp_server, cypher_guard.Watchdog).
THEOREM GateTypeCorrect == Spec => []TypeOK
<1>1. Gate => TypeOK
  BY DEF Gate
<1> QED BY <1>1, GateAlways, PTL

\* One tool body at a time, and queries only inside the body that holds the gate (_Gate, _call_locked).
THEOREM OneBody == Spec => []OneBodyAtATime
<1>1. Gate => OneBodyAtATime
  BY DEF Gate
<1> QED BY <1>1, GateAlways, PTL

\* An abandoned call interrupts its own query or one that took the gate after it was done, and never
\* one it is still waiting behind (make_tool.run).
THEOREM InterruptsAreOwnOrLate == Spec => []InterruptsOwnOrLeft
<1>1. Gate => InterruptsOwnOrLeft
  BY DEF Gate
<1> QED BY <1>1, GateAlways, PTL

\* A watchdog interrupts no query but the one it was started for (cypher_guard.Watchdog).
THEOREM DogsBiteTheirOwn == Spec => []DogBitesOwn
<1>1. Gate => DogBitesOwn
  BY DEF Gate
<1> QED BY <1>1, GateAlways, PTL

\* The outcome the client is told is the one in the audit log (tools.call, _call_locked).
THEOREM AnswersAreAudited == Spec => []AnswerIsAudited
<1>1. Gate => AnswerIsAudited
  BY DEF Gate, Settled, AnswerIsAudited
<1> QED BY <1>1, GateAlways, PTL
=============================================================================
