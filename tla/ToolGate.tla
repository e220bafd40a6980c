------------------------------ MODULE ToolGate ------------------------------
(***************************************************************************)
(* How an MCP server runs tool calls on one embedded database connection   *)
(* (mcp_server._Gate, _call_locked, make_tool.run).  Every call has two    *)
(* actors: a task on the event loop, which waits, times out or is          *)
(* cancelled and then answers, and a worker thread, which takes the gate,  *)
(* runs the body and its engine queries, and writes the audit line.  A     *)
(* task that gives up abandons its worker; it interrupts the connection    *)
(* if the gate names its call, but looks first and interrupts then.        *)
(* With Watched, every query runs under a cypher_guard.Watchdog thread.    *)
(***************************************************************************)
EXTENDS Naturals, FiniteSets

CONSTANTS
  Calls,            \* requests of the client
  None,
  MaxQueries,       \* engine queries of one body
  Watched           \* the server is the graph_cypher one

BodyEnds == {"ok", "input_error", "timeout", "crash"}
Outcomes == BodyEnds \cup {"busy"}

ASSUME GateAssumption ==
  /\ None \notin Calls \cup Outcomes
  /\ MaxQueries \in Nat
  /\ Watched \in BOOLEAN

VARIABLES
  task,         \* the event-loop side of each call
  gone,         \* why the task's cancel scope was cancelled
  loop,         \* the task between its look at the gate and its interrupt
  worker,       \* the worker thread of each call
  left,         \* queries the body may still run
  holder,       \* gate.lock
  named,        \* gate.current
  engine,       \* the query on the connection: whose it is, whether it heeds timeouts and interrupts,
                \* the tasks and the watchdogs that interrupted it
  dog,          \* the watchdog thread of each call
  audit,        \* the audit line of each call
  posted,       \* what the worker returned or raised
  answer,       \* what the client was told
  up            \* the server process lives

vars == <<task, gone, loop, worker, left, holder, named, engine, dog, audit, posted, answer, up>>

\* The gate lock is a worker's from its acquire to its release.
Holding == {"admitted", "entering", "body", "query", "joining", "clearing", "releasing"}

Work(c, state) == worker' = [worker EXCEPT ![c] = state]

Init ==
  /\ task = [c \in Calls |-> "idle"]
  /\ gone = [c \in Calls |-> "no"]
  /\ loop = None
  /\ worker = [c \in Calls |-> "none"]
  /\ left = [c \in Calls |-> 0]
  /\ holder = None /\ named = None /\ engine = None
  /\ dog = [c \in Calls |-> "off"]
  /\ audit = [c \in Calls |-> None]
  /\ posted = [c \in Calls |-> None]
  /\ answer = [c \in Calls |-> None]
  /\ up = TRUE

(***************************************************************************)
(* The event loop: one step of one task at a time                          *)
(***************************************************************************)
Loop(c) == up /\ loop = None

\* run(): the worker thread is started and awaited under move_on_after.
Request(c) ==
  /\ Loop(c) /\ task[c] = "idle"
  /\ task' = [task EXCEPT ![c] = "waiting"]
  /\ Work(c, "acquire")
  /\ UNCHANGED <<gone, loop, left, holder, named, engine, dog, audit, posted, answer, up>>

\* The deadline passes, or the client cancels: the scope is cancelled and the task will be woken.
Cancel(c, why) ==
  /\ Loop(c) /\ task[c] = "waiting" /\ gone[c] = "no"
  /\ gone' = [gone EXCEPT ![c] = why]
  /\ UNCHANGED <<task, loop, worker, left, holder, named, engine, dog, audit, posted, answer, up>>

\* The worker's result or exception reaches the task.
Answer(c) ==
  /\ Loop(c) /\ task[c] = "waiting" /\ gone[c] = "no" /\ worker[c] = "done"
  /\ task' = [task EXCEPT ![c] = "answered"]
  /\ answer' = [answer EXCEPT ![c] = posted[c]]
  /\ UNCHANGED <<gone, loop, worker, left, holder, named, engine, dog, audit, posted, up>>

\* Mutant: the task interrupts without asking whose call is running.
WakeUnasked(c) ==
  /\ Loop(c) /\ task[c] = "waiting" /\ gone[c] # "no"
  /\ loop' = c
  /\ UNCHANGED <<task, gone, worker, left, holder, named, engine, dog, audit, posted, answer, up>>

\* Mutant: whether the scope was cancelled is not asked.
WakeAlways(c) ==
  /\ Loop(c) /\ task[c] = "waiting"
  /\ IF named = c
       THEN loop' = c /\ UNCHANGED <<task, answer>>
       ELSE /\ task' = [task EXCEPT ![c] = "answered"]
            /\ answer' = [answer EXCEPT ![c] = gone[c]]
            /\ UNCHANGED loop
  /\ UNCHANGED <<gone, worker, left, holder, named, engine, dog, audit, posted, up>>

\* The cancelled task leaves its worker and looks at gate.current.
Wake(c) ==
  /\ Loop(c) /\ task[c] = "waiting" /\ gone[c] # "no"
  /\ IF named = c
       THEN loop' = c /\ UNCHANGED <<task, answer>>
       ELSE /\ task' = [task EXCEPT ![c] = "answered"]
            /\ answer' = [answer EXCEPT ![c] = gone[c]]
            /\ UNCHANGED loop
  /\ UNCHANGED <<gone, worker, left, holder, named, engine, dog, audit, posted, up>>

\* ctx.interrupt(): stops whatever runs on the connection then, and does nothing when it is idle.
Interrupt(c) ==
  /\ up /\ loop = c
  /\ engine' = IF engine = None THEN None ELSE [engine EXCEPT !.hit = @ \cup {c}]
  /\ task' = [task EXCEPT ![c] = "answered"]
  /\ answer' = [answer EXCEPT ![c] = gone[c]]
  /\ loop' = None
  /\ UNCHANGED <<gone, worker, left, holder, named, dog, audit, posted, up>>

(***************************************************************************)
(* The worker thread: _call_locked, and the body with its queries          *)
(***************************************************************************)
Acquire(c) ==
  /\ up /\ worker[c] = "acquire" /\ holder = None
  /\ holder' = c
  /\ Work(c, "admitted")
  /\ UNCHANGED <<task, gone, loop, left, named, engine, dog, audit, posted, answer, up>>

\* Mutant: a call that finds the gate taken leaves no audit line.
GiveUpUnseen(c) ==
  /\ up /\ worker[c] = "acquire" /\ holder # None
  /\ posted' = [posted EXCEPT ![c] = "busy"]
  /\ Work(c, "done")
  /\ UNCHANGED <<task, gone, loop, left, holder, named, engine, dog, audit, answer, up>>

\* The gate is still taken after 0.8 of the deadline: ToolBusy.
GiveUp(c) ==
  /\ up /\ worker[c] = "acquire" /\ holder # None
  /\ audit' = [audit EXCEPT ![c] = "busy"]
  /\ posted' = [posted EXCEPT ![c] = "busy"]
  /\ Work(c, "done")
  /\ UNCHANGED <<task, gone, loop, left, holder, named, engine, dog, answer, up>>

\* anyio.from_thread.check_cancelled() raises in a call whose task was cancelled.
CheckCancelled(c) ==
  /\ up /\ worker[c] = "admitted"
  /\ Work(c, IF gone[c] = "no" THEN "entering" ELSE "clearing")
  /\ UNCHANGED <<task, gone, loop, left, holder, named, engine, dog, audit, posted, answer, up>>

\* gate.current = call_id, and the body starts.
Enter(c) ==
  /\ up /\ worker[c] = "entering"
  /\ named' = c
  /\ left' = [left EXCEPT ![c] = MaxQueries]
  /\ Work(c, "body")
  /\ UNCHANGED <<task, gone, loop, holder, engine, dog, audit, posted, answer, up>>

\* A statement starts.  Raw Cypher may be one that ignores the engine's timeout and interrupts.
Query(c) ==
  /\ up /\ worker[c] = "body" /\ left[c] > 0
  /\ \E stubborn \in (IF Watched THEN BOOLEAN ELSE {FALSE}) :
       engine' = [of |-> c, stubborn |-> stubborn, hit |-> {}, bitten |-> {}]
  /\ left' = [left EXCEPT ![c] = @ - 1]
  /\ dog' = IF Watched THEN [dog EXCEPT ![c] = "on"] ELSE dog
  /\ Work(c, "query")
  /\ UNCHANGED <<task, gone, loop, holder, named, audit, posted, answer, up>>

\* Mutant: Watchdog.__exit__ does not wait for its thread.
QueryEndUnjoined(c) ==
  /\ up /\ worker[c] = "query"
  /\ engine' = None
  /\ \/ Work(c, "body") /\ UNCHANGED <<posted, audit>>
     \/ ~engine.stubborn /\ Work(c, "clearing") /\ posted' = [posted EXCEPT ![c] = "timeout"]
        /\ audit' = [audit EXCEPT ![c] = "timeout"]
  /\ UNCHANGED <<task, gone, loop, left, holder, named, dog, answer, up>>

\* It ends: with rows, or with "Interrupted." when it was interrupted or ran into the engine's timeout.
QueryEnd(c) ==
  /\ up /\ worker[c] = "query"
  /\ engine' = None
  /\ posted' \in {posted} \cup (IF engine.stubborn THEN {} ELSE {[posted EXCEPT ![c] = "timeout"]})
  /\ Work(c, "joining")
  /\ UNCHANGED <<task, gone, loop, left, holder, named, dog, audit, answer, up>>

\* Watchdog.__exit__ joins its thread; then the body goes on, or ToolTimeout leaves it.
Join(c) ==
  /\ up /\ worker[c] = "joining" /\ dog[c] = "off"
  /\ IF posted[c] = None
       THEN Work(c, "body") /\ UNCHANGED audit
       ELSE Work(c, "clearing") /\ audit' = [audit EXCEPT ![c] = posted[c]]
  /\ UNCHANGED <<task, gone, loop, left, holder, named, engine, dog, posted, answer, up>>

\* The body returns or raises; tools.call writes the audit line on every way out.
Finish(c) ==
  /\ up /\ worker[c] = "body"
  /\ \E outcome \in BodyEnds \ {"timeout"} :
       /\ audit' = [audit EXCEPT ![c] = outcome]
       /\ posted' = [posted EXCEPT ![c] = outcome]
  /\ Work(c, "clearing")
  /\ UNCHANGED <<task, gone, loop, left, holder, named, engine, dog, answer, up>>

\* Mutant: the lock is released with gate.current still set.
ClearNothing(c) ==
  /\ up /\ worker[c] = "clearing"
  /\ Work(c, "releasing")
  /\ UNCHANGED <<task, gone, loop, left, holder, named, engine, dog, audit, posted, answer, up>>

\* finally: gate.current = None, then gate.lock.release().
Clear(c) ==
  /\ up /\ worker[c] = "clearing"
  /\ named' = None
  /\ Work(c, "releasing")
  /\ UNCHANGED <<task, gone, loop, left, holder, engine, dog, audit, posted, answer, up>>

Release(c) ==
  /\ up /\ worker[c] = "releasing"
  /\ holder' = None
  /\ Work(c, "done")
  /\ UNCHANGED <<task, gone, loop, left, named, engine, dog, audit, posted, answer, up>>

(***************************************************************************)
(* The watchdog thread of a query (cypher_guard.Watchdog)                  *)
(***************************************************************************)
Dog(c, state) == dog' = [dog EXCEPT ![c] = state]

\* Over its time or its memory: it has made up its mind, the interrupt comes next.  The query may end
\* meanwhile; its body waits in Watchdog.__exit__ for this thread.
Watching(c) == worker[c] \in {"query", "joining"}

DogFires(c) ==
  /\ up /\ dog[c] = "on" /\ Watching(c)
  /\ Dog(c, "fired")
  /\ UNCHANGED <<task, gone, loop, worker, left, holder, named, engine, audit, posted, answer, up>>

DogBites(c) ==
  /\ up /\ dog[c] = "fired"
  /\ engine' = IF engine = None THEN None ELSE [engine EXCEPT !.bitten = @ \cup {c}]
  /\ Dog(c, "bit")
  /\ UNCHANGED <<task, gone, loop, worker, left, holder, named, audit, posted, answer, up>>

\* Mutant: a query that does not stop is left alone.
DogGivesUp(c) ==
  /\ up /\ dog[c] = "bit" /\ Watching(c)
  /\ Dog(c, "off")
  /\ UNCHANGED <<task, gone, loop, worker, left, holder, named, engine, audit, posted, answer, up>>

\* Still running a second after the interrupt: os._exit ends the whole server.
DogKills(c) ==
  /\ up /\ dog[c] = "bit" /\ Watching(c)
  /\ up' = FALSE
  /\ UNCHANGED <<task, gone, loop, worker, left, holder, named, engine, dog, audit, posted, answer>>

\* The query is done (the event is set): the thread ends.
DogLeaves(c) ==
  /\ up /\ dog[c] \in {"on", "bit"} /\ worker[c] # "query"
  /\ Dog(c, "off")
  /\ UNCHANGED <<task, gone, loop, worker, left, holder, named, engine, audit, posted, answer, up>>

-----------------------------------------------------------------------------
Worker(c) ==
  \/ Acquire(c) \/ GiveUp(c) \/ CheckCancelled(c) \/ Enter(c) \/ Query(c) \/ QueryEnd(c) \/ Join(c)
  \/ Finish(c) \/ Clear(c) \/ Release(c)
Task(c) == Request(c) \/ Cancel(c, "deadline") \/ Cancel(c, "client") \/ Answer(c) \/ Wake(c) \/ Interrupt(c)
Watchdog(c) == DogFires(c) \/ DogBites(c) \/ DogKills(c) \/ DogLeaves(c)

Next == \E c \in Calls : Task(c) \/ Worker(c) \/ Watchdog(c)

\* Threads are scheduled and the loop runs its callbacks; a query that heeds the engine ends within its
\* timeout.  Nobody promises that a stubborn query ends, that a client asks, or that it cancels.
Fairness ==
  \A c \in Calls :
    /\ WF_vars(Cancel(c, "deadline")) /\ WF_vars(Answer(c) \/ Wake(c)) /\ WF_vars(Interrupt(c))
    /\ WF_vars(Acquire(c) \/ GiveUp(c))
    /\ WF_vars(CheckCancelled(c) \/ Enter(c) \/ Query(c) \/ Join(c) \/ Finish(c) \/ Clear(c) \/ Release(c))
    /\ WF_vars(engine # None /\ ~engine.stubborn /\ QueryEnd(c))
    /\ WF_vars(Watchdog(c))

Spec == Init /\ [][Next]_vars /\ Fairness

(***************************************************************************)
(* Properties                                                              *)
(***************************************************************************)
Engine == [of : Calls, stubborn : BOOLEAN, hit : SUBSET Calls, bitten : SUBSET Calls]

\* Every variable has its type.
TypeOK ==
  /\ task \in [Calls -> {"idle", "waiting", "answered"}]
  /\ gone \in [Calls -> {"no", "deadline", "client"}]
  /\ loop \in Calls \cup {None}
  /\ worker \in [Calls -> Holding \cup {"none", "acquire", "done"}]
  /\ left \in [Calls -> Nat]
  /\ holder \in Calls \cup {None} /\ named \in Calls \cup {None}
  /\ engine \in Engine \cup {None}
  /\ dog \in [Calls -> {"off", "on", "fired", "bit"}]
  /\ audit \in [Calls -> Outcomes \cup {None}]
  /\ posted \in [Calls -> Outcomes \cup {None}]
  /\ answer \in [Calls -> Outcomes \cup {"deadline", "client", None}]
  /\ up \in BOOLEAN

\* One tool body at a time: a worker is between acquire and release exactly when it holds the gate, the
\* gate names only its holder, and a query runs on the connection only inside the holder's body (_Gate).
OneBodyAtATime ==
  /\ \A c \in Calls : worker[c] \in Holding <=> holder = c
  /\ named # None => named = holder
  /\ engine # None => engine.of = holder /\ worker[holder] = "query"

\* A task that gives up never interrupts the query of another call while its own call is still to come
\* or still at the gate: at worst it hits the one that took the gate after it (make_tool.run).
InterruptsOwnOrLeft ==
  engine # None => \A c \in engine.hit : c = engine.of \/ worker[c] = "done"

\* A watchdog interrupts only the query it watches: it is joined before the next one starts.
DogBitesOwn == engine # None => engine.bitten \subseteq {engine.of}

\* What the client is told of a finished call is what the audit log says of it (tools.call, _call_locked).
AnswerIsAudited == \A c \in Calls : answer[c] \in Outcomes => audit[c] = answer[c]

\* Whatever is abandoned, interrupted or stubborn, the gate is given back, or the server ends.
GateIsFreed == \A c \in Calls : holder = c ~> (holder # c \/ ~up)

\* A timeout only interrupts its own query (_Gate).
OwnQueryOnly == engine # None => engine.hit \subseteq {engine.of}

\* A body never starts once the caller is gone (_call_locked).
NoBodyForNobody ==
  [][\A c \in Calls : named # c /\ named' = c => task[c] = "waiting" /\ gone[c] = "no"]_vars
=============================================================================
