------------------------------ MODULE AuditLog ------------------------------
(***************************************************************************)
(* The audit log (internal/audit/repository.go): handlers hand entries to  *)
(* LogAsync, which puts them into a bounded channel or drops them, and one *)
(* worker inserts them; LogExport (internal/audit/handler.go) does it from *)
(* a goroutine nobody waits for.  main (cmd/server/main.go) shuts the      *)
(* server down and closes the log, or gives up after a timeout.            *)
(***************************************************************************)
EXTENDS Integers, Sequences

CONSTANTS
  Entries,   \* bound: the requests that log, each with its entry
  QueueSize  \* the capacity of logChan

ASSUME AuditLogAssumption == QueueSize \in Nat \ {0}

VARIABLES
  phase,    \* what main does, or how the process ended
  status,   \* of each entry, or of the code that is to log it
  queue,    \* logChan
  current,  \* the entry the worker is inserting
  closed,   \* close(logChan) has been called
  working,  \* the worker has not returned
  trail     \* the rows of audit_logs, in the order of insertion

vars == <<phase, status, queue, current, closed, working, trail>>

Alive == {"up", "draining", "closing"}
Ended == {"exited", "forced", "panicked", "crashed"}

TypeOK ==
  /\ phase \in Alive \cup Ended
  /\ status \in [Entries -> {"new", "handling", "detached", "passed"}]
  /\ queue \in Seq(Entries) /\ Len(queue) <= QueueSize
  /\ current \in {<<>>} \cup {<<e>> : e \in Entries}
  /\ closed \in BOOLEAN
  /\ working \in BOOLEAN
  /\ trail \in Seq(Entries)

\* NewRepository: an empty channel and its worker.
Started ==
  /\ phase' = "up"
  /\ queue' = <<>>
  /\ current' = <<>>
  /\ closed' = FALSE
  /\ working' = TRUE

Init ==
  /\ phase = "up"
  /\ status = [e \in Entries |-> "new"]
  /\ queue = <<>>
  /\ current = <<>>
  /\ closed = FALSE
  /\ working = TRUE
  /\ trail = <<>>

-----------------------------------------------------------------------------
(* Requests.                                                               *)

Move(e, s) == status' = [status EXCEPT ![e] = s]

\* The server accepts a request until Shutdown closes its listeners.
Receive(e) ==
  /\ phase = "up"
  /\ status[e] = "new"
  /\ Move(e, "handling")
  /\ UNCHANGED <<phase, queue, current, closed, working, trail>>

\* Variant: the queue grows without bound.
LogAlways(e) ==
  /\ queue' = Append(queue, e)
  /\ Move(e, "passed")
  /\ UNCHANGED <<phase, current, closed, working, trail>>

\* select: send if there is room, otherwise drop the entry.
LogAsync(e) ==
  /\ queue' = IF Len(queue) < QueueSize THEN Append(queue, e) ELSE queue
  /\ Move(e, "passed")
  /\ UNCHANGED <<phase, current, closed, working, trail>>

\* The handler of a request logs its entry and answers; the log is open, since main
\* closes it after the last handler (CleanExit, and HandlersFirst in AuditLogProofs).
Log(e) ==
  /\ phase \in Alive
  /\ status[e] = "handling"
  /\ LogAsync(e)

\* LogExport answers while a goroutine of its own is still to log.
Detach(e) ==
  /\ phase \in Alive
  /\ status[e] = "handling"
  /\ Move(e, "detached")
  /\ UNCHANGED <<phase, queue, current, closed, working, trail>>

LogDetached(e) ==
  /\ phase \in Alive
  /\ status[e] = "detached"
  /\ ~closed
  /\ LogAsync(e)

-----------------------------------------------------------------------------
(* The worker, for entry := range logChan.                                 *)

Take ==
  /\ phase \in Alive
  /\ working
  /\ current = <<>>
  /\ queue # <<>>
  /\ current' = <<Head(queue)>>
  /\ queue' = Tail(queue)
  /\ UNCHANGED <<phase, status, closed, working, trail>>

\* Variant: an INSERT whose answer is lost is made again.
InsertAgain ==
  /\ phase \in Alive
  /\ current # <<>>
  /\ trail' = trail \o current
  /\ current' \in {current, <<>>}
  /\ UNCHANGED <<phase, status, queue, closed, working>>

\* Variant: the worker returns when an INSERT fails.
InsertOrReturn ==
  /\ phase \in Alive
  /\ current # <<>>
  /\ \/ trail' = trail \o current /\ working' = working
     \/ trail' = trail /\ working' = FALSE
  /\ current' = <<>>
  /\ UNCHANGED <<phase, status, queue, closed>>

\* The INSERT; its error is only logged.
Insert ==
  /\ phase \in Alive
  /\ current # <<>>
  /\ \/ trail' = trail \o current
     \/ trail' = trail
  /\ current' = <<>>
  /\ UNCHANGED <<phase, status, queue, closed, working>>

\* The loop ends when the channel is closed and empty: wg.Done.
Finish ==
  /\ phase \in Alive
  /\ working
  /\ closed
  /\ current = <<>>
  /\ queue = <<>>
  /\ working' = FALSE
  /\ UNCHANGED <<phase, status, queue, current, closed, trail>>

-----------------------------------------------------------------------------
(* The end of the process, whose memory is lost with it.                   *)

End(how) ==
  /\ phase' = how
  /\ status' = [e \in Entries |-> IF status[e] \in {"handling", "detached"} THEN "passed"
                                                                         ELSE status[e]]
  /\ queue' = <<>>
  /\ current' = <<>>
  /\ UNCHANGED <<closed, working, trail>>

\* SIGINT or SIGTERM: srv.Shutdown begins.
Signal ==
  /\ phase = "up"
  /\ phase' = "draining"
  /\ UNCHANGED <<status, queue, current, closed, working, trail>>

\* Variant: the worker is waited for without the channel being closed.
CloseNothing ==
  /\ phase = "draining"
  /\ \A e \in Entries : status[e] # "handling"
  /\ phase' = "closing"
  /\ UNCHANGED <<status, queue, current, closed, working, trail>>

\* Shutdown returns when every handler has, and main closes the log.
Close ==
  /\ phase = "draining"
  /\ \A e \in Entries : status[e] # "handling"
  /\ phase' = "closing"
  /\ closed' = TRUE
  /\ UNCHANGED <<status, queue, current, working, trail>>

\* Variant: main does not wait for the worker.
ExitAtOnce ==
  /\ phase = "closing"
  /\ End("exited")

\* wg.Wait returns, and so does main.
Exit ==
  /\ phase = "closing"
  /\ ~working
  /\ End("exited")

\* Shutdown times out: log.Fatalf exits at once, without closing the log.
Timeout ==
  /\ phase = "draining"
  /\ End("forced")

\* Sending on the closed channel panics, and nothing recovers a goroutine's panic.
Panic(e) ==
  /\ phase \in Alive
  /\ status[e] = "detached"
  /\ closed
  /\ End("panicked")

\* The process is killed.
Crash ==
  /\ phase \in Alive
  /\ End("crashed")

Restart ==
  /\ phase \in Ended
  /\ Started
  /\ UNCHANGED <<status, trail>>

Next ==
  \/ \E e \in Entries :
       Receive(e) \/ Log(e) \/ Detach(e) \/ LogDetached(e) \/ Panic(e)
  \/ Take \/ Insert \/ Finish
  \/ Signal \/ Close \/ Exit \/ Timeout \/ Crash \/ Restart

\* The worker runs and its INSERTs return; main proceeds, and its timer expires.
\* Handlers may hang.
Fairness ==
  /\ WF_vars(Take) /\ WF_vars(Insert) /\ WF_vars(Finish)
  /\ WF_vars(Close \/ Timeout) /\ WF_vars(Exit)

Spec == Init /\ [][Next]_vars /\ Fairness

-----------------------------------------------------------------------------
(* Properties.                                                             *)

Pending == current \o queue

\* The log implements AuditTrail.
Trail == INSTANCE AuditTrail WITH
  state <- IF phase \in Alive THEN "running" ELSE IF phase = "exited" THEN "stopped" ELSE "dead",
  offered <- {e \in Entries : status[e] = "passed"},
  pending <- Pending,
  Room <- QueueSize

\* Entries are taken once, or dropped when the channel is full and only then; they are
\* settled in the order they were taken, and a clean exit leaves none behind (LogAsync,
\* processLogs, Close).
ImplementsTrail == Trail!Spec

\* A process whose shutdown succeeds has answered every request and settled every entry
\* taken: Close is called after the last handler, and waits for the worker.
CleanExit ==
  [][phase' = "exited" /\ phase # "exited" =>
       Pending = <<>> /\ \A e \in Entries : status[e] # "handling"]_vars

\* An entry taken does not stay in the queue for ever, whatever INSERT fails.
EntriesSettled ==
  \A e \in Entries :
    (\E i \in DOMAIN Pending : Pending[i] = e) ~> ~(\E i \in DOMAIN Pending : Pending[i] = e)

\* A shutdown ends, though handlers may hang.
ShutdownEnds == phase = "draining" ~> phase \notin {"draining", "closing"}
=============================================================================
