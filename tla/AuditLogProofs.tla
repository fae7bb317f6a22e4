--------------------------- MODULE AuditLogProofs ---------------------------
(* AuditLog implements AuditTrail, for every set of entries and every       *)
(* capacity of the channel.                                                 *)
EXTENDS AuditLog, TLAPS

\* The log is closed after the last handler, the worker returns when it is closed and
\* has nothing left to do, and nothing is left in the memory of a process that ended.
HandlersFirst == closed /\ phase \in Alive => \A e \in Entries : status[e] # "handling"
ClosedLate == phase \in {"up", "draining"} => ~closed
WorkerLast == ~working /\ phase \in Alive => closed /\ Pending = <<>>
NothingAfter == phase \in Ended => Pending = <<>>

Inv == TypeOK /\ HandlersFirst /\ ClosedLate /\ WorkerLast /\ NothingAfter

-----------------------------------------------------------------------------
(* Facts about the entries in memory.                                      *)

\* An entry added to the queue comes after those in memory.
LEMMA PendingAppend ==
  ASSUME NEW S, NEW c \in Seq(S), NEW q \in Seq(S), NEW e \in S
  PROVE  c \o Append(q, e) = Append(c \o q, e)
OBVIOUS

\* An entry moved from the queue to the worker stays where it was.
LEMMA PendingTake ==
  ASSUME NEW S, NEW q \in Seq(S), q # <<>>
  PROVE  <<Head(q)>> \o Tail(q) = <<>> \o q
OBVIOUS

\* The entry the worker has is the oldest.
LEMMA PendingInsert ==
  ASSUME NEW S, NEW q \in Seq(S), NEW e \in S
  PROVE  <<e>> \o q # <<>> /\ Head(<<e>> \o q) = e /\ Tail(<<e>> \o q) = <<>> \o q
OBVIOUS

\* Nothing in memory means neither in the queue nor with the worker.
LEMMA PendingEmpty ==
  ASSUME NEW S, NEW q \in Seq(S), NEW c \in Seq(S)
  PROVE  (c \o q = <<>>) <=> (c = <<>> /\ q = <<>>)
OBVIOUS

\* There is no less in memory than in the queue.
LEMMA PendingLength ==
  ASSUME NEW S, NEW q \in Seq(S), NEW c \in Seq(S)
  PROVE  Len(c \o q) >= Len(q)
OBVIOUS

\* What the worker has is a sequence of entries, and so is what is in memory.
LEMMA PendingType ==
  ASSUME TypeOK
  PROVE  current \in Seq(Entries) /\ queue \in Seq(Entries) /\ Pending \in Seq(Entries)
<1>1. current \in Seq(Entries)
  <2>1. CASE current = <<>>  BY <2>1
  <2>2. ASSUME NEW e \in Entries, current = <<e>> PROVE current \in Seq(Entries)  BY <2>2
  <2> QED  BY <2>1, <2>2 DEF TypeOK
<1> QED  BY <1>1 DEF TypeOK, Pending

-----------------------------------------------------------------------------
(* The invariant.                                                          *)

LEMMA InvInit == Init => Inv
<1> SUFFICES ASSUME Init PROVE Inv  OBVIOUS
<1> USE DEF Init
<1>1. TypeOK
  <2>1. queue \in Seq(Entries) /\ Len(queue) <= QueueSize  BY AuditLogAssumption
  <2>2. trail \in Seq(Entries)  OBVIOUS
  <2>3. phase \in Alive /\ current = <<>>  BY DEF Alive
  <2> QED  BY <2>1, <2>2, <2>3 DEF TypeOK
<1>2. HandlersFirst /\ ClosedLate /\ WorkerLast /\ NothingAfter
  BY DEF HandlersFirst, ClosedLate, WorkerLast, NothingAfter, Ended
<1> QED  BY <1>1, <1>2 DEF Inv

\* Logging an entry while the log is open keeps the invariant.
LEMMA LogAsyncInv ==
  ASSUME Inv, NEW e \in Entries, LogAsync(e), phase \in Alive, ~closed
  PROVE  Inv'
<1> USE DEF Inv
<1>1. TypeOK'  BY AuditLogAssumption DEF TypeOK, LogAsync, Move
<1>2. HandlersFirst' /\ ClosedLate' /\ WorkerLast' /\ NothingAfter'
  BY DEF HandlersFirst, ClosedLate, WorkerLast, NothingAfter, LogAsync, Move, Alive, Ended, TypeOK
<1> QED  BY <1>1, <1>2

\* So does the end of the process, however it comes.
LEMMA EndInv ==
  ASSUME Inv, NEW how \in Ended, End(how)
  PROVE  Inv'
<1> USE DEF Inv
<1>1. TypeOK'  BY AuditLogAssumption DEF TypeOK, End
<1>2. HandlersFirst' /\ ClosedLate' /\ WorkerLast'
  BY DEF HandlersFirst, ClosedLate, WorkerLast, End, Alive, Ended
<1>3. NothingAfter'  BY DEF NothingAfter, End, Pending
<1> QED  BY <1>1, <1>2, <1>3

LEMMA InvStep == Inv /\ [Next]_vars => Inv'
<1> SUFFICES ASSUME Inv, [Next]_vars PROVE Inv'  OBVIOUS
<1> USE DEF Inv, Alive, Ended
<1>1. ASSUME NEW e \in Entries, Receive(e)  PROVE Inv'
  BY <1>1 DEF Receive, Move, TypeOK, HandlersFirst, ClosedLate, WorkerLast, NothingAfter, Pending
<1>2. ASSUME NEW e \in Entries, Log(e)  PROVE Inv'
  BY <1>2, LogAsyncInv DEF Log, HandlersFirst
<1>3. ASSUME NEW e \in Entries, Detach(e)  PROVE Inv'
  BY <1>3 DEF Detach, Move, TypeOK, HandlersFirst, ClosedLate, WorkerLast, NothingAfter, Pending
<1>4. ASSUME NEW e \in Entries, LogDetached(e)  PROVE Inv'
  BY <1>4, LogAsyncInv DEF LogDetached
<1>5. ASSUME NEW e \in Entries, Panic(e)  PROVE Inv'
  BY <1>5, EndInv DEF Panic
<1>6. CASE Take
  <2>1. Len(Tail(queue)) <= QueueSize /\ Tail(queue) \in Seq(Entries) /\ Head(queue) \in Entries
    BY <1>6, AuditLogAssumption DEF Take, TypeOK
  <2>2. TypeOK'  BY <1>6, <2>1 DEF Take, TypeOK
  <2> QED
    BY <1>6, <2>2 DEF Take, HandlersFirst, ClosedLate, WorkerLast, NothingAfter
<1>7. CASE Insert
  <2>1. trail \in Seq(Entries)  BY DEF TypeOK
  <2>2. current \in Seq(Entries)  BY PendingType
  <2>3. trail' \in Seq(Entries)
    <3>1. CASE trail' = trail  BY <2>1, <3>1
    <3>2. CASE trail' = trail \o current  BY <2>1, <2>2, <3>2
    <3> QED  BY <1>7, <3>1, <3>2 DEF Insert
  <2>4. current' = <<>>  BY <1>7 DEF Insert
  <2>5. TypeOK'  BY <1>7, <2>3, <2>4 DEF Insert, TypeOK
  <2>6. working  BY <1>7, PendingType, PendingEmpty DEF Insert, WorkerLast, Pending
  <2> QED
    BY <1>7, <2>5, <2>6 DEF Insert, HandlersFirst, ClosedLate, WorkerLast, NothingAfter
<1>8. CASE Finish
  <2>1. Pending = <<>>  BY <1>8 DEF Finish, Pending
  <2> QED
    BY <1>8, <2>1
    DEF Finish, TypeOK, HandlersFirst, ClosedLate, WorkerLast, NothingAfter, Pending
<1>9. CASE Signal
  BY <1>9 DEF Signal, TypeOK, HandlersFirst, ClosedLate, WorkerLast, NothingAfter, Pending
<1>10. CASE Close
  BY <1>10 DEF Close, TypeOK, HandlersFirst, ClosedLate, WorkerLast, NothingAfter, Pending
<1>11. CASE Exit  BY <1>11, EndInv DEF Exit
<1>12. CASE Timeout  BY <1>12, EndInv DEF Timeout
<1>13. CASE Crash  BY <1>13, EndInv DEF Crash
<1>14. CASE Restart
  <2>1. queue' \in Seq(Entries) /\ Len(queue') <= QueueSize
    BY <1>14, AuditLogAssumption DEF Restart, Started
  <2>2. phase' = "up" /\ current' = <<>> /\ closed' = FALSE /\ working' = TRUE
    BY <1>14 DEF Restart, Started
  <2>3. TypeOK'  BY <1>14, <2>1, <2>2 DEF Restart, TypeOK
  <2> QED
    BY <1>14, <2>3
    DEF Restart, Started, HandlersFirst, ClosedLate, WorkerLast, NothingAfter
<1>15. CASE UNCHANGED vars
  BY <1>15 DEF vars, TypeOK, HandlersFirst, ClosedLate, WorkerLast, NothingAfter, Pending
<1> QED
  BY <1>1, <1>2, <1>3, <1>4, <1>5, <1>6, <1>7, <1>8, <1>9, <1>10, <1>11, <1>12, <1>13, <1>14,
     <1>15
  DEF Next

\* The state is well typed: the channel never holds more than its capacity.
THEOREM TypeCorrect == Spec => []TypeOK
<1>1. Inv => TypeOK  BY DEF Inv
<1> QED  BY InvInit, InvStep, <1>1, PTL DEF Spec

-----------------------------------------------------------------------------
(* Shutdown.                                                               *)

\* The step by which a process exits in good order finds nothing left to do.
LEMMA ExitClean ==
  ASSUME Inv, Next, phase' = "exited", phase # "exited"
  PROVE  Exit /\ Pending = <<>> /\ \A e \in Entries : status[e] # "handling"
<1>1. Exit
  BY DEF Next, Receive, Log, LogAsync, Detach, LogDetached, Panic, Take, Insert, Finish, Signal,
         Close, Timeout, Crash, Restart, Started, End
<1>2. Pending = <<>> /\ closed /\ phase \in Alive
  BY <1>1 DEF Exit, Inv, WorkerLast, Alive
<1> QED  BY <1>1, <1>2 DEF Inv, HandlersFirst

\* When a shutdown succeeds, every request was answered and every entry taken was settled.
THEOREM ShutdownClean == Spec => CleanExit
<1>1. Inv /\ [Next]_vars =>
        [phase' = "exited" /\ phase # "exited" =>
           Pending = <<>> /\ \A e \in Entries : status[e] # "handling"]_vars
  BY ExitClean
<1> QED  BY InvInit, InvStep, <1>1, PTL DEF Spec, CleanExit

-----------------------------------------------------------------------------
(* Refinement.                                                             *)

LEMMA TrailInit == Init => Trail!Init
BY DEF Init, Trail!Init, Pending, Alive

\* Logging an entry offers it.
LEMMA LogAsyncOffers ==
  ASSUME Inv, NEW e \in Entries, LogAsync(e), phase \in Alive, status[e] # "passed"
  PROVE  Trail!Next
<1>1. \/ Pending' = Append(Pending, e)
      \/ Len(Pending) >= QueueSize /\ Pending' = Pending
  <2>1. CASE Len(queue) < QueueSize
    BY <2>1, PendingType, PendingAppend DEF Inv, LogAsync, Pending
  <2>2. CASE ~(Len(queue) < QueueSize)
    <3>1. Len(Pending) >= Len(queue) /\ Len(Pending) \in Nat /\ Len(queue) \in Nat
      BY PendingType, PendingLength DEF Inv, Pending
    <3>2. Len(Pending) >= QueueSize  BY <2>2, <3>1, AuditLogAssumption
    <3>3. Pending' = Pending  BY <2>2 DEF LogAsync, Pending
    <3> QED  BY <3>2, <3>3
  <2> QED  BY <2>1, <2>2
<1>2. {d \in Entries : status'[d] = "passed"} = {d \in Entries : status[d] = "passed"} \cup {e}
  BY DEF Inv, TypeOK, LogAsync, Move
<1>3. Trail!Offer(e)
  BY <1>1, <1>2 DEF LogAsync, Trail!Offer
<1> QED  BY <1>3 DEF Trail!Next

\* A process that ends gives up what is in its memory.
LEMMA EndDies ==
  ASSUME Inv, NEW how \in Ended, End(how), phase \in Alive, how = "exited" => Pending = <<>>
  PROVE  Trail!Next
<1>1. Pending' = <<>>  BY DEF End, Pending
<1>2. Trail!LastOffers
  BY DEF Inv, TypeOK, End, Trail!LastOffers
<1>3. CASE how = "exited"
  <2>1. Trail!Stop  BY <1>1, <1>2, <1>3 DEF End, Trail!Stop, Alive
  <2> QED  BY <2>1 DEF Trail!Next
<1>4. CASE how # "exited"
  <2>1. Trail!Die  BY <1>1, <1>2, <1>4 DEF End, Trail!Die, Alive, Ended
  <2> QED  BY <2>1 DEF Trail!Next
<1> QED  BY <1>3, <1>4

LEMMA TrailStep == Inv /\ [Next]_vars => [Trail!Next]_(Trail!vars)
<1> SUFFICES ASSUME Inv, [Next]_vars PROVE Trail!Next \/ UNCHANGED Trail!vars  OBVIOUS
<1>1. ASSUME NEW e \in Entries, Receive(e)  PROVE UNCHANGED Trail!vars
  <2>1. \A d \in Entries : status'[d] = "passed" <=> status[d] = "passed"
    BY <1>1 DEF Receive, Move, Inv, TypeOK
  <2> QED  BY <1>1, <2>1 DEF Receive, Trail!vars, Pending
<1>2. ASSUME NEW e \in Entries, Log(e)  PROVE Trail!Next
  BY <1>2, LogAsyncOffers DEF Log
<1>3. ASSUME NEW e \in Entries, Detach(e)  PROVE UNCHANGED Trail!vars
  <2>1. \A d \in Entries : status'[d] = "passed" <=> status[d] = "passed"
    BY <1>3 DEF Detach, Move, Inv, TypeOK
  <2> QED  BY <1>3, <2>1 DEF Detach, Trail!vars, Pending
<1>4. ASSUME NEW e \in Entries, LogDetached(e)  PROVE Trail!Next
  BY <1>4, LogAsyncOffers DEF LogDetached
<1>5. ASSUME NEW e \in Entries, Panic(e)  PROVE Trail!Next
  BY <1>5, EndDies DEF Panic, Ended
<1>6. CASE Take
  <2>1. Pending' = Pending  BY <1>6, PendingTake DEF Take, Pending, Inv, TypeOK
  <2> QED  BY <1>6, <2>1 DEF Take, Trail!vars
<1>7. CASE Insert
  <2>1. PICK e \in Entries : current = <<e>>  BY <1>7 DEF Insert, Inv, TypeOK
  <2>2. Pending # <<>> /\ Pending' = Tail(Pending) /\ Head(Pending) = e
    BY <1>7, <2>1, PendingInsert DEF Insert, Pending, Inv, TypeOK
  <2>3. trail' \in {trail, Append(trail, e)}  BY <1>7, <2>1 DEF Insert, Inv, TypeOK
  <2>4. Trail!Settle  BY <1>7, <2>2, <2>3 DEF Insert, Trail!Settle
  <2> QED  BY <2>4 DEF Trail!Next
<1>8. CASE Finish
  BY <1>8 DEF Finish, Trail!vars, Pending
<1>9. CASE Signal
  BY <1>9 DEF Signal, Trail!vars, Pending, Alive
<1>10. CASE Close
  BY <1>10 DEF Close, Trail!vars, Pending, Alive
<1>11. CASE Exit
  <2>1. phase \in Alive /\ Pending = <<>>  BY <1>11 DEF Exit, Inv, WorkerLast, Alive
  <2> QED  BY <1>11, <2>1, EndDies DEF Exit, Ended
<1>12. CASE Timeout
  BY <1>12, EndDies DEF Timeout, Ended, Alive
<1>13. CASE Crash
  BY <1>13, EndDies DEF Crash, Ended
<1>14. CASE Restart
  <2>1. Pending = <<>> /\ Pending' = <<>>
    BY <1>14 DEF Restart, Started, Pending, Inv, NothingAfter
  <2>2. Trail!Start  BY <1>14, <2>1 DEF Restart, Started, Trail!Start, Alive, Ended
  <2> QED  BY <2>2 DEF Trail!Next
<1>15. CASE UNCHANGED vars
  BY <1>15 DEF vars, Trail!vars, Pending
<1> QED
  BY <1>1, <1>2, <1>3, <1>4, <1>5, <1>6, <1>7, <1>8, <1>9, <1>10, <1>11, <1>12, <1>13, <1>14,
     <1>15
  DEF Next

\* The log implements AuditTrail: no entry is stored twice, out of order or after it was
\* dropped, none is dropped but for want of room, and a clean exit loses none that was taken.
THEOREM LogImplementsTrail == Spec => ImplementsTrail
BY InvInit, InvStep, TrailInit, TrailStep, PTL DEF Spec, ImplementsTrail, Trail!Spec

-----------------------------------------------------------------------------
(* What AuditTrail promises of the rows, and so the log keeps.             *)

\* No entry has two rows.
StoredOnce == \A i, j \in DOMAIN trail : trail[i] = trail[j] => i = j

\* The entries stored and those in memory have all been offered, each once.
OnceInv ==
  /\ trail \in Seq(Entries) /\ Pending \in Seq(Entries)
  /\ StoredOnce
  /\ \A i, j \in DOMAIN Pending : Pending[i] = Pending[j] => i = j
  /\ \A i \in DOMAIN trail, j \in DOMAIN Pending : trail[i] # Pending[j]
  /\ \A i \in DOMAIN trail : status[trail[i]] = "passed"
  /\ \A i \in DOMAIN Pending : status[Pending[i]] = "passed"

\* A sequence with another element at its end, and one without its first.
LEMMA AppendFact ==
  ASSUME NEW S, NEW s \in Seq(S), NEW e \in S
  PROVE  /\ Append(s, e) \in Seq(S)
         /\ \A i \in DOMAIN Append(s, e) :
              \/ i \in DOMAIN s /\ Append(s, e)[i] = s[i]
              \/ i = Len(s) + 1 /\ i \notin DOMAIN s /\ Append(s, e)[i] = e
OBVIOUS

LEMMA TailFact ==
  ASSUME NEW S, NEW s \in Seq(S), s # <<>>
  PROVE  /\ Tail(s) \in Seq(S)
         /\ Head(s) = s[1] /\ 1 \in DOMAIN s
         /\ \A i \in DOMAIN Tail(s) : i \in Nat /\ i + 1 # 1 /\ i + 1 \in DOMAIN s /\ Tail(s)[i] = s[i + 1]
OBVIOUS

LEMMA OnceStep ==
  ASSUME OnceInv, [Trail!Next]_(Trail!vars)
  PROVE  OnceInv'
<1>0. /\ \A i \in DOMAIN trail : trail[i] \in Entries /\ status[trail[i]] = "passed"
      /\ \A i \in DOMAIN Pending : Pending[i] \in Entries /\ status[Pending[i]] = "passed"
  BY DEF OnceInv
<1>1. ASSUME NEW e \in Entries, Trail!Offer(e)  PROVE OnceInv'
  <2>1. /\ trail' = trail
        /\ status[e] # "passed"
        /\ \A d \in Entries : status'[d] = "passed" <=> status[d] = "passed" \/ d = e
    BY <1>1 DEF Trail!Offer
  <2>2. CASE Pending' = Pending
    BY <1>0, <2>1, <2>2 DEF OnceInv, StoredOnce
  <2>3. CASE Pending' = Append(Pending, e)
    <3>1. /\ Pending' \in Seq(Entries)
          /\ \A i \in DOMAIN Pending' :
               \/ i \in DOMAIN Pending /\ Pending'[i] = Pending[i]
               \/ i = Len(Pending) + 1 /\ Pending'[i] = e
      BY <2>3, AppendFact DEF OnceInv
    <3>2. /\ \A i \in DOMAIN Pending : Pending[i] # e
          /\ \A i \in DOMAIN trail : trail[i] # e
      BY <1>0, <2>1
    <3>3. \A i, j \in DOMAIN Pending' : Pending'[i] = Pending'[j] => i = j
      BY <3>1, <3>2 DEF OnceInv
    <3>4. \A i \in DOMAIN trail', j \in DOMAIN Pending' : trail'[i] # Pending'[j]
      BY <2>1, <3>1, <3>2 DEF OnceInv
    <3>5. \A i \in DOMAIN Pending' : status'[Pending'[i]] = "passed"
      BY <1>0, <2>1, <3>1
    <3>6. \A i \in DOMAIN trail' : status'[trail'[i]] = "passed"
      BY <1>0, <2>1
    <3> QED  BY <2>1, <3>1, <3>3, <3>4, <3>5, <3>6 DEF OnceInv, StoredOnce
  <2> QED  BY <1>1, <2>2, <2>3 DEF Trail!Offer
<1>2. CASE Trail!Settle
  <2>1. /\ \A d \in Entries : status'[d] = "passed" <=> status[d] = "passed"
        /\ Pending # <<>> /\ Pending' = Tail(Pending)
        /\ trail' \in {trail, Append(trail, Head(Pending))}
    BY <1>2 DEF Trail!Settle
  <2>2. /\ Pending' \in Seq(Entries)
        /\ \A i \in DOMAIN Pending' :
             i \in Nat /\ i + 1 # 1 /\ i + 1 \in DOMAIN Pending /\ Pending'[i] = Pending[i + 1]
        /\ Head(Pending) = Pending[1] /\ 1 \in DOMAIN Pending
    BY <2>1, TailFact DEF OnceInv
  <2>3. /\ trail' \in Seq(Entries)
        /\ \A i \in DOMAIN trail' :
             \/ i \in DOMAIN trail /\ trail'[i] = trail[i]
             \/ i = Len(trail) + 1 /\ i \notin DOMAIN trail /\ trail'[i] = Pending[1]
    <3>1. CASE trail' = trail
      BY <3>1 DEF OnceInv
    <3>2. CASE trail' = Append(trail, Pending[1])
      <4>1. trail \in Seq(Entries) /\ Pending[1] \in Entries
        BY <1>0, <2>2 DEF OnceInv
      <4> QED  BY <3>2, <4>1, AppendFact
    <3> QED  BY <2>1, <2>2, <3>1, <3>2
  <2>4. \A i, j \in DOMAIN Pending' : Pending'[i] = Pending'[j] => i = j
    <3> SUFFICES ASSUME NEW i \in DOMAIN Pending', NEW j \in DOMAIN Pending', Pending'[i] = Pending'[j]
                 PROVE  i = j
      OBVIOUS
    <3>1. i + 1 = j + 1 /\ i \in Nat /\ j \in Nat
      BY <2>2 DEF OnceInv
    <3> QED  BY <3>1
  <2>5. \A i, j \in DOMAIN trail' : trail'[i] = trail'[j] => i = j
    BY <2>2, <2>3 DEF OnceInv, StoredOnce
  <2>6. \A i \in DOMAIN trail', j \in DOMAIN Pending' : trail'[i] # Pending'[j]
    BY <2>2, <2>3 DEF OnceInv
  <2>7. \A i \in DOMAIN Pending' : status'[Pending'[i]] = "passed"
    BY <1>0, <2>1, <2>2
  <2>8. \A i \in DOMAIN trail' : status'[trail'[i]] = "passed"
    BY <1>0, <2>1, <2>2, <2>3
  <2> QED  BY <2>2, <2>3, <2>4, <2>5, <2>6, <2>7, <2>8 DEF OnceInv, StoredOnce
<1>3. CASE Trail!Stop \/ Trail!Die \/ Trail!Start \/ UNCHANGED Trail!vars
  <2>1. /\ \A d \in Entries : status[d] = "passed" => status'[d] = "passed"
        /\ trail' = trail /\ (Pending' = Pending \/ Pending' = <<>>)
    BY <1>3 DEF Trail!Stop, Trail!Die, Trail!LastOffers, Trail!Start, Trail!vars
  <2>2. /\ Pending' \in Seq(Entries)
        /\ \A i \in DOMAIN Pending' : i \in DOMAIN Pending /\ Pending'[i] = Pending[i]
    <3>1. CASE Pending' = Pending
      BY <3>1 DEF OnceInv
    <3>2. CASE Pending' = <<>>
      <4>1. <<>> \in Seq(Entries) /\ DOMAIN <<>> = {}
        OBVIOUS
      <4> QED  BY <3>2, <4>1
    <3> QED  BY <2>1, <3>1, <3>2
  <2>3. /\ \A i, j \in DOMAIN Pending' : Pending'[i] = Pending'[j] => i = j
        /\ \A i \in DOMAIN trail, j \in DOMAIN Pending' : trail[i] # Pending'[j]
    BY <2>2 DEF OnceInv
  <2>4. /\ \A i \in DOMAIN trail : status'[trail[i]] = "passed"
        /\ \A i \in DOMAIN Pending' : status'[Pending'[i]] = "passed"
    BY <1>0, <2>1, <2>2
  <2> QED  BY <2>1, <2>2, <2>3, <2>4 DEF OnceInv, StoredOnce
<1> QED  BY <1>1, <1>2, <1>3 DEF Trail!Next

\* No entry is stored twice, whatever fails and however often the server is restarted; what
\* AuditTrail promises is enough for it.
THEOREM EntriesStoredOnce == Spec => []StoredOnce
<1>1. Init => OnceInv
  BY DEF Init, OnceInv, StoredOnce, Pending
<1>2. Inv /\ OnceInv /\ [Next]_vars => OnceInv'
  BY TrailStep, OnceStep
<1>3. OnceInv => StoredOnce
  BY DEF OnceInv
<1> QED  BY <1>1, <1>2, <1>3, InvInit, InvStep, PTL DEF Spec

\* Once main has closed the log, nothing more is taken: what is in memory only runs down.
RunsDown ==
  phase = "closing" /\ phase' = "closing" => closed /\ (Pending' = Pending \/ Pending' = Tail(Pending))

\* A shutdown that waits for the worker waits for entries already taken and for nothing else:
\* what ShutdownEnds needs besides the scheduler.
THEOREM ClosingRunsDown == Spec => [][RunsDown]_vars
<1> DEFINE ClosingClosed == phase = "closing" => closed
<1>1. Init => ClosingClosed
  BY DEF Init
<1>2. ClosingClosed /\ [Next]_vars => ClosingClosed'
  BY DEF Next, vars, Receive, Log, LogAsync, Detach, LogDetached, Panic, Take, Insert, Finish,
         Signal, Close, Exit, Timeout, Crash, Restart, Started, End
<1>3. Inv /\ ClosingClosed /\ [Next]_vars => [RunsDown]_vars
  <2> SUFFICES ASSUME Inv, ClosingClosed, Next, phase = "closing", phase' = "closing"
               PROVE  Pending' = Pending \/ Pending' = Tail(Pending)
    BY DEF RunsDown
  <2>1. CASE Trail!Settle
    BY <2>1 DEF Trail!Settle
  <2>2. ASSUME NEW e \in Entries, Trail!Offer(e)  PROVE FALSE
    <3>1. phase \in Alive /\ status[e] # "passed" /\ status'[e] = "passed"
      BY <2>2 DEF Trail!Offer, Alive
    <3>2. closed /\ status[e] # "handling"
      BY <3>1 DEF Inv, HandlersFirst
    <3> QED
      BY <3>1, <3>2
      DEF Next, Receive, Log, LogAsync, Detach, LogDetached, Panic, Take, Insert, Finish,
          Signal, Close, Exit, Timeout, Crash, Restart, Started, End, Move, Inv, TypeOK
  <2>3. ~Trail!Stop /\ ~Trail!Die /\ ~Trail!Start
    BY DEF Trail!Stop, Trail!Die, Trail!Start, Alive
  <2>4. CASE UNCHANGED Trail!vars
    BY <2>4 DEF Trail!vars
  <2> QED  BY <2>1, <2>2, <2>3, <2>4, TrailStep DEF Trail!Next
<1> QED  BY <1>1, <1>2, <1>3, InvInit, InvStep, PTL DEF Spec
=============================================================================
