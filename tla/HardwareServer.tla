--------------------------- MODULE HardwareServer ---------------------------
(***************************************************************************)
(* The hardware server of src/adrvtrx/server.py: one process owns the      *)
(* board, every other process queues for it.  A connection thread serves   *)
(* each client, a monitor thread ends silent or idle leases, the main      *)
(* thread waits for the stop event and shuts down, and one hardware thread *)
(* runs every board call from a priority queue.                            *)
(*                                                                         *)
(* An action is what a thread does between two points where another thread *)
(* can get in: one critical section of the condition _cond, one put or get *)
(* of the queue, one board call.  Replies that change no state (refused    *)
(* and erroneous requests) are left out.  Time is abstracted: a timeout is *)
(* an action that may happen whenever its timer can be running.            *)
(***************************************************************************)
EXTENDS Naturals, Sequences, FiniteSets

CONSTANTS
  Conn,          \* connection threads, one per client process
  Monitor,       \* the heartbeat monitor thread
  Lease,         \* identities of lease objects
  NoLease,       \* Python's None where a lease is expected
  PrevProcess,   \* whoever drove the board before this server started
  Commands,      \* Thread -> the requests its client sends in this instance
  SafeCanFail,   \* can a DLL call inside safe_state fail (it is swallowed)?
  MaxUrgent,     \* bound on queued urgent jobs (new safe requests stop there)
  MaxNormal      \* bound on queued normal jobs (new status requests stop there)

(* What clients may ask for; "signal" reaches the main thread from outside. *)
Request == {"acquire", "safe", "kick", "resume", "stop", "status", "signal"}

ASSUME ConstantsAssumption ==
  /\ Monitor \notin Conn
  /\ NoLease \notin Lease /\ PrevProcess \notin Lease
  /\ NoLease # PrevProcess
  /\ Commands \in [Conn \cup {Monitor} -> SUBSET Request]
  /\ SafeCanFail \in BOOLEAN
  /\ MaxUrgent \in Nat /\ MaxNormal \in Nat

Thread == Conn \cup {Monitor}

VARIABLES
  state,      \* "starting" | "ready" | "stopping"
  stop,       \* the event _stop
  exitCode,   \* exit_code
  main,       \* where the main thread is: serve_forever, _shutdown, gone
  connected,  \* the backend has a board connection
  owner,      \* _owner
  ending,     \* _ending
  waiters,    \* _waiters, the FIFO of queued clients
  held,       \* _held is not None
  active,     \* the leases whose "ended" is still None
  sess,       \* Conn -> session.lease
  gone,       \* Conn -> the client's end of the connection is closed
  pc,         \* Thread -> where the thread is
  op,         \* Thread -> the request it serves
  target,     \* Thread -> the lease its request is about
  urgent,     \* hardware queue, priority URGENT
  normal,     \* hardware queue, priority NORMAL
  running,    \* the job the hardware thread has taken, or NoJob
  current,    \* hw.current is set: the job's function runs
  tx,         \* the board's TX: NoLease when off, else the lease that enabled it
  holding,    \* history: connections whose safe() began since the last resume
  safed       \* history: one of those was answered since the last resume

lifeVars  == <<state, stop, exitCode, main>>
leaseVars == <<owner, ending, active, sess>>
queueVars == <<waiters, held>>
connVars  == <<gone, pc, op, target>>
hwVars    == <<urgent, normal, running, current>>
boardVars == <<connected, tx>>
histVars  == <<holding, safed>>
vars == <<lifeVars, leaseVars, queueVars, connVars, hwVars, boardVars, histVars>>

-----------------------------------------------------------------------------
(* Jobs of the hardware thread. *)

JobKind == {"none", "startup", "shutdown", "safe_then_free", "safe_only",
            "call", "status"}
Job == [kind : JobKind, lease : Lease \cup {NoLease}, who : Thread]

NoJob           == [kind |-> "none", lease |-> NoLease, who |-> Monitor]
StartupJob      == [kind |-> "startup", lease |-> NoLease, who |-> Monitor]
ShutdownJob     == [kind |-> "shutdown", lease |-> NoLease, who |-> Monitor]
SafeThenFree(l) == [kind |-> "safe_then_free", lease |-> l, who |-> Monitor]
SafeOnly(c)     == [kind |-> "safe_only", lease |-> NoLease, who |-> c]
CallJob(c, l)   == [kind |-> "call", lease |-> l, who |-> c]
StatusJob(c)    == [kind |-> "status", lease |-> NoLease, who |-> c]

In(j, queue) == \E i \in 1..Len(queue) : queue[i] = j

(* job.done is not set yet *)
Pending(j) == running = j \/ In(j, urgent) \/ In(j, normal)

(* HardwareThread.idle(): read without a lock *)
Idle == ~current /\ urgent = <<>> /\ normal = <<>>

-----------------------------------------------------------------------------
(* Leases and the queue. *)

Active(l) == l \in active

BoardFreeIgnoresHold  == state = "ready" /\ owner = NoLease /\ ~ending

(* What a waiting client needs to get the board. *)
BoardFree ==
  state = "ready" /\ owner = NoLease /\ ~ending /\ ~held

(* A call of this lease is between submit and reply (lease.in_flight > 0). *)
InFlight(l) == \E c \in Conn : sess[c] = l /\ pc[c] = "call_wait"

(* Python frees a lease object nothing refers to; only then may its        *)
(* identity stand for a new one.  The old lease of c's own session goes    *)
(* when the session gets the new one.                                      *)
Unreferenced(c, l) ==
  /\ owner # l /\ tx # l
  /\ \A d \in Conn \ {c} : sess[d] # l
  /\ \A t \in Thread : target[t] # l
  /\ running.lease # l
  /\ \A i \in 1..Len(urgent) : urgent[i].lease # l
  /\ \A i \in 1..Len(normal) : normal[i].lease # l

Position(c) == CHOOSE i \in 1..Len(waiters) : waiters[i] = c

WithoutWaiterDropsLast(c) == [i \in 1..(Len(waiters) - 1) |-> waiters[i]]

(* self._waiters.remove(me) *)
WithoutWaiter(c) ==
  [i \in 1..(Len(waiters) - 1) |->
     IF i < Position(c) THEN waiters[i] ELSE waiters[i + 1]]

PC == {"closed", "recv", "queued", "call", "call_wait", "safe_owner",
       "safe_submit", "end", "end_submit", "wait", "status", "status_wait",
       "stop_set", "idle"}
Op == {"none", "acquire", "acquire_nowait", "call", "release", "safe", "kick",
       "lost", "status", "stop", "silent", "idle_limit"}

TypeOK ==
  /\ state \in {"starting", "ready", "stopping"}
  /\ stop \in BOOLEAN
  /\ exitCode \in {0, 1, 5}
  /\ main \in {"serve", "shutdown", "stopped"}
  /\ connected \in BOOLEAN
  /\ owner \in Lease \cup {NoLease}
  /\ ending \in BOOLEAN
  /\ waiters \in Seq(Conn)
  /\ held \in BOOLEAN
  /\ active \subseteq Lease
  /\ sess \in [Conn -> Lease \cup {NoLease}]
  /\ gone \in [Conn -> BOOLEAN]
  /\ pc \in [Thread -> PC]
  /\ op \in [Thread -> Op]
  /\ target \in [Thread -> Lease \cup {NoLease}]
  /\ urgent \in Seq(Job)
  /\ normal \in Seq(Job)
  /\ running \in Job
  /\ current \in BOOLEAN
  /\ tx \in Lease \cup {NoLease, PrevProcess}
  /\ holding \subseteq Conn
  /\ safed \in BOOLEAN

-----------------------------------------------------------------------------
(* start(): the listener is bound, the backend built, the start-up job     *)
(* queued.  The TX state a previous process left is unknown.               *)
Init ==
  /\ state = "starting" /\ stop = FALSE /\ exitCode = 0 /\ main = "serve"
  /\ connected = FALSE /\ tx \in {NoLease, PrevProcess}
  /\ owner = NoLease /\ ending = FALSE /\ waiters = <<>> /\ held = FALSE
  /\ active = {}
  /\ sess = [c \in Conn |-> NoLease]
  /\ gone = [c \in Conn |-> FALSE]
  /\ pc = [t \in Thread |-> IF t = Monitor THEN "idle" ELSE "closed"]
  /\ op = [t \in Thread |-> "none"]
  /\ target = [t \in Thread |-> NoLease]
  /\ urgent = <<StartupJob>> /\ normal = <<>>
  /\ running = NoJob /\ current = FALSE
  /\ holding = {} /\ safed = FALSE

-----------------------------------------------------------------------------
(* Connection threads.  Goto(t, l, o, g): the thread moves to l serving    *)
(* request o about lease g.                                                *)

Goto(t, l, o, g) ==
  /\ pc' = [pc EXCEPT ![t] = l]
  /\ op' = [op EXCEPT ![t] = o]
  /\ target' = [target EXCEPT ![t] = g]

Receives(c) == pc[c] = "recv" /\ ~gone[c]

(* The accept loop gives a new connection its thread and session. *)
Connect(c) ==
  /\ pc[c] = "closed" /\ ~stop
  /\ Goto(c, "recv", "none", NoLease)
  /\ gone' = [gone EXCEPT ![c] = FALSE]
  /\ sess' = [sess EXCEPT ![c] = NoLease]
  /\ holding' = holding \ {c}
  /\ UNCHANGED <<lifeVars, owner, ending, active, queueVars, hwVars, boardVars,
                 safed>>

(* The client process dies or closes its socket, at any moment. *)
ClientDies(c) ==
  /\ pc[c] # "closed" /\ ~gone[c]
  /\ gone' = [gone EXCEPT ![c] = TRUE]
  /\ UNCHANGED <<lifeVars, leaseVars, queueVars, pc, op, target, hwVars,
                 boardVars, histVars>>

(* Mutant of ConnectionLost: the thread leaves without ending the lease. *)
ConnectionLostKeepsLease(c) ==
  /\ pc[c] = "recv" /\ gone[c]
  /\ Goto(c, "closed", "none", NoLease)
  /\ UNCHANGED <<lifeVars, leaseVars, queueVars, gone, hwVars, boardVars, histVars>>

(* recv raises EOFError, or the reply cannot be sent: the thread ends the  *)
(* client's lease on its way out.                                          *)
ConnectionLost(c) ==
  /\ pc[c] = "recv" /\ gone[c]
  /\ IF Active(sess[c]) THEN Goto(c, "end", "lost", sess[c])
                        ELSE Goto(c, "closed", "none", NoLease)
  /\ UNCHANGED <<lifeVars, leaseVars, queueVars, gone, hwVars, boardVars, histVars>>

(* _op_acquire, first critical section: refuse or join the queue. *)
Acquire(c, wait) ==
  /\ "acquire" \in Commands[c]
  /\ Receives(c) /\ ~Active(sess[c])
  /\ state # "stopping"
  /\ wait \/ (BoardFree /\ waiters = <<>>)
  /\ waiters' = Append(waiters, c)
  /\ Goto(c, "queued", IF wait THEN "acquire" ELSE "acquire_nowait", NoLease)
  /\ UNCHANGED <<lifeVars, leaseVars, held, gone, hwVars, boardVars, histVars>>

(* _op_acquire, the waiting loop: the head of the queue gets a free board. *)
Grant(c, l) ==
  /\ pc[c] = "queued"
  /\ waiters # <<>> /\ Head(waiters) = c
  /\ BoardFree
  /\ Unreferenced(c, l)
  /\ waiters' = Tail(waiters)
  /\ owner' = l
  /\ active' = active \cup {l}
  /\ sess' = [sess EXCEPT ![c] = l]
  /\ Goto(c, "recv", "none", NoLease)
  /\ UNCHANGED <<lifeVars, ending, held, gone, hwVars, boardVars, histVars>>

(* _op_acquire gives up: the queue timeout passed, the server stops, or    *)
(* the client went away (then the thread ends, holding no lease).          *)
LeaveQueue(c) ==
  /\ pc[c] = "queued" /\ In(c, waiters)
  /\ waiters' = WithoutWaiter(c)
  /\ Goto(c, IF gone[c] THEN "closed" ELSE "recv", "none", NoLease)
  /\ UNCHANGED <<lifeVars, leaseVars, held, gone, hwVars, boardVars, histVars>>

(* _op_call: _active_lease passed. *)
CallBegin(c) ==
  /\ Receives(c) /\ Active(sess[c])
  /\ Goto(c, "call", "call", sess[c])
  /\ UNCHANGED <<lifeVars, leaseVars, queueVars, gone, hwVars, boardVars, histVars>>

(* _op_call: in_flight += 1 and submit.  Only the monitor reads in_flight, *)
(* and it skips the lease from here on: one step.                          *)
CallSubmit(c) ==
  /\ pc[c] = "call"
  /\ normal' = Append(normal, CallJob(c, target[c]))
  /\ Goto(c, "call_wait", "call", target[c])
  /\ UNCHANGED <<lifeVars, leaseVars, queueVars, gone, urgent, running, current,
                 boardVars, histVars>>

(* _op_call: job.wait() returns, in_flight -= 1, the reply goes out. *)
CallReturn(c) ==
  /\ pc[c] = "call_wait" /\ ~Pending(CallJob(c, target[c]))
  /\ Goto(c, "recv", "none", NoLease)
  /\ UNCHANGED <<lifeVars, leaseVars, queueVars, gone, hwVars, boardVars, histVars>>

(* _op_release up to _end_lease *)
Release(c) ==
  /\ Receives(c) /\ Active(sess[c])
  /\ Goto(c, "end", "release", sess[c])
  /\ UNCHANGED <<lifeVars, leaseVars, queueVars, gone, hwVars, boardVars, histVars>>

-----------------------------------------------------------------------------
(* Operator commands. *)

(* _op_safe, first critical section: hold the queue. *)
Safe(c) ==
  /\ "safe" \in Commands[c] /\ Len(urgent) < MaxUrgent
  /\ Receives(c)
  /\ held' = TRUE
  /\ holding' = holding \cup {c}
  /\ Goto(c, "safe_owner", "safe", NoLease)
  /\ UNCHANGED <<lifeVars, leaseVars, waiters, gone, hwVars, boardVars, safed>>

(* _op_safe: _current_owner() in a critical section of its own. *)
SafeOwner(c) ==
  /\ pc[c] = "safe_owner"
  /\ IF Active(owner) THEN Goto(c, "end", "safe", owner)
                      ELSE Goto(c, "safe_submit", "safe", NoLease)
  /\ UNCHANGED <<lifeVars, leaseVars, queueVars, gone, hwVars, boardVars, histVars>>

(* _op_safe: no lease was ended, so safe_state is queued by itself. *)
SafeSubmit(c) ==
  /\ pc[c] = "safe_submit"
  /\ urgent' = Append(urgent, SafeOnly(c))
  /\ Goto(c, "wait", "safe", NoLease)
  /\ UNCHANGED <<lifeVars, leaseVars, queueVars, gone, normal, running, current,
                 boardVars, histVars>>

(* _op_kick up to _end_lease *)
Kick(c) ==
  /\ "kick" \in Commands[c]
  /\ Receives(c) /\ Active(owner)
  /\ Goto(c, "end", "kick", owner)
  /\ UNCHANGED <<lifeVars, leaseVars, queueVars, gone, hwVars, boardVars, histVars>>

(* _op_resume *)
Resume(c) ==
  /\ "resume" \in Commands[c]
  /\ Receives(c) /\ held
  /\ held' = FALSE
  /\ holding' = {} /\ safed' = FALSE
  /\ UNCHANGED <<lifeVars, leaseVars, waiters, connVars, hwVars, boardVars>>

(* _op_stop: request_stop's critical section, then _stop.set(). *)
Stop(c) ==
  /\ "stop" \in Commands[c]
  /\ Receives(c) /\ ~stop
  /\ state' = "stopping"
  /\ Goto(c, "stop_set", "stop", NoLease)
  /\ UNCHANGED <<stop, exitCode, main, leaseVars, queueVars, gone, hwVars,
                 boardVars, histVars>>

StopSet(c) ==
  /\ pc[c] = "stop_set"
  /\ stop' = TRUE
  /\ Goto(c, "recv", "none", NoLease)
  /\ UNCHANGED <<state, exitCode, main, leaseVars, queueVars, gone, hwVars,
                 boardVars, histVars>>

(* status(live=True): idle() is read first, the live read queued after. *)
StatusBegin(c) ==
  /\ "status" \in Commands[c] /\ Len(normal) < MaxNormal
  /\ Receives(c) /\ state = "ready" /\ Idle
  /\ Goto(c, "status", "status", NoLease)
  /\ UNCHANGED <<lifeVars, leaseVars, queueVars, gone, hwVars, boardVars, histVars>>

StatusSubmit(c) ==
  /\ pc[c] = "status"
  /\ normal' = Append(normal, StatusJob(c))
  /\ Goto(c, "status_wait", "status", NoLease)
  /\ UNCHANGED <<lifeVars, leaseVars, queueVars, gone, urgent, running, current,
                 boardVars, histVars>>

(* job.wait(5.0) returned, with or without a result *)
StatusReturn(c) ==
  /\ pc[c] = "status_wait"
  /\ Goto(c, "recv", "none", NoLease)
  /\ UNCHANGED <<lifeVars, leaseVars, queueVars, gone, hwVars, boardVars, histVars>>

-----------------------------------------------------------------------------
(* _end_lease, shared by release, kick, safe, a lost client and the        *)
(* monitor.                                                                *)

(* Where a thread goes when _end_lease found the lease already ended. *)
NothingToEnd(t) ==
  CASE op[t] = "safe" -> Goto(t, "safe_submit", "safe", NoLease)
    [] op[t] = "lost" -> Goto(t, "closed", "none", NoLease)
    [] t = Monitor    -> Goto(t, "idle", "none", NoLease)
    [] OTHER          -> Goto(t, "recv", "none", NoLease)

(* The critical section of _end_lease. *)
MarkEnded(l) ==
  /\ active' = active \ {l}
  /\ ending' = (ending \/ owner = l)
  /\ owner' = owner

EndLease(t) ==
  /\ pc[t] = "end"
  /\ IF Active(target[t])
       THEN /\ MarkEnded(target[t])
            /\ IF owner = target[t]
                 THEN Goto(t, "end_submit", op[t], target[t])
                 ELSE NothingToEnd(t)
       ELSE /\ UNCHANGED <<active, ending, owner>>
            /\ NothingToEnd(t)
  /\ UNCHANGED <<lifeVars, sess, queueVars, gone, hwVars, boardVars, histVars>>

(* hw.submit("safe_state", safe_then_free, URGENT), outside the lock.  A   *)
(* lost client's thread and the monitor do not wait for it.                *)
EndSubmit(t) ==
  /\ pc[t] = "end_submit"
  /\ urgent' = Append(urgent, SafeThenFree(target[t]))
  /\ CASE op[t] = "lost" -> Goto(t, "closed", "none", NoLease)
       [] t = Monitor    -> Goto(t, "idle", "none", NoLease)
       [] OTHER          -> Goto(t, "wait", op[t], target[t])
  /\ UNCHANGED <<lifeVars, leaseVars, queueVars, gone, normal, running, current,
                 boardVars, histVars>>

WaitedJob(c) == IF target[c] = NoLease THEN SafeOnly(c) ELSE SafeThenFree(target[c])

(* job.wait(wait_s) returns True; safe answers done. *)
WaitDone(c) ==
  /\ pc[c] = "wait" /\ ~Pending(WaitedJob(c))
  /\ safed' = (safed \/ (op[c] = "safe" /\ c \in holding))
  /\ Goto(c, "recv", "none", NoLease)
  /\ UNCHANGED <<lifeVars, leaseVars, queueVars, gone, hwVars, boardVars, holding>>

(* job.wait(wait_s) returns False: the job stays queued. *)
WaitTimeout(c) ==
  /\ pc[c] = "wait" /\ Pending(WaitedJob(c))
  /\ Goto(c, "recv", "none", NoLease)
  /\ UNCHANGED <<lifeVars, leaseVars, queueVars, gone, hwVars, boardVars, histVars>>

-----------------------------------------------------------------------------
(* The monitor: reads the owner in a critical section, decides after it.   *)
(* A silent lease is ended only while the cache says that TX is live.      *)

MonitorScan(o) ==
  /\ pc[Monitor] = "idle" /\ ~stop
  /\ Active(owner) /\ ~InFlight(owner)
  /\ o = "silent" => tx # NoLease
  /\ Goto(Monitor, "end", o, owner)
  /\ UNCHANGED <<lifeVars, leaseVars, queueVars, gone, hwVars, boardVars, histVars>>

-----------------------------------------------------------------------------
(* The main thread. *)

(* serve_forever sees signal_stop (Ctrl+C, SIGTERM, the supervisor gone). *)
SignalStop ==
  /\ "signal" \in Commands[Monitor]
  /\ main = "serve" /\ ~stop
  /\ state' = "stopping" /\ stop' = TRUE
  /\ UNCHANGED <<exitCode, main, leaseVars, queueVars, connVars, hwVars,
                 boardVars, histVars>>

(* Mutant of ShutdownBegin: the owner's lease is not ended. *)
ShutdownBeginKeepsLease ==
  /\ main = "serve" /\ stop
  /\ main' = "shutdown" /\ state' = "stopping"
  /\ owner' = NoLease /\ ending' = FALSE
  /\ urgent' = Append(urgent, ShutdownJob)
  /\ UNCHANGED <<stop, exitCode, active, sess, queueVars, connVars, normal,
                 running, current, boardVars, histVars>>

(* _shutdown up to the wait: the lease ends and the shutdown job is queued *)
ShutdownBegin ==
  /\ main = "serve" /\ stop
  /\ main' = "shutdown" /\ state' = "stopping"
  /\ active' = active \ {owner}
  /\ owner' = NoLease /\ ending' = FALSE
  /\ urgent' = Append(urgent, ShutdownJob)
  /\ UNCHANGED <<stop, exitCode, sess, queueVars, connVars, normal, running,
                 current, boardVars, histVars>>

(* The shutdown job ran: the exit code stays what it was. *)
ShutdownDone ==
  /\ main = "shutdown" /\ ~Pending(ShutdownJob)
  /\ main' = "stopped"
  /\ UNCHANGED <<state, stop, exitCode, leaseVars, queueVars, connVars, hwVars,
                 boardVars, histVars>>

(* Mutant of ShutdownTimeout: the exit code does not tell. *)
ShutdownTimeoutIsClean ==
  /\ main = "shutdown" /\ Pending(ShutdownJob)
  /\ main' = "stopped"
  /\ UNCHANGED <<state, stop, exitCode, leaseVars, queueVars, connVars, hwVars,
                 boardVars, histVars>>

(* job.wait(timeout_for("shutdown")) returned False. *)
ShutdownTimeout ==
  /\ main = "shutdown" /\ Pending(ShutdownJob)
  /\ main' = "stopped"
  /\ exitCode' = IF exitCode = 0 THEN 1 ELSE exitCode
  /\ UNCHANGED <<state, stop, leaseVars, queueVars, connVars, hwVars, boardVars,
                 histVars>>

-----------------------------------------------------------------------------
(* The hardware thread: take the most urgent job, run its check, run it.   *)

TakeFirst(u, n) ==
  IF u # <<>> THEN running' = Head(u) /\ urgent' = Tail(u) /\ UNCHANGED normal
              ELSE n # <<>> /\ running' = Head(n) /\ normal' = Tail(n) /\ UNCHANGED urgent

HwGet ==
  /\ running = NoJob
  /\ TakeFirst(urgent, normal)
  /\ UNCHANGED <<lifeVars, leaseVars, queueVars, connVars, current, boardVars,
                 histVars>>

(* Mutant of Admitted: jobs are not checked when they start. *)
AdmitsAll(j) == TRUE

(* job.check(): a call runs only while its lease has not ended. *)
Admitted(j) == j.kind = "call" => Active(j.lease)

HwStart ==
  /\ running # NoJob /\ ~current /\ Admitted(running)
  /\ current' = TRUE
  /\ UNCHANGED <<lifeVars, leaseVars, queueVars, connVars, urgent, normal,
                 running, boardVars, histVars>>

(* Mutant of HwRefuse: the exception of the check kills the thread. *)
HwRefuseDies ==
  /\ running # NoJob /\ ~current /\ ~Admitted(running)
  /\ UNCHANGED vars

(* check raised LeaseRevoked: done is set, the board is not touched. *)
HwRefuse ==
  /\ running # NoJob /\ ~current /\ ~Admitted(running)
  /\ running' = NoJob
  /\ UNCHANGED <<lifeVars, leaseVars, queueVars, connVars, urgent, normal,
                 current, boardVars, histVars>>

Runs(kind) == running.kind = kind /\ current

Finish == running' = NoJob /\ current' = FALSE

(* Mutant of HwStartup: no force_safe before programming. *)
HwStartupTrustsBoard(outcome) ==
  /\ Runs("startup") /\ Finish
  /\ connected' = (outcome # "no_connect")
  /\ tx' = tx
  /\ IF outcome = "ok"
       THEN /\ state' = IF state = "starting" THEN "ready" ELSE state
            /\ UNCHANGED <<stop, exitCode>>
       ELSE /\ state' = "stopping" /\ stop' = TRUE
            /\ exitCode' = IF stop THEN exitCode ELSE 5
  /\ UNCHANGED <<main, leaseVars, queueVars, connVars, urgent, normal, histVars>>

(* _startup: connect, force_safe, program.  It may fail before or after    *)
(* force_safe; request_stop keeps the code of an earlier stop.             *)
HwStartup(outcome) ==
  /\ Runs("startup") /\ Finish
  /\ connected' = (outcome # "no_connect")
  /\ tx' = IF outcome = "no_connect" THEN tx ELSE NoLease
  /\ IF outcome = "ok"
       THEN /\ state' = IF state = "starting" THEN "ready" ELSE state
            /\ UNCHANGED <<stop, exitCode>>
       ELSE /\ state' = "stopping" /\ stop' = TRUE
            /\ exitCode' = IF stop THEN exitCode ELSE 5
  /\ UNCHANGED <<main, leaseVars, queueVars, connVars, urgent, normal, histVars>>

(* A forwarded Radio call: it leaves TX on for its job, or off. *)
HwCall(live) ==
  /\ Runs("call") /\ Finish
  /\ tx' = IF live THEN running.lease ELSE NoLease
  /\ UNCHANGED <<lifeVars, leaseVars, queueVars, connVars, urgent, normal,
                 connected, histVars>>

(* Radio.safe_state: nothing without a connection; every DLL error inside  *)
(* it is swallowed, so the job succeeds whatever the board did.            *)
SafeState ==
  \E obeyed \in IF SafeCanFail THEN BOOLEAN ELSE {TRUE} :
    tx' = IF connected /\ obeyed THEN NoLease ELSE tx

HwSafeOnly ==
  /\ Runs("safe_only") /\ Finish /\ SafeState
  /\ UNCHANGED <<lifeVars, leaseVars, queueVars, connVars, urgent, normal,
                 connected, histVars>>

(* Mutant of HwSafeThenFree: the board is not freed. *)
HwSafeThenKeep ==
  /\ Runs("safe_then_free") /\ Finish /\ SafeState
  /\ UNCHANGED <<lifeVars, leaseVars, queueVars, connVars, urgent, normal,
                 connected, histVars>>

(* safe_then_free: whether safe_state worked or not, the board is free. *)
HwSafeThenFree ==
  /\ Runs("safe_then_free") /\ Finish /\ SafeState
  /\ IF owner = running.lease THEN owner' = NoLease /\ ending' = FALSE
                              ELSE UNCHANGED <<owner, ending>>
  /\ UNCHANGED <<lifeVars, active, sess, queueVars, connVars, urgent, normal,
                 connected, histVars>>

(* _safe_and_disconnect *)
HwShutdown ==
  /\ Runs("shutdown") /\ Finish /\ SafeState
  /\ connected' = FALSE
  /\ UNCHANGED <<lifeVars, leaseVars, queueVars, connVars, urgent, normal,
                 histVars>>

(* _live_status only reads. *)
HwStatus ==
  /\ Runs("status") /\ Finish
  /\ UNCHANGED <<lifeVars, leaseVars, queueVars, connVars, urgent, normal,
                 boardVars, histVars>>

-----------------------------------------------------------------------------
Hardware ==
  \/ HwGet \/ HwStart \/ HwRefuse
  \/ \E outcome \in {"ok", "no_connect", "no_program"} : HwStartup(outcome)
  \/ \E live \in BOOLEAN : HwCall(live)
  \/ HwSafeOnly \/ HwSafeThenFree \/ HwShutdown \/ HwStatus

(* What the client of connection c decides *)
Client(c) ==
  \/ Connect(c) \/ ClientDies(c)
  \/ \E wait \in BOOLEAN : Acquire(c, wait)
  \/ CallBegin(c) \/ Release(c)
  \/ Safe(c) \/ Kick(c) \/ Resume(c) \/ Stop(c) \/ StatusBegin(c)
  \/ LeaveQueue(c)

(* What the connection thread does once it has a request *)
Serve(c) ==
  \/ ConnectionLost(c)
  \/ \E l \in Lease : Grant(c, l)
  \/ CallSubmit(c) \/ CallReturn(c)
  \/ SafeOwner(c) \/ SafeSubmit(c) \/ StopSet(c)
  \/ StatusSubmit(c) \/ StatusReturn(c)
  \/ EndLease(c) \/ EndSubmit(c) \/ WaitDone(c) \/ WaitTimeout(c)

MonitorEnds == EndLease(Monitor) \/ EndSubmit(Monitor)

Main == SignalStop \/ ShutdownBegin \/ ShutdownDone \/ ShutdownTimeout

(* The process is gone: nothing moves any more. *)
Exited == main = "stopped" /\ UNCHANGED vars

Running ==
  \/ Hardware
  \/ \E c \in Conn : Client(c) \/ Serve(c)
  \/ \E o \in {"silent", "idle_limit"} : MonitorScan(o)
  \/ MonitorEnds
  \/ Main

Next == (main # "stopped" /\ Running) \/ Exited

Spec == Init /\ [][Next]_vars

(* The scheduler runs every thread that can run; a DLL call returns (one   *)
(* that does not is the watchdog's business); a waiting thread notices a   *)
(* stop or a dead client at its next poll.  Nothing is assumed of clients. *)
Fairness ==
  /\ WF_vars(main # "stopped" /\ Hardware)
  /\ \A c \in Conn :
       /\ WF_vars(main # "stopped" /\ Serve(c))
       /\ WF_vars(main # "stopped" /\ (state = "stopping" \/ gone[c]) /\ LeaveQueue(c))
  /\ WF_vars(main # "stopped" /\ MonitorEnds)
  /\ WF_vars(main # "stopped" /\ (ShutdownBegin \/ ShutdownDone))

FairSpec == Spec /\ Fairness

-----------------------------------------------------------------------------
(* Safety *)

(* At most one lease is active, and it is the one _owner names.            *)
OneLease == \A l \in active : owner = l

(* Until the shutdown, TX on the board belongs to the job that owns it:    *)
(* no signal of a job outlives its lease.                                  *)
TxBelongsToOwner == tx \in Lease /\ main = "serve" => owner = tx

(* A forwarded call runs for the owner only: a call that passed its check  *)
(* just before the lease ended still keeps the board from the next job.    *)
CallsServeOwner == Runs("call") /\ main = "serve" => owner = running.lease

(* Once safe() has answered done, no job's signal is on the board until    *)
(* resume: no call slips in behind it, and no queued job is let in.        *)
SafeHolds == safed => tx \notin Lease

(* The server exits 0 only with every job's signal off: the supervisor     *)
(* takes exit 0 for a clean stop and does not force TX safe itself.        *)
ExitZeroIsQuiet == main = "stopped" /\ exitCode = 0 => tx \notin Lease

(* "Every job starts from the safe state": when the board is granted, TX   *)
(* is off, whoever drove it before, and no call is running.                *)
JobStartsSafe ==
  [][owner = NoLease /\ owner' # NoLease => tx = NoLease /\ ~Runs("call")]_vars

-----------------------------------------------------------------------------
(* The inductive invariants behind the safety properties (proved in        *)
(* HardwareServerProofs).                                                  *)

JobsIn(queue, kind) == {i \in 1..Len(queue) : queue[i].kind = kind}

(* The queues: what has which priority; a running function is a job's. *)
QueueInv ==
  /\ \A i \in 1..Len(urgent) :
       urgent[i].kind \in {"startup", "shutdown", "safe_then_free", "safe_only"}
  /\ \A i \in 1..Len(normal) : normal[i].kind \in {"call", "status"}
  /\ current => running # NoJob

(* Leases: whoever is about to free a board, or to queue the job that      *)
(* does, frees it from an ended lease; a stopping server gives none.       *)
LeaseInv ==
  /\ active \subseteq {owner}
  /\ ending <=> owner # NoLease /\ owner \notin active
  /\ \A t \in Thread : pc[t] = "end_submit" => target[t] \in Lease \ active
  /\ \A i \in JobsIn(urgent, "safe_then_free") : urgent[i].lease \notin active
  /\ running.kind = "safe_then_free" => running.lease \notin active
  /\ \A t \in Thread : pc[t] = "stop_set" => state = "stopping"
  /\ stop => state = "stopping"
  /\ main # "serve" => state = "stopping" /\ owner = NoLease
  /\ Runs("call") => running.lease \in Lease
  /\ CallsServeOwner

(* Board: the start-up job comes first and once, nothing reaches a board   *)
(* that is not connected, and the shutdown job is the main thread's.       *)
StartupPending == running.kind = "startup" \/ JobsIn(urgent, "startup") # {}
BoardInv ==
  /\ JobsIn(urgent, "startup") \subseteq {1}
  /\ running.kind = "startup" => JobsIn(urgent, "startup") = {}
  /\ StartupPending => state # "ready" /\ owner = NoLease /\ ~connected
  /\ running.kind = "shutdown" \/ JobsIn(urgent, "shutdown") # {} => main # "serve"
  /\ state = "ready" \/ owner # NoLease \/ Runs("call") => connected
  /\ state = "ready" => tx # PrevProcess
  /\ ~connected => tx \notin Lease
  /\ TxBelongsToOwner

(* safe(): from the hold on, no lease begins; once its job is done, no     *)
(* call runs and TX is off.                                                *)
Quiet == active = {} /\ tx \notin Lease /\ ~Runs("call")
HoldInv ==
  /\ holding # {} \/ safed => held
  /\ \A c \in holding : pc[c] = "safe_submit" => active = {}
  /\ \A c \in holding : op[c] = "safe" =>
       /\ pc[c] = "end" => active \subseteq {target[c]}
       /\ pc[c] \in {"end_submit", "wait"} => active = {}
       /\ pc[c] = "wait" /\ ~Pending(WaitedJob(c)) => Quiet
  /\ safed => Quiet

(* Shutdown: once its job is done, no call runs and TX is off; when it is  *)
(* not, the exit code tells.                                               *)
ShutInv ==
  /\ main = "shutdown" /\ ~Pending(ShutdownJob) => Quiet
  /\ ExitZeroIsQuiet

-----------------------------------------------------------------------------
(* The promise of BoardLease, kept by the threads above: the owner is the  *)
(* holder, a started call is busy, and a board whose TX anyone enabled is  *)
(* live.                                                                   *)
Promise == INSTANCE BoardLease
  WITH open <- state # "stopping", holder <- owner, ended <- ending,
       busy <- Runs("call"), live <- tx # NoLease

(* The server implements the lease promise. *)
KeepsPromise == Promise!Spec

-----------------------------------------------------------------------------
(* Liveness *)

(* An ended lease leaves the board. *)
EndedLeaseFrees == \A l \in Lease : (owner = l /\ ~Active(l)) ~> (owner # l)

(* A client that died loses the board, whatever its thread was doing.      *)
LostClientFrees ==
  \A c \in Conn : (gone[c] /\ Active(sess[c])) ~> (owner = NoLease)

(* A requested stop ends the process. *)
StopStops == stop ~> (main = "stopped")

(* If jobs end and the hold is lifted, a queued client does not wait for   *)
(* ever.                                                                   *)
NoStarvation ==
  (<>[]~held /\ \A l \in Lease : []<>~Active(l))
    => \A c \in Conn : (pc[c] = "queued") ~> (pc[c] # "queued" \/ main = "stopped")

=============================================================================
