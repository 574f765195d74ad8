---------------------------- MODULE RemoteClient ----------------------------
(***************************************************************************)
(* One job of src/adrvtrx/client.py on its connection to the hardware      *)
(* server: the thread that calls the radio and the heartbeat thread share  *)
(* one socket under RemoteRadio._lock, and a reply carries nothing that    *)
(* tells which request it answers.  The server's side of the connection is *)
(* its thread _serve_connection; the rest of the server, HardwareServer,   *)
(* is here the lease it may take away at any time, the programming of the  *)
(* board and its record, and a process that may die and be restarted.      *)
(*                                                                         *)
(* Ctrl+C may end the wait of a request of Interruptible, the client may   *)
(* be killed, and another job follows a job that is over.                  *)
(***************************************************************************)
EXTENDS Naturals, Sequences

CONSTANTS
  Interruptible,  \* the requests a Ctrl+C may hit: subset of UserOp
  MaxRequests,    \* bound: requests of one job
  MaxJobs,        \* bound: jobs of the client
  MaxProgrammings \* bound: successful programmings of the board

UserOp == {"call", "program", "session", "loaded", "release"}
Op == UserOp \cup {"heartbeat"}

ASSUME ClientAssumption ==
  /\ Interruptible \subseteq UserOp
  /\ MaxRequests \in Nat /\ MaxJobs \in Nat /\ MaxProgrammings \in Nat \ {0}

VARIABLES
  (* the client *)
  user,      \* the caller: "idle", "wait" for a reply, "judge" it, "again", "out"
  doing,     \* the caller's request, "program" until its session_info is done
  beat,      \* heartbeat thread: "sleep", "due", "wait", "gone"
  stopBeat,  \* the event _stop_heartbeat
  lock,      \* _lock: "free", "user", "beat"
  end,       \* _end: "none", "lost", "revoked", "released"
  open,      \* the client's end of the socket
  known,     \* programming, and the config that follows it
  jobs,      \* jobs begun
  (* the socket *)
  asked,     \* number of the request sent last
  requests, replies,
  (* the server *)
  up,        \* the process runs
  lease,     \* "active", "revoked", "ended"; "closed" with its connection
  serving,   \* the request its thread serves, or Nothing
  noted,     \* programming in memory
  file,      \* programming-<board>.json
  (* the board *)
  board,     \* which programming it has; 0: a failed one, unknown
  count,     \* programmings that succeeded
  measured   \* history: what a job recorded with a measurement, what it was

clientVars == <<user, doing, beat, stopBeat, lock, end, open, known, jobs, measured>>
socketVars == <<asked, requests, replies>>
recordVars == <<noted, file, board, count>>
serverVars == <<up, lease, serving, recordVars>>
vars == <<clientVars, socketVars, serverVars>>

Nothing == [id |-> 0, op |-> "none"]
Reply(r, kind, id) == [id |-> r.id, op |-> r.op, kind |-> kind, programming |-> id]

Init ==
  /\ user = "idle" /\ doing = "none" /\ beat = "sleep" /\ stopBeat = FALSE
  /\ lock = "free" /\ end = "none" /\ open = TRUE /\ known = 1 /\ jobs = 1
  /\ asked = 0 /\ requests = <<>> /\ replies = <<>>
  /\ up = TRUE /\ lease = "active" /\ serving = Nothing
  /\ noted = 1 /\ file = 1 /\ board = 1 /\ count = 1
  /\ measured = {}

----------------------------------------------------------------------------
(* The client. *)

(* What is sent after the server's end is closed reaches nobody.           *)
Send(op) ==
  /\ asked' = asked + 1
  /\ requests' = IF lease = "closed" THEN requests
                 ELSE Append(requests, [id |-> asked + 1, op |-> op])
  /\ UNCHANGED replies

(* Mutant of MarkLost: an end noted before is lost.                        *)
MarkLostAnyway == end' = "lost" /\ open' = FALSE

MarkLost == end' = (IF end = "none" THEN "lost" ELSE end) /\ open' = FALSE

MarkRevoked == end' = "revoked" /\ UNCHANGED open

(* The socket has nothing more for the client.                             *)
Broken == replies = <<>> /\ lease = "closed"

(* The request is sent under the lock; the caller waits for the reply.     *)
Request(op) ==
  /\ user = "idle" /\ lock = "free" /\ open /\ asked < MaxRequests
  /\ Send(op)
  /\ user' = "wait" /\ doing' = op /\ lock' = "user"
  /\ UNCHANGED <<beat, stopBeat, end, open, known, jobs, measured, serverVars>>

(* A call on a job that is over raises and sends nothing.                  *)
AskCall == \E op \in {"call", "program"} : end = "none" /\ Request(op)

(* session_info still asks when the lease is revoked.                      *)
AskSession == end \in {"none", "revoked"} /\ Request("session")

(* loaded_signals asks as long as there is a socket.                       *)
AskLoaded == Request("loaded")

(* program() reads the session afterwards, also when it raised.            *)
AskAgain ==
  /\ user = "again" /\ lock = "free"
  /\ IF end \in {"none", "revoked"} /\ open
     THEN Send("session") /\ user' = "wait" /\ doing' = "session" /\ lock' = "user"
     ELSE user' = "idle" /\ doing' = "none" /\ UNCHANGED <<lock, socketVars>>
  /\ UNCHANGED <<beat, stopBeat, end, open, known, jobs, measured, serverVars>>

(* release(): the event, then the lock, then the request; a job that is    *)
(* over only closes its socket.                                            *)
StopBeat ==
  /\ user = "idle" /\ ~stopBeat
  /\ stopBeat' = TRUE
  /\ UNCHANGED <<user, doing, beat, lock, end, open, known, jobs, measured,
                 socketVars, serverVars>>

Release ==
  /\ user = "idle" /\ stopBeat /\ lock = "free"
  /\ IF end = "none"
     THEN /\ Send("release") /\ user' = "wait" /\ doing' = "release" /\ lock' = "user"
          /\ UNCHANGED open
     ELSE user' = "out" /\ open' = FALSE /\ UNCHANGED <<doing, lock, socketVars>>
  /\ UNCHANGED <<beat, stopBeat, end, known, jobs, measured, serverVars>>

(* Mutant of After: program() does not read the session afterwards.        *)
AfterAtOnce(op) == IF op = "release" THEN "out" ELSE "idle"

(* Where the caller goes when a request is over.                           *)
After(op) == CASE op = "program" -> "again" [] op = "release" -> "out" [] OTHER -> "idle"

Released == end' = "released" /\ open' = FALSE

(* What an answer of a kind is to the caller: a value, a job that is over, *)
(* or the method's own exception.                                          *)
Raised(kind) ==
  CASE kind = "ok" -> "nothing" [] kind = "revoked" -> "LeaseRevoked"
    [] kind = "error" -> "RemoteError" [] OTHER -> "RuntimeError"

(* The next message is taken for the reply.                                *)
UserReply ==
  /\ user = "wait" /\ replies # <<>>
  /\ lock' = "free" /\ replies' = Tail(replies)
  /\ LET r == Head(replies)
     IN  /\ user' = IF Raised(r.kind) = "LeaseRevoked" /\ doing \in {"call", "program"}
                    THEN "judge" ELSE After(doing)
         /\ known' = IF doing = "session" /\ r.kind = "ok" THEN r.programming ELSE known
         /\ measured' = IF doing = "call" /\ r.kind = "ok" /\ r.programming # 0
                        THEN measured \cup {<<known, r.programming>>} ELSE measured
  /\ IF doing = "release" THEN Released ELSE UNCHANGED <<end, open>>
  /\ UNCHANGED <<doing, beat, stopBeat, jobs, asked, requests, serverVars>>

(* Outside the lock: the revocation is noted.                              *)
Judge ==
  /\ user = "judge" /\ MarkRevoked /\ user' = After(doing)
  /\ UNCHANGED <<doing, beat, stopBeat, lock, known, jobs, measured,
                 socketVars, serverVars>>

(* ServerConnectionLost: only _call notes it; release() is over anyway     *)
(* (its wait also has a timeout).                                          *)
UserLost ==
  /\ user = "wait" /\ (Broken \/ (doing = "release" /\ replies = <<>>))
  /\ lock' = "free" /\ user' = After(doing)
  /\ CASE doing \in {"call", "program"} -> MarkLost /\ stopBeat' = TRUE
       [] doing = "release" -> Released /\ UNCHANGED stopBeat
       [] OTHER -> UNCHANGED <<end, open, stopBeat>>
  /\ UNCHANGED <<doing, beat, known, jobs, measured, socketVars, serverVars>>

(* Mutant of Interrupt: the connection is kept.                            *)
InterruptKeepsConnection ==
  /\ user = "wait" /\ doing \in Interruptible
  /\ lock' = "free" /\ user' = "idle"
  /\ UNCHANGED <<end, open, stopBeat>>
  /\ UNCHANGED <<doing, beat, known, jobs, measured, socketVars, serverVars>>

(* Ctrl+C leaves the reply unread.  _call drops the connection.            *)
Interrupt ==
  /\ user = "wait" /\ doing \in Interruptible
  /\ lock' = "free" /\ user' = IF doing = "program" THEN "again" ELSE "idle"
  /\ IF doing \in {"call", "program"}
     THEN MarkLost /\ stopBeat' = TRUE
     ELSE UNCHANGED <<end, open, stopBeat>>
  /\ UNCHANGED <<doing, beat, known, jobs, measured, socketVars, serverVars>>

(* The heartbeat thread: the timer, the lock and the check, the reply.     *)
BeatDue ==
  /\ beat = "sleep"
  /\ beat' = IF stopBeat THEN "gone" ELSE "due"
  /\ UNCHANGED <<user, doing, stopBeat, lock, end, open, known, jobs, measured,
                 socketVars, serverVars>>

BeatAsk ==
  /\ beat = "due"
  /\ \/ lock # "free" /\ beat' = "sleep" /\ UNCHANGED <<lock, socketVars>>
     \/ lock = "free" /\ end # "none" /\ beat' = "gone" /\ UNCHANGED <<lock, socketVars>>
     \/ /\ lock = "free" /\ end = "none" /\ asked < MaxRequests
        /\ Send("heartbeat") /\ lock' = "beat" /\ beat' = "wait"
  /\ UNCHANGED <<user, doing, stopBeat, end, open, known, jobs, measured, serverVars>>

BeatReply ==
  /\ beat = "wait" /\ replies # <<>>
  /\ lock' = "free" /\ replies' = Tail(replies)
  /\ LET raised == Raised(Head(replies).kind)
     IN  CASE raised = "nothing" -> beat' = "sleep" /\ UNCHANGED <<end, open>>
           [] raised = "LeaseRevoked" -> beat' = "gone" /\ MarkRevoked
           [] OTHER -> beat' = "gone" /\ MarkLost
  /\ UNCHANGED <<user, doing, stopBeat, known, jobs, measured, asked, requests, serverVars>>

(* Nothing within four heartbeats, or the connection lost.                 *)
BeatLost ==
  /\ beat = "wait" /\ replies = <<>>
  /\ lock' = "free" /\ beat' = "gone" /\ MarkLost
  /\ UNCHANGED <<user, doing, stopBeat, known, jobs, measured, socketVars, serverVars>>

Kill ==
  /\ user # "out"
  /\ user' = "out" /\ doing' = "none" /\ beat' = "gone" /\ lock' = "free" /\ open' = FALSE
  /\ UNCHANGED <<stopBeat, end, known, jobs, measured, socketVars, serverVars>>

(* hardware(): a new connection; the grant carries the programming.        *)
NewJob ==
  /\ user = "out" /\ beat = "gone" /\ jobs < MaxJobs
  /\ up /\ lease # "active" /\ serving = Nothing
  /\ user' = "idle" /\ doing' = "none" /\ beat' = "sleep" /\ stopBeat' = FALSE
  /\ lock' = "free" /\ end' = "none" /\ open' = TRUE /\ known' = noted
  /\ jobs' = jobs + 1
  /\ asked' = 0 /\ requests' = <<>> /\ replies' = <<>>
  /\ lease' = "active"
  /\ UNCHANGED <<measured, up, serving, recordVars>>

----------------------------------------------------------------------------
(* The server. *)

Take ==
  /\ up /\ serving = Nothing /\ requests # <<>> /\ lease # "closed"
  /\ serving' = Head(requests) /\ requests' = Tail(requests)
  /\ UNCHANGED <<clientVars, asked, replies, up, lease, recordVars>>

Answer(kind, id) ==
  /\ replies' = Append(replies, Reply(serving, kind, id)) /\ serving' = Nothing
  /\ UNCHANGED <<asked, requests>>

(* A request that needs a lease that is over.                              *)
Refuse ==
  /\ up /\ serving.op \in {"call", "program", "heartbeat"} /\ lease # "active"
  /\ Answer(IF lease = "revoked" THEN "revoked" ELSE "protocol", 0)
  /\ UNCHANGED <<clientVars, up, lease, recordVars>>

(* A method of the radio measures the board as it is, or raises.           *)
ServeCall ==
  /\ up /\ serving.op = "call" /\ lease = "active"
  /\ Answer("ok", board) \/ Answer("error", 0)
  /\ UNCHANGED <<clientVars, up, lease, recordVars>>

ServeHeartbeat ==
  /\ up /\ serving.op = "heartbeat" /\ lease = "active" /\ Answer("ok", 0)
  /\ UNCHANGED <<clientVars, up, lease, recordVars>>

(* These two need no lease.                                                *)
ServeSession ==
  /\ up /\ serving.op = "session" /\ Answer("ok", noted)
  /\ UNCHANGED <<clientVars, up, lease, recordVars>>

ServeLoaded ==
  /\ up /\ serving.op = "loaded" /\ Answer("ok", 0)
  /\ UNCHANGED <<clientVars, up, lease, recordVars>>

ServeRelease ==
  /\ up /\ serving.op = "release" /\ Answer("ok", 0)
  /\ lease' = IF lease = "active" THEN "ended" ELSE lease
  /\ UNCHANGED <<clientVars, up, recordVars>>

(* The hardware thread programs the board, then _note_programmed: the file *)
(* (which may fail to be written) and the memory.  A programming that      *)
(* fails leaves the board as it was or in a state nobody knows.            *)
Programs == count < MaxProgrammings /\ count' = count + 1

ServeProgram ==
  /\ up /\ serving.op = "program" /\ lease = "active"
  /\ \/ /\ Programs /\ board' = count'
        /\ serving' = [serving EXCEPT !.op = "note"] /\ UNCHANGED socketVars
     \/ board' \in {board, 0} /\ Answer("error", 0) /\ UNCHANGED count
  /\ UNCHANGED <<clientVars, up, lease, noted, file>>

Note ==
  /\ up /\ serving.op = "note"
  /\ noted' = board /\ file' \in {file, board}
  /\ Answer("ok", 0)
  /\ UNCHANGED <<clientVars, up, lease, board, count>>

(* kick, safe, a silent or idle job, stop.                                 *)
Revoke ==
  /\ up /\ lease = "active" /\ lease' = "revoked"
  /\ UNCHANGED <<clientVars, socketVars, up, serving, recordVars>>

(* recv or send fails: the client has closed; the thread ends the lease.   *)
ClientLost ==
  /\ up /\ ~open /\ serving = Nothing /\ requests = <<>> /\ lease # "closed"
  /\ lease' = "closed"
  /\ UNCHANGED <<clientVars, socketVars, up, serving, recordVars>>

Crash ==
  /\ up /\ up' = FALSE /\ lease' = "closed" /\ serving' = Nothing
  /\ noted' = 0 /\ requests' = <<>>
  /\ UNCHANGED <<clientVars, asked, replies, file, board, count>>

(* Mutant of Restart: it starts with --no-program and trusts the file.     *)
RestartNoProgram ==
  /\ ~up /\ up' = TRUE /\ noted' = file
  /\ UNCHANGED <<clientVars, socketVars, lease, serving, file, board, count>>

(* _startup: programs, and is ready only when that is noted.               *)
Restart ==
  /\ ~up
  /\ Programs /\ board' = count'
  /\ \/ up' = TRUE /\ noted' = count' /\ file' \in {file, count'}
     \/ UNCHANGED <<up, noted, file>>      \* dies again before it is noted
  /\ UNCHANGED <<clientVars, socketVars, lease, serving>>

Next ==
  \/ AskCall \/ AskSession \/ AskLoaded
  \/ AskAgain \/ StopBeat \/ Release \/ UserReply \/ Judge \/ UserLost \/ Interrupt
  \/ BeatDue \/ BeatAsk \/ BeatReply \/ BeatLost \/ Kill \/ NewJob
  \/ Take \/ Refuse \/ ServeCall \/ ServeHeartbeat \/ ServeSession \/ ServeLoaded
  \/ ServeRelease \/ ServeProgram \/ Note \/ Revoke \/ ClientLost
  \/ Crash \/ Restart

Spec == Init /\ [][Next]_vars

----------------------------------------------------------------------------
TypeOK ==
  /\ user \in {"idle", "wait", "judge", "again", "out"}
  /\ doing \in UserOp \cup {"none"}
  /\ beat \in {"sleep", "due", "wait", "gone"} /\ stopBeat \in BOOLEAN
  /\ lock \in {"free", "user", "beat"}
  /\ end \in {"none", "lost", "revoked", "released"}
  /\ open \in BOOLEAN /\ up \in BOOLEAN
  /\ known \in Nat /\ noted \in Nat /\ file \in Nat /\ board \in Nat
  /\ jobs \in Nat /\ asked \in Nat /\ count \in Nat
  /\ requests \in Seq([id : Nat, op : Op])
  /\ replies \in Seq([id : Nat, op : Op \cup {"note"}, programming : Nat,
                      kind : {"ok", "revoked", "protocol", "error"}])
  /\ lease \in {"active", "revoked", "ended", "closed"}
  /\ serving \in [id : Nat, op : Op \cup {"none", "note"}]
  /\ measured \in SUBSET (Nat \X Nat)

(* While a thread holds the lock and waits, at most its own request is     *)
(* under way, so the next message is its reply; while nobody does, nothing *)
(* is under way on a connection that will be used again.                   *)
UnderWay ==
  {requests[i].id : i \in 1 .. Len(requests)} \cup
  {replies[i].id : i \in 1 .. Len(replies)} \cup
  {r.id : r \in {serving} \ {Nothing}}
RepliesMatch ==
  open => UnderWay \subseteq (IF lock = "free" THEN {} ELSE {asked})

(* Why a job is over is not forgotten: only a revocation may replace a     *)
(* lost connection, in whichever order the two threads note them.          *)
EndIsFinal ==
  [][end # "none" /\ jobs' = jobs => end' \in {end, "revoked"}]_vars

(* Between the calls of a job that holds the board, the programming it     *)
(* records is the board's (unless a programming failed half-way).          *)
ProgrammingKnown ==
  user = "idle" /\ end = "none" /\ up /\ lease = "active" /\ board # 0 => known = board

(* Measurements recorded with one program_id were made on one programming, *)
(* whatever crash and restart lie between them.                            *)
IdentityTells == \A m, n \in measured : m[1] = n[1] => m[2] = n[2]
=============================================================================
