----------------------------- MODULE Supervisor -----------------------------
(***************************************************************************)
(* The watchdog of src/adrvtrx/server.py: `adrvtrx-server run` spawns the  *)
(* hardware server, pings it, kills it when it hangs, forces TX safe from  *)
(* a fresh process and restarts it.  The server is seen from outside: it   *)
(* binds the port, starts up, drives TX, hangs, crashes, or stops.         *)
(*                                                                         *)
(* On Windows the pid of a venv's python.exe is a launcher's: killing it   *)
(* leaves the server itself running, an orphan that stops once it sees its *)
(* stdin closed.                                                           *)
(***************************************************************************)
EXTENDS Naturals

CONSTANTS
  RestartLimit,      \* restart_limit
  Retries,           \* connect_retries, at least one
  Launcher,          \* may the child be a launcher of the server?
  ServerCanCrash,    \* may the server process die by itself?
  SafeCanFail,       \* may a DLL call inside force_safe or safe_state fail?
                     \* (it is swallowed)
  ReadbackCanFail    \* may the readback of the TX mask fail?

ASSUME ConstantsAssumption ==
  /\ RestartLimit \in Nat
  /\ Retries \in Nat \ {0}
  /\ Launcher \in BOOLEAN /\ ServerCanCrash \in BOOLEAN
  /\ SafeCanFail \in BOOLEAN /\ ReadbackCanFail \in BOOLEAN

VARIABLES
  sup,        \* where the supervisor is
  outcome,    \* what _watch returned last
  ready,      \* _watch saw the server of this spawn ready
  everReady,  \* ever_ready
  restarts,   \* restarts remembered within the window
  attempt,    \* attempts of the running force_safe_fresh
  exit,       \* how run() ended
  srv,        \* the server process behind the child
  code,       \* its exit code
  linked,     \* it has connected to the board and forced it safe
  hung,       \* its hardware call is over its limit, or the process is frozen
  eof,        \* its stdin is closed
  port,       \* who has the port
  orphan,     \* a server left behind a killed launcher
  orphaned,   \* history: there has been one
  tx,         \* "off", or on by a server of this supervisor, or on by others
  swallowed,  \* history: the shutdown of the last server left its signal on
              \* and exited 0, the errors of its safe_state swallowed
  told        \* "TX STATE UNKNOWN" is the supervisor's last word

supVars    == <<sup, outcome, ready, everReady, restarts, exit>>
forceVars  == <<attempt, told>>
srvVars    == <<srv, code, linked, hung, eof, swallowed>>
orphanVars == <<orphan, orphaned>>
vars == <<supVars, forceVars, srvVars, orphanVars, port, tx>>

Alive   == srv \in {"spawned", "starting", "ready", "stopping"}
Serving == srv \in {"starting", "ready", "stopping"}

CountersOK == restarts \in 0..RestartLimit /\ attempt \in 0..Retries
FlagsOK ==
  /\ ready \in BOOLEAN /\ everReady \in BOOLEAN
  /\ linked \in BOOLEAN /\ hung \in BOOLEAN /\ eof \in BOOLEAN
  /\ told \in BOOLEAN
  /\ orphaned \in BOOLEAN /\ swallowed \in BOOLEAN
ModesOK ==
  /\ sup \in {"start", "spawn", "watch", "closing", "forcing", "decide",
              "backoff", "exit", "dead"}
  /\ outcome \in {"none", "stopped", "refused", "bad_config", "crashed",
                  "stuck", "interrupted"}
  /\ exit \in {"none", "ok", "crash", "in_use", "bad_config", "startup", "traceback"}
  /\ srv \in {"none", "spawned", "starting", "ready", "stopping", "exited"}
  /\ code \in {0, 1, 3, 4, 5}
  /\ port \in {"free", "server", "orphan", "foreign"}
  /\ orphan \in {"none", "spawned", "starting", "busy", "idle"}
  /\ tx \in {"off", "ours", "others"}
TypeOK == CountersOK /\ FlagsOK /\ ModesOK

(* Someone else's server may hold the port, or have left TX on. *)
Init ==
  /\ sup = "start" /\ outcome = "none" /\ ready = FALSE /\ everReady = FALSE
  /\ restarts = 0 /\ exit = "none"
  /\ attempt = 0 /\ told = FALSE
  /\ srv = "none" /\ code = 0 /\ linked = FALSE /\ hung = FALSE /\ eof = FALSE
  /\ swallowed = FALSE
  /\ port \in {"free", "foreign"} /\ orphan = "none" /\ orphaned = FALSE
  /\ tx \in {"off", "others"}

-----------------------------------------------------------------------------
(* The server process, as the supervisor can know it. *)

(* force_safe and safe_state end without an error whatever the board does. *)
MadeSafe(on) == {"off"} \cup (IF SafeCanFail THEN {on} ELSE {})

SrvExits(c) ==
  /\ srv' = "exited" /\ code' = c
  /\ linked' = FALSE /\ hung' = FALSE
  /\ port' = IF port = "server" THEN "free" ELSE port
  /\ UNCHANGED <<eof, supVars, forceVars, orphanVars>>

(* A bad config or backend ends it before the board is touched. *)
SrvBadBackend ==
  /\ srv = "spawned"
  /\ SrvExits(4) /\ UNCHANGED <<swallowed, tx>>

SrvRefused ==
  /\ srv = "spawned" /\ port # "free"
  /\ SrvExits(3) /\ UNCHANGED <<swallowed, tx>>

(* Mutant of SrvBind: the port is not exclusive. *)
SrvBindShares ==
  /\ srv = "spawned"
  /\ srv' = "starting" /\ port' = "server"
  /\ UNCHANGED <<code, linked, hung, eof, swallowed, supVars, forceVars,
                 orphanVars, tx>>

(* start(): the port is bound before anything touches the board. *)
SrvBind ==
  /\ srv = "spawned" /\ port = "free"
  /\ srv' = "starting" /\ port' = "server"
  /\ UNCHANGED <<code, linked, hung, eof, swallowed, supVars, forceVars,
                 orphanVars, tx>>

(* _startup: connect, force_safe, program. *)
SrvStarts ==
  /\ srv = "starting" /\ ~hung
  /\ srv' = "ready" /\ linked' = TRUE
  /\ tx' \in MadeSafe(tx) /\ told' = FALSE
  /\ UNCHANGED <<code, hung, eof, swallowed, supVars, attempt, port, orphanVars>>

(* The start-up failed, before or after force_safe. *)
SrvStartFails ==
  /\ srv = "starting" /\ ~hung
  /\ tx' \in {tx, "off"}
  /\ SrvExits(5) /\ UNCHANGED swallowed

(* Jobs drive TX; every lease end makes it safe again. *)
SrvWorks ==
  /\ srv = "ready" /\ ~hung
  /\ tx' \in {tx, "off", "ours"}
  /\ UNCHANGED <<supVars, forceVars, srvVars, port, orphanVars>>

SrvHangs ==
  /\ srv \in {"starting", "ready"} /\ ~hung
  /\ hung' = TRUE
  /\ UNCHANGED <<srv, code, linked, eof, swallowed, supVars, forceVars, port,
                 orphanVars, tx>>

(* The call returns after all. *)
SrvReturns ==
  /\ hung /\ hung' = FALSE
  /\ tx' \in IF linked THEN {tx, "ours"} ELSE {tx}
  /\ UNCHANGED <<srv, code, linked, eof, swallowed, supVars, forceVars, port,
                 orphanVars>>

SrvCrashes == ServerCanCrash /\ Alive /\ SrvExits(1) /\ UNCHANGED <<swallowed, tx>>

(* `adrvtrx-server stop` *)
AskStop ==
  /\ srv \in {"starting", "ready"}
  /\ srv' = "stopping"
  /\ UNCHANGED <<code, linked, hung, eof, swallowed, supVars, forceVars, port,
                 orphanVars, tx>>

(* watch_supervisor: the pipe from the supervisor is closed. *)
SrvSeesEof ==
  /\ eof /\ srv \in {"starting", "ready"}
  /\ srv' = "stopping"
  /\ UNCHANGED <<code, linked, hung, eof, swallowed, supVars, forceVars, port,
                 orphanVars, tx>>

(* _shutdown: safe_state ran, or there was no board to make safe. *)
SrvStops ==
  /\ srv = "stopping" /\ ~hung
  /\ tx' \in IF linked THEN MadeSafe(tx) ELSE {tx, "off"}
  /\ swallowed' = (linked /\ tx' = "ours")
  /\ SrvExits(0)

(* _shutdown: the call in progress outlasted the wait, or disconnect raised. *)
SrvStopTimesOut ==
  /\ srv = "stopping"
  /\ tx' \in {tx, "off"}
  /\ SrvExits(1) /\ UNCHANGED swallowed

ForeignLeaves ==
  /\ port = "foreign" /\ port' = "free"
  /\ UNCHANGED <<supVars, forceVars, srvVars, orphanVars, tx>>

-----------------------------------------------------------------------------
(* A server behind a killed launcher.  It sees its stdin closed and shuts  *)
(* down; a call it is in the middle of may still switch TX on.             *)

Orphaned ==
  CASE ~linked         -> IF srv = "spawned" THEN "spawned" ELSE "starting"
    [] linked /\ hung  -> "busy"
    [] linked /\ ~hung -> "idle"

OrphanBinds ==
  /\ orphan = "spawned"
  /\ IF port = "free" THEN orphan' = "starting" /\ port' = "orphan"
                      ELSE orphan' = "none" /\ UNCHANGED port
  /\ UNCHANGED <<supVars, forceVars, srvVars, orphaned, tx>>

OrphanReturns ==
  /\ orphan = "busy" /\ orphan' = "idle"
  /\ tx' \in {tx, "ours"}
  /\ UNCHANGED <<supVars, forceVars, srvVars, orphaned, port>>

OrphanStops ==
  /\ orphan \in {"starting", "idle"} /\ orphan' = "none"
  /\ tx' \in IF orphan = "idle" THEN MadeSafe(tx) ELSE {tx, "off"}
  /\ port' = "free"
  /\ UNCHANGED <<supVars, forceVars, srvVars, orphaned>>

OrphanTimesOut ==
  /\ orphan \in {"starting", "busy", "idle"} /\ orphan' = "none"
  /\ port' = "free"
  /\ UNCHANGED <<supVars, forceVars, srvVars, orphaned, tx>>

-----------------------------------------------------------------------------
(* The supervisor. *)

Ends(how) == sup' = "exit" /\ exit' = how

(* run(): refuse when a server already answers. *)
Start ==
  /\ sup = "start"
  /\ \/ port = "foreign" /\ Ends("in_use")
     \/ sup' = "spawn" /\ UNCHANGED exit
  /\ UNCHANGED <<outcome, ready, everReady, restarts, forceVars, srvVars, port,
                 orphanVars, tx>>

Spawn ==
  /\ sup = "spawn" /\ sup' = "watch"
  /\ ready' = FALSE /\ swallowed' = FALSE
  /\ srv' = "spawned" /\ linked' = FALSE /\ hung' = FALSE /\ eof' = FALSE
  /\ UNCHANGED <<outcome, everReady, restarts, exit, code, forceVars, port,
                 orphanVars, tx>>

(* A ping answers "ready". *)
SeeReady ==
  /\ sup = "watch" /\ srv = "ready" /\ ~ready
  /\ ready' = TRUE
  /\ UNCHANGED <<sup, outcome, everReady, restarts, exit, forceVars, srvVars,
                 port, orphanVars, tx>>

(* _watch returned o: return, or force TX safe. *)
Judge(o) ==
  /\ outcome' = o
  /\ everReady' = (everReady \/ ready \/ (o = "crashed" /\ code # 5))
  /\ CASE o = "stopped"                  -> Ends("ok")
       [] o = "refused" /\ restarts = 0  -> Ends("in_use")
       [] o = "bad_config"               -> Ends("bad_config")
       [] OTHER                          -> sup' = "forcing" /\ UNCHANGED exit
  /\ attempt' = 0
  /\ UNCHANGED <<ready, restarts, told>>

(* Mutant of Classify: a shutdown that timed out counts as a stop. *)
ClassifyTrustsStop(c) ==
  CASE c \in {0, 1} -> "stopped"
    [] c = 3        -> "refused"
    [] c = 4        -> "bad_config"
    [] OTHER        -> "crashed"

(* _classify_exit *)
Classify(c) ==
  CASE c = 0 -> "stopped"
    [] c = 3 -> "refused"
    [] c = 4 -> "bad_config"
    [] OTHER -> "crashed"

SeeExit ==
  /\ sup = "watch" /\ srv = "exited"
  /\ Judge(Classify(code))
  /\ UNCHANGED <<srvVars, port, orphanVars, tx>>

(* Mutant of Kill: the process is given up, not killed. *)
KillNothing == UNCHANGED <<srvVars, port, orphanVars>>

(* _kill_child: the server itself dies, or a launcher in front of it.  One  *)
(* orphan is tracked: a second that is only spawned is refused the port.   *)
Kill ==
  /\ srv' = "exited" /\ code' = 1 /\ linked' = FALSE /\ hung' = FALSE /\ eof' = TRUE
  /\ UNCHANGED swallowed
  /\ \/ /\ Launcher /\ orphaned' = TRUE
        /\ orphan' = IF srv = "spawned" /\ orphan # "none" THEN orphan ELSE Orphaned
        /\ port' = IF port = "server" THEN "orphan" ELSE port
     \/ /\ UNCHANGED orphanVars
        /\ port' = IF port = "server" THEN "free" ELSE port

(* A call over its limit, or no answer for too long. *)
SeeStuck ==
  /\ sup = "watch" /\ Alive /\ (hung \/ srv = "spawned")
  /\ Judge("stuck") /\ Kill
  /\ UNCHANGED tx

(* Ctrl+C while watching: close the server's stdin and wait for it. *)
Interrupt ==
  /\ sup = "watch" /\ sup' = "closing"
  /\ eof' = TRUE
  /\ UNCHANGED <<outcome, ready, everReady, restarts, exit, forceVars,
                 srv, code, linked, hung, swallowed, port, orphanVars, tx>>

SeeClosed ==
  /\ sup = "closing" /\ srv = "exited"
  /\ Judge(IF code = 0 THEN "stopped" ELSE "interrupted")
  /\ UNCHANGED <<srvVars, port, orphanVars, tx>>

CloseTimesOut ==
  /\ sup = "closing" /\ Alive
  /\ Judge("interrupted") /\ Kill
  /\ UNCHANGED tx

-----------------------------------------------------------------------------
(* force_safe_fresh, in a process of its own. *)

Forced(ok) ==
  /\ sup' = "decide" /\ told' = ~ok
  /\ UNCHANGED <<outcome, ready, everReady, restarts, exit, srvVars, port,
                 orphanVars>>

ForceNoConnection ==
  /\ sup = "forcing" /\ attempt < Retries
  /\ attempt' = attempt + 1
  /\ IF attempt' = Retries
       THEN Forced(FALSE)
       ELSE UNCHANGED <<supVars, told, srvVars, port, orphanVars>>
  /\ UNCHANGED tx

(* Mutant of Verdict: the readback is not looked at. *)
VerdictIgnoresMask(mask) == TRUE

(* "ok": tx_mask in (None, 0) *)
Verdict(mask) == mask \in {"none", "zero"}

(* Connected: force_safe, whose errors are swallowed, then the readback. *)
ForceConnected ==
  /\ sup = "forcing" /\ attempt < Retries
  /\ attempt' = attempt + 1
  /\ tx' \in MadeSafe(tx)
  /\ \E mask \in {IF tx' = "off" THEN "zero" ELSE "live"}
                 \cup (IF ReadbackCanFail THEN {"none"} ELSE {}) :
       Forced(Verdict(mask))

(* The process took longer than force_safe_timeout_s and was killed. *)
ForceTimesOut ==
  /\ sup = "forcing"
  /\ tx' \in {tx, "off"}
  /\ Forced(FALSE) /\ UNCHANGED attempt

(* Ctrl+C in the middle of it leaves _loop with a traceback. *)
ForceInterrupted ==
  /\ sup = "forcing" /\ Ends("traceback")
  /\ UNCHANGED <<outcome, ready, everReady, restarts, forceVars, srvVars, port,
                 orphanVars, tx>>

-----------------------------------------------------------------------------

MayRestart(recent) == recent < RestartLimit

(* After force_safe: end, or restart.  Restarts older than the window are  *)
(* forgotten; how many those are is up to the clock.                       *)
Decide ==
  /\ sup = "decide"
  /\ IF outcome = "interrupted"
       THEN Ends(IF told THEN "crash" ELSE "ok") /\ UNCHANGED restarts
     ELSE IF ~everReady
       THEN Ends("startup") /\ UNCHANGED restarts
     ELSE \E recent \in 0..restarts :
       IF MayRestart(recent)
         THEN sup' = "backoff" /\ restarts' = recent + 1 /\ UNCHANGED exit
         ELSE Ends("crash") /\ restarts' = recent
  /\ UNCHANGED <<outcome, ready, everReady, forceVars, srvVars, port,
                 orphanVars, tx>>

BackoffEnds ==
  /\ sup = "backoff" /\ sup' = "spawn"
  /\ UNCHANGED <<outcome, ready, everReady, restarts, exit, forceVars, srvVars,
                 port, orphanVars, tx>>

BackoffInterrupted ==
  /\ sup = "backoff" /\ Ends("ok")
  /\ UNCHANGED <<outcome, ready, everReady, restarts, forceVars, srvVars, port,
                 orphanVars, tx>>

(* The supervisor is killed: the OS closes its end of the pipe. *)
SupervisorDies ==
  /\ sup \notin {"exit", "dead"} /\ sup' = "dead"
  /\ eof' = TRUE
  /\ UNCHANGED <<outcome, ready, everReady, restarts, exit, forceVars,
                 srv, code, linked, hung, swallowed, port, orphanVars, tx>>

-----------------------------------------------------------------------------
Watching  == Start \/ Spawn \/ SeeReady \/ SeeExit \/ SeeStuck \/ SeeClosed \/ CloseTimesOut
Forcing   == ForceNoConnection \/ ForceConnected \/ ForceTimesOut
Resuming  == Decide \/ BackoffEnds
Interrupts == Interrupt \/ ForceInterrupted \/ BackoffInterrupted \/ SupervisorDies

ServerSteps ==
  \/ SrvBadBackend \/ SrvRefused \/ SrvBind \/ SrvStarts \/ SrvStartFails
  \/ SrvWorks \/ SrvHangs \/ SrvReturns \/ SrvCrashes
  \/ AskStop \/ SrvSeesEof \/ SrvStops \/ SrvStopTimesOut
OrphanSteps == OrphanBinds \/ OrphanReturns \/ OrphanStops \/ OrphanTimesOut

(* Nothing is left to happen. *)
Over ==
  /\ sup \in {"exit", "dead"} /\ ~Alive /\ orphan = "none" /\ port # "foreign"
  /\ UNCHANGED vars

Next == Watching \/ Forcing \/ Resuming \/ Interrupts
        \/ ServerSteps \/ OrphanSteps \/ ForeignLeaves \/ Over

Spec == Init /\ [][Next]_vars

(* The supervisor's loop runs, its fresh process ends or is timed out, a   *)
(* server binds or is refused, sees its stdin closed, and a shutdown ends. *)
Fairness ==
  /\ WF_vars(Start \/ Spawn \/ SeeExit \/ SeeClosed \/ CloseTimesOut)
  /\ WF_vars(SeeStuck)
  /\ WF_vars(Forcing) /\ WF_vars(Resuming)
  /\ WF_vars(SrvRefused \/ SrvBind)
  /\ WF_vars(SrvSeesEof) /\ WF_vars(SrvStops \/ SrvStopTimesOut)

FairSpec == Spec /\ Fairness

-----------------------------------------------------------------------------
(* Safety *)

(* However the supervisor ends by itself, no signal one of its servers     *)
(* switched on is left on the board without its saying so, unless that     *)
(* server was asked to stop and its own safe_state failed: the failure is  *)
(* swallowed, the server exits 0 and the supervisor believes it.  (An      *)
(* orphan's call may switch TX on again after everything else has ended.)  *)
AbandonsNoSignal ==
  sup = "exit" /\ exit # "traceback" /\ ~orphaned =>
    tx # "ours" \/ told \/ swallowed

(* A server that failed is only replaced when its signal is off, or the    *)
(* operator has been told that it may not be.                              *)
ReplacesSafely ==
  sup \in {"decide", "backoff", "spawn"} /\ ~orphaned => tx # "ours" \/ told

(* Two servers never hold the board: a replacement waits, refused, until   *)
(* the orphan of its predecessor is gone.                                  *)
OneServerOnBoard == Serving => orphan \in {"none", "spawned"} /\ port = "server"

(* Why these hold: the board has no signal that was not told but that of a *)
(* linked server, of one that just crashed or of one that believed itself  *)
(* safe when it stopped, and a server runs only while it is watched.       *)
WatchInv ==
  /\ linked => srv \in {"ready", "stopping"}
  /\ srv = "ready" => linked
  /\ sup \in {"start", "spawn", "forcing", "decide", "backoff", "exit"} => ~Alive
  /\ sup = "start" => srv = "none"
  /\ swallowed => srv = "exited" /\ code = 0
  /\ ~orphaned /\ tx = "ours" =>
       /\ srv = "exited" /\ code # 1 => told \/ swallowed
       /\ srv \in {"spawned", "starting"} => told
       /\ srv = "stopping" /\ ~linked => told
       /\ srv # "none"

-----------------------------------------------------------------------------
(* Liveness *)

(* A hung server does not stay: its call returns, or it is killed. *)
HungServerEnds == hung ~> ~hung

(* "no unwatched server": when the supervisor is gone its server ends.     *)
NoUnwatchedServer == sup \in {"exit", "dead"} ~> ~Alive

=============================================================================
