-------------------------- MODULE SupervisorProofs --------------------------
(***************************************************************************)
(* The watchdog leaves no signal behind: for every restart limit and       *)
(* number of connection attempts, as long as no launcher has left an       *)
(* orphan, provided the DLL's calls in force_safe and safe_state work or   *)
(* the readback does; with one exception, the stop of a server whose own   *)
(* safe_state failed without its noticing.                                 *)
(***************************************************************************)
EXTENDS Supervisor, TLAPS

(* The state fits its types: an action leaves alone, or sets to a value of *)
(* its type, each of the counters, the flags and the modes.                *)

LEMMA TypeInit == Init => TypeOK
<1> SUFFICES ASSUME Init PROVE TypeOK
  OBVIOUS
<1>1. CountersOK
  BY ConstantsAssumption DEF Init, CountersOK
<1>2. FlagsOK
  BY Zenon DEF Init, FlagsOK
<1>3. ModesOK
  BY DEF Init, ModesOK
<1> QED BY <1>1, <1>2, <1>3 DEF TypeOK

LEMMA CountersStep == TypeOK /\ [Next]_vars => CountersOK'
<1> SUFFICES ASSUME TypeOK, [Next]_vars PROVE CountersOK'
  OBVIOUS
<1> USE ConstantsAssumption DEF TypeOK, CountersOK, supVars, forceVars, srvVars, orphanVars
<1>1. CASE Start \/ Spawn \/ SeeReady
  BY <1>1 DEF Start, Spawn, SeeReady
<1>2. CASE SeeExit \/ SeeStuck \/ SeeClosed \/ CloseTimesOut
  BY <1>2 DEF SeeExit, SeeStuck, SeeClosed, CloseTimesOut, Judge
<1>3. CASE Forcing
  BY <1>3 DEF Forcing, ForceNoConnection, ForceConnected, ForceTimesOut, Forced
<1>4. CASE Resuming
  BY <1>4 DEF Resuming, Decide, BackoffEnds, MayRestart
<1>5. CASE Interrupts
  BY <1>5 DEF Interrupts, Interrupt, ForceInterrupted, BackoffInterrupted, SupervisorDies
<1>6. CASE ServerSteps
  BY <1>6 DEF ServerSteps, SrvBadBackend, SrvRefused, SrvBind, SrvStarts, SrvStartFails,
              SrvWorks, SrvHangs, SrvReturns, SrvCrashes, AskStop, SrvSeesEof, SrvStops,
              SrvStopTimesOut,
              SrvExits, MadeSafe
<1>7. CASE OrphanSteps \/ ForeignLeaves \/ Over \/ UNCHANGED vars
  BY <1>7 DEF OrphanSteps, OrphanBinds, OrphanReturns, OrphanStops, OrphanTimesOut,
              MadeSafe, ForeignLeaves, Over, vars
<1> QED BY <1>1, <1>2, <1>3, <1>4, <1>5, <1>6, <1>7 DEF Next, Watching

LEMMA FlagsStep == TypeOK /\ [Next]_vars => FlagsOK'
<1> SUFFICES ASSUME TypeOK, [Next]_vars PROVE FlagsOK'
  OBVIOUS
<1> USE DEF TypeOK, FlagsOK, supVars, forceVars, srvVars, orphanVars
<1>1. CASE Start \/ Spawn \/ SeeReady
  BY <1>1 DEF Start, Spawn, SeeReady, Ends
<1>2. CASE SeeExit \/ SeeClosed
  BY <1>2 DEF SeeExit, SeeClosed, Judge, Ends, Classify
<1>3. CASE SeeStuck \/ CloseTimesOut
  BY <1>3 DEF SeeStuck, CloseTimesOut, Judge, Ends, Kill, Orphaned
<1>4. CASE Forcing
  BY <1>4 DEF Forcing, ForceNoConnection, ForceConnected, ForceTimesOut, Forced, Verdict,
              MadeSafe
<1>5. CASE Resuming
  BY <1>5 DEF Resuming, Decide, BackoffEnds, MayRestart, Ends
<1>6. CASE Interrupts
  BY <1>6 DEF Interrupts, Interrupt, ForceInterrupted, BackoffInterrupted, SupervisorDies, Ends
<1>7. CASE SrvBadBackend \/ SrvRefused \/ SrvStartFails \/ SrvCrashes \/ SrvStops \/ SrvStopTimesOut
  BY <1>7 DEF SrvBadBackend, SrvRefused, SrvStartFails, SrvCrashes, SrvStops, SrvStopTimesOut,
              SrvExits, MadeSafe
<1>8. CASE SrvBind \/ SrvStarts \/ SrvWorks \/ SrvHangs \/ SrvReturns \/ AskStop \/ SrvSeesEof
  BY <1>8 DEF SrvBind, SrvStarts, SrvWorks, SrvHangs, SrvReturns, AskStop, SrvSeesEof,
              MadeSafe
<1>9. CASE OrphanSteps \/ ForeignLeaves \/ Over \/ UNCHANGED vars
  BY <1>9 DEF OrphanSteps, OrphanBinds, OrphanReturns, OrphanStops, OrphanTimesOut,
              MadeSafe, ForeignLeaves, Over, vars
<1> QED BY <1>1, <1>2, <1>3, <1>4, <1>5, <1>6, <1>7, <1>8, <1>9 DEF Next, Watching, ServerSteps

LEMMA ModesStep == TypeOK /\ [Next]_vars => ModesOK'
<1> SUFFICES ASSUME TypeOK, [Next]_vars PROVE ModesOK'
  OBVIOUS
<1> USE DEF TypeOK, ModesOK, supVars, forceVars, srvVars, orphanVars
<1>1. CASE Start \/ Spawn \/ SeeReady
  BY <1>1 DEF Start, Spawn, SeeReady, Ends
<1>2. CASE SeeExit \/ SeeClosed
  BY <1>2 DEF SeeExit, SeeClosed, Judge, Ends, Classify
<1>3. CASE SeeStuck \/ CloseTimesOut
  BY <1>3 DEF SeeStuck, CloseTimesOut, Judge, Ends, Kill, Orphaned
<1>4. CASE Forcing
  BY <1>4 DEF Forcing, ForceNoConnection, ForceConnected, ForceTimesOut, Forced, Verdict,
              MadeSafe
<1>5. CASE Resuming
  BY <1>5 DEF Resuming, Decide, BackoffEnds, MayRestart, Ends
<1>6. CASE Interrupts
  BY <1>6 DEF Interrupts, Interrupt, ForceInterrupted, BackoffInterrupted, SupervisorDies, Ends
<1>7. CASE SrvBadBackend \/ SrvRefused \/ SrvStartFails \/ SrvCrashes \/ SrvStops \/ SrvStopTimesOut
  BY <1>7 DEF SrvBadBackend, SrvRefused, SrvStartFails, SrvCrashes, SrvStops, SrvStopTimesOut,
              SrvExits, MadeSafe
<1>8. CASE SrvBind \/ SrvStarts \/ SrvWorks \/ SrvHangs \/ SrvReturns \/ AskStop \/ SrvSeesEof
  BY <1>8 DEF SrvBind, SrvStarts, SrvWorks, SrvHangs, SrvReturns, AskStop, SrvSeesEof,
              MadeSafe
<1>9. CASE OrphanSteps \/ ForeignLeaves \/ Over \/ UNCHANGED vars
  BY <1>9 DEF OrphanSteps, OrphanBinds, OrphanReturns, OrphanStops, OrphanTimesOut,
              MadeSafe, ForeignLeaves, Over, vars
<1> QED BY <1>1, <1>2, <1>3, <1>4, <1>5, <1>6, <1>7, <1>8, <1>9 DEF Next, Watching, ServerSteps

LEMMA TypeStep == TypeOK /\ [Next]_vars => TypeOK'
BY CountersStep, FlagsStep, ModesStep DEF TypeOK

THEOREM TypeCorrect == Spec => []TypeOK
BY TypeInit, TypeStep, PTL DEF Spec

-----------------------------------------------------------------------------
(* The inductive invariant *)

NoOrphan == ~orphaned => orphan = "none"
IInv == WatchInv /\ NoOrphan /\ ReplacesSafely /\ AbandonsNoSignal

Quiet == tx # "ours" \/ told

LEMMA IInvInit == Init => IInv
BY DEF Init, IInv, WatchInv, NoOrphan, ReplacesSafely, AbandonsNoSignal, Alive

LEMMA IInvWatching ==
  ASSUME TypeOK, IInv, Watching PROVE IInv'
<1> USE DEF IInv, WatchInv, NoOrphan, ReplacesSafely, AbandonsNoSignal, Alive, Quiet,
            supVars, forceVars, srvVars, orphanVars
<1>1. CASE Start
  BY <1>1 DEF Start, Ends
<1>2. CASE Spawn
  BY <1>2 DEF Spawn
<1>3. CASE SeeReady
  BY <1>3 DEF SeeReady
<1>4. CASE SeeExit
  <2>1. /\ srv = "exited" /\ UNCHANGED <<srvVars, port, orphanVars, tx, told>>
        /\ sup' \in {"exit", "forcing"}
        /\ sup' = "exit" => code # 1
    BY <1>4 DEF SeeExit, Judge, Ends, Classify
  <2> QED BY <2>1
<1>5. CASE SeeStuck \/ CloseTimesOut
  <2>1. /\ sup' = "forcing" /\ srv' = "exited" /\ code' = 1 /\ ~linked'
        /\ orphaned' \/ UNCHANGED orphanVars
        /\ UNCHANGED <<tx, told>> /\ ~swallowed'
    BY <1>5 DEF SeeStuck, CloseTimesOut, Judge, Kill
  <2> QED BY <2>1
<1>6. CASE SeeClosed
  <2>1. /\ srv = "exited" /\ UNCHANGED <<srvVars, port, orphanVars, tx, told>>
        /\ sup' \in {"exit", "forcing"}
        /\ sup' = "exit" => code # 1
    BY <1>6 DEF SeeClosed, Judge, Ends
  <2> QED BY <2>1
<1> QED BY <1>1, <1>2, <1>3, <1>4, <1>5, <1>6 DEF Watching

LEMMA IInvForcing ==
  ASSUME ~(SafeCanFail /\ ReadbackCanFail), TypeOK, IInv, Forcing PROVE IInv'
<1> USE DEF IInv, WatchInv, NoOrphan, ReplacesSafely, AbandonsNoSignal, Alive, Quiet,
            supVars, forceVars, srvVars, orphanVars
<1>1. CASE ForceNoConnection
  BY <1>1 DEF ForceNoConnection, Forced
<1>2. CASE ForceConnected
  <2>1. PICK mask \in {IF tx' = "off" THEN "zero" ELSE "live"}
                 \cup (IF ReadbackCanFail THEN {"none"} ELSE {}) : Forced(Verdict(mask))
    BY <1>2 DEF ForceConnected
  <2>2. tx' \in {tx, "off"} /\ (~SafeCanFail => tx' = "off")
    BY <1>2 DEF ForceConnected, MadeSafe
  <2>3. Verdict(mask) => tx' = "off"
    BY <2>1, <2>2 DEF Verdict
  <2>4. sup' = "decide" /\ told' = ~Verdict(mask) /\ UNCHANGED <<exit, srvVars, orphanVars>>
    BY <2>1 DEF Forced
  <2> QED BY <2>2, <2>3, <2>4, <1>2 DEF ForceConnected
<1>3. CASE ForceTimesOut
  BY <1>3 DEF ForceTimesOut, Forced
<1> QED BY <1>1, <1>2, <1>3 DEF Forcing

LEMMA IInvServer ==
  ASSUME TypeOK, IInv, ServerSteps PROVE IInv'
<1> USE DEF IInv, WatchInv, NoOrphan, ReplacesSafely, AbandonsNoSignal, Alive, Quiet,
            supVars, forceVars, srvVars, orphanVars
<1>1. CASE SrvBadBackend \/ SrvRefused \/ SrvStartFails
  BY <1>1 DEF SrvBadBackend, SrvRefused, SrvStartFails, SrvExits, TypeOK
<1>2. CASE SrvCrashes \/ SrvStopTimesOut
  BY <1>2 DEF SrvCrashes, SrvStopTimesOut, SrvExits, TypeOK
<1>6. CASE SrvStops
  <2>1. /\ srv = "stopping" /\ srv' = "exited" /\ code' = 0 /\ linked' = FALSE
        /\ UNCHANGED <<supVars, told, orphanVars>>
    BY <1>6 DEF SrvStops, SrvExits
  <2>2. linked \/ tx' # "ours" \/ tx = "ours"
    BY <1>6 DEF SrvStops
  <2>3. tx' = "ours" /\ linked => swallowed'
    BY <1>6 DEF SrvStops
  <2>4. tx' = "ours" /\ ~linked /\ ~orphaned => told
    BY <2>1, <2>2
  <2>5. sup # "exit" /\ sup \notin {"decide", "backoff", "spawn"}
    BY <2>1
  <2> QED BY <2>1, <2>3, <2>4, <2>5
<1>3. CASE SrvBind \/ SrvStarts
  BY <1>3 DEF SrvBind, SrvStarts, TypeOK
<1>4. CASE SrvWorks \/ SrvHangs \/ SrvReturns
  BY <1>4 DEF SrvWorks, SrvHangs, SrvReturns
<1>5. CASE AskStop \/ SrvSeesEof
  BY <1>5 DEF AskStop, SrvSeesEof
<1> QED BY <1>1, <1>2, <1>3, <1>4, <1>5, <1>6 DEF ServerSteps

LEMMA IInvStep ==
  ASSUME ~(SafeCanFail /\ ReadbackCanFail)
  PROVE  TypeOK /\ IInv /\ [Next]_vars => IInv'
<1> SUFFICES ASSUME TypeOK, IInv, [Next]_vars PROVE IInv'
  OBVIOUS
<1>1. CASE Watching
  BY <1>1, IInvWatching
<1>2. CASE Forcing
  BY <1>2, IInvForcing
<1>3. CASE ServerSteps
  BY <1>3, IInvServer
<1>4. CASE Resuming \/ Interrupts \/ ForeignLeaves
  BY <1>4
  DEF Resuming, Decide, BackoffEnds, Interrupts, Interrupt, ForceInterrupted,
      BackoffInterrupted, SupervisorDies, ForeignLeaves, Ends, IInv, WatchInv, NoOrphan,
      ReplacesSafely, AbandonsNoSignal, Alive, supVars, forceVars, srvVars, orphanVars
<1>5. CASE OrphanSteps
  <2>1. orphaned /\ orphaned'
    BY <1>5 DEF IInv, NoOrphan, OrphanSteps, OrphanBinds, OrphanReturns, OrphanStops,
                OrphanTimesOut
  <2>2. UNCHANGED <<supVars, forceVars, srvVars>>
    BY <1>5 DEF OrphanSteps, OrphanBinds, OrphanReturns, OrphanStops, OrphanTimesOut
  <2> QED
    BY <2>1, <2>2 DEF IInv, WatchInv, NoOrphan, ReplacesSafely, AbandonsNoSignal, Alive,
                      supVars, srvVars
<1>6. CASE Over \/ UNCHANGED vars
  BY <1>6 DEF Over, vars, IInv, WatchInv, NoOrphan, ReplacesSafely, AbandonsNoSignal, Alive,
              supVars, forceVars, srvVars, orphanVars
<1> QED BY <1>1, <1>2, <1>3, <1>4, <1>5, <1>6 DEF Next

(* However the supervisor ends by itself, it ends with its servers' signal  *)
(* off or the operator told that it may not be, unless the last server was *)
(* asked to stop and exited 0 on a safe_state that had failed.             *)
THEOREM NoSignalAbandoned ==
  ASSUME ~(SafeCanFail /\ ReadbackCanFail)
  PROVE  Spec => []AbandonsNoSignal
<1>1. IInv => AbandonsNoSignal
  BY DEF IInv
<1> QED BY <1>1, IInvInit, IInvStep, TypeCorrect, PTL DEF Spec

(* A failed server is replaced only with its signal off, or with the        *)
(* operator told that it may not be.                                       *)
THEOREM ReplacedSafely ==
  ASSUME ~(SafeCanFail /\ ReadbackCanFail)
  PROVE  Spec => []ReplacesSafely
<1>1. IInv => ReplacesSafely
  BY DEF IInv
<1> QED BY <1>1, IInvInit, IInvStep, TypeCorrect, PTL DEF Spec

-----------------------------------------------------------------------------
(* One server on the board *)

(* The port names the one server that may touch the board: the running one, *)
(* or the orphan of the one before it, and no orphan but one still waiting *)
(* for the port can be left beside a running server.                       *)
BoardInv ==
  /\ Serving <=> port = "server"
  /\ orphan \in {"starting", "busy", "idle"} <=> port = "orphan"
  /\ linked => srv \in {"ready", "stopping"}
  /\ sup \in {"start", "spawn", "forcing", "decide", "backoff", "exit"} => ~Alive

LEMMA BoardInvInit == Init => BoardInv
BY DEF Init, BoardInv, Serving, Alive

LEMMA BoardInvServer ==
  ASSUME TypeOK, BoardInv, ServerSteps PROVE BoardInv'
<1> USE DEF BoardInv, Serving, Alive, supVars, forceVars, srvVars, orphanVars
<1>1. CASE SrvBadBackend \/ SrvRefused \/ SrvStartFails
  BY <1>1 DEF SrvBadBackend, SrvRefused, SrvStartFails, SrvExits
<1>2. CASE SrvCrashes \/ SrvStops \/ SrvStopTimesOut
  BY <1>2 DEF SrvCrashes, SrvStops, SrvStopTimesOut,
              SrvExits, MadeSafe
<1>3. CASE SrvBind \/ SrvStarts
  BY <1>3 DEF SrvBind, SrvStarts
<1>4. CASE SrvWorks \/ SrvHangs \/ SrvReturns \/ AskStop \/ SrvSeesEof
  BY <1>4 DEF SrvWorks, SrvHangs, SrvReturns, AskStop, SrvSeesEof
<1> QED BY <1>1, <1>2, <1>3, <1>4 DEF ServerSteps

(* A killed launcher leaves its server as the orphan that has the port.    *)
LEMMA BoardInvKill ==
  ASSUME TypeOK, BoardInv, Alive, Kill,
         sup' \in {"exit", "forcing"}
  PROVE  BoardInv'
<1>1. srv' = "exited" /\ linked' = FALSE
  BY DEF Kill
<1>2. CASE orphaned' = TRUE /\ port' = (IF port = "server" THEN "orphan" ELSE port)
           /\ orphan' = (IF srv = "spawned" /\ orphan # "none" THEN orphan ELSE Orphaned)
  <2>1. CASE srv = "spawned"
    <3>1. Orphaned = "spawned" /\ port # "server"
      BY <2>1 DEF Orphaned, BoardInv, Serving
    <3> QED BY <1>1, <1>2, <2>1, <3>1 DEF BoardInv, Serving, Alive
  <2>2. CASE srv # "spawned"
    <3>1. port = "server" /\ Serving
      BY <2>2 DEF BoardInv, Serving, Alive
    <3>2. Orphaned \in {"starting", "busy", "idle"}
      BY <2>2 DEF Orphaned, TypeOK, FlagsOK
    <3> QED BY <1>1, <1>2, <2>2, <3>1, <3>2 DEF BoardInv, Serving, Alive
  <2> QED BY <2>1, <2>2
<1>3. CASE UNCHANGED orphanVars /\ port' = (IF port = "server" THEN "free" ELSE port)
  BY <1>1, <1>3 DEF BoardInv, Serving, Alive, orphanVars
<1> QED BY <1>2, <1>3 DEF Kill

LEMMA BoardInvWatching ==
  ASSUME TypeOK, BoardInv, Watching PROVE BoardInv'
<1>1. CASE Start \/ Spawn \/ SeeReady
  BY <1>1 DEF Start, Spawn, SeeReady, Ends, BoardInv, Serving, Alive, srvVars, orphanVars
<1>2. CASE SeeExit \/ SeeClosed
  BY <1>2 DEF SeeExit, SeeClosed, BoardInv, Serving, Alive, srvVars, orphanVars
<1>3. CASE SeeStuck \/ CloseTimesOut
  <2>1. sup' \in {"exit", "forcing"} /\ Alive /\ Kill
    BY <1>3 DEF SeeStuck, CloseTimesOut, Judge, Ends
  <2> QED BY <2>1, BoardInvKill
<1> QED BY <1>1, <1>2, <1>3 DEF Watching

LEMMA BoardInvStep == TypeOK /\ BoardInv /\ [Next]_vars => BoardInv'
<1> SUFFICES ASSUME TypeOK, BoardInv, [Next]_vars PROVE BoardInv'
  OBVIOUS
<1>1. CASE Watching
  BY <1>1, BoardInvWatching
<1>2. CASE ServerSteps
  BY <1>2, BoardInvServer
<1>3. CASE Forcing
  BY <1>3
  DEF Forcing, ForceNoConnection, ForceConnected, ForceTimesOut, Forced, BoardInv, Serving,
      Alive, supVars, srvVars, orphanVars
<1>4. CASE Resuming \/ Interrupts
  BY <1>4
  DEF Resuming, Decide, BackoffEnds, Interrupts, Interrupt, ForceInterrupted,
      BackoffInterrupted, SupervisorDies, Ends, BoardInv, Serving, Alive, srvVars, orphanVars
<1>5. CASE OrphanSteps \/ ForeignLeaves
  BY <1>5
  DEF OrphanSteps, OrphanBinds, OrphanReturns, OrphanStops, OrphanTimesOut, ForeignLeaves,
      BoardInv, Serving, Alive, supVars, srvVars, orphanVars
<1>6. CASE Over \/ UNCHANGED vars
  BY <1>6 DEF Over, vars, BoardInv, Serving, Alive, supVars, srvVars, orphanVars
<1> QED BY <1>1, <1>2, <1>3, <1>4, <1>5, <1>6 DEF Next

(* Whatever crashes, hangs or is killed, launcher or not: a server runs     *)
(* only with the port, and never beside an orphan that has reached the     *)
(* board.                                                                  *)
THEOREM OneServer == Spec => []OneServerOnBoard
<1>1. BoardInv => OneServerOnBoard \/ ~TypeOK
  BY DEF BoardInv, OneServerOnBoard, TypeOK, ModesOK
<1> QED BY <1>1, BoardInvInit, BoardInvStep, TypeCorrect, PTL DEF Spec
=============================================================================
