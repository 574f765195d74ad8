------------------------ MODULE HardwareServerProofs ------------------------
(* Theorems about HardwareServer. *)
EXTENDS HardwareServer, SequenceTheorems, TLAPS

-----------------------------------------------------------------------------
(* Queues of jobs *)

LEMMA AppendIn ==
  ASSUME NEW S, NEW q \in Seq(S), NEW e \in S, NEW j
  PROVE  In(j, Append(q, e)) <=> In(j, q) \/ j = e
BY DEF In

LEMMA TailIn ==
  ASSUME NEW S, NEW q \in Seq(S), q # <<>>, NEW j
  PROVE  In(j, q) <=> j = Head(q) \/ In(j, Tail(q))
<1>1. /\ Head(q) = q[1] /\ Len(Tail(q)) = Len(q) - 1 /\ Len(q) \in Nat \ {0}
      /\ \A i \in 1..Len(Tail(q)) : Tail(q)[i] = q[i + 1]
  BY HeadTailProperties, EmptySeq
<1>2. In(j, q) => j = Head(q) \/ In(j, Tail(q))
  <2> SUFFICES ASSUME NEW i \in 1..Len(q), q[i] = j, i # 1
               PROVE  In(j, Tail(q))
    BY <1>1 DEF In
  <2>1. i - 1 \in 1..Len(Tail(q)) /\ Tail(q)[i - 1] = q[i]
    BY <1>1
  <2> QED BY <2>1 DEF In
<1>3. j = Head(q) \/ In(j, Tail(q)) => In(j, q)
  BY <1>1 DEF In
<1> QED BY <1>2, <1>3

-----------------------------------------------------------------------------
(* Type correctness *)

(* The queue of waiting clients stays a queue of clients when one leaves.  *)
LEMMA WithoutWaiterType ==
  ASSUME waiters \in Seq(Conn), NEW c \in Conn, In(c, waiters)
  PROVE  WithoutWaiter(c) \in Seq(Conn)
<1>1. Position(c) \in 1..Len(waiters) /\ waiters[Position(c)] = c
  BY DEF In, Position
<1>2. Len(waiters) - 1 \in Nat
  BY <1>1
<1>3. \A i \in 1..(Len(waiters) - 1) :
        (IF i < Position(c) THEN waiters[i] ELSE waiters[i + 1]) \in Conn
  BY <1>1
<1> QED BY <1>2, <1>3, IsASeq DEF WithoutWaiter

LEMMA GotoType ==
  ASSUME TypeOK, NEW t \in Thread, NEW l \in PC, NEW o \in Op,
         NEW g \in Lease \cup {NoLease}, Goto(t, l, o, g)
  PROVE  /\ pc' \in [Thread -> PC]
         /\ op' \in [Thread -> Op]
         /\ target' \in [Thread -> Lease \cup {NoLease}]
BY DEF TypeOK, Goto

LEMMA JobTypes ==
  /\ NoJob \in Job /\ StartupJob \in Job /\ ShutdownJob \in Job
  /\ \A l \in Lease \cup {NoLease} :
       /\ SafeThenFree(l) \in Job
       /\ \A c \in Conn : CallJob(c, l) \in Job
  /\ \A c \in Conn : SafeOnly(c) \in Job /\ StatusJob(c) \in Job
BY DEF Job, JobKind, Thread, NoJob, StartupJob, ShutdownJob, SafeThenFree,
       CallJob, SafeOnly, StatusJob

LEMMA InitType == Init => TypeOK
<1> SUFFICES ASSUME Init PROVE TypeOK
  OBVIOUS
<1>1. urgent \in Seq(Job) /\ normal \in Seq(Job) /\ running \in Job
  BY JobTypes DEF Init
<1>2. /\ pc \in [Thread -> PC] /\ op \in [Thread -> Op]
      /\ target \in [Thread -> Lease \cup {NoLease}]
      /\ sess \in [Conn -> Lease \cup {NoLease}] /\ gone \in [Conn -> BOOLEAN]
  BY DEF Init, PC, Op
<1>3. waiters \in Seq(Conn) /\ active \subseteq Lease /\ holding \subseteq Conn
  BY DEF Init
<1> QED
  BY <1>1, <1>2, <1>3 DEF Init, TypeOK

USE DEF lifeVars, leaseVars, queueVars, connVars, hwVars, boardVars, histVars

(* _end_lease keeps the types, whichever thread calls it. *)
LEMMA EndType ==
  ASSUME TypeOK, NEW t \in Thread, EndLease(t) \/ EndSubmit(t)
  PROVE  TypeOK'
<1>1. target[t] \in Lease \cup {NoLease} /\ op[t] \in Op
  BY DEF TypeOK
<1>2. CASE EndLease(t)
  <2>1. \/ Goto(t, "end_submit", op[t], target[t])
        \/ Goto(t, "safe_submit", "safe", NoLease)
        \/ Goto(t, "closed", "none", NoLease)
        \/ Goto(t, "idle", "none", NoLease)
        \/ Goto(t, "recv", "none", NoLease)
    BY <1>2 DEF EndLease, NothingToEnd
  <2>2. /\ pc' \in [Thread -> PC] /\ op' \in [Thread -> Op]
        /\ target' \in [Thread -> Lease \cup {NoLease}]
    BY <1>1, <2>1, GotoType DEF PC, Op
  <2>3. ending' \in BOOLEAN /\ active' \subseteq Lease
        /\ owner' \in Lease \cup {NoLease}
    BY <1>2 DEF EndLease, MarkEnded, TypeOK
  <2> QED BY <1>2, <2>2, <2>3 DEF EndLease, TypeOK
<1>3. CASE EndSubmit(t)
  <2>1. \/ Goto(t, "closed", "none", NoLease)
        \/ Goto(t, "idle", "none", NoLease)
        \/ Goto(t, "wait", op[t], target[t])
    BY <1>3 DEF EndSubmit
  <2>2. /\ pc' \in [Thread -> PC] /\ op' \in [Thread -> Op]
        /\ target' \in [Thread -> Lease \cup {NoLease}]
    BY <1>1, <2>1, GotoType DEF PC, Op
  <2> QED BY <1>1, <1>3, <2>2, JobTypes DEF EndSubmit, TypeOK
<1> QED BY <1>2, <1>3

(* A step of a connection thread or its client keeps the types. *)
LEMMA ConnType ==
  ASSUME TypeOK, NEW c \in Conn, Client(c) \/ Serve(c)
  PROVE  TypeOK'
<1> c \in Thread
  BY DEF Thread
<1> USE GotoType, JobTypes, ConstantsAssumption
<1>1. CASE Connect(c)
  BY <1>1 DEF Connect, TypeOK, PC, Op
<1>2. CASE ClientDies(c)
  BY <1>2 DEF ClientDies, TypeOK
<1>3. ASSUME NEW wait \in BOOLEAN, Acquire(c, wait) PROVE TypeOK'
  BY <1>3 DEF Acquire, TypeOK, PC, Op
<1>4. CASE CallBegin(c)
  BY <1>4 DEF CallBegin, TypeOK, PC, Op
<1>5. CASE Release(c)
  BY <1>5 DEF Release, TypeOK, PC, Op
<1>6. CASE Safe(c)
  BY <1>6 DEF Safe, TypeOK, PC, Op
<1>7. CASE Kick(c)
  BY <1>7 DEF Kick, TypeOK, PC, Op
<1>8. CASE Resume(c)
  BY <1>8 DEF Resume, TypeOK
<1>9. CASE Stop(c)
  BY <1>9 DEF Stop, TypeOK, PC, Op
<1>10. CASE StatusBegin(c)
  BY <1>10 DEF StatusBegin, TypeOK, PC, Op
<1>11. CASE LeaveQueue(c)
  <2>1. waiters' \in Seq(Conn)
    BY <1>11, WithoutWaiterType DEF LeaveQueue, TypeOK
  <2> QED BY <1>11, <2>1 DEF LeaveQueue, TypeOK, PC, Op
<1>12. CASE ConnectionLost(c)
  BY <1>12 DEF ConnectionLost, TypeOK, PC, Op
<1>13. ASSUME NEW l \in Lease, Grant(c, l) PROVE TypeOK'
  BY <1>13 DEF Grant, TypeOK, PC, Op
<1>14. CASE CallSubmit(c)
  <2>1. target[c] \in Lease \cup {NoLease}
    BY DEF TypeOK
  <2> QED BY <1>14, <2>1 DEF CallSubmit, TypeOK, PC, Op
<1>15. CASE CallReturn(c)
  BY <1>15 DEF CallReturn, TypeOK, PC, Op
<1>16. CASE SafeOwner(c)
  BY <1>16 DEF SafeOwner, TypeOK, PC, Op
<1>17. CASE SafeSubmit(c)
  BY <1>17 DEF SafeSubmit, TypeOK, PC, Op
<1>18. CASE StopSet(c)
  BY <1>18 DEF StopSet, TypeOK, PC, Op
<1>19. CASE StatusSubmit(c)
  BY <1>19 DEF StatusSubmit, TypeOK, PC, Op
<1>20. CASE StatusReturn(c)
  BY <1>20 DEF StatusReturn, TypeOK, PC, Op
<1>21. CASE WaitDone(c)
  BY <1>21 DEF WaitDone, TypeOK, PC, Op
<1>22. CASE WaitTimeout(c)
  BY <1>22 DEF WaitTimeout, TypeOK, PC, Op
<1>23. CASE EndLease(c) \/ EndSubmit(c)
  BY <1>23, EndType
<1> QED
  BY <1>1, <1>2, <1>3, <1>4, <1>5, <1>6, <1>7, <1>8, <1>9, <1>10, <1>11, <1>12,
     <1>13, <1>14, <1>15, <1>16, <1>17, <1>18, <1>19, <1>20, <1>21, <1>22, <1>23
  DEF Client, Serve

(* A step of the hardware thread keeps the types. *)
LEMMA HardwareType ==
  ASSUME TypeOK, Hardware
  PROVE  TypeOK'
<1> NoJob \in Job
  BY JobTypes
<1>1. CASE HwGet
  <2>1. running' \in Job /\ urgent' \in Seq(Job) /\ normal' \in Seq(Job)
    <3>1. /\ urgent # <<>> => Head(urgent) \in Job /\ Tail(urgent) \in Seq(Job)
          /\ normal # <<>> => Head(normal) \in Job /\ Tail(normal) \in Seq(Job)
      BY HeadTailProperties DEF TypeOK
    <3> QED BY <1>1, <3>1 DEF HwGet, TakeFirst, TypeOK
  <2> QED BY <1>1, <2>1 DEF HwGet, TypeOK
<1>2. CASE HwStart
  BY <1>2 DEF HwStart, TypeOK
<1>3. CASE HwRefuse
  BY <1>3 DEF HwRefuse, TypeOK
<1>4. ASSUME NEW outcome \in {"ok", "no_connect", "no_program"}, HwStartup(outcome)
      PROVE  TypeOK'
  BY <1>4 DEF HwStartup, Finish, TypeOK
<1>5. ASSUME NEW on \in BOOLEAN, HwCall(on) PROVE TypeOK'
  <2>1. running.lease \in Lease \cup {NoLease}
    BY DEF TypeOK, Job
  <2>2. running' \in Job /\ current' \in BOOLEAN
    BY <1>5 DEF HwCall, Finish
  <2>3. tx' \in Lease \cup {NoLease, PrevProcess}
    BY <1>5, <2>1 DEF HwCall
  <2> QED BY <1>5, <2>2, <2>3 DEF HwCall, TypeOK
<1>6. CASE HwSafeOnly
  BY <1>6 DEF HwSafeOnly, Finish, SafeState, TypeOK
<1>7. CASE HwSafeThenFree
  BY <1>7 DEF HwSafeThenFree, Finish, SafeState, TypeOK
<1>8. CASE HwShutdown
  BY <1>8 DEF HwShutdown, Finish, SafeState, TypeOK
<1>9. CASE HwStatus
  <2>1. running' \in Job /\ current' \in BOOLEAN
    BY <1>9 DEF HwStatus, Finish
  <2> QED BY <1>9, <2>1 DEF HwStatus, TypeOK
<1> QED
  BY <1>1, <1>2, <1>3, <1>4, <1>5, <1>6, <1>7, <1>8, <1>9 DEF Hardware

(* A step of the monitor or the main thread keeps the types. *)
LEMMA MainType ==
  ASSUME TypeOK,
         \/ \E o \in {"silent", "idle_limit"} : MonitorScan(o)
         \/ MonitorEnds \/ Main
  PROVE  TypeOK'
<1> Monitor \in Thread
  BY DEF Thread
<1>1. ASSUME NEW o \in {"silent", "idle_limit"}, MonitorScan(o) PROVE TypeOK'
  <2>1. owner \in Lease \cup {NoLease}
    BY DEF TypeOK
  <2>2. Goto(Monitor, "end", o, owner)
    BY <1>1 DEF MonitorScan
  <2>3. /\ pc' \in [Thread -> PC] /\ op' \in [Thread -> Op]
        /\ target' \in [Thread -> Lease \cup {NoLease}]
    BY <2>1, <2>2, GotoType DEF PC, Op
  <2> QED BY <1>1, <2>3 DEF MonitorScan, TypeOK
<1>2. CASE MonitorEnds
  BY <1>2, EndType DEF MonitorEnds
<1>3. CASE SignalStop
  BY <1>3 DEF SignalStop, TypeOK
<1>4. CASE ShutdownBegin
  <2>1. urgent' \in Seq(Job)
    BY <1>4, JobTypes DEF ShutdownBegin, TypeOK
  <2> QED BY <1>4, <2>1 DEF ShutdownBegin, TypeOK
<1>5. CASE ShutdownDone
  BY <1>5 DEF ShutdownDone, TypeOK
<1>6. CASE ShutdownTimeout
  BY <1>6 DEF ShutdownTimeout, TypeOK
<1> QED
  BY <1>1, <1>2, <1>3, <1>4, <1>5, <1>6 DEF Main

(* Every variable keeps its type. *)
THEOREM TypeCorrect == Spec => []TypeOK
<1>1. Init => TypeOK
  BY InitType
<1>2. TypeOK /\ [Next]_vars => TypeOK'
  <2> SUFFICES ASSUME TypeOK, [Next]_vars PROVE TypeOK'
    OBVIOUS
  <2>1. CASE Running
    BY <2>1, ConnType, HardwareType, MainType DEF Running
  <2>2. CASE UNCHANGED vars
    BY <2>2 DEF vars, TypeOK
  <2> QED BY <2>1, <2>2 DEF Next, Exited
<1> QED BY <1>1, <1>2, PTL DEF Spec

-----------------------------------------------------------------------------
(* QueueInv is inductive. *)

LEMMA QueueInvInit == Init => QueueInv
BY DEF Init, QueueInv, StartupJob

(* Taking the first job of a queue leaves a queue of the same jobs. *)
LEMMA FirstJob ==
  ASSUME NEW q \in Seq(Job), q # <<>>
  PROVE  /\ Head(q) = q[1] /\ 1 \in 1..Len(q)
         /\ Tail(q) \in Seq(Job) /\ Len(Tail(q)) = Len(q) - 1
         /\ \A i \in 1..Len(Tail(q)) : i + 1 \in 1..Len(q) /\ Tail(q)[i] = q[i + 1]
BY HeadTailProperties, EmptySeq

LEMMA AppendJob ==
  ASSUME NEW q \in Seq(Job), NEW j \in Job
  PROVE  /\ Append(q, j) \in Seq(Job) /\ Len(Append(q, j)) = Len(q) + 1
         /\ \A i \in 1..Len(Append(q, j)) :
              \/ i \in 1..Len(q) /\ Append(q, j)[i] = q[i]
              \/ i = Len(q) + 1 /\ Append(q, j)[i] = j
         /\ \A i \in 1..Len(q) : Append(q, j)[i] = q[i]
OBVIOUS

(* Putting a job of the right kind into a queue keeps the queues in order. *)
LEMMA QueueUrgent ==
  ASSUME TypeOK, QueueInv, NEW j \in Job,
         j.kind \in {"startup", "shutdown", "safe_then_free", "safe_only"},
         urgent' = Append(urgent, j), UNCHANGED <<normal, running, current>>
  PROVE  QueueInv'
<1>1. urgent \in Seq(Job)
  BY DEF TypeOK
<1>2. \A i \in 1..Len(urgent') :
        urgent'[i].kind \in {"startup", "shutdown", "safe_then_free", "safe_only"}
  BY <1>1, AppendJob DEF QueueInv
<1> QED BY <1>2 DEF QueueInv

LEMMA QueueNormal ==
  ASSUME TypeOK, QueueInv, NEW j \in Job, j.kind \in {"call", "status"},
         normal' = Append(normal, j), UNCHANGED <<urgent, running, current>>
  PROVE  QueueInv'
<1>1. normal \in Seq(Job)
  BY DEF TypeOK
<1>2. \A i \in 1..Len(normal') : normal'[i].kind \in {"call", "status"}
  BY <1>1, AppendJob DEF QueueInv
<1> QED BY <1>2 DEF QueueInv

LEMMA QueueInvStep == TypeOK /\ QueueInv /\ [Next]_vars => QueueInv'
<1> SUFFICES ASSUME TypeOK, QueueInv, [Next]_vars PROVE QueueInv'
  OBVIOUS
<1>1. ASSUME NEW c \in Conn, Client(c) PROVE QueueInv'
  BY <1>1 DEF Client, Connect, ClientDies, Acquire, CallBegin, Release, Safe, Kick,
              Resume, Stop, StatusBegin, LeaveQueue, QueueInv
<1>2. ASSUME NEW t \in Thread, EndLease(t) \/ EndSubmit(t) PROVE QueueInv'
  <2>1. CASE EndLease(t)
    BY <2>1 DEF EndLease, QueueInv
  <2>2. CASE EndSubmit(t)
    <3>1. SafeThenFree(target[t]) \in Job
      BY JobTypes DEF TypeOK
    <3> QED BY <2>2, <3>1, QueueUrgent DEF EndSubmit, SafeThenFree
  <2> QED BY <1>2, <2>1, <2>2
<1>3. ASSUME NEW c \in Conn, Serve(c) PROVE QueueInv'
  <2> c \in Thread
    BY DEF Thread
  <2>1. CASE SafeSubmit(c)
    BY <2>1, QueueUrgent, JobTypes DEF SafeSubmit, SafeOnly
  <2>2. CASE CallSubmit(c)
    <3>1. CallJob(c, target[c]) \in Job
      BY JobTypes DEF TypeOK
    <3> QED BY <2>2, <3>1, QueueNormal DEF CallSubmit, CallJob
  <2>3. CASE StatusSubmit(c)
    <3>1. StatusJob(c) \in Job
      BY JobTypes
    <3> QED BY <2>3, <3>1, QueueNormal DEF StatusSubmit, StatusJob
  <2>4. CASE \/ ConnectionLost(c) \/ CallReturn(c) \/ SafeOwner(c) \/ StopSet(c)
             \/ StatusReturn(c) \/ WaitDone(c) \/ WaitTimeout(c)
             \/ \E l \in Lease : Grant(c, l)
    BY <2>4 DEF ConnectionLost, CallReturn, SafeOwner, StopSet, StatusReturn,
                WaitDone, WaitTimeout, Grant, QueueInv
  <2> QED BY <1>2, <1>3, <2>1, <2>2, <2>3, <2>4 DEF Serve
<1>4. ASSUME NEW o \in {"silent", "idle_limit"}, MonitorScan(o) PROVE QueueInv'
  BY <1>4 DEF MonitorScan, QueueInv
<1>5. CASE MonitorEnds
  BY <1>2, <1>5 DEF MonitorEnds, Thread
<1>6. CASE Main
  <2>1. CASE ShutdownBegin
    <3>1. ShutdownJob \in Job
      BY JobTypes
    <3> QED BY <2>1, <3>1, QueueUrgent DEF ShutdownBegin, ShutdownJob
  <2> QED BY <1>6, <2>1 DEF Main, SignalStop, ShutdownDone, ShutdownTimeout, QueueInv
<1>7. CASE HwGet
  <2>1. CASE urgent # <<>>
    <3>1. UNCHANGED <<normal, current>> /\ urgent' = Tail(urgent) /\ ~current
      BY <1>7, <2>1 DEF HwGet, TakeFirst, QueueInv
    <3>2. urgent \in Seq(Job)
      BY DEF TypeOK
    <3> QED BY <2>1, <3>1, <3>2, FirstJob DEF QueueInv
  <2>2. CASE urgent = <<>>
    <3>1. /\ UNCHANGED <<urgent, current>> /\ normal' = Tail(normal) /\ ~current
          /\ normal # <<>>
      BY <1>7, <2>2 DEF HwGet, TakeFirst, QueueInv
    <3>2. normal \in Seq(Job)
      BY DEF TypeOK
    <3> QED BY <3>1, <3>2, FirstJob DEF QueueInv
  <2> QED BY <2>1, <2>2
<1>8. CASE Hardware /\ ~HwGet
  BY <1>8 DEF Hardware, HwStart, HwRefuse, HwStartup, HwCall, HwSafeOnly,
              HwSafeThenFree, HwShutdown, HwStatus, Finish, QueueInv
<1>9. CASE UNCHANGED vars
  BY <1>9 DEF vars, QueueInv
<1> QED
  BY <1>1, <1>3, <1>4, <1>5, <1>6, <1>7, <1>8, <1>9 DEF Next, Exited, Running

-----------------------------------------------------------------------------
(* LeaseInv is inductive. *)

LEMMA LeaseInvInit == Init => LeaseInv
BY ConstantsAssumption
DEF Init, LeaseInv, CallsServeOwner, Runs, JobsIn, NoJob, StartupJob

(* A step that ends no lease, grants none and sends no new thread to       *)
(* "end_submit" keeps LeaseInv.                                            *)
LEMMA LeaseInvKept ==
  ASSUME TypeOK, LeaseInv,
         UNCHANGED <<owner, ending, active, main, running, current>>,
         \A t \in Thread : pc'[t] = "end_submit"
            => pc[t] = "end_submit" /\ target'[t] = target[t],
         \A i \in JobsIn(urgent', "safe_then_free") :
            i \in JobsIn(urgent, "safe_then_free") /\ urgent'[i] = urgent[i],
         \A t \in Thread : pc'[t] = "stop_set"
            => pc[t] = "stop_set" \/ state' = "stopping",
         stop' => state' = "stopping",
         state = "stopping" => state' = "stopping"
  PROVE  LeaseInv'
BY DEF LeaseInv, CallsServeOwner, Runs, TypeOK

(* Where a thread goes when it moves *)
LEMMA GotoElsewhere ==
  ASSUME TypeOK, NEW t \in Thread, NEW l \in PC \ {"end_submit"}, NEW o, NEW g,
         Goto(t, l, o, g)
  PROVE  \A u \in Thread :
           /\ pc'[u] = "end_submit" => pc[u] = "end_submit" /\ target'[u] = target[u]
           /\ pc'[u] = "stop_set" => pc[u] = "stop_set" \/ l = "stop_set"
BY DEF TypeOK, Goto

(* Appending another job queues no safe_then_free. *)
LEMMA AppendOther ==
  ASSUME NEW q \in Seq(Job), NEW j \in Job, NEW kind, j.kind # kind
  PROVE  \A i \in JobsIn(Append(q, j), kind) :
            i \in JobsIn(q, kind) /\ Append(q, j)[i] = q[i]
BY AppendJob DEF JobsIn

(* What the steps of connection threads that leave leases alone have in    *)
(* common                                                                  *)
Elsewhere == \A u \in Thread :
  /\ pc'[u] = "end_submit" => pc[u] = "end_submit" /\ target'[u] = target[u]
  /\ pc'[u] = "stop_set" => pc[u] = "stop_set" \/ state' = "stopping"
SameBoard == UNCHANGED <<owner, ending, active, main, running, current>>
SameQueue == \A i \in JobsIn(urgent', "safe_then_free") :
  i \in JobsIn(urgent, "safe_then_free") /\ urgent'[i] = urgent[i]
SameLife  == /\ stop' => state' = "stopping"
             /\ state = "stopping" => state' = "stopping"

LEMMA LeaseInvSame ==
  ASSUME TypeOK, LeaseInv, Elsewhere, SameBoard, SameQueue, SameLife
  PROVE  LeaseInv'
BY LeaseInvKept DEF Elsewhere, SameBoard, SameQueue, SameLife

LEMMA LeaseInvClient ==
  ASSUME TypeOK, LeaseInv, NEW c \in Conn, Client(c)
  PROVE  LeaseInv'
<1> c \in Thread
  BY DEF Thread
<1>0. SameBoard /\ SameQueue
  BY DEF Client, Connect, ClientDies, Acquire, CallBegin, Release, Safe, Kick,
         Resume, Stop, StatusBegin, LeaveQueue, SameBoard, SameQueue
<1>1. SameLife
  BY DEF Client, Connect, ClientDies, Acquire, CallBegin, Release, Safe, Kick,
         Resume, Stop, StatusBegin, LeaveQueue, SameLife, LeaseInv
<1>2. Elsewhere
  <2>1. CASE ClientDies(c) \/ Resume(c)
    BY <2>1 DEF ClientDies, Resume, Elsewhere
  <2>2. CASE Stop(c)
    BY <2>2, GotoElsewhere DEF Stop, Elsewhere, PC
  <2>3. CASE Connect(c) \/ \E wait \in BOOLEAN : Acquire(c, wait)
    BY <2>3, GotoElsewhere DEF Connect, Acquire, Elsewhere, PC
  <2>4. CASE CallBegin(c) \/ Release(c) \/ Safe(c) \/ Kick(c) \/ StatusBegin(c)
    BY <2>4, GotoElsewhere DEF CallBegin, Release, Safe, Kick, StatusBegin, Elsewhere, PC
  <2>5. CASE LeaveQueue(c)
    BY <2>5, GotoElsewhere DEF LeaveQueue, Elsewhere, PC
  <2> QED BY <2>1, <2>2, <2>3, <2>4, <2>5 DEF Client
<1> QED BY <1>0, <1>1, <1>2, LeaseInvSame

(* _end_lease, any thread: the critical section, then the submission *)
LEMMA LeaseInvEnd ==
  ASSUME TypeOK, LeaseInv, NEW t \in Thread, EndLease(t) \/ EndSubmit(t)
  PROVE  LeaseInv'
<1>1. CASE EndLease(t) /\ ~Active(target[t])
  <2>1. NothingToEnd(t) /\ SameBoard /\ SameQueue /\ SameLife
    BY <1>1 DEF EndLease, SameBoard, SameQueue, SameLife, LeaseInv
  <2>2. Elsewhere
    BY <2>1, GotoElsewhere DEF NothingToEnd, Elsewhere, PC
  <2> QED BY <2>1, <2>2, LeaseInvSame
<1>2. CASE EndLease(t) /\ Active(target[t])
  <2>1. owner = target[t] /\ target[t] \in Lease
    BY <1>2 DEF Active, LeaseInv, TypeOK
  <2>2. active' = {} /\ ending' = TRUE /\ owner' = owner
    BY <1>2, <2>1 DEF EndLease, MarkEnded, Active, LeaseInv, TypeOK
  <2>3. Goto(t, "end_submit", op[t], target[t])
    BY <1>2, <2>1 DEF EndLease
  <2>4. \A u \in Thread :
          /\ pc'[u] = "end_submit" => target'[u] \in Lease
          /\ pc'[u] = "stop_set" => state = "stopping"
    BY <2>1, <2>3 DEF Goto, LeaseInv, TypeOK
  <2>5. UNCHANGED <<state, stop, main, urgent, running, current>>
    BY <1>2 DEF EndLease
  <2>6. main = "serve"
    BY <2>1, ConstantsAssumption DEF LeaseInv
  <2> QED BY <2>1, <2>2, <2>4, <2>5, <2>6, ConstantsAssumption
          DEF LeaseInv, CallsServeOwner, Runs
<1>3. CASE EndSubmit(t)
  <2>1. target[t] \notin active
    BY <1>3 DEF EndSubmit, LeaseInv
  <2>2. Elsewhere
    BY <1>3, GotoElsewhere DEF EndSubmit, Elsewhere, PC
  <2>3. \A i \in JobsIn(urgent', "safe_then_free") : urgent'[i].lease \notin active
    BY <1>3, <2>1 DEF EndSubmit, JobsIn, SafeThenFree, LeaseInv, TypeOK
  <2> QED BY <1>3, <2>2, <2>3 DEF EndSubmit, Elsewhere, LeaseInv, CallsServeOwner, Runs
<1> QED BY <1>1, <1>2, <1>3

LEMMA LeaseInvServe ==
  ASSUME TypeOK, LeaseInv, NEW c \in Conn, Serve(c)
  PROVE  LeaseInv'
<1> c \in Thread
  BY DEF Thread
<1>1. ASSUME NEW l \in Lease, Grant(c, l)
      PROVE  LeaseInv'
  <2>1. owner = NoLease /\ ~ending /\ active = {} /\ state = "ready" /\ main = "serve"
    BY <1>1, ConstantsAssumption DEF Grant, BoardFree, LeaseInv, TypeOK
  <2>2. owner' = l /\ active' = {l}
        /\ UNCHANGED <<state, stop, main, ending, urgent, running, current>>
    BY <1>1, <2>1 DEF Grant
  <2>3. /\ \A t \in Thread : target[t] # l
        /\ running.lease # l
        /\ \A i \in 1..Len(urgent) : urgent[i].lease # l
    BY <1>1 DEF Grant, Unreferenced
  <2>4. Elsewhere
    BY <1>1, GotoElsewhere DEF Grant, Elsewhere, PC
  <2>5. ~Runs("call")
    BY <2>1, ConstantsAssumption DEF LeaseInv, CallsServeOwner
  <2>6. \A t \in Thread : pc'[t] = "end_submit" => target'[t] \in Lease \ active'
    BY <2>1, <2>2, <2>3, <2>4 DEF Elsewhere, LeaseInv
  <2>7. \A i \in JobsIn(urgent', "safe_then_free") : urgent'[i].lease \notin active'
    BY <2>2, <2>3 DEF JobsIn
  <2>8. running'.kind = "safe_then_free" => running'.lease \notin active'
    BY <2>2, <2>3
  <2>9. \A t \in Thread : pc'[t] = "stop_set" => state' = "stopping"
    BY <2>2, <2>4 DEF Elsewhere, LeaseInv
  <2>10. ~Runs("call")'
    BY <2>2, <2>5 DEF Runs
  <2>11. active' \subseteq {owner'} /\ (ending' <=> owner' # NoLease /\ owner' \notin active')
    BY <2>1, <2>2, ConstantsAssumption
  <2>12. (stop' => state' = "stopping") /\ main' = "serve"
    BY <2>1, <2>2 DEF LeaseInv
  <2> QED BY <2>6, <2>7, <2>8, <2>9, <2>10, <2>11, <2>12 DEF LeaseInv, CallsServeOwner
<1>2. CASE SafeSubmit(c)
  <2>1. SafeOnly(c).kind # "safe_then_free" /\ SafeOnly(c) \in Job
    BY JobTypes DEF SafeOnly
  <2>2. SameQueue
    <3>1. urgent' = Append(urgent, SafeOnly(c)) /\ urgent \in Seq(Job)
      BY <1>2 DEF SafeSubmit, TypeOK
    <3>2. \A i \in JobsIn(Append(urgent, SafeOnly(c)), "safe_then_free") :
            /\ i \in JobsIn(urgent, "safe_then_free")
            /\ Append(urgent, SafeOnly(c))[i] = urgent[i]
      BY <2>1, <3>1, AppendOther
    <3> QED BY <3>1, <3>2 DEF SameQueue
  <2>3. Elsewhere
    BY <1>2, GotoElsewhere DEF SafeSubmit, Elsewhere, PC
  <2>4. SameBoard /\ SameLife
    BY <1>2 DEF SafeSubmit, SameBoard, SameLife, LeaseInv
  <2> QED BY <2>2, <2>3, <2>4, LeaseInvSame
<1>3. CASE \/ ConnectionLost(c) \/ CallSubmit(c) \/ CallReturn(c) \/ SafeOwner(c)
           \/ StatusSubmit(c) \/ StatusReturn(c) \/ WaitDone(c) \/ WaitTimeout(c)
           \/ StopSet(c)
  <2>1. Elsewhere
    <3>1. CASE ConnectionLost(c) \/ CallSubmit(c) \/ CallReturn(c) \/ SafeOwner(c)
      BY <3>1, GotoElsewhere
      DEF ConnectionLost, CallSubmit, CallReturn, SafeOwner, Elsewhere, PC
    <3>2. CASE StatusSubmit(c) \/ StatusReturn(c) \/ WaitDone(c) \/ WaitTimeout(c)
      BY <3>2, GotoElsewhere
      DEF StatusSubmit, StatusReturn, WaitDone, WaitTimeout, Elsewhere, PC
    <3>3. CASE StopSet(c)
      BY <3>3, GotoElsewhere DEF StopSet, Elsewhere, PC
    <3> QED BY <1>3, <3>1, <3>2, <3>3
  <2>2. SameBoard /\ SameQueue
    BY <1>3 DEF ConnectionLost, CallSubmit, CallReturn, SafeOwner, StatusSubmit,
                StatusReturn, WaitDone, WaitTimeout, StopSet, SameBoard, SameQueue
  <2>3. SameLife
    BY <1>3 DEF ConnectionLost, CallSubmit, CallReturn, SafeOwner, StatusSubmit,
                StatusReturn, WaitDone, WaitTimeout, StopSet, SameLife, LeaseInv
  <2> QED BY <2>1, <2>2, <2>3, LeaseInvSame
<1> QED BY <1>1, <1>2, <1>3, LeaseInvEnd DEF Serve

LEMMA LeaseInvMain ==
  ASSUME TypeOK, LeaseInv,
         \/ \E o \in {"silent", "idle_limit"} : MonitorScan(o)
         \/ MonitorEnds \/ Main
  PROVE  LeaseInv'
<1> Monitor \in Thread
  BY DEF Thread
<1>1. ASSUME NEW o \in {"silent", "idle_limit"}, MonitorScan(o) PROVE LeaseInv'
  <2>1. Elsewhere
    BY <1>1, GotoElsewhere DEF MonitorScan, Elsewhere, PC
  <2> QED BY <1>1, <2>1, LeaseInvSame
          DEF MonitorScan, SameBoard, SameQueue, SameLife, LeaseInv
<1>2. CASE MonitorEnds
  BY <1>2, LeaseInvEnd DEF MonitorEnds
<1>3. CASE SignalStop
  BY <1>3 DEF SignalStop, LeaseInv, CallsServeOwner, Runs
<1>4. CASE ShutdownBegin
  <2>1. active' = {} /\ owner' = NoLease /\ ending' = FALSE /\ main' = "shutdown"
        /\ state' = "stopping" /\ UNCHANGED <<pc, target, running, current>>
    BY <1>4 DEF ShutdownBegin, LeaseInv
  <2>2. \A t \in Thread : pc[t] = "end_submit" => target[t] \in Lease
    BY DEF LeaseInv
  <2> QED BY <2>1, <2>2, ConstantsAssumption DEF LeaseInv, CallsServeOwner, Runs
<1>5. CASE ShutdownDone \/ ShutdownTimeout
  BY <1>5 DEF ShutdownDone, ShutdownTimeout, LeaseInv, CallsServeOwner, Runs
<1> QED BY <1>1, <1>2, <1>3, <1>4, <1>5 DEF Main

LEMMA LeaseInvHardware ==
  ASSUME TypeOK, QueueInv, LeaseInv, Hardware
  PROVE  LeaseInv'
<1>1. CASE HwGet
  <2>1. CASE urgent # <<>>
    <3>1. /\ running' = Head(urgent) /\ urgent' = Tail(urgent) /\ ~current /\ ~current'
          /\ UNCHANGED <<lifeVars, leaseVars, connVars>>
      BY <1>1, <2>1 DEF HwGet, TakeFirst, QueueInv
    <3>2. urgent \in Seq(Job)
      BY DEF TypeOK
    <3>3. \A i \in 1..Len(urgent) :
            urgent[i].kind = "safe_then_free" => urgent[i].lease \notin active
      BY DEF LeaseInv, JobsIn
    <3>4. running'.kind = "safe_then_free" => running'.lease \notin active
      BY <2>1, <3>1, <3>2, <3>3, FirstJob
    <3>5. \A i \in JobsIn(urgent', "safe_then_free") : urgent'[i].lease \notin active
      BY <2>1, <3>1, <3>2, <3>3, FirstJob DEF JobsIn
    <3> QED BY <3>1, <3>4, <3>5 DEF LeaseInv, CallsServeOwner, Runs
  <2>2. CASE urgent = <<>>
    BY <1>1, <2>2, FirstJob
    DEF HwGet, TakeFirst, JobsIn, QueueInv, LeaseInv, CallsServeOwner, Runs, TypeOK
  <2> QED BY <2>1, <2>2
<1>2. CASE HwStart
  BY <1>2, ConstantsAssumption
  DEF HwStart, Admitted, Active, LeaseInv, CallsServeOwner, Runs, TypeOK
<1>3. CASE HwRefuse
  BY <1>3 DEF HwRefuse, NoJob, LeaseInv, CallsServeOwner, Runs
<1>4. ASSUME NEW outcome \in {"ok", "no_connect", "no_program"}, HwStartup(outcome)
      PROVE  LeaseInv'
  BY <1>4 DEF HwStartup, Finish, NoJob, LeaseInv, CallsServeOwner, Runs
<1>5. CASE \/ \E on \in BOOLEAN : HwCall(on)
           \/ HwSafeOnly \/ HwShutdown \/ HwStatus
  BY <1>5 DEF HwCall, HwSafeOnly, HwShutdown, HwStatus, Finish, NoJob, LeaseInv,
              CallsServeOwner, Runs
<1>6. CASE HwSafeThenFree
  <2>1. running.lease \notin active /\ ~Runs("call")
    BY <1>6 DEF HwSafeThenFree, Runs, LeaseInv
  <2>2. owner = running.lease => active = {}
    BY <2>1 DEF LeaseInv
  <2> QED BY <1>6, <2>1, <2>2, ConstantsAssumption
          DEF HwSafeThenFree, Finish, NoJob, LeaseInv, CallsServeOwner, Runs
<1> QED BY <1>1, <1>2, <1>3, <1>4, <1>5, <1>6 DEF Hardware

LEMMA LeaseInvStep == TypeOK /\ QueueInv /\ LeaseInv /\ [Next]_vars => LeaseInv'
<1> SUFFICES ASSUME TypeOK, QueueInv, LeaseInv, [Next]_vars PROVE LeaseInv'
  OBVIOUS
<1>1. CASE Running
  BY <1>1, LeaseInvClient, LeaseInvServe, LeaseInvMain, LeaseInvHardware DEF Running
<1>2. CASE UNCHANGED vars
  BY <1>2 DEF vars, LeaseInv, CallsServeOwner, Runs
<1> QED BY <1>1, <1>2 DEF Next, Exited

(* The leases and the hardware thread stay consistent: LeaseInv always     *)
(* holds.                                                                  *)
THEOREM LeasesConsistent == Spec => [](QueueInv /\ LeaseInv)
BY LeaseInvInit, LeaseInvStep, QueueInvInit, QueueInvStep, TypeCorrect, PTL DEF Spec

(* At most one lease is active, the owner's.                               *)
THEOREM AtMostOneLease == Spec => []OneLease
<1>1. LeaseInv => OneLease
  BY DEF LeaseInv, OneLease
<1> QED BY <1>1, LeasesConsistent, PTL

(* A forwarded call runs for the owner of the board only.                  *)
THEOREM CallsRunForOwner == Spec => []CallsServeOwner
<1>1. LeaseInv => CallsServeOwner
  BY DEF LeaseInv
<1> QED BY <1>1, LeasesConsistent, PTL

-----------------------------------------------------------------------------
(* BoardInv is inductive if the board obeys safe_state. *)

LEMMA JobsInAppend ==
  ASSUME NEW q \in Seq(Job), NEW j \in Job, NEW kind, j.kind # kind
  PROVE  JobsIn(Append(q, j), kind) = JobsIn(q, kind)
BY AppendJob DEF JobsIn

LEMMA BoardInvInit == Init => BoardInv
<1> SUFFICES ASSUME Init PROVE BoardInv
  OBVIOUS
<1>1. Len(urgent) = 1 /\ urgent[1] = StartupJob
  BY DEF Init
<1>2. JobsIn(urgent, "startup") = {1} /\ JobsIn(urgent, "shutdown") = {}
  BY <1>1 DEF JobsIn, StartupJob
<1> QED
  BY <1>2, ConstantsAssumption
  DEF Init, BoardInv, StartupPending, TxBelongsToOwner, Runs, NoJob

(* A step of the threads that only queues safe jobs, or stops the server *)
SameDevice ==
  /\ UNCHANGED <<main, connected, owner, running, current, tx>>
  /\ state' = state \/ state' = "stopping"
  /\ JobsIn(urgent', "startup") = JobsIn(urgent, "startup")
  /\ JobsIn(urgent', "shutdown") = JobsIn(urgent, "shutdown")

LEMMA BoardInvSame == BoardInv /\ SameDevice => BoardInv'
BY DEF BoardInv, SameDevice, StartupPending, TxBelongsToOwner, Runs

LEMMA SameDeviceClient ==
  ASSUME NEW c \in Conn, Client(c)
  PROVE  SameDevice
BY DEF Client, Connect, ClientDies, Acquire, CallBegin, Release, Safe, Kick,
       Resume, Stop, StatusBegin, LeaveQueue, SameDevice

LEMMA SameDeviceEnd ==
  ASSUME TypeOK, NEW t \in Thread, EndLease(t) \/ EndSubmit(t)
  PROVE  SameDevice
<1>1. CASE EndLease(t)
  BY <1>1 DEF EndLease, MarkEnded, SameDevice
<1>2. CASE EndSubmit(t)
  <2>1. SafeThenFree(target[t]) \in Job /\ SafeThenFree(target[t]).kind = "safe_then_free"
    BY JobTypes DEF TypeOK, SafeThenFree
  <2>2. urgent \in Seq(Job) /\ urgent' = Append(urgent, SafeThenFree(target[t]))
    BY <1>2 DEF EndSubmit, TypeOK
  <2>3. /\ JobsIn(urgent', "startup") = JobsIn(urgent, "startup")
        /\ JobsIn(urgent', "shutdown") = JobsIn(urgent, "shutdown")
    BY <2>1, <2>2, JobsInAppend
  <2> QED BY <1>2, <2>3 DEF EndSubmit, SameDevice
<1> QED BY <1>1, <1>2

LEMMA SameDeviceServe ==
  ASSUME TypeOK, NEW c \in Conn, Serve(c), ~ \E l \in Lease : Grant(c, l)
  PROVE  SameDevice
<1>1. CASE EndLease(c) \/ EndSubmit(c)
  BY <1>1, SameDeviceEnd DEF Thread
<1>2. CASE SafeSubmit(c)
  <2>1. SafeOnly(c) \in Job /\ SafeOnly(c).kind = "safe_only"
    BY JobTypes DEF SafeOnly
  <2>2. urgent \in Seq(Job) /\ urgent' = Append(urgent, SafeOnly(c))
    BY <1>2 DEF SafeSubmit, TypeOK
  <2>3. /\ JobsIn(urgent', "startup") = JobsIn(urgent, "startup")
        /\ JobsIn(urgent', "shutdown") = JobsIn(urgent, "shutdown")
    BY <2>1, <2>2, JobsInAppend
  <2> QED BY <1>2, <2>3 DEF SafeSubmit, SameDevice
<1>3. CASE \/ ConnectionLost(c) \/ CallSubmit(c) \/ CallReturn(c) \/ SafeOwner(c)
           \/ StatusSubmit(c) \/ StatusReturn(c) \/ WaitDone(c) \/ WaitTimeout(c)
           \/ StopSet(c)
  BY <1>3 DEF ConnectionLost, CallSubmit, CallReturn, SafeOwner, StatusSubmit,
              StatusReturn, WaitDone, WaitTimeout, StopSet, SameDevice
<1> QED BY <1>1, <1>2, <1>3 DEF Serve

LEMMA BoardInvGrant ==
  ASSUME TypeOK, LeaseInv, BoardInv, NEW c \in Conn, NEW l \in Lease, Grant(c, l)
  PROVE  BoardInv'
<1>1. state = "ready" /\ owner = NoLease /\ main = "serve"
  BY DEF Grant, BoardFree, LeaseInv, TypeOK
<1>2. tx \notin Lease
  BY <1>1, ConstantsAssumption DEF BoardInv, TxBelongsToOwner
<1>3. UNCHANGED <<state, main, connected, urgent, running, current, tx>>
  BY DEF Grant
<1> QED BY <1>1, <1>2, <1>3 DEF BoardInv, StartupPending, TxBelongsToOwner, Runs

LEMMA BoardInvMain ==
  ASSUME TypeOK, LeaseInv, BoardInv, Main
  PROVE  BoardInv'
<1>1. CASE SignalStop
  BY <1>1, BoardInvSame DEF SignalStop, SameDevice
<1>2. CASE ShutdownBegin
  <2>1. ShutdownJob \in Job /\ ShutdownJob.kind = "shutdown"
    BY JobTypes DEF ShutdownJob
  <2>2. urgent \in Seq(Job) /\ urgent' = Append(urgent, ShutdownJob)
    BY <1>2 DEF ShutdownBegin, TypeOK
  <2>3. JobsIn(urgent', "startup") = JobsIn(urgent, "startup")
    BY <2>1, <2>2, JobsInAppend
  <2>4. /\ main' = "shutdown" /\ state' = "stopping" /\ owner' = NoLease
        /\ UNCHANGED <<connected, running, current, tx>>
    BY <1>2 DEF ShutdownBegin
  <2> QED BY <2>3, <2>4 DEF BoardInv, StartupPending, TxBelongsToOwner, Runs
<1>3. CASE ShutdownDone \/ ShutdownTimeout
  BY <1>3 DEF ShutdownDone, ShutdownTimeout, BoardInv, StartupPending,
              TxBelongsToOwner, Runs
<1> QED BY <1>1, <1>2, <1>3 DEF Main

LEMMA BoardInvHardware ==
  ASSUME ~SafeCanFail, TypeOK, QueueInv, LeaseInv, BoardInv, Hardware
  PROVE  BoardInv'
<1>1. CASE HwGet
  <2>1. CASE urgent # <<>>
    <3>1. /\ running' = Head(urgent) /\ urgent' = Tail(urgent) /\ ~current /\ ~current'
          /\ UNCHANGED <<state, main, connected, owner, tx>>
      BY <1>1, <2>1 DEF HwGet, TakeFirst, QueueInv
    <3>2. urgent \in Seq(Job)
      BY DEF TypeOK
    <3>3. JobsIn(urgent', "startup") = {}
      BY <2>1, <3>1, <3>2, FirstJob DEF BoardInv, JobsIn
    <3>4. running'.kind = "startup" => StartupPending
      BY <2>1, <3>1, <3>2, FirstJob DEF StartupPending, JobsIn
    <3>5. running'.kind = "shutdown" \/ JobsIn(urgent', "shutdown") # {}
            => JobsIn(urgent, "shutdown") # {}
      BY <2>1, <3>1, <3>2, FirstJob DEF JobsIn
    <3> QED BY <3>1, <3>3, <3>4, <3>5 DEF BoardInv, StartupPending, TxBelongsToOwner, Runs
  <2>2. CASE urgent = <<>>
    <3>1. /\ running' = Head(normal) /\ normal # <<>> /\ ~current /\ ~current'
          /\ UNCHANGED <<state, main, connected, owner, tx, urgent>>
      BY <1>1, <2>2 DEF HwGet, TakeFirst, QueueInv
    <3>2. running'.kind \in {"call", "status"}
      BY <3>1, FirstJob DEF QueueInv, TypeOK
    <3> QED BY <3>1, <3>2 DEF BoardInv, StartupPending, TxBelongsToOwner, Runs
  <2> QED BY <2>1, <2>2
<1>2. CASE HwStart
  <2>1. running.kind = "call" => connected
    BY <1>2, ConstantsAssumption DEF HwStart, Admitted, Active, LeaseInv, BoardInv, TypeOK
  <2> QED BY <1>2, <2>1 DEF HwStart, BoardInv, StartupPending, TxBelongsToOwner, Runs
<1>3. CASE HwRefuse
  BY <1>3 DEF HwRefuse, NoJob, BoardInv, StartupPending, TxBelongsToOwner, Runs
<1>4. ASSUME NEW outcome \in {"ok", "no_connect", "no_program"}, HwStartup(outcome)
      PROVE  BoardInv'
  <2>1. /\ state # "ready" /\ owner = NoLease /\ ~connected
        /\ JobsIn(urgent, "startup") = {} /\ tx \notin Lease
    BY <1>4 DEF HwStartup, Runs, BoardInv, StartupPending
  <2>2. /\ running'.kind = "none" /\ ~current' /\ UNCHANGED <<main, owner, urgent>>
        /\ tx' \in {tx, NoLease} /\ connected' = (outcome # "no_connect")
        /\ state' = "ready" => outcome = "ok" /\ tx' = NoLease
    BY <1>4, <2>1 DEF HwStartup, Finish, NoJob
  <2> QED BY <2>1, <2>2, ConstantsAssumption
          DEF BoardInv, StartupPending, TxBelongsToOwner, Runs
<1>5. ASSUME NEW on \in BOOLEAN, HwCall(on) PROVE BoardInv'
  <2>1. /\ connected /\ running.lease \in Lease
        /\ main = "serve" => owner = running.lease
    BY <1>5 DEF HwCall, BoardInv, LeaseInv, CallsServeOwner
  <2>2. /\ running'.kind = "none" /\ ~current'
        /\ UNCHANGED <<state, main, connected, owner, urgent>>
        /\ tx' \in {running.lease, NoLease}
    BY <1>5 DEF HwCall, Finish, NoJob
  <2> QED BY <2>1, <2>2, ConstantsAssumption
          DEF BoardInv, StartupPending, TxBelongsToOwner, Runs
<1>6. CASE HwSafeOnly \/ HwSafeThenFree
  <2>1. /\ running'.kind = "none" /\ ~current'
        /\ UNCHANGED <<state, main, connected, urgent>>
        /\ tx' = IF connected THEN NoLease ELSE tx
        /\ owner' = owner \/ owner' = NoLease
    <3>1. CASE HwSafeOnly
      BY <3>1 DEF HwSafeOnly, SafeState, Finish, NoJob
    <3>2. CASE HwSafeThenFree
      <4>1. tx' = IF connected THEN NoLease ELSE tx
        BY <3>2 DEF HwSafeThenFree, SafeState
      <4>2. owner' = owner \/ owner' = NoLease
        BY <3>2 DEF HwSafeThenFree
      <4> QED BY <3>2, <4>1, <4>2 DEF HwSafeThenFree, Finish, NoJob
    <3> QED BY <1>6, <3>1, <3>2
  <2> QED BY <2>1, ConstantsAssumption
          DEF BoardInv, StartupPending, TxBelongsToOwner, Runs
<1>7. CASE HwShutdown
  <2>1. main # "serve" /\ owner = NoLease /\ state = "stopping"
    BY <1>7 DEF HwShutdown, Runs, BoardInv, LeaseInv
  <2>2. /\ running'.kind = "none" /\ ~current' /\ ~connected'
        /\ UNCHANGED <<state, main, owner, urgent>>
        /\ tx' = IF connected THEN NoLease ELSE tx
    BY <1>7 DEF HwShutdown, SafeState, Finish, NoJob
  <2> QED BY <2>1, <2>2, ConstantsAssumption
          DEF BoardInv, StartupPending, TxBelongsToOwner, Runs
<1>8. CASE HwStatus
  BY <1>8 DEF HwStatus, Finish, NoJob, BoardInv, StartupPending, TxBelongsToOwner, Runs
<1> QED BY <1>1, <1>2, <1>3, <1>4, <1>5, <1>6, <1>7, <1>8 DEF Hardware

LEMMA BoardInvStep ==
  ~SafeCanFail /\ TypeOK /\ QueueInv /\ LeaseInv /\ BoardInv /\ [Next]_vars => BoardInv'
<1> SUFFICES ASSUME ~SafeCanFail, TypeOK, QueueInv, LeaseInv, BoardInv, [Next]_vars
             PROVE  BoardInv'
  OBVIOUS
<1>1. CASE Hardware
  BY <1>1, BoardInvHardware
<1>2. ASSUME NEW c \in Conn, Client(c) PROVE BoardInv'
  BY <1>2, SameDeviceClient, BoardInvSame
<1>3. ASSUME NEW c \in Conn, Serve(c) PROVE BoardInv'
  BY <1>3, SameDeviceServe, BoardInvSame, BoardInvGrant
<1>4. ASSUME NEW o \in {"silent", "idle_limit"}, MonitorScan(o) PROVE BoardInv'
  BY <1>4, BoardInvSame DEF MonitorScan, SameDevice
<1>5. CASE MonitorEnds
  BY <1>5, SameDeviceEnd, BoardInvSame DEF MonitorEnds, Thread
<1>6. CASE Main
  BY <1>6, BoardInvMain
<1>7. CASE UNCHANGED vars
  BY <1>7 DEF vars, BoardInv, StartupPending, TxBelongsToOwner, Runs
<1> QED
  BY <1>1, <1>2, <1>3, <1>4, <1>5, <1>6, <1>7 DEF Next, Exited, Running

THEOREM BoardConsistent == ASSUME ~SafeCanFail PROVE Spec => []BoardInv
BY BoardInvInit, BoardInvStep, LeasesConsistent, TypeCorrect, PTL DEF Spec

(* No signal of a job outlives its lease, if the board obeys safe_state.   *)
THEOREM TxStaysWithOwner == ASSUME ~SafeCanFail PROVE Spec => []TxBelongsToOwner
<1>1. BoardInv => TxBelongsToOwner
  BY DEF BoardInv
<1> QED BY <1>1, BoardConsistent, PTL

(* Every job starts from the safe state, if the board obeys safe_state:    *)
(* the board is granted with TX off and no call running.                   *)
THEOREM EveryJobStartsSafe == ASSUME ~SafeCanFail PROVE Spec => JobStartsSafe
<1> DEFINE Starts == owner = NoLease /\ owner' # NoLease => tx = NoLease /\ ~Runs("call")
<1>1. TypeOK /\ LeaseInv /\ BoardInv /\ [Next]_vars => [Starts]_vars
  <2> SUFFICES ASSUME TypeOK, LeaseInv, BoardInv, [Next]_vars,
                      owner = NoLease, owner' # NoLease
               PROVE  tx = NoLease /\ ~Runs("call")
    BY DEF Starts
  <2>1. \E c \in Conn, l \in Lease : Grant(c, l)
    <3>1. CASE SameDevice
      BY <3>1 DEF SameDevice
    <3>2. ~Main /\ ~Hardware
      BY DEF Main, SignalStop, ShutdownBegin, ShutdownDone, ShutdownTimeout,
             Hardware, HwGet, HwStart, HwRefuse, HwStartup, HwCall, HwSafeOnly,
             HwSafeThenFree, HwShutdown, HwStatus
    <3>3. ~ \E o \in {"silent", "idle_limit"} : MonitorScan(o)
      BY DEF MonitorScan
    <3>4. ~UNCHANGED vars
      BY DEF vars
    <3> QED
      BY <3>1, <3>2, <3>3, <3>4, SameDeviceClient, SameDeviceServe, SameDeviceEnd
      DEF Next, Exited, Running, MonitorEnds, Thread
  <2>2. state = "ready" /\ main = "serve"
    BY <2>1 DEF Grant, BoardFree, LeaseInv, TypeOK
  <2> QED BY <2>2, ConstantsAssumption
          DEF BoardInv, TxBelongsToOwner, LeaseInv, CallsServeOwner, TypeOK
<1> QED BY <1>1, BoardConsistent, LeasesConsistent, TypeCorrect, PTL DEF Spec, JobStartsSafe

-----------------------------------------------------------------------------
(* What the stops leave behind if the board obeys safe_state: safe, the    *)
(* shutdown, and the promise to the jobs (BoardLease).                     *)

(* --- threads other than the hardware thread leave the board alone --- *)
Grows(q, r) == r = q \/ \E j \in Job : r = Append(q, j)

Calm ==
  /\ UNCHANGED <<running, current, tx>> /\ active' \subseteq active
  /\ Grows(urgent, urgent') /\ Grows(normal, normal')

LEMMA CalmClient == ASSUME NEW c \in Conn, Client(c) PROVE Calm
  BY DEF Client, Connect, ClientDies, Acquire, CallBegin, Release, Safe, Kick, Resume, Stop,
         StatusBegin, LeaveQueue, Calm, Grows

LEMMA CalmEnd == ASSUME TypeOK, NEW t \in Thread, EndLease(t) \/ EndSubmit(t) PROVE Calm
<1>1. CASE EndLease(t)
  BY <1>1 DEF EndLease, MarkEnded, Calm, Grows
<1>2. CASE EndSubmit(t)
  <2>1. SafeThenFree(target[t]) \in Job
    BY JobTypes DEF TypeOK
  <2> QED
    BY <1>2, <2>1 DEF EndSubmit, Calm, Grows
<1> QED
  BY <1>1, <1>2

LEMMA CalmServe ==
  ASSUME TypeOK, NEW c \in Conn, Serve(c), ~ \E l \in Lease : Grant(c, l)
  PROVE  Calm
<1>1. CASE EndLease(c) \/ EndSubmit(c)
  BY <1>1, CalmEnd DEF Thread
<1>2. CASE SafeSubmit(c) \/ CallSubmit(c) \/ StatusSubmit(c)
  <2>1. SafeOnly(c) \in Job /\ StatusJob(c) \in Job /\ CallJob(c, target[c]) \in Job
    BY JobTypes DEF TypeOK, Thread
  <2> QED
    BY <1>2, <2>1 DEF SafeSubmit, CallSubmit, StatusSubmit, Calm, Grows
<1>3. CASE \/ ConnectionLost(c) \/ CallReturn(c) \/ SafeOwner(c) \/ StatusReturn(c)
           \/ WaitDone(c) \/ WaitTimeout(c) \/ StopSet(c)
  BY <1>3 DEF ConnectionLost, CallReturn, SafeOwner, StatusReturn, WaitDone, WaitTimeout, StopSet,
              Calm, Grows
<1> QED
  BY <1>1, <1>2, <1>3 DEF Serve

LEMMA CalmMain == ASSUME Main PROVE Calm
<1>1. ShutdownJob \in Job
  BY JobTypes
<1> QED
  BY <1>1 DEF Main, SignalStop, ShutdownBegin, ShutdownDone, ShutdownTimeout, Calm, Grows

LEMMA CalmOrHardware ==
  TypeOK /\ [Next]_vars => Calm \/ Hardware \/ \E c \in Conn, l \in Lease : Grant(c, l)
<1> SUFFICES ASSUME TypeOK, [Next]_vars, ~Hardware, ~ \E c \in Conn, l \in Lease : Grant(c, l)
             PROVE  Calm
  OBVIOUS
<1>1. CASE \E o \in {"silent", "idle_limit"} : MonitorScan(o)
  BY <1>1 DEF MonitorScan, Calm, Grows
<1>2. CASE UNCHANGED vars
  BY <1>2 DEF vars, Calm, Grows
<1> QED
  BY <1>1, <1>2, CalmClient, CalmServe, CalmEnd, CalmMain
  DEF Next, Exited, Running, MonitorEnds, Thread

(* --- a quiet board stays quiet as long as it is not granted --- *)
LEMMA QuietStays ==
  ASSUME TypeOK, QueueInv, Quiet, [Next]_vars, ~ \E c \in Conn, l \in Lease : Grant(c, l),
         ~SafeCanFail
  PROVE  Quiet'
<1>1. CASE Calm
  BY <1>1 DEF Calm, Quiet, Runs, TypeOK
<1>2. CASE HwGet \/ HwStart \/ HwRefuse
  BY <1>2 DEF HwGet, HwStart, HwRefuse, Admitted, Active, QueueInv, Quiet, Runs, NoJob
<1>3. ASSUME NEW o \in {"ok", "no_connect", "no_program"}, HwStartup(o) PROVE Quiet'
  BY <1>3, ConstantsAssumption DEF HwStartup, Finish, Quiet, Runs
<1>4. ASSUME NEW on \in BOOLEAN, HwCall(on) PROVE Quiet'
  BY <1>4 DEF HwCall, Quiet
<1>5. CASE HwSafeOnly \/ HwSafeThenFree \/ HwShutdown \/ HwStatus
  BY <1>5, ConstantsAssumption
  DEF HwSafeOnly, HwSafeThenFree, HwShutdown, HwStatus, SafeState, Finish, Quiet, Runs
<1> QED
  BY <1>1, <1>2, <1>3, <1>4, <1>5, CalmOrHardware DEF Hardware

(* --- a queued safe job stays queued until it has run --- *)
SafeKinds == {"safe_only", "safe_then_free", "shutdown"}

LEMMA GrowsKeep ==
  ASSUME NEW q \in Seq(Job), NEW r, Grows(q, r), NEW j \in Job, In(j, q)
  PROVE  In(j, r)
<1>1. CASE r = q
  BY <1>1
<1>2. ASSUME NEW k \in Job, r = Append(q, k) PROVE In(j, r)
  BY <1>2, AppendIn
<1> QED
  BY <1>1, <1>2 DEF Grows

LEMMA PendingStays ==
  ASSUME TypeOK, QueueInv, BoardInv, [Next]_vars, ~SafeCanFail, active = {},
         NEW j \in Job, j.kind \in SafeKinds, Pending(j)
  PROVE  Pending(j)' \/ Quiet'
<1>0. urgent \in Seq(Job) /\ normal \in Seq(Job)
  BY DEF TypeOK
<1>1. CASE Calm
  BY <1>0, <1>1, GrowsKeep DEF Calm, Pending
<1>2. CASE \E c \in Conn, l \in Lease : Grant(c, l)
  BY <1>2 DEF Grant, Pending
<1>3. CASE HwGet
  <2>1. running # j
    BY <1>3 DEF HwGet, NoJob, SafeKinds
  <2>2. CASE urgent # <<>>
    <3>1. In(j, urgent) => j = Head(urgent) \/ In(j, Tail(urgent))
      BY <1>0, <2>2, TailIn
    <3>2. running' = Head(urgent) /\ urgent' = Tail(urgent) /\ normal' = normal
      BY <1>3, <2>2 DEF HwGet, TakeFirst
    <3> QED
      BY <2>1, <3>1, <3>2 DEF Pending
  <2>3. CASE urgent = <<>>
    <3>1. ~In(j, urgent)
      BY <2>3 DEF In
    <3>2. running' = Head(normal) /\ normal' = Tail(normal) /\ normal # <<>>
      BY <1>3, <2>3 DEF HwGet, TakeFirst
    <3>3. In(j, normal) => j = Head(normal) \/ In(j, Tail(normal))
      BY <1>0, <3>2, TailIn
    <3> QED
      BY <2>1, <3>1, <3>2, <3>3 DEF Pending
  <2> QED
    BY <2>2, <2>3
<1>4. CASE HwStart
  BY <1>4 DEF HwStart, Pending
<1>5. CASE HwRefuse
  BY <1>5 DEF HwRefuse, Admitted, Pending, SafeKinds
<1>6. CASE HwSafeOnly \/ HwSafeThenFree \/ HwShutdown
  BY <1>6, ConstantsAssumption
  DEF HwSafeOnly, HwSafeThenFree, HwShutdown, SafeState, Finish, Quiet, Runs, BoardInv
<1>7. ASSUME running # j, UNCHANGED <<urgent, normal>> PROVE Pending(j)'
  BY <1>7 DEF Pending
<1>8. CASE \/ \E o \in {"ok", "no_connect", "no_program"} : HwStartup(o)
           \/ \E on \in BOOLEAN : HwCall(on)
           \/ HwStatus
  BY <1>7, <1>8 DEF HwStartup, HwCall, HwStatus, Runs, SafeKinds
<1> QED
  BY <1>1, <1>2, <1>3, <1>4, <1>5, <1>6, <1>8, CalmOrHardware DEF Hardware

-----------------------------------------------------------------------------
(* safe() *)
Hold(c) ==
  /\ pc[c] = "safe_submit" => active = {}
  /\ op[c] = "safe" =>
       /\ pc[c] = "end" => active \subseteq {target[c]}
       /\ pc[c] \in {"end_submit", "wait"} => active = {}
       /\ pc[c] = "wait" /\ ~Pending(WaitedJob(c)) => Quiet

LEMMA HoldParts ==
  HoldInv <=> /\ holding # {} \/ safed => held
              /\ \A c \in holding : Hold(c)
              /\ safed => Quiet
  BY DEF HoldInv, Hold

LEMMA HoldInit == Init => HoldInv
  BY DEF Init, HoldInv

(* A step the premises of the lemmas below allow, and that grants nothing. *)
NoGrant ==
  /\ TypeOK /\ QueueInv /\ LeaseInv /\ BoardInv /\ [Next]_vars /\ ~SafeCanFail
  /\ ~ \E c \in Conn, l \in Lease : Grant(c, l)

LEMMA NoGrantKeeps ==
  ASSUME NoGrant
  PROVE  active' \subseteq active /\ (Quiet => Quiet')
<1>1. Hardware => active' = active
  BY DEF Hardware, HwGet, HwStart, HwRefuse, HwStartup, HwCall, HwSafeOnly, HwSafeThenFree,
         HwShutdown, HwStatus
<1> QED
  BY <1>1, CalmOrHardware, QuietStays DEF NoGrant, Calm

LEMMA WaitedType ==
  ASSUME TypeOK, NEW c \in Conn PROVE WaitedJob(c) \in Job /\ WaitedJob(c).kind \in SafeKinds
  BY JobTypes DEF WaitedJob, TypeOK, Thread, SafeOnly, SafeThenFree, SafeKinds

(* A thread that does not move. *)
LEMMA HoldStays ==
  ASSUME NoGrant, NEW c \in Conn, Hold(c), pc'[c] = pc[c], op'[c] = op[c], target'[c] = target[c]
  PROVE  Hold(c)'
<1>1. active' \subseteq active /\ (Quiet => Quiet')
  BY NoGrantKeeps
<1>2. PICK k \in Job : k = WaitedJob(c) /\ k.kind \in SafeKinds
  BY WaitedType DEF NoGrant
<1>3. WaitedJob(c)' = k
  BY <1>2 DEF WaitedJob, SafeOnly, SafeThenFree
<1>4. active = {} /\ Pending(k) => Pending(k)' \/ Quiet'
  BY <1>2, PendingStays DEF NoGrant
<1>5. Pending(WaitedJob(c))' <=> Pending(k)'
  BY <1>3 DEF Pending
<1>6. Pending(WaitedJob(c)) <=> Pending(k)
  BY <1>2
<1> QED
  BY <1>1, <1>4, <1>5, <1>6 DEF Hold

(* Threads other than t do not move when t does. *)
LEMMA GotoOthers ==
  ASSUME TypeOK, NEW t \in Thread, NEW l, NEW o, NEW g, Goto(t, l, o, g)
  PROVE  /\ \A u \in Thread \ {t} : pc'[u] = pc[u] /\ op'[u] = op[u] /\ target'[u] = target[u]
         /\ pc'[t] = l /\ op'[t] = o /\ target'[t] = g
  BY DEF TypeOK, Goto

LEMMA OthersStay ==
  ASSUME NoGrant, HoldInv, NEW t \in Thread, NEW l, NEW o, NEW g, Goto(t, l, o, g)
  PROVE  \A c \in holding \ {t} : Hold(c)'
<1>1. holding \subseteq Conn /\ TypeOK
  BY DEF NoGrant, TypeOK
<1> QED
  BY <1>1, GotoOthers, HoldStays, HoldParts DEF Thread

LEMMA HoldClient ==
  ASSUME NoGrant, HoldInv, NEW c \in Conn, Client(c)
  PROVE  HoldInv'
<1>0. TypeOK /\ c \in Thread /\ safed' \in {safed, FALSE}
  BY DEF NoGrant, Thread, Client, Connect, ClientDies, Acquire, CallBegin, Release, Safe, Kick,
         Resume, Stop, StatusBegin, LeaveQueue
<1>1. safed' => Quiet'
  BY <1>0, NoGrantKeeps, HoldParts
<1>2. CASE ClientDies(c)
  BY <1>0, <1>1, <1>2, HoldStays, HoldParts DEF ClientDies, HoldInv, Hold, NoGrant, TypeOK
<1>3. CASE Resume(c)
  BY <1>1, <1>3, HoldParts DEF Resume, HoldInv
<1>4. CASE Connect(c)
  <2>1. Goto(c, "recv", "none", NoLease) /\ holding' = holding \ {c} /\ UNCHANGED <<held, safed>>
    BY <1>4 DEF Connect
  <2>2. \A d \in holding' : Hold(d)'
    BY <1>0, <2>1, OthersStay
  <2> QED
    BY <1>1, <2>1, <2>2, HoldParts DEF HoldInv, Hold
<1>5. CASE Safe(c)
  <2>1. Goto(c, "safe_owner", "safe", NoLease) /\ holding' = holding \cup {c} /\ held'
    BY <1>5 DEF Safe
  <2>2. \A d \in holding \ {c} : Hold(d)'
    BY <1>0, <2>1, OthersStay
  <2>3. Hold(c)'
    BY <1>0, <2>1, GotoOthers DEF Hold
  <2> QED
    BY <1>1, <2>1, <2>2, <2>3 DEF HoldInv, Hold
<1>6. CASE \/ \E wait \in BOOLEAN : Acquire(c, wait)
           \/ CallBegin(c) \/ Release(c) \/ Kick(c) \/ Stop(c) \/ StatusBegin(c) \/ LeaveQueue(c)
  <2>1. PICK l, o, g : Goto(c, l, o, g) /\ o # "safe" /\ l # "safe_submit"
    BY <1>6 DEF Acquire, CallBegin, Release, Kick, Stop, StatusBegin, LeaveQueue
  <2>2. UNCHANGED <<held, holding, safed>>
    BY <1>6 DEF Acquire, CallBegin, Release, Kick, Stop, StatusBegin, LeaveQueue
  <2>3. \A d \in holding \ {c} : Hold(d)'
    BY <1>0, <2>1, OthersStay
  <2>4. Hold(c)'
    BY <1>0, <2>1, GotoOthers DEF Hold
  <2> QED
    BY <1>1, <2>2, <2>3, <2>4, HoldParts DEF HoldInv, Hold
<1> QED
  BY <1>2, <1>3, <1>4, <1>5, <1>6 DEF Client

(* The thread itself, when it ends the owner's lease or has nothing to end. *)
LEMMA HoldEnd ==
  ASSUME NoGrant, HoldInv, NEW t \in Thread, EndLease(t) \/ EndSubmit(t)
  PROVE  HoldInv'
<1>0. TypeOK /\ LeaseInv /\ holding \subseteq Conn /\ UNCHANGED <<held, holding, safed>>
  BY DEF NoGrant, TypeOK, EndLease, EndSubmit
<1>1. safed' => Quiet'
  BY <1>0, NoGrantKeeps, HoldParts
<1>2. ASSUME NEW l, NEW o, NEW g, Goto(t, l, o, g), t \in holding => Hold(t)' PROVE HoldInv'
  BY <1>0, <1>1, <1>2, OthersStay, HoldParts DEF HoldInv, Hold
<1>3. CASE EndLease(t)
  <2>1. op[t] = "safe" /\ t \in holding => active' = {}
    BY <1>0, <1>3, HoldParts DEF Hold, EndLease, MarkEnded, Active
  <2>2. CASE NothingToEnd(t)
    <3>1. PICK l, o, g : Goto(t, l, o, g) /\ (o = "safe" => l = "safe_submit")
                   /\ (l = "safe_submit" => op[t] = "safe")
      BY <2>2 DEF NothingToEnd
    <3>2. t \in holding => Hold(t)'
      BY <1>0, <2>1, <3>1, GotoOthers DEF Hold
    <3> QED
      BY <1>2, <3>1, <3>2
  <2>3. CASE Goto(t, "end_submit", op[t], target[t])
    <3>1. t \in holding => Hold(t)'
      BY <1>0, <2>1, <2>3, GotoOthers DEF Hold
    <3> QED
      BY <1>2, <2>3, <3>1
  <2> QED
    BY <1>3, <2>2, <2>3 DEF EndLease
<1>4. CASE EndSubmit(t)
  <2>1. CASE Goto(t, "wait", op[t], target[t])
    <3>1. op[t] = "safe" /\ t \in holding => active' = {}
      BY <1>0, <1>4, HoldParts DEF Hold, EndSubmit
    <3>2. target[t] \in Lease /\ SafeThenFree(target[t]) \in Job /\ urgent \in Seq(Job)
      BY <1>0, <1>4, JobTypes DEF EndSubmit, LeaseInv, TypeOK
    <3>3. PICK k \in Job : k = SafeThenFree(target[t])
      BY <3>2
    <3>4. target'[t] = target[t] /\ pc'[t] = "wait" /\ op'[t] = op[t]
      BY <1>0, <2>1, GotoOthers
    <3>5. WaitedJob(t)' = k
      BY <3>2, <3>3, <3>4, ConstantsAssumption DEF WaitedJob, SafeThenFree
    <3>6. In(k, urgent')
      BY <1>4, <3>2, <3>3, AppendIn DEF EndSubmit
    <3>7. Pending(WaitedJob(t))'
      BY <3>5, <3>6 DEF Pending
    <3>8. t \in holding => Hold(t)'
      BY <3>1, <3>4, <3>7 DEF Hold
    <3> QED
      BY <1>2, <2>1, <3>8
  <2>2. CASE \E l \in {"closed", "idle"} : Goto(t, l, "none", NoLease)
    <3>1. PICK l \in {"closed", "idle"} : Goto(t, l, "none", NoLease)
      BY <2>2
    <3>2. Hold(t)'
      BY <1>0, <3>1, GotoOthers DEF Hold
    <3> QED
      BY <1>2, <3>1, <3>2
  <2> QED
    BY <1>4, <2>1, <2>2 DEF EndSubmit
<1> QED
  BY <1>3, <1>4

LEMMA HoldServe ==
  ASSUME NoGrant, HoldInv, NEW c \in Conn, Serve(c)
  PROVE  HoldInv'
<1>0. TypeOK /\ LeaseInv /\ c \in Thread /\ holding \subseteq Conn
  BY DEF NoGrant, Thread, TypeOK
<1>1. safed => Quiet'
  BY NoGrantKeeps, HoldParts
<1>2. ASSUME NEW l, NEW o, NEW g, Goto(c, l, o, g), UNCHANGED <<held, holding, safed>>,
             c \in holding => Hold(c)'
      PROVE  HoldInv'
  BY <1>0, <1>1, <1>2, OthersStay, HoldParts DEF HoldInv, Hold
<1>3. ~ \E l \in Lease : Grant(c, l)
  BY DEF NoGrant
<1>4. CASE EndLease(c) \/ EndSubmit(c)
  BY <1>0, <1>4, HoldEnd
<1>5. CASE \/ ConnectionLost(c) \/ CallSubmit(c) \/ CallReturn(c) \/ StopSet(c)
           \/ StatusSubmit(c) \/ StatusReturn(c) \/ WaitTimeout(c)
  <2>1. PICK l, o, g : Goto(c, l, o, g) /\ o # "safe" /\ l # "safe_submit"
    BY <1>5 DEF ConnectionLost, CallSubmit, CallReturn, StopSet, StatusSubmit, StatusReturn, WaitTimeout
  <2>2. UNCHANGED <<held, holding, safed>>
    BY <1>5 DEF ConnectionLost, CallSubmit, CallReturn, StopSet, StatusSubmit, StatusReturn, WaitTimeout
  <2>3. Hold(c)'
    BY <1>0, <2>1, GotoOthers DEF Hold
  <2> QED
    BY <1>2, <2>1, <2>2, <2>3
<1>6. CASE SafeOwner(c)
  <2>1. UNCHANGED <<held, holding, safed, active>>
    BY <1>6 DEF SafeOwner
  <2>2. CASE Active(owner) /\ Goto(c, "end", "safe", owner)
    <3>1. Hold(c)'
      BY <1>0, <2>1, <2>2, GotoOthers DEF Hold, LeaseInv
    <3> QED
      BY <1>2, <2>1, <2>2, <3>1
  <2>3. CASE ~Active(owner) /\ Goto(c, "safe_submit", "safe", NoLease)
    <3>1. active = {}
      BY <1>0, <2>3 DEF LeaseInv, Active
    <3>2. Hold(c)'
      BY <1>0, <2>1, <2>3, <3>1, GotoOthers DEF Hold
    <3> QED
      BY <1>2, <2>1, <2>3, <3>2
  <2> QED
    BY <1>6, <2>2, <2>3 DEF SafeOwner
<1>7. CASE SafeSubmit(c)
  <2>1. Goto(c, "wait", "safe", NoLease) /\ UNCHANGED <<held, holding, safed, active>>
        /\ urgent' = Append(urgent, SafeOnly(c)) /\ pc[c] = "safe_submit"
    BY <1>7 DEF SafeSubmit
  <2>2. PICK k \in Job : k = SafeOnly(c)
    BY JobTypes
  <2>3. target'[c] = NoLease /\ pc'[c] = "wait" /\ op'[c] = "safe"
    BY <1>0, <2>1, GotoOthers
  <2>4. WaitedJob(c)' = k
    BY <2>2, <2>3 DEF WaitedJob, SafeOnly
  <2>5. In(k, urgent')
    BY <1>0, <2>1, <2>2, AppendIn DEF TypeOK
  <2>6. Pending(WaitedJob(c))'
    BY <2>4, <2>5 DEF Pending
  <2>7. c \in holding => active' = {}
    BY <2>1, HoldParts DEF Hold
  <2>8. c \in holding => Hold(c)'
    BY <2>3, <2>6, <2>7 DEF Hold
  <2> QED
    BY <1>2, <2>1, <2>8
<1>8. CASE WaitDone(c)
  <2>1. Goto(c, "recv", "none", NoLease) /\ UNCHANGED <<held, holding>>
    BY <1>8 DEF WaitDone
  <2>2. safed' => Quiet
    BY <1>8, HoldParts DEF WaitDone, Hold
  <2>3. safed' => held'
    BY <1>8, HoldParts DEF WaitDone
  <2>4. Hold(c)'
    BY <1>0, <2>1, GotoOthers DEF Hold
  <2>5. \A d \in holding : Hold(d)'
    BY <1>0, <2>1, <2>4, OthersStay
  <2> QED
    BY <2>1, <2>2, <2>3, <2>5, NoGrantKeeps, HoldParts DEF HoldInv, Hold
<1> QED
  BY <1>3, <1>4, <1>5, <1>6, <1>7, <1>8 DEF Serve

LEMMA HoldStep ==
  ~SafeCanFail /\ TypeOK /\ QueueInv /\ LeaseInv /\ BoardInv /\ HoldInv /\ [Next]_vars => HoldInv'
<1> SUFFICES ASSUME ~SafeCanFail, TypeOK, QueueInv, LeaseInv, BoardInv, HoldInv, [Next]_vars
             PROVE  HoldInv'
  OBVIOUS
<1>1. ASSUME NEW c \in Conn, NEW l \in Lease, Grant(c, l) PROVE HoldInv'
  <2>1. holding = {} /\ ~safed /\ UNCHANGED <<holding, safed>>
    BY <1>1, HoldParts DEF Grant, BoardFree
  <2> QED
    BY <2>1 DEF HoldInv
<1> SUFFICES ASSUME ~ \E c \in Conn, l \in Lease : Grant(c, l) PROVE HoldInv'
  BY <1>1
<1>2. NoGrant /\ holding \subseteq Conn
  BY DEF NoGrant, TypeOK
<1>3. ASSUME UNCHANGED <<pc, op, target, held, holding, safed>> PROVE HoldInv'
  BY <1>2, <1>3, HoldStays, NoGrantKeeps, HoldParts DEF HoldInv, Hold
<1>4. CASE Hardware \/ Main \/ UNCHANGED vars
  BY <1>3, <1>4
  DEF Hardware, HwGet, HwStart, HwRefuse, HwStartup, HwCall, HwSafeOnly, HwSafeThenFree, HwShutdown,
      HwStatus, Main, SignalStop, ShutdownBegin, ShutdownDone, ShutdownTimeout, vars
<1>5. ASSUME NEW o \in {"silent", "idle_limit"}, MonitorScan(o) PROVE HoldInv'
  <2>1. Goto(Monitor, "end", o, owner) /\ UNCHANGED <<held, holding, safed>>
    BY <1>5 DEF MonitorScan
  <2>2. \A c \in holding : Hold(c)'
    BY <1>2, <2>1, OthersStay, ConstantsAssumption DEF Thread
  <2> QED
    BY <1>2, <2>1, <2>2, NoGrantKeeps, HoldParts DEF HoldInv, Hold
<1> QED
  BY <1>2, <1>4, <1>5, HoldClient, HoldServe, HoldEnd
  DEF Next, Exited, Running, MonitorEnds, Thread

(* Once safe() has answered done, no job's signal is on the board until    *)
(* resume, whoever queues, calls, dies or stops.                           *)
THEOREM SafeIsKept == ASSUME ~SafeCanFail PROVE Spec => []SafeHolds
<1>1. HoldInv => SafeHolds
  BY DEF HoldInv, Quiet, SafeHolds
<1> QED
  BY <1>1, HoldInit, HoldStep, BoardConsistent, LeasesConsistent, TypeCorrect, PTL DEF Spec

-----------------------------------------------------------------------------
(* The shutdown *)
LEMMA ShutInit == Init => ShutInv
  BY DEF Init, ShutInv, ExitZeroIsQuiet

LEMMA ShutStep ==
  ~SafeCanFail /\ TypeOK /\ QueueInv /\ LeaseInv /\ BoardInv /\ ShutInv /\ [Next]_vars => ShutInv'
<1> SUFFICES ASSUME ~SafeCanFail, TypeOK, QueueInv, LeaseInv, BoardInv, ShutInv, [Next]_vars
             PROVE  ShutInv'
  OBVIOUS
<1>1. CASE main = "stopped"
  BY <1>1 DEF Next, Exited, vars, ShutInv, ExitZeroIsQuiet, Quiet, Runs
<1>2. CASE main = "serve"
  <2>1. CASE ShutdownBegin
    <3>1. PICK k \in Job : k = ShutdownJob
      BY JobTypes
    <3>2. In(k, urgent') /\ main' = "shutdown"
      BY <2>1, <3>1, AppendIn DEF ShutdownBegin, TypeOK
    <3>3. Pending(ShutdownJob)'
      BY <3>1, <3>2 DEF Pending, ShutdownJob
    <3> QED
      BY <3>2, <3>3 DEF ShutInv, ExitZeroIsQuiet
  <2>2. CASE ~ShutdownBegin
    <3>1. main' = "serve"
      <4>1. CASE Hardware \/ Main \/ UNCHANGED vars
        BY <1>2, <2>2, <4>1
        DEF Hardware, HwGet, HwStart, HwRefuse, HwStartup, HwCall, HwSafeOnly, HwSafeThenFree,
            HwShutdown, HwStatus, Main, SignalStop, ShutdownDone, ShutdownTimeout, vars
      <4>2. CASE \E c \in Conn, l \in Lease : Grant(c, l)
        BY <1>2, <4>2 DEF Grant
      <4>3. CASE \E o \in {"silent", "idle_limit"} : MonitorScan(o)
        BY <1>2, <4>3 DEF MonitorScan
      <4> QED
        BY <1>2, <4>1, <4>2, <4>3, SameDeviceClient, SameDeviceServe, SameDeviceEnd
        DEF Next, Exited, Running, MonitorEnds, Thread, SameDevice
    <3> QED
      BY <3>1 DEF ShutInv, ExitZeroIsQuiet
  <2> QED
    BY <2>1, <2>2
<1>3. CASE main = "shutdown"
  <2>1. active = {} /\ ~ \E c \in Conn, l \in Lease : Grant(c, l)
    BY <1>3, ConstantsAssumption DEF LeaseInv, TypeOK, Grant, BoardFree
  <2>2. Quiet => Quiet'
    BY <2>1, QuietStays
  <2>3. PICK k \in Job : k = ShutdownJob /\ k.kind \in SafeKinds
    BY JobTypes DEF ShutdownJob, SafeKinds
  <2>4. Pending(k) => Pending(k)' \/ Quiet'
    BY <2>1, <2>3, PendingStays
  <2>5. (Pending(k)' <=> Pending(ShutdownJob)') /\ (Pending(k) <=> Pending(ShutdownJob))
    BY <2>3 DEF Pending, ShutdownJob
  <2>6. ~Pending(ShutdownJob)' => Quiet'
    BY <1>3, <2>2, <2>4, <2>5 DEF ShutInv
  <2>7. CASE main' = "stopped" /\ exitCode' = 0
    <3>1. ShutdownDone
      <4>1. CASE Hardware \/ UNCHANGED vars
        BY <1>3, <2>7, <4>1
        DEF Hardware, HwGet, HwStart, HwRefuse, HwStartup, HwCall, HwSafeOnly, HwSafeThenFree,
            HwShutdown, HwStatus, vars
      <4>2. CASE \E o \in {"silent", "idle_limit"} : MonitorScan(o)
        BY <1>3, <2>7, <4>2 DEF MonitorScan
      <4>3. CASE Main
        BY <1>3, <2>7, <4>3 DEF Main, SignalStop, ShutdownBegin, ShutdownTimeout
      <4> QED
        BY <1>3, <2>1, <2>7, <4>1, <4>2, <4>3, SameDeviceClient, SameDeviceServe, SameDeviceEnd
        DEF Next, Exited, Running, MonitorEnds, Thread, SameDevice
    <3>2. Quiet /\ tx' = tx
      BY <1>3, <3>1 DEF ShutdownDone, ShutInv
    <3> QED
      BY <2>7, <3>2 DEF ShutInv, ExitZeroIsQuiet, Quiet
  <2> QED
    BY <2>6, <2>7 DEF ShutInv, ExitZeroIsQuiet
<1> QED
  BY <1>1, <1>2, <1>3 DEF TypeOK

(* Exit 0 means every job's signal is off.                                 *)
THEOREM ExitZeroMeansQuiet == ASSUME ~SafeCanFail PROVE Spec => []ExitZeroIsQuiet
<1>1. ShutInv => ExitZeroIsQuiet
  BY DEF ShutInv
<1> QED
  BY <1>1, ShutInit, ShutStep, BoardConsistent, LeasesConsistent, TypeCorrect, PTL DEF Spec

-----------------------------------------------------------------------------
(* The promise *)
LEMMA PromiseInit == Init => Promise!Init
  BY DEF Init, Promise!Init, Runs, NoJob

(* A thread that neither grants nor ends the owner's lease at most closes  *)
(* the server.                                                             *)
LEMMA PromiseCloses ==
  ASSUME UNCHANGED <<owner, ending, running, current, tx>>,
         state' = state \/ state' = "stopping"
  PROVE  Promise!Close \/ UNCHANGED Promise!vars
  BY DEF Promise!Close, Promise!vars, Runs

LEMMA PromiseThreads ==
  ASSUME TypeOK, LeaseInv, NEW t \in Thread, EndLease(t) \/ EndSubmit(t)
  PROVE  Promise!Next \/ UNCHANGED Promise!vars
<1>1. CASE EndSubmit(t) \/ (EndLease(t) /\ ~Active(target[t]))
  BY <1>1, PromiseCloses DEF EndSubmit, EndLease, Promise!Next
<1>2. CASE EndLease(t) /\ Active(target[t])
  <2>1. owner = target[t] /\ owner # NoLease /\ ~ending
    BY <1>2, ConstantsAssumption DEF Active, LeaseInv, TypeOK
  <2>2. ending' /\ UNCHANGED <<owner, state, running, current, tx>>
    BY <1>2, <2>1 DEF EndLease, MarkEnded
  <2>3. Promise!EndLease
    BY <2>1, <2>2 DEF Promise!EndLease, Runs
  <2> QED
    BY <2>3 DEF Promise!Next
<1> QED
  BY <1>1, <1>2

LEMMA PromiseGrant ==
  ASSUME TypeOK, LeaseInv, BoardInv, NEW c \in Conn, NEW l \in Lease, Grant(c, l)
  PROVE  Promise!Next
<1>1. /\ state = "ready" /\ owner = NoLease /\ owner' = l
      /\ UNCHANGED <<state, ending, running, current, tx>>
  BY DEF Grant, BoardFree
<1>2. main = "serve"
  BY <1>1 DEF LeaseInv
<1>3. tx = NoLease /\ ~Runs("call")
  BY <1>1, <1>2, ConstantsAssumption DEF BoardInv, TxBelongsToOwner, LeaseInv, CallsServeOwner, TypeOK
<1>4. Promise!Grant(l)
  BY <1>1, <1>3 DEF Promise!Grant, Runs
<1> QED
  BY <1>4 DEF Promise!Next

LEMMA PromiseMain ==
  ASSUME LeaseInv, Main
  PROVE  Promise!Next \/ UNCHANGED Promise!vars
<1>1. CASE SignalStop \/ ShutdownDone \/ ShutdownTimeout
  BY <1>1, PromiseCloses DEF SignalStop, ShutdownDone, ShutdownTimeout, Promise!Next
<1>2. CASE ShutdownBegin
  <2>1. state = "stopping" /\ state' = "stopping" /\ owner' = NoLease /\ ~ending'
        /\ UNCHANGED <<running, current, tx>>
    BY <1>2 DEF ShutdownBegin, LeaseInv
  <2>2. ending' = FALSE
    BY <1>2 DEF ShutdownBegin
  <2>3. Promise!Drop
    BY <2>1, <2>2 DEF Promise!Drop, Runs
  <2> QED
    BY <2>3 DEF Promise!Next
<1> QED
  BY <1>1, <1>2 DEF Main

(* A step of the board's own thread that makes TX safe, or changes nothing *)
(* the promise speaks of.                                                  *)
LEMMA PromiseSafe ==
  ASSUME ~Runs("call"), ~Runs("call")', tx' \in {tx, NoLease}, UNCHANGED <<owner, ending>>,
         (state' # "stopping") = (state # "stopping")
  PROVE  Promise!Next \/ UNCHANGED Promise!vars
<1>1. Runs("call")' = Runs("call")
  BY DEF Runs
<1>2. CASE tx' = tx
  BY <1>1, <1>2 DEF Promise!vars
<1>3. CASE tx' = NoLease
  <2>1. Promise!MakeSafe
    BY <1>1, <1>3 DEF Promise!MakeSafe
  <2> QED
    BY <2>1 DEF Promise!Next
<1> QED
  BY <1>2, <1>3

LEMMA PromiseHardware ==
  ASSUME ~SafeCanFail, TypeOK, QueueInv, LeaseInv, BoardInv, Hardware
  PROVE  Promise!Next \/ UNCHANGED Promise!vars
<1>1. CASE HwGet \/ HwRefuse \/ HwStatus \/ (HwStart /\ running.kind # "call")
  <2>1. ~Runs("call") /\ ~Runs("call")' /\ UNCHANGED <<state, owner, ending, tx>>
    BY <1>1 DEF HwGet, HwRefuse, HwStatus, HwStart, Runs, NoJob, Finish, QueueInv
  <2> QED
    BY <2>1, PromiseSafe
<1>2. CASE HwStart /\ running.kind = "call"
  <2>1. owner # NoLease /\ ~ending
    BY <1>2, ConstantsAssumption DEF HwStart, Admitted, Active, LeaseInv, TypeOK
  <2>2. ~Runs("call") /\ Runs("call")' /\ UNCHANGED <<state, owner, ending, tx>>
    BY <1>2 DEF HwStart, Runs
  <2>3. Promise!StartCall
    BY <2>1, <2>2 DEF Promise!StartCall, Runs, TypeOK
  <2> QED
    BY <2>3 DEF Promise!Next
<1>3. ASSUME NEW o \in {"ok", "no_connect", "no_program"}, HwStartup(o)
      PROVE  Promise!Next \/ UNCHANGED Promise!vars
  <2>1. /\ ~Runs("call") /\ ~Runs("call")' /\ UNCHANGED <<owner, ending>> /\ tx' \in {tx, NoLease}
        /\ state' \in {state, "ready", "stopping"} /\ (state' = "ready" => state # "stopping")
    BY <1>3 DEF HwStartup, Runs, Finish
  <2>2. CASE state' = "stopping" /\ state # "stopping"
    <3>1. Promise!Close
      BY <2>1, <2>2 DEF Promise!Close, Runs
    <3> QED
      BY <3>1 DEF Promise!Next
  <2>3. CASE (state' # "stopping") = (state # "stopping")
    BY <2>1, <2>3, PromiseSafe
  <2> QED
    BY <2>1, <2>2, <2>3
<1>4. ASSUME NEW on \in BOOLEAN, HwCall(on) PROVE Promise!Next
  <2>1. Runs("call") /\ ~Runs("call")' /\ UNCHANGED <<state, owner, ending>>
    BY <1>4 DEF HwCall, Runs, Finish
  <2>2. Promise!FinishCall
    BY <2>1 DEF Promise!FinishCall, Runs
  <2> QED
    BY <2>2 DEF Promise!Next
<1>5. CASE HwSafeOnly \/ HwShutdown
  <2>1. ~Runs("call") /\ ~Runs("call")' /\ tx' \in {tx, NoLease} /\ UNCHANGED <<state, owner, ending>>
    BY <1>5 DEF HwSafeOnly, HwShutdown, SafeState, Runs, Finish
  <2> QED
    BY <2>1, PromiseSafe
<1>6. CASE HwSafeThenFree
  <2>1. ~Runs("call") /\ ~Runs("call")' /\ tx' = (IF connected THEN NoLease ELSE tx) /\ state' = state
    BY <1>6 DEF HwSafeThenFree, SafeState, Runs, Finish
  <2>2. CASE owner = running.lease /\ owner # NoLease
    <3>1. ending /\ connected
      BY <1>6, <2>2 DEF HwSafeThenFree, Runs, LeaseInv, BoardInv
    <3>2. owner' = NoLease /\ ending' = FALSE
      BY <1>6, <2>2 DEF HwSafeThenFree
    <3>3. Promise!Free
      BY <2>1, <2>2, <3>1, <3>2 DEF Promise!Free, Runs
    <3> QED
      BY <3>3 DEF Promise!Next
  <2>3. CASE ~(owner = running.lease /\ owner # NoLease)
    <3>1. UNCHANGED <<owner, ending>>
      BY <1>6, <2>3 DEF HwSafeThenFree, LeaseInv, TypeOK
    <3> QED
      BY <2>1, <3>1, PromiseSafe
  <2> QED
    BY <2>2, <2>3
<1> QED
  BY <1>1, <1>2, <1>3, <1>4, <1>5, <1>6 DEF Hardware

LEMMA PromiseStep ==
  ~SafeCanFail /\ TypeOK /\ QueueInv /\ LeaseInv /\ BoardInv /\ [Next]_vars => [Promise!Next]_(Promise!vars)
<1> SUFFICES ASSUME ~SafeCanFail, TypeOK, QueueInv, LeaseInv, BoardInv, [Next]_vars
             PROVE  Promise!Next \/ UNCHANGED Promise!vars
  OBVIOUS
<1>1. ASSUME NEW c \in Conn, Client(c) PROVE Promise!Next \/ UNCHANGED Promise!vars
  <2>1. UNCHANGED ending
    BY <1>1 DEF Client, Connect, ClientDies, Acquire, CallBegin, Release, Safe, Kick, Resume, Stop,
                StatusBegin, LeaveQueue
  <2> QED
    BY <1>1, <2>1, SameDeviceClient, PromiseCloses DEF SameDevice, Promise!Next
<1>2. ASSUME NEW c \in Conn, Serve(c) PROVE Promise!Next \/ UNCHANGED Promise!vars
  <2>1. CASE EndLease(c) \/ EndSubmit(c)
    BY <2>1, PromiseThreads DEF Thread
  <2>2. CASE \E l \in Lease : Grant(c, l)
    BY <2>2, PromiseGrant
  <2>3. CASE ~(EndLease(c) \/ EndSubmit(c)) /\ ~ \E l \in Lease : Grant(c, l)
    <3>1. UNCHANGED ending
      BY <1>2, <2>3 DEF Serve, ConnectionLost, CallSubmit, CallReturn, SafeOwner, SafeSubmit, StopSet,
                        StatusSubmit, StatusReturn, WaitDone, WaitTimeout
    <3> QED
      BY <1>2, <2>3, <3>1, SameDeviceServe, PromiseCloses DEF SameDevice, Promise!Next
  <2> QED
    BY <2>1, <2>2, <2>3
<1>3. ASSUME NEW o \in {"silent", "idle_limit"}, MonitorScan(o)
      PROVE  Promise!Next \/ UNCHANGED Promise!vars
  BY <1>3, PromiseCloses DEF MonitorScan, Promise!Next
<1>4. CASE UNCHANGED vars
  BY <1>4, PromiseCloses DEF vars, Promise!Next
<1> QED
  BY <1>1, <1>2, <1>3, <1>4, PromiseThreads, PromiseMain, PromiseHardware
  DEF Next, Exited, Running, MonitorEnds, Thread

(* The queue, the threads and the stop paths implement the promise to the  *)
(* jobs: every step of the server is one of BoardLease, or none.           *)
THEOREM PromiseIsKept == ASSUME ~SafeCanFail PROVE Spec => KeepsPromise
  BY PromiseInit, PromiseStep, BoardConsistent, LeasesConsistent, TypeCorrect, PTL
  DEF Spec, KeepsPromise, Promise!Spec
=============================================================================
