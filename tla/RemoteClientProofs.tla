------------------------- MODULE RemoteClientProofs -------------------------
(***************************************************************************)
(* What RemoteClient keeps for any number of requests, jobs, programmings, *)
(* crashes and restarts, as long as a Ctrl+C hits only calls and           *)
(* programmings, whose interrupted reply drops the connection.  (The two   *)
(* requests sent past _call keep it, and then no theorem below holds.)     *)
(***************************************************************************)
EXTENDS RemoteClient, SequenceTheorems, TLAPS

Message == [id : Nat, op : Op]
Answered == [id : Nat, op : Op \cup {"note"}, programming : Nat,
             kind : {"ok", "revoked", "protocol", "error"}]

(* Queues of one message. *)
LEMMA Single ==
  ASSUME NEW S, NEW s \in Seq(S), NEW x \in S
  PROVE  /\ Append(s, x) \in Seq(S) /\ Append(s, x) # <<>>
         /\ s = <<>> => Len(Append(s, x)) = 1 /\ Append(s, x)[1] = x
         /\ s # <<>> => Head(s) = s[1] /\ Head(s) \in S /\ Tail(s) \in Seq(S) /\ Len(s) # 0
         /\ Len(s) = 1 => Tail(s) = <<>>
<1>1. s # <<>> => Head(s) = s[1] /\ Head(s) \in S /\ Tail(s) \in Seq(S) /\ Len(s) # 0
  OBVIOUS
<1>2. Len(s) = 1 => Len(Tail(s)) = 0 /\ Tail(s) \in Seq(S)
  OBVIOUS
<1>3. Len(s) = 1 => Tail(s) = <<>>
  BY <1>2, EmptySeq
<1>4. Append(s, x) \in Seq(S) /\ Append(s, x) # <<>>
  OBVIOUS
<1> QED
  BY <1>1, <1>3, <1>4

(* --- the types --- *)
LEMMA InitType == Init => TypeOK
<1>1. <<>> \in Seq(Message) /\ <<>> \in Seq(Answered)
  OBVIOUS
<1>2. Nothing \in [id : Nat, op : Op \cup {"none", "note"}]
  BY DEF Nothing
<1> SUFFICES ASSUME Init PROVE TypeOK
  OBVIOUS
<1>3. requests \in Seq([id : Nat, op : Op]) /\ serving \in [id : Nat, op : Op \cup {"none", "note"}]
  BY <1>1, <1>2 DEF Init, Message
<1>4. replies \in Seq([id : Nat, op : Op \cup {"note"}, programming : Nat,
                      kind : {"ok", "revoked", "protocol", "error"}])
  BY <1>1 DEF Init, Answered
<1> QED
  BY <1>3, <1>4 DEF Init, TypeOK

LEMMA ServingMoves ==
  ASSUME TypeOK, NEW kind \in {"ok", "revoked", "protocol", "error"}, NEW id \in Nat,
         serving.op # "none", Answer(kind, id)
  PROVE  /\ replies' \in Seq(Answered) /\ serving' \in [id : Nat, op : Op \cup {"none", "note"}]
         /\ asked' \in Nat /\ requests' \in Seq(Message)
<1>1. Reply(serving, kind, id) \in Answered
  BY DEF TypeOK, Reply, Answered
<1>2. replies \in Seq(Answered)
  BY DEF TypeOK, Answered
<1> QED
  BY <1>1, <1>2, Single DEF Answer, TypeOK, Message, Nothing

LEMMA SendType ==
  ASSUME TypeOK, NEW o \in Op, Send(o)
  PROVE  requests' \in Seq(Message) /\ asked' \in Nat /\ replies' = replies
<1>1. [id |-> asked + 1, op |-> o] \in Message /\ requests \in Seq(Message)
  BY DEF TypeOK, Message
<1> QED
  BY <1>1, Single DEF Send, TypeOK

(* The conjuncts of TypeOK by who writes them. *)
ClientTyped ==
  /\ user \in {"idle", "wait", "judge", "again", "out"}
  /\ doing \in UserOp \cup {"none"}
  /\ beat \in {"sleep", "due", "wait", "gone"} /\ stopBeat \in BOOLEAN
  /\ lock \in {"free", "user", "beat"}
  /\ end \in {"none", "lost", "revoked", "released"}
  /\ open \in BOOLEAN /\ known \in Nat /\ jobs \in Nat
  /\ measured \in SUBSET (Nat \X Nat)
SocketTyped == asked \in Nat /\ requests \in Seq(Message) /\ replies \in Seq(Answered)
ServerTyped ==
  /\ up \in BOOLEAN /\ lease \in {"active", "revoked", "ended", "closed"}
  /\ serving \in [id : Nat, op : Op \cup {"none", "note"}]
  /\ noted \in Nat /\ file \in Nat /\ board \in Nat /\ count \in Nat

LEMMA Typed == TypeOK <=> ClientTyped /\ SocketTyped /\ ServerTyped
  BY DEF TypeOK, ClientTyped, SocketTyped, ServerTyped, Message, Answered

LEMMA HeadTyped ==
  ASSUME TypeOK, replies # <<>>
  PROVE  /\ Head(replies) \in Answered /\ Head(replies).programming \in Nat
         /\ Tail(replies) \in Seq(Answered)
<1>1. replies \in Seq(Answered)
  BY DEF TypeOK, Answered
<1>2. Head(replies) \in Answered /\ Tail(replies) \in Seq(Answered)
  BY <1>1
<1> QED
  BY <1>2 DEF Answered

LEMMA TypeStep == TypeOK /\ [Next]_vars => TypeOK'
<1> SUFFICES ASSUME TypeOK, [Next]_vars PROVE TypeOK'
  OBVIOUS
<1>0. ClientTyped /\ SocketTyped /\ ServerTyped
  BY Typed
<1>a. UNCHANGED clientVars => ClientTyped'
  BY <1>0 DEF ClientTyped, clientVars
<1>b. UNCHANGED socketVars => SocketTyped'
  BY <1>0 DEF SocketTyped, socketVars
<1>c. UNCHANGED serverVars => ServerTyped'
  BY <1>0 DEF ServerTyped, serverVars, recordVars
<1>d. \A o \in Op : Send(o) => SocketTyped'
  BY SendType, <1>0 DEF SocketTyped
<1>e. ClientTyped' /\ SocketTyped' /\ ServerTyped' => TypeOK'
  BY DEF TypeOK, ClientTyped, SocketTyped, ServerTyped, Message, Answered
<1>1. ASSUME NEW o \in UserOp, Request(o) PROVE TypeOK'
  <2>1. ClientTyped'
    BY <1>0, <1>1 DEF Request, ClientTyped
  <2>2. Send(o) /\ o \in Op /\ UNCHANGED serverVars
    BY <1>1 DEF Request, Op
  <2> QED
    BY <2>1, <2>2, <1>c, <1>d, <1>e
<1>2. CASE AskAgain
  <2>1. ClientTyped' /\ UNCHANGED serverVars
    BY <1>0, <1>2 DEF AskAgain, ClientTyped, UserOp
  <2>2. Send("session") \/ UNCHANGED socketVars
    BY <1>2 DEF AskAgain
  <2> QED
    BY <2>1, <2>2, <1>b, <1>c, <1>d, <1>e DEF UserOp, Op
<1>3. CASE StopBeat \/ Judge \/ UserLost \/ Interrupt \/ BeatDue \/ BeatLost \/ Kill
  <2>1. UNCHANGED socketVars /\ UNCHANGED serverVars
    BY <1>3 DEF StopBeat, Judge, UserLost, Interrupt, BeatDue, BeatLost, Kill
  <2>2. CASE StopBeat \/ BeatDue \/ BeatLost \/ Kill
    BY <2>1, <2>2, <1>0, <1>b, <1>c, <1>e
    DEF StopBeat, BeatDue, BeatLost, Kill, MarkLost, ClientTyped
  <2>3. CASE Judge \/ UserLost \/ Interrupt
    BY <2>1, <2>3, <1>0, <1>b, <1>c, <1>e
    DEF Judge, UserLost, Interrupt, MarkLost, MarkRevoked, Released, After, ClientTyped
  <2> QED
    BY <1>3, <2>2, <2>3
<1>4. CASE Release
  <2>1. ClientTyped' /\ UNCHANGED serverVars
    BY <1>0, <1>4 DEF Release, ClientTyped, UserOp
  <2>2. Send("release") \/ UNCHANGED socketVars
    BY <1>4 DEF Release
  <2> QED
    BY <2>1, <2>2, <1>b, <1>c, <1>d, <1>e DEF UserOp, Op
<1>5. CASE UserReply
  <2>1. SocketTyped' /\ UNCHANGED serverVars
    BY <1>0, <1>5, HeadTyped DEF UserReply, SocketTyped
  <2>2. PICK r \in Answered : r = Head(replies) /\ r.programming \in Nat
    BY <1>5, HeadTyped DEF UserReply
  <2>3. known' \in Nat /\ measured' \in SUBSET (Nat \X Nat)
    BY <1>0, <1>5, <2>2 DEF UserReply, ClientTyped
  <2>4. /\ user' \in {"judge", After(doing)} /\ lock' = "free"
        /\ end' \in {end, "released"} /\ open' \in {open, FALSE}
        /\ UNCHANGED <<doing, beat, stopBeat, jobs>>
    BY <1>5 DEF UserReply, Released
  <2> QED
    BY <2>1, <2>3, <2>4, <1>0, <1>c, <1>e DEF ClientTyped, After
<1>6. CASE BeatAsk
  <2>1. ClientTyped' /\ UNCHANGED serverVars
    BY <1>0, <1>6 DEF BeatAsk, ClientTyped
  <2>2. Send("heartbeat") \/ UNCHANGED socketVars
    BY <1>6 DEF BeatAsk
  <2> QED
    BY <2>1, <2>2, <1>b, <1>c, <1>d, <1>e DEF Op
<1>7. CASE BeatReply
  <2>1. SocketTyped' /\ UNCHANGED serverVars
    BY <1>0, <1>7, HeadTyped DEF BeatReply, SocketTyped
  <2>2. ClientTyped'
    BY <1>0, <1>7 DEF BeatReply, MarkLost, MarkRevoked, ClientTyped
  <2> QED
    BY <2>1, <2>2, <1>c, <1>e
<1>8. CASE NewJob
  <2>1. ServerTyped'
    BY <1>0, <1>8 DEF NewJob, ServerTyped, recordVars
  <2>3. noted \in Nat /\ jobs \in Nat
    BY <1>0 DEF ClientTyped, ServerTyped
  <2>4. ClientTyped'
    <3>1. measured' \in SUBSET (Nat \X Nat)
      BY <1>0, <1>8 DEF NewJob, ClientTyped
    <3>2. jobs' \in Nat /\ known' \in Nat
      BY <2>3, <1>8 DEF NewJob
    <3> QED
      BY <3>1, <3>2, <1>8 DEF NewJob, ClientTyped, UserOp
  <2>2. SocketTyped'
    BY <1>0, <1>8 DEF NewJob, SocketTyped
  <2> QED
    BY <2>1, <2>2, <2>4, <1>e
<1>9. CASE Take
  <2>1. requests \in Seq(Message) /\ requests # <<>>
    BY <1>0, <1>9 DEF Take, SocketTyped
  <2>2. Head(requests) \in Message /\ Tail(requests) \in Seq(Message)
    BY <2>1
  <2>3. SocketTyped' /\ ServerTyped'
    BY <2>2, <1>0, <1>9 DEF Take, SocketTyped, ServerTyped, Message, recordVars
  <2>4. UNCHANGED clientVars
    BY <1>9 DEF Take
  <2> QED
    BY <2>3, <2>4, <1>a, <1>e
<1>10. CASE Refuse \/ ServeCall \/ ServeHeartbeat \/ ServeSession \/ ServeLoaded \/ ServeRelease
  <2>1. \E kind \in {"ok", "revoked", "protocol", "error"}, id \in {0, board, noted} : Answer(kind, id)
    BY <1>10 DEF Refuse, ServeCall, ServeHeartbeat, ServeSession, ServeLoaded, ServeRelease
  <2>2. /\ serving.op # "none" /\ UNCHANGED clientVars /\ lease' \in {lease, "ended"}
        /\ UNCHANGED up /\ UNCHANGED recordVars
    BY <1>10 DEF Refuse, ServeCall, ServeHeartbeat, ServeSession, ServeLoaded, ServeRelease
  <2>3. board \in Nat /\ noted \in Nat
    BY <1>0 DEF ServerTyped
  <2>4. SocketTyped' /\ serving' \in [id : Nat, op : Op \cup {"none", "note"}]
    BY <2>1, <2>2, <2>3, ServingMoves DEF SocketTyped
  <2> QED
    BY <2>2, <2>4, <1>0, <1>a, <1>e DEF ServerTyped, recordVars
<1>11. CASE ServeProgram
  <2>1. CASE Answer("error", 0) /\ board' \in {board, 0} /\ UNCHANGED count
    BY <1>11, <2>1, <1>0, <1>a, <1>e, ServingMoves DEF ServeProgram, SocketTyped, ServerTyped
  <2>2. CASE Programs /\ board' = count' /\ serving' = [serving EXCEPT !.op = "note"] /\ UNCHANGED socketVars
    BY <1>11, <2>2, <1>0, <1>a, <1>b, <1>e DEF ServeProgram, Programs, ServerTyped
  <2> QED
    BY <1>11, <2>1, <2>2 DEF ServeProgram
<1>12. CASE Note
  BY <1>12, <1>0, <1>a, <1>e, ServingMoves DEF Note, SocketTyped, ServerTyped
<1>13. CASE Revoke \/ ClientLost \/ Restart
  <2>1. UNCHANGED clientVars /\ UNCHANGED socketVars
    BY <1>13 DEF Revoke, ClientLost, Restart
  <2>2. ServerTyped'
    <3>1. CASE Revoke \/ ClientLost
      BY <3>1, <1>0 DEF Revoke, ClientLost, ServerTyped, recordVars
    <3>2. CASE Restart
      <4>1. count \in Nat /\ file \in Nat /\ noted \in Nat /\ UNCHANGED <<lease, serving>>
        BY <3>2, <1>0 DEF Restart, ServerTyped
      <4>2. count' \in Nat /\ board' \in Nat /\ file' \in Nat /\ noted' \in Nat /\ up' \in BOOLEAN
        <5>1. count' \in Nat /\ board' = count'
          BY <3>2, <4>1 DEF Restart, Programs
        <5>2. CASE up' = TRUE /\ noted' = count' /\ file' \in {file, count'}
          BY <5>1, <5>2, <4>1
        <5>3. CASE UNCHANGED <<up, noted, file>>
          BY <5>1, <5>3, <4>1, <1>0 DEF ServerTyped
        <5> QED
          BY <3>2, <5>2, <5>3 DEF Restart
      <4> QED
        BY <4>1, <4>2, <1>0 DEF ServerTyped
    <3> QED
      BY <1>13, <3>1, <3>2
  <2> QED
    BY <2>1, <2>2, <1>0, <1>a, <1>b, <1>e
<1>14. CASE Crash
  <2>1. SocketTyped'
    BY <1>14, <1>0 DEF Crash, SocketTyped
  <2> QED
    BY <2>1, <1>14, <1>0, <1>a, <1>e DEF Crash, Nothing, ServerTyped
<1>15. CASE UNCHANGED vars
  BY <1>15, <1>a, <1>b, <1>c, <1>e DEF vars
<1> QED
  BY <1>1, <1>2, <1>3, <1>4, <1>5, <1>6, <1>7, <1>8, <1>9, <1>10, <1>11, <1>12, <1>13,
     <1>14, <1>15
  DEF Next, AskCall, AskSession, AskLoaded, UserOp

(* The two ends of a connection, the queues and the record keep their types. *)
THEOREM TypeCorrect == Spec => []TypeOK
  BY InitType, TypeStep, PTL DEF Spec

-----------------------------------------------------------------------------
(* The lock: who waits for a reply holds it, and a job that is over while  *)
(* its socket is open is over by a revocation.                             *)
LockInv ==
  /\ lock = "user" <=> user = "wait"
  /\ lock = "beat" <=> beat = "wait"
  /\ user = "wait" => open
  /\ end \in {"lost", "released"} => ~open
  /\ end = "none" => open \/ (user = "out" /\ beat = "gone")
  /\ user = "wait" /\ doing = "release" => end = "none"
  /\ user = "judge" => doing \in {"call", "program"}

LEMMA LockInit == Init => LockInv
  BY DEF Init, LockInv

LEMMA LockStep == TypeOK /\ LockInv /\ [Next]_vars => LockInv'
<1> SUFFICES ASSUME TypeOK, LockInv, [Next]_vars PROVE LockInv'
  OBVIOUS
<1>0. ClientTyped
  BY Typed
<1>a. UNCHANGED clientVars => LockInv'
  BY DEF LockInv, clientVars
<1>1. CASE AskCall \/ AskSession \/ AskLoaded
  <2>1. PICK o \in UserOp \ {"release"} : Request(o)
    BY <1>1 DEF AskCall, AskSession, AskLoaded, UserOp
  <2> QED
    BY <2>1, <1>0 DEF Request, LockInv, ClientTyped
<1>2. CASE AskAgain \/ StopBeat \/ Release \/ Judge
  BY <1>2, <1>0 DEF AskAgain, StopBeat, Release, Judge, MarkRevoked, After, LockInv, ClientTyped
<1>3. CASE UserReply
  <2>1. /\ user = "wait" /\ lock' = "free" /\ user' \in {"judge", After(doing)}
        /\ doing = "release" => end' = "released" /\ ~open' /\ user' = "out"
        /\ doing # "release" => UNCHANGED <<end, open>> /\ user' # "out"
        /\ user' = "judge" => doing \in {"call", "program"}
        /\ UNCHANGED <<doing, beat>>
    BY <1>3, <1>0 DEF UserReply, Released, After, ClientTyped
  <2> QED
    BY <2>1, <1>0 DEF LockInv, ClientTyped, After
<1>4. CASE UserLost \/ Interrupt
  BY <1>4, <1>0 DEF UserLost, Interrupt, MarkLost, Released, After, LockInv, ClientTyped
<1>5. CASE BeatDue \/ BeatAsk \/ BeatLost \/ Kill \/ NewJob
  BY <1>5, <1>0 DEF BeatDue, BeatAsk, BeatLost, Kill, NewJob, MarkLost, LockInv, ClientTyped
<1>6. CASE BeatReply
  <2>1. /\ beat = "wait" /\ lock' = "free" /\ beat' # "wait" /\ UNCHANGED <<user, doing>>
        /\ \/ UNCHANGED <<end, open>>
           \/ end' = "revoked" /\ UNCHANGED open
           \/ end' # "none" /\ ~open'
    BY <1>6 DEF BeatReply, MarkLost, MarkRevoked
  <2> QED
    BY <2>1, <1>0 DEF LockInv, ClientTyped
<1>7. CASE \/ Take \/ Refuse \/ ServeCall \/ ServeHeartbeat \/ ServeSession \/ ServeLoaded
           \/ ServeRelease \/ ServeProgram \/ Note \/ Revoke \/ ClientLost \/ Crash \/ Restart
           \/ UNCHANGED vars
  BY <1>7, <1>a
  DEF Take, Refuse, ServeCall, ServeHeartbeat, ServeSession, ServeLoaded, ServeRelease,
      ServeProgram, Note, Revoke, ClientLost, Crash, Restart, vars
<1> QED
  BY <1>1, <1>2, <1>3, <1>4, <1>5, <1>6, <1>7 DEF Next

(* Why a job is over is not forgotten, in whichever order the two threads  *)
(* note it.                                                                *)
THEOREM EndsAreFinal == Spec => EndIsFinal
<1> DEFINE Keeps == end # "none" /\ jobs' = jobs => end' \in {end, "revoked"}
<1>1. TypeOK /\ LockInv /\ [Next]_vars => [Keeps]_vars
  <2> SUFFICES ASSUME TypeOK, LockInv, [Next]_vars, end # "none", jobs' = jobs
               PROVE  end' \in {end, "revoked"}
    OBVIOUS
  <2>1. ClientTyped
    BY Typed
  <2>2. CASE UserReply \/ UserLost \/ Interrupt
    BY <2>2, <2>1 DEF UserReply, UserLost, Interrupt, MarkLost, Released, LockInv, ClientTyped
  <2>3. CASE BeatReply \/ BeatLost \/ Judge
    BY <2>3, <2>1 DEF BeatReply, BeatLost, Judge, MarkLost, MarkRevoked, ClientTyped
  <2>4. CASE NewJob
    BY <2>4, <2>1 DEF NewJob, ClientTyped
  <2>5. CASE \/ AskCall \/ AskSession \/ AskLoaded \/ AskAgain \/ StopBeat \/ Release
             \/ BeatDue \/ BeatAsk \/ Kill
    BY <2>5 DEF AskCall, AskSession, AskLoaded, Request, AskAgain, StopBeat, Release, BeatDue,
                BeatAsk, Kill
  <2>6. CASE \/ Take \/ Refuse \/ ServeCall \/ ServeHeartbeat \/ ServeSession \/ ServeLoaded
             \/ ServeRelease \/ ServeProgram \/ Note \/ Revoke \/ ClientLost \/ Crash \/ Restart
             \/ UNCHANGED vars
    BY <2>6
    DEF Take, Refuse, ServeCall, ServeHeartbeat, ServeSession, ServeLoaded, ServeRelease,
        ServeProgram, Note, Revoke, ClientLost, Crash, Restart, vars, clientVars
  <2> QED
    BY <2>2, <2>3, <2>4, <2>5, <2>6 DEF Next
<1>2. Spec => []LockInv
  BY LockInit, LockStep, TypeCorrect, PTL DEF Spec
<1> QED
  BY <1>1, <1>2, TypeCorrect, PTL DEF Spec, EndIsFinal

-----------------------------------------------------------------------------
(* What is under way on a connection that will be used again: nothing      *)
(* while the lock is free, else one message, the holder's, in one place.   *)
(* "note" is the second step of serving a program request.                 *)
Holders(r) ==
  /\ r.id = asked
  /\ \/ lock = "user" /\ (r.op = doing \/ (doing = "program" /\ r.op = "note"))
     \/ lock = "beat" /\ r.op = "heartbeat"

Empty == requests = <<>> /\ serving = Nothing /\ replies = <<>>
Sent == Len(requests) = 1 /\ Holders(requests[1]) /\ serving = Nothing /\ replies = <<>>
Served == requests = <<>> /\ Holders(serving) /\ replies = <<>>
Answers == requests = <<>> /\ serving = Nothing /\ Len(replies) = 1 /\ Holders(replies[1])

WayInv ==
  /\ open => Empty \/ Sent \/ Served \/ Answers
  /\ lease = "closed" => requests = <<>> /\ serving = Nothing
  /\ ~up => lease = "closed"

LEMMA WayInit == Init => WayInv
  BY DEF Init, WayInv, Empty

LEMMA FreeIsEmpty == WayInv /\ open /\ lock = "free" => Empty
  BY DEF WayInv, Sent, Served, Answers, Holders

(* A request is sent on an empty connection, by the new holder.            *)
LEMMA WaySend ==
  ASSUME TypeOK, WayInv, open, lock = "free", NEW o \in Op, Send(o), UNCHANGED <<serverVars, open>>,
         \/ lock' = "user" /\ doing' = o
         \/ lock' = "beat" /\ o = "heartbeat"
  PROVE  WayInv'
<1>1. Empty
  BY FreeIsEmpty
<1>2. requests \in Seq(Message) /\ [id |-> asked + 1, op |-> o] \in Message
  BY DEF TypeOK, Message
<1>3. CASE lease = "closed"
  BY <1>1, <1>3 DEF Send, WayInv, Empty, serverVars
<1>4. CASE lease # "closed"
  <2>1. Len(requests') = 1 /\ requests'[1] = [id |-> asked + 1, op |-> o]
    BY <1>1, <1>2, <1>4, Single DEF Send, Empty
  <2>2. Sent'
    BY <1>1, <2>1 DEF Send, Sent, Empty, Holders, serverVars
  <2> QED
    BY <2>2, <1>4 DEF WayInv, serverVars
<1> QED
  BY <1>3, <1>4

(* The one message there may be is taken for the reply, and is it.         *)
LEMMA WayReply ==
  ASSUME TypeOK, WayInv, replies # <<>>, replies' = Tail(replies), UNCHANGED <<requests, serverVars>>,
         open' => open
  PROVE  WayInv'
<1>1. replies \in Seq(Answered)
  BY DEF TypeOK, Answered
<1>2. open => Answers
  BY <1>1 DEF WayInv, Empty, Sent, Served
<1>3. open => Empty'
  BY <1>1, <1>2, Single DEF Answers, Empty, serverVars
<1> QED
  BY <1>3 DEF WayInv, serverVars

(* The server answers what it serves.                                      *)
LEMMA WayAnswer ==
  ASSUME TypeOK, WayInv, serving.op # "none", NEW kind \in {"ok", "revoked", "protocol", "error"},
         NEW id \in Nat, Answer(kind, id), UNCHANGED <<up, clientVars>>,
         lease' \in {lease, "ended"}
  PROVE  WayInv'
<1>1. serving # Nothing
  BY DEF Nothing
<1>2. lease # "closed" /\ up /\ (open => Served)
  BY <1>1 DEF WayInv, Empty, Sent, Answers
<1>3. replies \in Seq(Answered) /\ Reply(serving, kind, id) \in Answered
  BY DEF TypeOK, Answered, Reply
<1>4. Served => Answers'
  BY <1>3, Single DEF Served, Answers, Answer, Reply, Holders, clientVars
<1> QED
  BY <1>2, <1>4 DEF WayInv, clientVars

LEMMA WayStep ==
  ASSUME Interruptible \subseteq {"call", "program"}
  PROVE  TypeOK /\ LockInv /\ WayInv /\ [Next]_vars => WayInv'
<1> SUFFICES ASSUME TypeOK, LockInv, WayInv, [Next]_vars PROVE WayInv'
  OBVIOUS
<1>0. ClientTyped
  BY Typed
<1>1. CASE AskCall \/ AskSession \/ AskLoaded
  <2>1. PICK o \in UserOp : Request(o)
    BY <1>1 DEF AskCall, AskSession, AskLoaded, UserOp
  <2> QED
    BY <2>1, WaySend DEF Request, Op
<1>2. CASE AskAgain \/ Release
  <2>1. CASE UNCHANGED <<lock, socketVars>> /\ UNCHANGED serverVars /\ (open' => open) /\ lock = "free"
    BY <2>1, FreeIsEmpty DEF WayInv, Empty, socketVars, serverVars
  <2>2. CASE AskAgain /\ Send("session") /\ lock' = "user" /\ doing' = "session" /\ open
    BY <2>2, WaySend DEF AskAgain, UserOp, Op
  <2>3. CASE Release /\ Send("release") /\ lock' = "user" /\ doing' = "release" /\ open
    BY <2>3, WaySend DEF Release, UserOp, Op
  <2>4. CASE AskAgain
    BY <2>4, <2>1, <2>2 DEF AskAgain
  <2>5. CASE Release
    <3>1. end # "none" \/ open
      BY <2>5 DEF Release, LockInv
    <3> QED
      BY <2>5, <3>1, <2>1, <2>3 DEF Release
  <2> QED
    BY <1>2, <2>4, <2>5
<1>3. CASE BeatAsk
  <2>1. CASE Send("heartbeat") /\ lock = "free" /\ end = "none"
    <3>1. open
      BY <1>3, <2>1 DEF LockInv, BeatAsk
    <3> QED
      BY <1>3, <2>1, <3>1, WaySend DEF BeatAsk, Op
  <2>2. CASE UNCHANGED <<lock, socketVars>>
    BY <1>3, <2>2 DEF BeatAsk, WayInv, Empty, Sent, Served, Answers, Holders, socketVars, serverVars
  <2> QED
    BY <1>3, <2>1, <2>2 DEF BeatAsk
<1>4. CASE StopBeat \/ Judge \/ BeatDue
  <2>1. UNCHANGED <<lock, open, socketVars, serverVars>> /\ UNCHANGED doing
    BY <1>4 DEF StopBeat, Judge, BeatDue, MarkRevoked
  <2> QED
    BY <2>1 DEF WayInv, Empty, Sent, Served, Answers, Holders, socketVars, serverVars
<1>5. CASE UserReply \/ BeatReply
  <2>1. open' => open
    BY <1>5, <1>0 DEF UserReply, BeatReply, MarkLost, MarkRevoked, Released, ClientTyped
  <2>2. replies # <<>> /\ replies' = Tail(replies) /\ UNCHANGED requests /\ UNCHANGED serverVars
    BY <1>5 DEF UserReply, BeatReply
  <2> QED
    BY <2>1, <2>2, WayReply
<1>6. CASE UserLost
  <2>1. UNCHANGED socketVars /\ UNCHANGED serverVars
    BY <1>6 DEF UserLost
  <2>2. open' => open /\ lease = "closed" /\ replies = <<>>
    BY <1>6, <1>0 DEF UserLost, MarkLost, Released, Broken, ClientTyped
  <2> QED
    BY <2>1, <2>2 DEF WayInv, Empty, socketVars, serverVars
<1>7. CASE Interrupt \/ BeatLost \/ Kill
  <2>1. ~open' /\ UNCHANGED socketVars /\ UNCHANGED serverVars
    BY <1>7 DEF Interrupt, BeatLost, Kill, MarkLost
  <2> QED
    BY <2>1 DEF WayInv, socketVars, serverVars
<1>8. CASE NewJob
  BY <1>8 DEF NewJob, WayInv, Empty
<1>9. CASE Take
  <2>1. requests \in Seq(Message) /\ requests # <<>> /\ lease # "closed" /\ up
    BY <1>9 DEF Take, TypeOK, Message
  <2>2. open => Sent
    BY <1>9, <2>1 DEF Take, WayInv, Empty, Served, Answers
  <2>3. open => Served'
    BY <1>9, <2>1, <2>2, Single DEF Take, Sent, Served, Holders, clientVars
  <2> QED
    BY <1>9, <2>1, <2>3 DEF Take, WayInv, clientVars
<1>10. CASE Refuse \/ ServeCall \/ ServeHeartbeat \/ ServeSession \/ ServeLoaded \/ ServeRelease \/ Note
  <2>1. \E kind \in {"ok", "revoked", "protocol", "error"}, id \in {0, board, noted} : Answer(kind, id)
    BY <1>10 DEF Refuse, ServeCall, ServeHeartbeat, ServeSession, ServeLoaded, ServeRelease, Note
  <2>2. serving.op # "none" /\ UNCHANGED clientVars /\ lease' \in {lease, "ended"} /\ UNCHANGED up
    BY <1>10 DEF Refuse, ServeCall, ServeHeartbeat, ServeSession, ServeLoaded, ServeRelease, Note
  <2>3. board \in Nat /\ noted \in Nat
    BY DEF TypeOK
  <2> QED
    BY <2>1, <2>2, <2>3, WayAnswer
<1>11. CASE ServeProgram
  <2>1. CASE Answer("error", 0)
    BY <1>11, <2>1, WayAnswer DEF ServeProgram
  <2>2. CASE serving' = [serving EXCEPT !.op = "note"] /\ UNCHANGED socketVars
    <3>1. serving.op = "program" /\ serving # Nothing /\ serving'.id = serving.id
          /\ serving'.op = "note" /\ UNCHANGED <<up, lease>> /\ UNCHANGED clientVars
      BY <1>11, <2>2 DEF ServeProgram, Nothing, TypeOK
    <3>2. open => Served
      BY <3>1 DEF WayInv, Empty, Sent, Answers
    <3>3. Served => Served'
      BY <2>2, <3>1 DEF Served, Holders, clientVars, socketVars
    <3> QED
      BY <2>2, <3>1, <3>2, <3>3 DEF WayInv, clientVars, Empty, Sent, Served, Answers
  <2> QED
    BY <1>11, <2>1, <2>2 DEF ServeProgram
<1>12. CASE Revoke \/ ClientLost \/ Restart
  BY <1>12 DEF Revoke, ClientLost, Restart, WayInv, Empty, Sent, Served, Answers, Holders,
               clientVars, socketVars
<1>13. CASE Crash
  BY <1>13 DEF Crash, WayInv, Empty, Sent, Served, Answers, Holders, clientVars
<1>14. CASE UNCHANGED vars
  BY <1>14 DEF vars, WayInv, Empty, Sent, Served, Answers, Holders, clientVars, socketVars, serverVars
<1> QED
  BY <1>1, <1>2, <1>3, <1>4, <1>5, <1>6, <1>7, <1>8, <1>9, <1>10, <1>11, <1>12, <1>13, <1>14
  DEF Next

(* --- replies match, and the programming is known --- *)
LEMMA WayMatches == WayInv => RepliesMatch
<1> SUFFICES ASSUME WayInv, open, NEW x \in UnderWay PROVE lock # "free" /\ x = asked
  BY DEF RepliesMatch
<1>1. \/ \E i \in 1 .. Len(requests) : x = requests[i].id
      \/ \E i \in 1 .. Len(replies) : x = replies[i].id
      \/ serving # Nothing /\ x = serving.id
  BY DEF UnderWay
<1>2. CASE Empty
  BY <1>1, <1>2 DEF Empty
<1>3. CASE Sent
  BY <1>1, <1>3 DEF Sent, Holders
<1>4. CASE Served
  BY <1>1, <1>4 DEF Served, Holders
<1>5. CASE Answers
  BY <1>1, <1>5 DEF Answers, Holders
<1> QED
  BY <1>2, <1>3, <1>4, <1>5 DEF WayInv

(* The record is the board's between two programmings, the client's is the *)
(* record's wherever it may start a call, and so is what it measures.      *)
MayCall == user = "idle" \/ (user \in {"wait", "judge"} /\ doing \in {"call", "loaded", "release"})
RecordInv == up /\ board # 0 /\ serving.op # "note" => noted = board
SessionInv ==
  open /\ user = "wait" /\ doing = "session" /\ lease = "active" /\ replies # <<>>
    => replies[1].kind = "ok" /\ (board # 0 => replies[1].programming = board)
CallInv ==
  open /\ user = "wait" /\ doing = "call" /\ replies # <<>> /\ replies[1].kind = "ok"
    => replies[1].programming \in {0, known}
KnownInv ==
  /\ RecordInv /\ SessionInv /\ CallInv
  /\ open /\ lease = "active" /\ board # 0 /\ MayCall => known = board
  /\ IdentityTells /\ \A m \in measured : m[1] = m[2]

LEMMA KnownInit == Init => KnownInv
  BY DEF Init, KnownInv, RecordInv, SessionInv, CallInv, IdentityTells

LEMMA KnownClient ==
  ASSUME Interruptible \subseteq {"call", "program"}, TypeOK, LockInv, WayInv, KnownInv,
         \/ AskCall \/ AskSession \/ AskLoaded \/ AskAgain \/ StopBeat \/ Release \/ Judge
         \/ UserLost \/ Interrupt \/ BeatDue \/ BeatAsk \/ BeatReply \/ BeatLost \/ Kill
  PROVE  KnownInv'
<1>0. ClientTyped
  BY Typed
<1>1. UNCHANGED <<known, measured>> /\ UNCHANGED serverVars
  BY DEF AskCall, AskSession, AskLoaded, Request, AskAgain, StopBeat, Release, Judge, UserLost,
         Interrupt, BeatDue, BeatAsk, BeatReply, BeatLost, Kill
<1>2. RecordInv' /\ IdentityTells' /\ \A m \in measured' : m[1] = m[2]
  BY <1>1 DEF KnownInv, RecordInv, IdentityTells, serverVars, recordVars
<1>3. SessionInv' /\ CallInv' /\ (open' /\ lease' = "active" /\ board' # 0 /\ MayCall' => known' = board')
  <2>1. CASE AskCall \/ AskSession \/ AskLoaded
    <3>1. PICK o \in UserOp : Request(o)
      BY <2>1 DEF AskCall, AskSession, AskLoaded, UserOp
    <3>2. replies' = <<>> /\ user = "idle" /\ UNCHANGED open
      BY <3>1, FreeIsEmpty DEF Request, Send, Empty
    <3> QED
      BY <1>1, <3>2 DEF SessionInv, CallInv, KnownInv, MayCall, serverVars, recordVars
  <2>2. CASE AskAgain
    <3>1. open /\ lock = "free" => Empty
      BY FreeIsEmpty
    <3>2. open => end \in {"none", "revoked"}
      BY <1>0 DEF LockInv, ClientTyped
    <3>3. open => replies' = <<>> /\ user' = "wait" /\ doing' = "session" /\ UNCHANGED open
      BY <2>2, <3>1, <3>2 DEF AskAgain, Send, Empty
    <3>4. UNCHANGED open
      BY <2>2 DEF AskAgain
    <3> QED
      BY <1>1, <3>3, <3>4 DEF SessionInv, CallInv, MayCall
  <2>3. CASE Release
    <3>1. user = "idle" /\ (open' => open) /\ (user' = "wait" => doing' = "release") /\ user' # "idle"
          /\ (user' = "judge" => FALSE)
      BY <2>3, <1>0 DEF Release
    <3> QED
      BY <1>1, <3>1 DEF SessionInv, CallInv, KnownInv, MayCall, serverVars, recordVars
  <2>4. CASE StopBeat \/ Judge \/ BeatDue
    BY <2>4, <1>1, <1>0
    DEF StopBeat, Judge, BeatDue, MarkRevoked, After, SessionInv, CallInv, KnownInv, MayCall,
        serverVars, recordVars, socketVars, ClientTyped, LockInv
  <2>5. CASE UserLost
    <3>1. open' => lease = "closed" /\ user' # "wait"
      BY <2>5, <1>0 DEF UserLost, MarkLost, Released, Broken, After, ClientTyped
    <3> QED
      BY <1>1, <3>1 DEF SessionInv, CallInv, serverVars
  <2>6. CASE Interrupt \/ BeatLost \/ Kill
    BY <2>6 DEF Interrupt, BeatLost, Kill, MarkLost, SessionInv, CallInv
  <2>7. CASE BeatAsk
    <3>1. UNCHANGED <<user, doing, open>> /\ (replies' = replies \/ user # "wait")
      BY <2>7 DEF BeatAsk, LockInv, socketVars
    <3> QED
      BY <1>1, <3>1 DEF SessionInv, CallInv, KnownInv, MayCall, serverVars, recordVars
  <2>8. CASE BeatReply
    <3>1. user # "wait" /\ UNCHANGED <<user, doing>>
      BY <2>8 DEF BeatReply, LockInv
    <3>2. open' => open
      BY <2>8, <1>0 DEF BeatReply, MarkLost, MarkRevoked, ClientTyped
    <3>3. ~(user' = "wait")
      BY <3>1
    <3> QED
      BY <1>1, <3>1, <3>2, <3>3 DEF SessionInv, CallInv, KnownInv, MayCall, serverVars, recordVars
  <2> QED
    BY <2>1, <2>2, <2>3, <2>4, <2>5, <2>6, <2>7, <2>8
<1> QED
  BY <1>2, <1>3 DEF KnownInv

LEMMA KnownReply ==
  ASSUME TypeOK, LockInv, WayInv, KnownInv, UserReply
  PROVE  KnownInv'
<1>0. ClientTyped /\ user = "wait" /\ open /\ replies # <<>> /\ lock = "user"
  BY Typed DEF UserReply, LockInv
<1>1. PICK r \in Answered : r = Head(replies) /\ r = replies[1] /\ r.programming \in Nat
  BY <1>0, HeadTyped, Single DEF TypeOK, Answered
<1>2. UNCHANGED doing /\ UNCHANGED serverVars /\ user' # "wait"
      /\ open' \in {open, FALSE} /\ user' \in {"judge", After(doing)}
      /\ (user' = "judge" => doing \in {"call", "program"})
      /\ known' = (IF doing = "session" /\ r.kind = "ok" THEN r.programming ELSE known)
      /\ measured' = (IF doing = "call" /\ r.kind = "ok" /\ r.programming # 0
                     THEN measured \cup {<<known, r.programming>>} ELSE measured)
  BY <1>0, <1>1 DEF UserReply, Released, After, ClientTyped
<1>3. RecordInv' /\ SessionInv' /\ CallInv'
  BY <1>2 DEF KnownInv, RecordInv, SessionInv, CallInv, serverVars, recordVars
<1>4. \A m \in measured' : m[1] = m[2]
  BY <1>0, <1>1, <1>2 DEF KnownInv, CallInv
<1>5. open' /\ lease' = "active" /\ board' # 0 /\ MayCall' => known' = board'
  <2>1. UNCHANGED <<lease, board>>
    BY <1>2 DEF serverVars, recordVars
  <2>2. CASE doing = "session"
    BY <1>0, <1>1, <1>2, <2>1, <2>2 DEF KnownInv, SessionInv
  <2>3. CASE doing = "program"
    BY <1>2, <2>3 DEF MayCall, After
  <2>4. CASE doing \in {"call", "loaded", "release"}
    BY <1>0, <1>2, <2>1, <2>4 DEF KnownInv, MayCall
  <2>5. CASE doing = "none"
    BY <1>0, <1>1, <2>5 DEF WayInv, Empty, Sent, Served, Answers, Holders, Answered, Op, UserOp
  <2> QED
    BY <1>0, <2>2, <2>3, <2>4, <2>5 DEF ClientTyped, UserOp
<1> QED
  BY <1>3, <1>4, <1>5 DEF KnownInv, IdentityTells

LEMMA KnownServer ==
  ASSUME TypeOK, LockInv, WayInv, KnownInv,
         \/ Take \/ Refuse \/ ServeCall \/ ServeHeartbeat \/ ServeSession \/ ServeLoaded
         \/ ServeRelease \/ ServeProgram \/ Note \/ Revoke \/ ClientLost \/ Crash \/ Restart
  PROVE  KnownInv'
<1>0. ClientTyped /\ UNCHANGED clientVars /\ IdentityTells' /\ \A m \in measured' : m[1] = m[2]
  BY Typed
  DEF Take, Refuse, ServeCall, ServeHeartbeat, ServeSession, ServeLoaded, ServeRelease, ServeProgram,
      Note, Revoke, ClientLost, Crash, Restart, clientVars, KnownInv, IdentityTells
<1>1. lease' = "active" => lease = "active"
  BY DEF Take, Refuse, ServeCall, ServeHeartbeat, ServeSession, ServeLoaded, ServeRelease,
         ServeProgram, Note, Revoke, ClientLost, Crash, Restart, serverVars
<1>2. CASE Take \/ Revoke \/ ClientLost \/ Crash
  <2>1. UNCHANGED <<replies, board>> /\ (up' => up) /\ (up' => noted' = noted)
        /\ (up' => serving' = serving \/ serving'.op \in Op)
    <3>1. requests \in Seq(Message)
      BY DEF TypeOK, Message
    <3>2. requests # <<>> => Head(requests).op \in Op
      <4>1. requests # <<>> => Head(requests) \in Message
        BY <3>1
      <4> QED
        BY <4>1 DEF Message
    <3> QED
      BY <1>2, <3>2 DEF Take, Revoke, ClientLost, Crash, recordVars, socketVars
  <2>2. up' => RecordInv'
    <3>1. CASE Take
      BY <3>1 DEF Take, KnownInv, RecordInv, Nothing, recordVars
    <3>2. CASE Revoke \/ ClientLost
      BY <3>2 DEF Revoke, ClientLost, KnownInv, RecordInv, recordVars
    <3>3. CASE Crash
      BY <3>3 DEF Crash
    <3> QED
      BY <1>2, <3>1, <3>2, <3>3
  <2>3. RecordInv'
    BY <2>2 DEF RecordInv
  <2> QED
    BY <1>0, <1>1, <2>1, <2>3 DEF KnownInv, SessionInv, CallInv, MayCall, clientVars
<1>3. CASE Refuse \/ ServeHeartbeat \/ ServeLoaded \/ ServeRelease \/ ServeCall \/ ServeSession
  <2>1. /\ up /\ serving.op \notin {"none", "note"} /\ serving'.op = "none"
        /\ UNCHANGED recordVars /\ UNCHANGED up
    BY <1>3 DEF Refuse, ServeHeartbeat, ServeLoaded, ServeRelease, ServeCall, ServeSession, Answer,
                Nothing
  <2>2. RecordInv' /\ (board # 0 => noted = board)
    BY <2>1 DEF KnownInv, RecordInv, recordVars
  <2>3. open => Served
    BY <2>1 DEF WayInv, Empty, Sent, Answers, Nothing
  <2>4. \E kind \in {"ok", "revoked", "protocol", "error"}, id \in {0, board, noted} :
          /\ Answer(kind, id)
          /\ serving.op = "session" => kind = "ok" /\ id = noted
          /\ serving.op = "call" /\ kind = "ok" => id = board /\ lease = "active"
    BY <1>3 DEF Refuse, ServeCall, ServeHeartbeat, ServeSession, ServeLoaded, ServeRelease
  <2>5. board \in Nat /\ noted \in Nat /\ replies \in Seq(Answered)
    BY DEF TypeOK, Answered
  <2>6. ASSUME NEW kind \in {"ok", "revoked", "protocol", "error"}, NEW id \in {0, board, noted},
               Answer(kind, id), open,
               serving.op = "session" => kind = "ok" /\ id = noted,
               serving.op = "call" /\ kind = "ok" => id = board /\ lease = "active"
        PROVE  SessionInv' /\ CallInv'
    <3>1. Reply(serving, kind, id) \in Answered
      BY <2>1, <2>5 DEF TypeOK, Answered, Reply
    <3>2. replies'[1] = Reply(serving, kind, id)
      BY <2>3, <2>5, <2>6, <3>1, Single DEF Answer, Served
    <3>3. replies'[1].kind = kind /\ replies'[1].programming = id
      BY <3>2 DEF Reply
    <3>4. user = "wait" /\ doing \in {"session", "call"} => serving.op = doing
      BY <2>3 , <2>6 DEF Served, Holders, LockInv
    <3>5. SessionInv'
      BY <1>0, <2>1, <2>2, <2>6, <3>3, <3>4 DEF SessionInv, clientVars, recordVars
    <3>6. CallInv'
      BY <1>0, <2>1, <2>6, <3>3, <3>4 DEF CallInv, KnownInv, MayCall, clientVars, recordVars
    <3> QED
      BY <3>5, <3>6
  <2>7. SessionInv' /\ CallInv'
    <3>1. CASE open
      BY <2>4, <2>6, <3>1
    <3>2. CASE ~open
      BY <1>0, <3>2 DEF SessionInv, CallInv, clientVars
    <3> QED
      BY <3>1, <3>2
  <2> QED
    BY <1>0, <1>1, <2>1, <2>2, <2>7 DEF KnownInv, MayCall, clientVars, recordVars
<1>4. CASE ServeProgram \/ Note
  <2>1. up /\ UNCHANGED up /\ serving.op \in {"program", "note"}
    BY <1>4 DEF ServeProgram, Note
  <2>5. open => Served
    BY <2>1 DEF WayInv, Empty, Sent, Answers, Nothing
  <2>2. open /\ user = "wait" => doing = "program"
    BY <1>0, <2>1, <2>5 DEF Served, Holders, LockInv, ClientTyped, UserOp
  <2>3. open => user = "wait"
    BY <2>1, <2>5 DEF Served, Holders, LockInv
  <2>4. RecordInv'
    <3>1. CASE Note
      BY <3>1 DEF Note, RecordInv
    <3>2. CASE ServeProgram
      BY <3>2 DEF ServeProgram, Answer, Nothing, KnownInv, RecordInv, TypeOK
    <3> QED
      BY <1>4, <3>1, <3>2
  <2> QED
    BY <1>0, <2>2, <2>3, <2>4 DEF KnownInv, SessionInv, CallInv, MayCall, clientVars
<1>5. CASE Restart
  <2>1. lease = "closed" /\ UNCHANGED <<lease, replies>>
    BY <1>5 DEF Restart, WayInv, socketVars
  <2>2. RecordInv'
    BY <1>5 DEF Restart, RecordInv
  <2> QED
    BY <1>0, <2>1, <2>2 DEF KnownInv, SessionInv, CallInv, MayCall, clientVars
<1> QED
  BY <1>2, <1>3, <1>4, <1>5

LEMMA KnownStep ==
  ASSUME Interruptible \subseteq {"call", "program"}
  PROVE  TypeOK /\ LockInv /\ WayInv /\ KnownInv /\ [Next]_vars => KnownInv'
<1> SUFFICES ASSUME TypeOK, LockInv, WayInv, KnownInv, [Next]_vars PROVE KnownInv'
  OBVIOUS
<1>1. CASE NewJob
  <2>1. RecordInv' /\ IdentityTells' /\ (\A m \in measured' : m[1] = m[2]) /\ SessionInv' /\ CallInv'
    BY <1>1 DEF NewJob, KnownInv, RecordInv, IdentityTells, SessionInv, CallInv, recordVars
  <2>2. board' # 0 => known' = board'
    BY <1>1 DEF NewJob, KnownInv, RecordInv, Nothing, recordVars
  <2> QED
    BY <2>1, <2>2 DEF KnownInv
<1>2. CASE UNCHANGED vars
  BY <1>2 DEF vars, clientVars, socketVars, serverVars, recordVars, KnownInv, RecordInv, SessionInv,
              CallInv, MayCall, IdentityTells
<1> QED
  BY <1>1, <1>2, KnownClient, KnownReply, KnownServer DEF Next

LEMMA KnownAlways ==
  ASSUME Interruptible \subseteq {"call", "program"}
  PROVE  Spec => [](LockInv /\ WayInv /\ KnownInv)
<1>1. Init => LockInv /\ WayInv /\ KnownInv
  BY LockInit, WayInit, KnownInit
<1>2. TypeOK /\ (LockInv /\ WayInv /\ KnownInv) /\ [Next]_vars => (LockInv /\ WayInv /\ KnownInv)'
  BY LockStep, WayStep, KnownStep
<1> QED
  BY <1>1, <1>2, TypeCorrect, PTL DEF Spec

(* The next message is the reply to the request that waits for it.         *)
THEOREM RepliesAreOurs ==
  ASSUME Interruptible \subseteq {"call", "program"} PROVE Spec => []RepliesMatch
  BY KnownAlways, WayMatches, PTL

(* Between its calls, a job that holds the board knows its programming.    *)
THEOREM ProgrammingIsKnown ==
  ASSUME Interruptible \subseteq {"call", "program"} PROVE Spec => []ProgrammingKnown
<1>1. LockInv /\ KnownInv => ProgrammingKnown
  BY DEF LockInv, KnownInv, MayCall, ProgrammingKnown
<1> QED
  BY <1>1, KnownAlways, PTL

(* One program_id is one programming, across crashes and restarts.         *)
THEOREM IdentitiesTell ==
  ASSUME Interruptible \subseteq {"call", "program"} PROVE Spec => []IdentityTells
<1>1. KnownInv => IdentityTells
  BY DEF KnownInv
<1> QED
  BY <1>1, KnownAlways, PTL
=============================================================================
