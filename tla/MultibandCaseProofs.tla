------------------------ MODULE MultibandCaseProofs ------------------------
(***************************************************************************)
(* A dual-band case, for any bands, back-offs and locks: what is captured  *)
(* is captured at the lock, and the folder keeps the promise of CaseStore, *)
(* whatever fails and however often the case is run.  And the probe that   *)
(* its lock plays, for any signals, windows and units: no crossfade        *)
(* touches a window that was taken, and the probe goes once round.         *)
(***************************************************************************)
EXTENDS MultibandCase, ProbeBuild, Integers, SequenceTheorems, FiniteSetTheorems, TLAPS

-----------------------------------------------------------------------------
(* The files                                                               *)

LEMMA Numbers ==
  /\ AttenMax \in Nat /\ Attens \subseteq Nat /\ 0 \in Attens
  /\ Len(BandOrder) \in Nat /\ Len(Backoffs) \in Nat /\ Ks \subseteq Nat
  BY CaseAssumption DEF Attens, Ks, Items

LEMMA Order ==
  /\ FileOrder \in Seq(Names) /\ Len(FileOrder) \in Nat /\ Len(FileOrder) >= 2
  /\ \A i \in 1 .. Len(FileOrder) : FileOrder[i] \in Files
  /\ Json \notin Files /\ Json \in Names
<1> DEFINE B == 1 .. Len(BandOrder)
           D == {<<"in", 0, BandOrder[i]>> : i \in B}
           E == {OutFiles[i] : i \in DOMAIN OutFiles}
<1>1. InFiles \in Seq(D) /\ Len(InFiles) \in Nat
  BY Numbers DEF InFiles
<1>2. OutFiles \in Seq(E) /\ Len(OutFiles) \in Nat
  <2> DEFINE n == Len(BandOrder) * Len(Backoffs)
             G(i) == <<"out", Backoffs[((i - 1) \div Len(BandOrder)) + 1],
                       BandOrder[((i - 1) % Len(BandOrder)) + 1]>>
  <2>1. n \in Nat
    BY Numbers
  <2>2. OutFiles = [i \in 1 .. n |-> G(i)]
    BY DEF OutFiles
  <2> HIDE DEF n, G
  <2>3. OutFiles \in [1 .. n -> E]
    BY <2>2
  <2> QED
    BY <2>1, <2>3
<1>3. /\ \A e \in D : e[1] = "in"
      /\ \A e \in E : e[1] = "out"
  BY DEF OutFiles
<1> HIDE DEF B, D, E
<1>4. InFiles \o OutFiles \in Seq(D \cup E) /\ Len(InFiles \o OutFiles) \in Nat
  BY <1>1, <1>2
<1>5. <<Conditions, LockTable>> \in Seq({Conditions, LockTable})
  OBVIOUS
<1> DEFINE All == D \cup E \cup {Conditions, LockTable}
<1>6. /\ FileOrder \in Seq(All) /\ Len(FileOrder) \in Nat /\ Len(FileOrder) >= 2
  <2>1. InFiles \o OutFiles \in Seq(All)
    BY <1>4
  <2>2. <<Conditions, LockTable>> \in Seq(All) /\ Len(<<Conditions, LockTable>>) = 2
    BY <1>5
  <2> QED
    BY <1>4, <2>1, <2>2 DEF FileOrder
<1>7. Files \subseteq All
  BY <1>6 DEF Files, Items
<1>8. Json \notin All
  BY <1>3 DEF Json, Conditions, LockTable, Table
<1>9. \A i \in 1 .. Len(FileOrder) : FileOrder[i] \in Files
  BY DEF Files, Items
<1> QED
  BY <1>6, <1>7, <1>8, <1>9 DEF Names
(* The index of a back-off in the order of the outputs is in range. *)
LEMMA Turns == \A n \in Nat, m \in Nat : \A i \in 1 .. n * m : ((i - 1) \div n) + 1 \in 1 .. m
<1> SUFFICES ASSUME NEW n \in Nat, NEW m \in Nat, NEW i \in 1 .. n * m
             PROVE  ((i - 1) \div n) + 1 \in 1 .. m
  OBVIOUS
<1>1. n > 0
  OBVIOUS
<1> DEFINE q == (i - 1) \div n
<1>2. q \in Int /\ n * q <= i - 1 /\ i - 1 < n * q + n
  BY <1>1
<1>3. q >= 0
  <2>1. SUFFICES ASSUME q < 0 PROVE FALSE
    BY <1>2
  <2>2. n * q + n <= 0
    <3> HIDE DEF q
    <3>1. q + 1 <= 0 /\ q + 1 \in Int
      BY <1>2, <2>1
    <3>2. n * (q + 1) <= 0
      BY <1>1, <3>1
    <3> QED
      BY <1>2, <3>2
  <2> QED
    BY <1>2, <2>2
<1>4. q < m
  <2> HIDE DEF q
  <2>1. SUFFICES ASSUME q >= m PROVE FALSE
    BY <1>2
  <2>2. n * q >= n * m
    BY <1>2, <2>1
  <2> QED
    BY <1>2, <2>2
<1> QED
  BY <1>2, <1>3, <1>4

(* The tables are written last, conditions.csv before lock.csv.            *)
Tables == Len(InFiles) + Len(OutFiles)
LEMMA TablesLast ==
  /\ Tables \in Nat /\ Len(OutFiles) \in Nat /\ Len(FileOrder) = Tables + 2
  /\ \A f \in Items(OutFiles) :
       /\ f[2] \in Ks /\ f # Conditions /\ f # LockTable
       /\ \E i \in 1 .. Tables : FileOrder[i] = f
  /\ \A i \in 1 .. Tables : FileOrder[i] # Conditions
  /\ FileOrder[Tables + 1] = Conditions /\ FileOrder[Tables + 2] = LockTable
  /\ Conditions \in Names
<1> DEFINE m == Len(BandOrder)
           n == m * Len(Backoffs)
           D == {<<"in", 0, BandOrder[i]>> : i \in 1 .. m}
           E == {OutFiles[i] : i \in DOMAIN OutFiles}
           G(i) == <<"out", Backoffs[((i - 1) \div m) + 1], BandOrder[((i - 1) % m) + 1]>>
<1>1. InFiles \in Seq(D) /\ Len(InFiles) \in Nat
  BY Numbers DEF InFiles
<1>2. n \in Nat
  BY Numbers
<1>3. OutFiles = [i \in 1 .. n |-> G(i)]
  BY DEF OutFiles
<1>4. \A i \in 1 .. n : G(i)[2] \in Ks
  <2> TAKE i \in 1 .. n
  <2>1. ((i - 1) \div m) + 1 \in 1 .. Len(Backoffs)
    BY Numbers, Turns
  <2> QED
    BY <2>1 DEF Ks, Items
<1>5. \A i \in 1 .. n : G(i)[1] = "out"
  OBVIOUS
<1> HIDE DEF n, G
<1>6. OutFiles \in Seq(E) /\ Len(OutFiles) = n /\ Items(OutFiles) = E
  <2>1. OutFiles \in [1 .. n -> E]
    BY <1>3
  <2>2. DOMAIN OutFiles = 1 .. n
    BY <1>3
  <2>3. Items(OutFiles) = {OutFiles[i] : i \in 1 .. Len(OutFiles)}
    BY DEF Items
  <2>4. E = {OutFiles[i] : i \in 1 .. n}
    BY <2>2
  <2> HIDE DEF E
  <2>5. OutFiles \in Seq(E) /\ Len(OutFiles) = n
    BY <1>2, <2>1, <2>2
  <2> QED
    BY <2>3, <2>4, <2>5
<1>7. /\ \A e \in D : e[1] = "in"
      /\ \A e \in E : e[1] = "out" /\ e[2] \in Ks
  BY <1>3, <1>4, <1>5
<1> HIDE DEF m, D, E
<1>8. /\ InFiles \o OutFiles \in Seq(D \cup E)
      /\ Len(InFiles \o OutFiles) = Tables /\ Tables \in Nat
      /\ \A i \in 1 .. n : (InFiles \o OutFiles)[Len(InFiles) + i] = OutFiles[i]
  BY <1>1, <1>2, <1>6 DEF Tables
<1> DEFINE S == InFiles \o OutFiles
<1>9. \A i \in 1 .. Tables : S[i] \in D \cup E
  BY <1>8
<1>10. FileOrder = S \o <<Conditions, LockTable>>
  BY DEF FileOrder
<1> HIDE DEF S
<1>11. /\ Len(FileOrder) = Tables + 2
       /\ \A i \in 1 .. Tables : FileOrder[i] = S[i]
       /\ FileOrder[Tables + 1] = Conditions /\ FileOrder[Tables + 2] = LockTable
  <2> DEFINE U == <<Conditions, LockTable>>
             T == D \cup E \cup {Conditions, LockTable}
  <2>1. S \in Seq(D \cup E) /\ Len(S) = Tables
    BY <1>8 DEF S
  <2>2. S \in Seq(T) /\ Len(S) \in Nat
    BY <1>8, <2>1
  <2>3. U \in Seq(T) /\ Len(U) = 2 /\ U[1] = Conditions /\ U[2] = LockTable
    OBVIOUS
  <2>4. FileOrder = S \o U
    BY <1>10
  <2> HIDE DEF U, T
  <2>5. /\ Len(FileOrder) = Len(S) + 2
        /\ \A i \in 1 .. Len(S) : FileOrder[i] = S[i]
        /\ \A i \in 1 .. Len(U) : FileOrder[Len(S) + i] = U[i]
    <3>1. /\ Len(FileOrder) = Len(S) + Len(U)
          /\ \A i \in 1 .. Len(S) + Len(U) :
               FileOrder[i] = IF i <= Len(S) THEN S[i] ELSE U[i - Len(S)]
      BY <2>2, <2>3, <2>4, ConcatProperties
    <3>2. \A i \in 1 .. Len(S) : FileOrder[i] = S[i]
      BY <2>2, <2>3, <3>1
    <3>3. ASSUME NEW i \in 1 .. Len(U) PROVE FileOrder[Len(S) + i] = U[i]
      <4>1. Len(S) + i \in 1 .. Len(S) + Len(U) /\ ~(Len(S) + i <= Len(S)) /\ (Len(S) + i) - Len(S) = i
        BY <2>2, <2>3
      <4> QED
        BY <3>1, <4>1
    <3> QED
      BY <2>3, <3>1, <3>2, <3>3
  <2> QED
    BY <1>8, <2>1, <2>3, <2>5
<1>12. \A e \in D \cup E : e # Conditions /\ e # LockTable
  BY <1>7 DEF Conditions, LockTable, Table
<1>13. \A f \in Items(OutFiles) : \E i \in 1 .. Tables : FileOrder[i] = f
  <2> SUFFICES ASSUME NEW j \in 1 .. n PROVE \E i \in 1 .. Tables : FileOrder[i] = OutFiles[j]
    BY <1>6 DEF Items
  <2>1. Len(InFiles) + j \in 1 .. Tables
    BY <1>1, <1>2, <1>6 DEF Tables
  <2> QED
    BY <1>8, <1>11, <2>1 DEF S
<1>14. Conditions \in Names
  BY <1>8, <1>11, Order DEF Names
<1> QED
  BY <1>2, <1>6, <1>7, <1>8, <1>9, <1>11, <1>12, <1>13, <1>14

-----------------------------------------------------------------------------
(* The captures                                                            *)

SearchType ==
  [fatal : BOOLEAN, converged : BOOLEAN, attens : [Bands -> Attens],
   signal : {"none", "probe", "full"}]
KeyType == [attens : [Bands -> Attens], signal : {"off", "probe", "full"}] \cup {NoCapture}

RadioInv ==
  /\ search \in SearchType
  /\ captures \in [Ks \cup {0} -> KeyType]
  /\ playing \in {"off", "probe", "full"}

(* The capture at a back-off is of the full signals, at the lock as it is  *)
(* now: from the confirmation on, after a fallback that did not move it,   *)
(* or after the retake of one that did.                                    *)
Made(k) == [attens |-> At(search.attens, k), signal |-> "full"]
CaptureInv ==
  /\ pc = "search" => playing # "off"
  /\ pc \in {"confirm", "fallback", "retake", "backoffs"} => playing = "full"
  /\ pc \in {"start", "play", "search", "swap", "confirm"} =>
       \A k \in Ks \cup {0} : captures[k] = NoCapture
  /\ pc \in {"fallback", "retake"} => \A k \in Ks \ {0} : captures[k] = NoCapture
  /\ pc = "fallback" => captures[0] = Made(0)
  /\ pc \in {"backoffs", "write", "returned"} =>
       \A k \in Ks \cup {0} : captures[k] # NoCapture => captures[k] = Made(k)
  /\ pc = "write" => \A k \in Ks : captures[k] # NoCapture

LEMMA AtZero == \A a \in [Bands -> Attens] : At(a, 0) = a
  BY CaseAssumption DEF At, Smaller, Attens

LEMMA AtType == \A a \in [Bands -> Attens], k \in Nat : At(a, k) \in [Bands -> Attens]
  BY CaseAssumption DEF At, Smaller, Attens

LEMMA Unmade == \A a \in [Bands -> Attens] : [attens |-> a, signal |-> "full"] # NoCapture
  BY DEF NoCapture

LEMMA RadioInit == Init => RadioInv /\ CaptureInv
  BY CaseAssumption DEF Init, RadioInv, CaptureInv, SearchType, KeyType, NoSearch

LEMMA CaptureStep ==
  ASSUME RadioInv, CaptureInv, [Next]_vars
  PROVE  RadioInv' /\ CaptureInv'
<1> USE DEF RadioInv, CaptureInv
<1>1. /\ search.attens \in [Bands -> Attens] /\ search.fatal \in BOOLEAN
      /\ \A s \in SearchType : s.attens \in [Bands -> Attens]
  BY DEF SearchType
<1>2. /\ \A signal \in {"probe", "full"} : Outcomes(signal) \subseteq SearchType
      /\ NoSearch \in SearchType
  BY CaseAssumption DEF Outcomes, Ends, SearchType, NoSearch
<1> DEFINE Aside == UNCHANGED <<search, captures>>
                    /\ playing' \in {playing, "off", "probe", "full"}
<1>3. ASSUME Aside, pc' \in {"finally_raise", "over", "idle"} PROVE RadioInv' /\ CaptureInv'
  BY <1>3
<1>4. CASE Call
  BY <1>2, <1>4 DEF Call, KeyType
<1>5. CASE Prepare
  BY <1>5, <1>3 DEF Prepare, Raise
<1>6. CASE Play
  BY <1>6, <1>3 DEF Play, Raise
<1>7. CASE RadioFails
  BY <1>7, <1>3 DEF RadioFails, Raise
<1>8. CASE Search
  <2>1. ASSUME NEW s \in Outcomes(playing), pc = "search", search' = s,
               pc' = (IF playing = "probe" THEN "swap" ELSE "backoffs"),
               UNCHANGED <<playing, run, captures>>
        PROVE  RadioInv' /\ CaptureInv'
    BY <1>2, <2>1
  <2> QED
    BY <1>7, <1>8, <2>1 DEF Search
<1>9. CASE Swap
  <2>1. ASSUME pc = "swap", playing' = "full",
               pc' = (IF search.fatal THEN "backoffs" ELSE "confirm"),
               UNCHANGED <<atten, run, search, captures>>
        PROVE  RadioInv' /\ CaptureInv'
    BY <2>1
  <2> QED
    BY <1>3, <1>9, <2>1 DEF Swap, Raise
<1>10. CASE Confirm
  <2>1. ASSUME NEW t \in BOOLEAN, pc = "confirm", CaptureCase(search.attens, 0),
               search' = [search EXCEPT !.converged = t],
               pc' = (IF t \/ ConfirmSteps = 0 THEN "backoffs" ELSE "fallback")
        PROVE  RadioInv' /\ CaptureInv'
    <3>1. search' \in SearchType /\ search'.attens = search.attens
      BY <2>1 DEF SearchType
    <3>2. /\ captures' = [captures EXCEPT ![0] = [attens |-> search.attens, signal |-> "full"]]
          /\ playing' = "full"
      BY <2>1 DEF CaptureCase
    <3>3. captures'[0] = Made(0)' /\ \A k \in Ks \ {0} : captures'[k] = NoCapture
      BY <1>1, <2>1, <3>1, <3>2, AtZero DEF Made
    <3>4. captures' \in [Ks \cup {0} -> KeyType]
      BY <1>1, <3>2 DEF KeyType
    <3> QED
      BY <2>1, <3>1, <3>2, <3>3, <3>4
  <2> QED
    BY <1>7, <1>10, <2>1 DEF Confirm
<1>11. CASE Fallback
  <2>1. ASSUME NEW s \in Outcomes("full"), pc = "fallback",
               search' = [s EXCEPT !.fatal = search.fatal],
               pc' = (IF s.attens # captures[0].attens THEN "retake" ELSE "backoffs"),
               UNCHANGED <<playing, run, captures>>
        PROVE  RadioInv' /\ CaptureInv'
    <3>1. search' \in SearchType /\ search'.attens = s.attens
      BY <1>1, <1>2, <2>1 DEF SearchType
    <3>2. captures[0].attens = search.attens /\ captures[0].signal = "full"
      BY <1>1, <2>1, AtZero DEF Made
    <3>3. s.attens = captures[0].attens => captures'[0] = Made(0)'
      BY <1>1, <2>1, <3>1, <3>2, AtZero DEF Made
    <3> QED
      BY <2>1, <3>1, <3>3
  <2> QED
    BY <1>7, <1>11, <2>1 DEF Fallback
<1>12. CASE Retake
  <2>1. ASSUME pc = "retake", CaptureCase(search.attens, 0), pc' = "backoffs", UNCHANGED search
        PROVE  RadioInv' /\ CaptureInv'
    <3>1. /\ captures' = [captures EXCEPT ![0] = [attens |-> search.attens, signal |-> "full"]]
          /\ playing' = "full"
      BY <2>1 DEF CaptureCase
    <3>2. captures'[0] = Made(0)' /\ \A k \in Ks \ {0} : captures'[k] = NoCapture
      BY <1>1, <2>1, <3>1, AtZero DEF Made
    <3>3. captures' \in [Ks \cup {0} -> KeyType]
      BY <1>1, <3>1 DEF KeyType
    <3> QED
      BY <2>1, <3>1, <3>2, <3>3
  <2> QED
    BY <1>7, <1>12, <2>1 DEF Retake
<1>13. CASE Backoff
  <2>1. ASSUME NEW k \in Ks, pc = "backoffs", UNCHANGED <<pc, search>>,
               CaptureCase(At(search.attens, k), k)
        PROVE  RadioInv' /\ CaptureInv'
    <3>1. /\ captures' = [captures EXCEPT ![k] = Made(k)]
          /\ playing' = "full"
      BY <2>1 DEF CaptureCase, Made
    <3>2. Made(k) \in KeyType
      BY <1>1, Numbers, AtType DEF Made, KeyType
    <3>3. \A j \in Ks \cup {0} : captures'[j] = IF j = k THEN Made(k)' ELSE captures[j]
      BY <2>1, <3>1 DEF Made
    <3>4. \A j \in Ks \cup {0} : Made(j)' = Made(j)
      BY <2>1 DEF Made
    <3> QED
      BY <2>1, <3>1, <3>2, <3>3, <3>4
  <2> QED
    BY <1>7, <1>13, <2>1 DEF Backoff
<1>14. CASE Finally
  <2>1. UNCHANGED <<search, captures>> /\ playing' \in {playing, "off"}
    BY <1>14 DEF Finally, DisableTx
  <2>2. CASE pc' = "over"
    BY <1>3, <2>1, <2>2
  <2>3. CASE pc = "backoffs" /\ Left = {}
    BY <2>1, <2>3, <1>14 DEF Finally, Left, Due, Made
  <2> QED
    BY <1>14, <2>2, <2>3 DEF Finally
<1>15. CASE WriteFile
  BY <1>15 DEF WriteFile, RadioStays, Made
<1>16. CASE WriteCaseJson \/ Done \/ Crash
  BY <1>3, <1>16 DEF WriteCaseJson, Done, Crash, RadioStays
<1>17. CASE MoveAside \/ Finished \/ UNCHANGED vars
  BY <1>17 DEF MoveAside, Finished, vars, RadioStays, Made
<1> QED
  BY <1>4, <1>5, <1>6, <1>8, <1>9, <1>10, <1>11, <1>12, <1>13, <1>14, <1>15, <1>16, <1>17
  DEF Next

LEMMA CapturesAlways == Spec => [](RadioInv /\ CaptureInv)
<1>1. (RadioInv /\ CaptureInv) /\ [Next]_vars => (RadioInv /\ CaptureInv)'
  BY CaptureStep
<1> QED
  BY RadioInit, <1>1, PTL DEF Spec

(* Every capture of a case that is written was made on the full signals at *)
(* the lock that is written, backed off, for any outcome of the searches   *)
(* (confirm_lock retakes the 0 dB capture when the fallback moved a band). *)
THEOREM CapturedAtLock == Spec => []CapturesAtLock
<1>1. RadioInv /\ CaptureInv => CapturesAtLock
  BY DEF CaptureInv, CapturesAtLock, Made
<1> QED
  BY <1>1, CapturesAlways, PTL

-----------------------------------------------------------------------------
(* The folder                                                              *)

Early == {"start", "play", "search", "swap", "confirm", "fallback", "retake", "backoffs"}
FolderType == [Names -> [run : Nat, attens : [Bands -> Attens]]]
Written(f) == disk[f].run # 0

FolderInv ==
  /\ run \in Nat /\ next \in Nat /\ disk \in FolderType
  /\ pc # "idle" => run # 0
  /\ pc \in Early => next = 1 /\ \A f \in Names : ~Written(f)
  /\ pc \in {"write", "returned"} => ~Written(Json)
  /\ pc = "write" => next \in 1 .. Len(FileOrder)

(* The files are written in order, each by the run that is going on, an    *)
(* output with the attenuations of its capture; once the outputs are there *)
(* conditions.csv follows, and the lock of its row does not move any more. *)
WriteInv ==
  /\ pc \in {"write", "returned"} => \A f \in Names : disk[f].run \in {0, run}
  /\ pc = "write" =>
       /\ \A i \in 1 .. next - 1 : Written(FileOrder[i])
       /\ \A f \in Items(OutFiles) : Written(f) => disk[f].attens = captures[f[2]].attens
       /\ Written(Conditions) => next > Tables + 1
  /\ pc = "returned" => Present = {} \/ Present = Files

LEMMA NoFileType == NoFile \in [run : Nat, attens : [Bands -> Attens]] /\ NoFile.run = 0
  BY Numbers DEF NoFile, Nowhere

LEMMA FolderInit == Init => FolderInv /\ WriteInv /\ FolderFits
  BY NoFileType, TablesLast, Order
  DEF Init, FolderInv, WriteInv, FolderType, EmptyFolder, Early, Written, FolderFits, OneRun,
      RowsFit, WholeBehindJson, Present

(* Every step but the writing of a file and moving the folder aside leaves *)
(* the folder as it is.                                                    *)
LEMMA FolderStill ==
  ASSUME [Next]_vars
  PROVE  WriteFile \/ WriteCaseJson \/ MoveAside \/ UNCHANGED disk
  BY DEF Next, vars, Call, Prepare, Play, Search, Swap, Confirm, Fallback, Retake, Backoff,
         Finally, Done, Crash, Finished, FolderStays

(* Where the call goes while the folder is not written.                    *)
LEMMA Quietly ==
  ASSUME [Next]_vars, ~WriteFile, ~WriteCaseJson, ~MoveAside
  PROVE  /\ UNCHANGED disk
         /\ \/ UNCHANGED <<pc, run, next, captures, search>>
            \/ pc' \in {"finally_raise", "over", "idle"} /\ pc # "idle" /\ UNCHANGED <<run, next>>
            \/ pc = "idle" /\ pc' = "idle" /\ run' = run + 1 /\ next' = 1
            \/ pc = "idle" /\ pc' = "start" /\ Present = {} /\ run' = run + 1 /\ next' = 1
            \/ pc \in Early /\ pc' \in Early /\ UNCHANGED <<run, next>>
            \/ /\ pc = "backoffs" /\ pc' \in {"write", "returned"}
               /\ UNCHANGED <<run, next, captures, search>>
<1> USE DEF FolderStays, Early, Raise
<1>1. CASE Call
  BY <1>1 DEF Call
<1>2. CASE Prepare \/ Play
  BY <1>2 DEF Prepare, Play
<1>3. CASE Search \/ Swap
  BY <1>3 DEF Search, Swap, RadioFails
<1>4. CASE Confirm \/ Fallback
  BY <1>4 DEF Confirm, Fallback, RadioFails
<1>5. CASE Retake \/ Backoff
  BY <1>5 DEF Retake, Backoff, RadioFails
<1>6. CASE Finally
  BY <1>6 DEF Finally
<1>7. CASE Done \/ Crash \/ Finished \/ UNCHANGED vars
  BY <1>7 DEF Done, Crash, Finished, vars
<1> QED
  BY <1>1, <1>2, <1>3, <1>4, <1>5, <1>6, <1>7 DEF Next

LEMMA ContentType ==
  ASSUME RadioInv, FolderInv, NEW f \in Names, f \in Items(OutFiles) => f[2] \in Ks
  PROVE  Content(f) \in [run : Nat, attens : [Bands -> Attens]] /\ Content(f).run = run
<1>1. search.attens \in [Bands -> Attens]
  BY DEF RadioInv, SearchType
<1>2. \A k \in Ks : captures[k].attens \in [Bands -> Attens]
  <2>1. \A c \in KeyType : c.attens \in [Bands -> Attens]
    BY Numbers DEF KeyType, NoCapture, Nowhere
  <2> QED
    BY <2>1 DEF RadioInv
<1> QED
  BY <1>1, <1>2 DEF Content, FolderInv

LEMMA FolderStep ==
  ASSUME RadioInv, CaptureInv, FolderInv, [Next]_vars
  PROVE  FolderInv'
<1> USE DEF FolderInv
<1>1. CASE WriteFile
  <2>1. CASE pc' = "over" /\ FolderStays
    BY <1>1, <2>1 DEF WriteFile, FolderStays, Early, Written
  <2>2. CASE /\ Put(FileOrder[next]) /\ next' = next + 1
             /\ pc' = IF next = Len(FileOrder) THEN "returned" ELSE "write"
    <3> DEFINE f == FileOrder[next]
    <3>1. pc = "write" /\ UNCHANGED run /\ next \in 1 .. Len(FileOrder)
      BY <1>1 DEF WriteFile
    <3>2. f \in Names /\ f # Json
      BY <3>1, Order DEF Names
    <3>3. Content(f) \in [run : Nat, attens : [Bands -> Attens]]
      BY <3>2, ContentType, TablesLast
    <3>4. disk' = [disk EXCEPT ![f] = Content(f)]
      BY <2>2 DEF Put
    <3> HIDE DEF f
    <3>5. disk' \in FolderType /\ disk'[Json] = disk[Json]
      BY <3>2, <3>3, <3>4, Order DEF FolderType
    <3> QED
      BY <2>2, <3>1, <3>5, Order DEF Early, Written
  <2> QED
    BY <1>1, <2>1, <2>2 DEF WriteFile
<1>2. CASE WriteCaseJson
  <2>1. Json \in Names /\ Json \notin Items(OutFiles)
    <3>1. Items(OutFiles) \subseteq Files
      BY TablesLast, Order
    <3> QED
      BY <3>1, Order
  <2>2. Content(Json) \in [run : Nat, attens : [Bands -> Attens]]
    BY <2>1, ContentType
  <2>3. disk' \in FolderType
    BY <1>2, <2>1, <2>2 DEF WriteCaseJson, Put, FolderType
  <2> QED
    BY <1>2, <2>3 DEF WriteCaseJson, Early
<1>3. CASE MoveAside
  <2>1. disk' \in FolderType
    BY <1>3, NoFileType DEF MoveAside, EmptyFolder, FolderType
  <2> QED
    BY <1>3, <2>1 DEF MoveAside, Early
<1>4. CASE ~WriteFile /\ ~WriteCaseJson /\ ~MoveAside
  <2>1. Present = {} => \A f \in Names : ~Written(f)
    BY DEF Present, Written
  <2>2. UNCHANGED disk
    BY <1>4, Quietly
  <2>3. \A f \in Names : Written(f)' <=> Written(f)
    BY <2>2 DEF Written
  <2>4. Written(Json)' <=> Written(Json)
    BY <2>2 DEF Written
  <2> QED
    BY <1>4, <2>1, <2>2, <2>3, <2>4, Quietly, Order DEF Early
<1> QED
  BY <1>1, <1>2, <1>3, <1>4

-----------------------------------------------------------------------------
(* The promise of CaseStore                                                *)

Folder == [f \in Names |-> disk[f].run]

LEMMA StoreInit == Init => Store!Init
  BY DEF Init, Store!Init, Store!Names, EmptyFolder, NoFile, Names

(* A file written is one write of the abstract folder: it was not there,   *)
(* nor was case.json.                                                      *)
LEMMA StoreWrite ==
  ASSUME FolderInv, pc \in {"write", "returned"}, NEW f \in Names, Put(f),
         Content(f).run = run, pc' # "idle", UNCHANGED run
  PROVE  Store!Write(f)
<1>1. /\ disk' = [disk EXCEPT ![f] = Content(f)]
      /\ disk[f].run = 0 /\ disk[Json].run = 0 /\ run # 0
  BY DEF Put, FolderInv, Written
<1>2. Folder' = [Folder EXCEPT ![f] = run]
  BY <1>1 DEF FolderInv, FolderType, Folder
<1> QED
  BY <1>1, <1>2, Order DEF Store!Write, Folder

LEMMA StoreStep ==
  ASSUME RadioInv, FolderInv, [Next]_vars
  PROVE  [Store!Next]_(Store!vars)
<1>1. CASE WriteFile
  <2>1. CASE pc' = "over" /\ FolderStays
    BY <1>1, <2>1 DEF WriteFile, FolderStays, Store!vars
  <2>2. CASE /\ Put(FileOrder[next]) /\ next' = next + 1
             /\ pc' = IF next = Len(FileOrder) THEN "returned" ELSE "write"
    <3>0. PICK f \in Names : f = FileOrder[next]
      BY <1>1, Order DEF WriteFile, FolderInv, Names
    <3>1. f \in Names /\ Content(f).run = run /\ Put(f)
      BY <2>2, <3>0 DEF Content, Put
    <3>2. Store!Write(f)
      <4>1. pc = "write" /\ pc' # "idle" /\ UNCHANGED run
        BY <1>1, <2>2 DEF WriteFile
      <4> QED
        BY <3>1, <4>1, StoreWrite
    <3> QED
      BY <3>1, <3>2 DEF Store!Next, Store!Names, Names
  <2> QED
    BY <1>1, <2>1, <2>2 DEF WriteFile
<1>2. CASE WriteCaseJson
  <2>1. CASE UNCHANGED disk
    BY <1>2, <2>1 DEF WriteCaseJson, Store!vars
  <2>2. CASE Put(Json)
    <3>1. Store!Write(Json)
      BY <1>2, <2>2, Order, StoreWrite DEF WriteCaseJson, Content
    <3> QED
      BY <3>1 DEF Store!Next, Store!Names
  <2> QED
    BY <1>2, <2>1, <2>2 DEF WriteCaseJson
<1>3. CASE MoveAside
  <2>1. Folder' = [f \in Names |-> 0]
    BY <1>3 DEF MoveAside, EmptyFolder, NoFile, Folder
  <2> QED
    BY <1>3, <2>1 DEF MoveAside, Store!Next, Store!MoveAside, Store!Names, Names, Folder
<1>4. CASE ~WriteFile /\ ~WriteCaseJson /\ ~MoveAside
  <2>1. UNCHANGED disk
    BY <1>4, Quietly
  <2>2. CASE pc # "idle" /\ pc' # "idle" /\ UNCHANGED run
    BY <2>1, <2>2 DEF Store!vars
  <2>3. CASE pc = "idle" /\ pc' = "idle"
    BY <2>1, <2>3 DEF Store!vars
  <2>4. CASE pc # "idle" /\ pc' = "idle"
    BY <2>1, <2>4 DEF Store!Next, Store!Leave, FolderInv
  <2>5. CASE pc = "idle" /\ pc' = "start" /\ Present = {} /\ run' = run + 1
    <3>1. \A f \in Names : disk[f].run = 0
      BY <2>5 DEF Present
    <3>2. run' \in Nat \ {0}
      BY <2>5 DEF FolderInv
    <3> QED
      BY <2>1, <2>5, <3>1, <3>2
      DEF Store!Next, Store!Enter, Store!Empty, Store!Names, Names
  <2> QED
    BY <1>4, <2>2, <2>3, <2>4, <2>5, Quietly DEF Early
<1> QED
  BY <1>1, <1>2, <1>3, <1>4

LEMMA FolderAlways == Spec => [](RadioInv /\ CaptureInv /\ FolderInv)
<1>1. (RadioInv /\ CaptureInv /\ FolderInv) /\ [Next]_vars
        => (RadioInv /\ CaptureInv /\ FolderInv)'
  BY CaptureStep, FolderStep
<1> QED
  BY RadioInit, FolderInit, <1>1, PTL DEF Spec

(* The folder implements CaseStore: a run is let in only while it is       *)
(* empty, a file is written once, case.json last, and nothing of it        *)
(* changes until somebody moves it aside, through failures and crashes.    *)
THEOREM FolderKeepsStore == Spec => KeepsStore
<1>1. (RadioInv /\ CaptureInv /\ FolderInv) /\ [Next]_vars => [Store!Next]_(Store!vars)
  BY StoreStep
<1> QED
  BY StoreInit, FolderAlways, <1>1, PTL DEF Spec, KeepsStore, Store!Spec

-----------------------------------------------------------------------------
(* A folder fits together                                                  *)

(* The lock's row: the tables are put only when all outputs are there.     *)
LEMMA RowStep ==
  ASSUME RadioInv, CaptureInv, FolderInv, WriteInv, FolderFits, pc = "write",
         NEW f \in Names, f = FileOrder[next], Put(f),
         next' = next + 1, pc' = IF next = Len(FileOrder) THEN "returned" ELSE "write",
         UNCHANGED <<run, search, captures>>
  PROVE  WriteInv' /\ FolderFits'
<1> USE DEF Written
<1>1. /\ next \in 1 .. Len(FileOrder) /\ run # 0
      /\ disk' = [disk EXCEPT ![f] = Content(f)] /\ disk[f].run = 0 /\ disk[Json].run = 0
  BY DEF FolderInv, Put
<1>2. f \in Files /\ f # Json /\ Files \subseteq Names
  BY <1>1, Order DEF Names
<1>3. /\ \A g \in Names : disk'[g] = IF g = f THEN Content(f) ELSE disk[g]
      /\ Content(f).run = run
  BY <1>1 DEF FolderInv, FolderType, Content
<1>4. \A g \in Names : disk'[g].run \in {0, run} /\ (Written(g) => disk'[g] = disk[g])
  BY <1>1, <1>3 DEF WriteInv
<1>5. \A i \in 1 .. next : disk'[FileOrder[i]].run = run
  <2> TAKE i \in 1 .. next
  <2>1. FileOrder[i] \in Names
    BY <1>1, <1>2, Order
  <2>2. i = next \/ i \in 1 .. next - 1
    BY <1>1, Order
  <2> QED
    BY <1>1, <1>3, <1>4, <2>1, <2>2 DEF WriteInv
<1>6. \A g \in Items(OutFiles) :
        g \in Names /\ (disk'[g].run # 0 => disk'[g].attens = captures[g[2]].attens)
  <2> TAKE g \in Items(OutFiles)
  <2>1. g \in Names
    BY <1>2, TablesLast, Order
  <2> QED
    BY <1>3, <2>1 DEF WriteInv, Content
<1>7. disk'[Conditions].run # 0 => next > Tables
  <2>1. CASE f = Conditions
    <3>1. next \notin 1 .. Tables /\ next \in 1 .. Tables + 2 /\ Tables \in Nat
      BY <1>1, <2>1, TablesLast
    <3> QED
      BY <3>1
  <2>2. CASE f # Conditions
    BY <1>1, <1>3, <2>2, TablesLast DEF WriteInv
  <2> QED
    BY <2>1, <2>2
<1>8. OneRun'
  BY <1>4 DEF OneRun, Present
<1>9. WholeBehindJson'
  BY <1>1, <1>2, <1>3, Order DEF WholeBehindJson, Present
<1>10. RowsFit'
  <2> SUFFICES ASSUME disk'[Conditions].run # 0, NEW g \in Items(OutFiles)
               PROVE  disk'[g].attens = At(disk'[Conditions].attens, g[2])
    BY DEF RowsFit
  <2>1. next > Tables
    BY <1>7
  <2>2. PICK i \in 1 .. Tables : FileOrder[i] = g
    BY TablesLast
  <2>3. disk'[g].run # 0 /\ g \in Names
    BY <1>1, <1>5, <1>6, <2>1, <2>2, TablesLast, Order
  <2>4. disk'[g].attens = captures[g[2]].attens
    BY <1>6, <2>3
  <2>5. g[2] \in Ks
    BY TablesLast
  <2>6. captures[g[2]].attens = At(search.attens, g[2])
    <3>1. \A k \in Ks : captures[k] = Made(k)
      BY DEF CaptureInv
    <3>2. \A k \in Ks : Made(k).attens = At(search.attens, k)
      BY DEF Made
    <3> QED
      BY <2>5, <3>1, <3>2
  <2>7. CASE f = Conditions
    <3>1. Conditions \notin Items(OutFiles)
      BY TablesLast
    <3>2. disk'[Conditions].attens = search.attens
      BY <1>3, <2>7, <3>1 DEF Content
    <3> QED
      BY <2>4, <2>6, <3>2
  <2>8. CASE f # Conditions
    <3>1. disk'[Conditions] = disk[Conditions] /\ Written(Conditions)
      BY <1>3, <2>8, TablesLast
    <3>2. next > Tables + 1
      BY <3>1 DEF WriteInv
    <3>3. f = LockTable
      BY <1>1, <3>2, TablesLast
    <3>4. disk'[g] = disk[g]
      BY <1>3, <2>3, <3>3, TablesLast
    <3> QED
      BY <3>1, <3>4 DEF FolderFits, RowsFit
  <2> QED
    BY <2>7, <2>8
<1>11. CASE pc' = "write"
  <2>1. \A i \in 1 .. next' - 1 : Written(FileOrder[i])'
    BY <1>1, <1>5, Order
  <2>2. Written(Conditions)' => next' > Tables + 1
    BY <1>1, <1>7, TablesLast
  <2>3. WriteInv'
    BY <1>4, <1>6, <1>11, <2>1, <2>2 DEF WriteInv
  <2> QED
    BY <1>8, <1>9, <1>10, <2>3 DEF FolderFits
<1>12. CASE pc' = "returned"
  <2>1. next = Len(FileOrder)
    BY <1>12
  <2>2. \A g \in Files : disk'[g].run # 0
    BY <1>1, <1>5, <2>1, Order DEF Files, Items
  <2>3. disk'[Json].run = 0
    BY <1>1, <1>2, <1>3, Order
  <2>4. Present' = Files
    BY <2>2, <2>3 DEF Present, Names
  <2>5. WriteInv'
    BY <1>4, <1>12, <2>4 DEF WriteInv
  <2> QED
    BY <1>8, <1>9, <1>10, <2>5 DEF FolderFits
<1> QED
  BY <1>11, <1>12

LEMMA FitsStep ==
  ASSUME RadioInv, CaptureInv, FolderInv, FolderInv', WriteInv, FolderFits, [Next]_vars
  PROVE  WriteInv' /\ FolderFits'
<1>1. CASE WriteFile
  <2>1. CASE pc' = "over" /\ FolderStays
    BY <1>1, <2>1
    DEF WriteFile, FolderStays, WriteInv, FolderFits, OneRun, RowsFit, WholeBehindJson, Present
  <2>2. CASE /\ Put(FileOrder[next]) /\ next' = next + 1
             /\ pc' = IF next = Len(FileOrder) THEN "returned" ELSE "write"
    <3>1. PICK f \in Names : f = FileOrder[next]
      BY <1>1, Order DEF WriteFile, FolderInv, Names
    <3>2. Put(f)
      BY <2>2, <3>1 DEF Content, Put
    <3> QED
      BY <1>1, <2>2, <3>1, <3>2, RowStep DEF WriteFile
  <2> QED
    BY <1>1, <2>1, <2>2 DEF WriteFile
<1>2. CASE WriteCaseJson
  <2>1. CASE UNCHANGED disk
    BY <1>2, <2>1
    DEF WriteCaseJson, WriteInv, FolderFits, OneRun, RowsFit, WholeBehindJson, Present
  <2>2. CASE Put(Json)
    <3>1. /\ \A g \in Names : disk'[g] = IF g = Json THEN Content(Json) ELSE disk[g]
          /\ Content(Json).run = run /\ run # 0
          /\ \A g \in Names : disk[g].run \in {0, run}
      BY <1>2, <2>2, Order
      DEF Put, FolderInv, FolderType, WriteCaseJson, WriteInv, Content
    <3>2. OneRun'
      BY <3>1 DEF OneRun, Present
    <3>3. /\ Conditions \in Names /\ Conditions # Json
          /\ \A g \in Items(OutFiles) : g \in Names /\ g # Json
      <4>1. Conditions \in Files
        BY TablesLast, Order
      <4> QED
        BY <4>1, TablesLast, Order DEF Names
    <3>4. RowsFit'
      BY <3>1, <3>3 DEF FolderFits, RowsFit
    <3>5. WholeBehindJson'
      <4>1. Present = {} \/ Present = Files
        BY <1>2 DEF WriteCaseJson, WriteInv
      <4>2. Present' = Present \cup {Json}
        BY <3>1, Order DEF Present
      <4> QED
        BY <4>1, <4>2 DEF WholeBehindJson, Names
    <3> QED
      BY <1>2, <3>2, <3>4, <3>5 DEF WriteCaseJson, WriteInv, FolderFits
  <2> QED
    BY <1>2, <2>1, <2>2 DEF WriteCaseJson
<1>3. CASE MoveAside
  <2>1. \A g \in Names : disk'[g].run = 0
    BY <1>3, NoFileType DEF MoveAside, EmptyFolder
  <2> QED
    BY <1>3, <2>1, TablesLast, Order
    DEF MoveAside, WriteInv, FolderFits, OneRun, RowsFit, WholeBehindJson, Present
<1>4. CASE ~WriteFile /\ ~WriteCaseJson /\ ~MoveAside
  <2>1. UNCHANGED disk
    BY <1>4, Quietly
  <2>2. FolderFits'
    BY <2>1 DEF FolderFits, OneRun, RowsFit, WholeBehindJson, Present
  <2>3. CASE pc = "backoffs" /\ pc' \in {"write", "returned"} /\ UNCHANGED <<run, next>>
    <3>1. next = 1 /\ \A f \in Names : disk[f].run = 0
      BY <2>3 DEF FolderInv, Early, Written
    <3>2. Conditions \in Names /\ \A f \in Items(OutFiles) : f \in Names
      <4>1. \A f \in Items(OutFiles) : f \in Files
        BY TablesLast, Order
      <4> QED
        BY <4>1, TablesLast DEF Names
    <3>3. Present' = {}
      BY <2>1, <3>1 DEF Present
    <3> QED
      BY <2>1, <2>2, <2>3, <3>1, <3>2, <3>3 DEF WriteInv, Written
  <2>4. CASE UNCHANGED <<pc, run, next, captures>>
    BY <2>1, <2>2, <2>4 DEF WriteInv, Written, Present
  <2>5. CASE pc' \notin {"write", "returned"}
    BY <2>2, <2>5 DEF WriteInv
  <2> QED
    BY <1>4, <2>3, <2>4, <2>5, Quietly DEF Early
<1> QED
  BY <1>1, <1>2, <1>3, <1>4

(* What a case folder holds fits together, wherever its run was cut off    *)
(* and however often it was begun: one run's files, outputs captured at    *)
(* the lock of conditions.csv, and behind case.json all of them, or a      *)
(* search that was fatal.                                                  *)
THEOREM FoldersFit == Spec => []FolderFits
<1> DEFINE IInv == RadioInv /\ CaptureInv /\ FolderInv /\ WriteInv /\ FolderFits
<1>1. Init => IInv
  BY RadioInit, FolderInit
<1>2. IInv /\ [Next]_vars => IInv'
  BY CaptureStep, FolderStep, FitsStep
<1>3. IInv => FolderFits
  OBVIOUS
<1> QED
  BY <1>1, <1>2, <1>3, PTL DEF Spec

-----------------------------------------------------------------------------
(* Types                                                                   *)

LEMMA TypeInit == Init => TypeOK
<1>1. NoSearch \in SearchType /\ NoCapture \in CaptureType
  BY CaseAssumption DEF NoSearch, SearchType, CaptureType
<1>2. EmptyFolder \in [Names -> FileType]
  BY DEF EmptyFolder, FileType
<1> QED
  BY <1>1, <1>2, Order, CaseAssumption DEF Init, TypeOK, SearchType

(* The file put is one of the case's, of the run that is going on.         *)
LEMMA PutType ==
  ASSUME RadioInv, FolderInv, TypeOK, NEW f \in Names, f \in Items(OutFiles) => f[2] \in Ks,
         Put(f), pc # "idle"
  PROVE  disk' \in [Names -> FileType]
<1>1. Content(f) \in [run : Nat, attens : [Bands -> Attens]] /\ Content(f).run = run
  BY ContentType
<1>2. run \in 1 .. MaxRuns
  BY CaseAssumption DEF TypeOK, FolderInv
<1>3. Content(f) \in [run : 1 .. MaxRuns, attens : [Bands -> Attens]]
  BY <1>1, <1>2 DEF Content
<1> QED
  BY <1>3 DEF Put, TypeOK, FileType

LEMMA TypeStep ==
  ASSUME RadioInv, RadioInv', FolderInv, FolderInv', TypeOK, [Next]_vars
  PROVE  TypeOK'
<1>1. /\ search' \in SearchType /\ captures' \in [Ks \cup {0} -> CaptureType]
      /\ playing' \in {"off", "probe", "full"}
  BY DEF RadioInv, KeyType, CaptureType
<1>2. run' \in 0 .. MaxRuns
  BY CaseAssumption
  DEF TypeOK, Next, vars, Call, Prepare, Play, Search, Swap, Confirm, Fallback, Retake, Backoff,
      Finally, WriteFile, WriteCaseJson, Done, Crash, MoveAside, Finished, Raise, RadioFails
<1>3. atten' \in [Bands -> Attens]
  <2>1. CASE Search \/ Fallback
    <3>1. \A signal \in {"probe", "full", "off"} :
            \A s \in Outcomes(signal) : s.attens \in [Bands -> Attens]
      BY CaseAssumption DEF Outcomes, Ends
    <3> QED
      BY <2>1, <3>1 DEF Search, Fallback, RadioFails, TypeOK
  <2>2. CASE Confirm \/ Retake \/ Backoff
    <3>1. search.attens \in [Bands -> Attens]
      BY DEF TypeOK
    <3>2. \A k \in Ks : At(search.attens, k) \in [Bands -> Attens]
      BY <3>1, AtType, Numbers
    <3> QED
      BY <2>2, <3>1, <3>2 DEF Confirm, Retake, Backoff, CaptureCase, RadioFails, TypeOK
  <2>3. CASE Prepare
    BY <2>3, CaseAssumption DEF Prepare, TypeOK
  <2>4. CASE ~(Search \/ Fallback \/ Confirm \/ Retake \/ Backoff \/ Prepare)
    BY <2>4 DEF Next, vars, Call, Play, Swap, Finally, WriteFile, WriteCaseJson, Done, Crash,
                MoveAside, Finished, RadioStays, TypeOK
  <2> QED
    BY <2>1, <2>2, <2>3, <2>4
<1>4. /\ pc' \in {"idle", "start", "play", "search", "swap", "confirm", "fallback",
                  "retake", "backoffs", "finally_raise", "write", "returned", "over"}
  BY DEF TypeOK, Next, vars, Call, Prepare, Play, Search, Swap, Confirm, Fallback, Retake,
         Backoff, Finally, WriteFile, WriteCaseJson, Done, Crash, MoveAside, Finished, Raise,
         RadioFails
<1>5. next' \in 1 .. Len(FileOrder) + 1 /\ disk' \in [Names -> FileType]
  <2>1. CASE WriteFile
    <3>1. next \in 1 .. Len(FileOrder) /\ FileOrder[next] \in Files
      BY <2>1, Order DEF WriteFile, FolderInv
    <3>2. FileOrder[next] \in Names
      BY <3>1 DEF Names
    <3>3. CASE Put(FileOrder[next]) /\ next' = next + 1
      <4>1. PICK f \in Names : f = FileOrder[next]
        BY <3>2
      <4>2. disk' \in [Names -> FileType]
        BY <2>1, <3>3, <4>1, PutType, TablesLast DEF WriteFile
      <4> QED
        BY <3>1, <3>3, <4>2, Order
    <3> QED
      BY <2>1, <3>3 DEF WriteFile, FolderStays, TypeOK
  <2>2. CASE WriteCaseJson
    <3>1. Json \in Names /\ Json \notin Items(OutFiles)
      <4>1. \A f \in Items(OutFiles) : f \in Files
        BY Order, TablesLast
      <4> QED
        BY <4>1, Order
    <3> QED
      BY <2>2, <3>1, PutType DEF WriteCaseJson, TypeOK
  <2>3. CASE MoveAside
    BY <2>3 DEF MoveAside, EmptyFolder, FileType, TypeOK
  <2>4. CASE ~WriteFile /\ ~WriteCaseJson /\ ~MoveAside
    BY <2>4, Quietly, Order DEF TypeOK
  <2> QED
    BY <2>1, <2>2, <2>3, <2>4
<1> QED
  BY <1>1, <1>2, <1>3, <1>4, <1>5 DEF TypeOK, SearchType

(* The state of a case fits its types, for any bands, back-offs and runs.  *)
THEOREM TypeCorrect == Spec => []TypeOK
<1> DEFINE IInv == RadioInv /\ CaptureInv /\ FolderInv /\ TypeOK
<1>1. Init => IInv
  BY RadioInit, FolderInit, TypeInit
<1>2. IInv /\ [Next]_vars => IInv'
  BY CaptureStep, FolderStep, TypeStep
<1>3. IInv => TypeOK
  OBVIOUS
<1> QED
  BY <1>1, <1>2, <1>3, PTL DEF Spec

-----------------------------------------------------------------------------
(* The probe: positions on the loop                                        *)

LEMMA Sizes ==
  /\ NFull \in Nat \ {0} /\ Crossfade \in Nat /\ Unit \in Nat \ {0} /\ Room \in Nat \ {0}
  /\ Window \in 1 .. NFull /\ Cells \subseteq Nat
  /\ Room = 3 * Crossfade + Unit
<1>1. Window \div 4 \in Nat
  BY ProbeAssumption
<1> QED BY <1>1, ProbeAssumption DEF Room, Cells

(* The remainder of a division is the only one.                            *)
LEMMA RemainderIs ==
  ASSUME NEW n \in Nat \ {0}, NEW x \in Int, NEW q \in Int, NEW r \in 0 .. n - 1, x = n * q + r
  PROVE  x % n = r
<1>1. PICK v \in Int : v = x \div n
  OBVIOUS
<1>2. PICK w \in Int : w = x % n
  OBVIOUS
<1>3. x = n * v + w /\ 0 <= w /\ w < n
  BY <1>1, <1>2
<1>4. n * (q - v) = w - r
  <2> DEFINE y == n * q
             z == n * v
  <2>1. n * (q - v) = y - z
    OBVIOUS
  <2>2. y \in Int /\ z \in Int /\ x = y + r /\ x = z + w
    BY <1>3
  <2> HIDE DEF y, z
  <2>3. y - z = w - r
    BY <2>2
  <2> QED BY <2>1, <2>3
<1>5. ~(q - v >= 1)
  <2> SUFFICES ASSUME q - v >= 1 PROVE FALSE
    OBVIOUS
  <2>1. n * (q - v) >= n
    OBVIOUS
  <2> QED BY <2>1, <1>3, <1>4
<1>6. ~(q - v <= -1)
  <2> SUFFICES ASSUME q - v <= -1 PROVE FALSE
    OBVIOUS
  <2>1. n * (q - v) <= -n
    OBVIOUS
  <2> QED BY <2>1, <1>3, <1>4
<1>7. q = v
  BY <1>5, <1>6
<1>8. n * (q - v) = 0
  BY <1>7
<1> QED BY <1>2, <1>3, <1>4, <1>8

LEMMA Quotient ==
  ASSUME NEW n \in Nat \ {0}, NEW x \in Int
  PROVE  x % n \in 0 .. n - 1 /\ \E q \in Int : x = n * q + (x % n)
<1>1. PICK v \in Int : v = x \div n
  OBVIOUS
<1>2. PICK w \in Int : w = x % n
  OBVIOUS
<1>3. x = n * v + w /\ 0 <= w /\ w < n
  BY <1>1, <1>2
<1>4. \E q \in Int : x = n * q + w
  BY <1>3
<1>5. w \in 0 .. n - 1
  BY <1>3
<1> QED BY <1>2, <1>4, <1>5

(* Positions whole loops apart are one sample.                             *)
LEMMA LoopsApart ==
  ASSUME NEW x \in Int, NEW y \in Int, NEW q \in Int, x = y + NFull * q
  PROVE  OnLoop(x) = OnLoop(y)
<1>1. PICK p \in Int : y = NFull * p + OnLoop(y)
  BY Sizes, Quotient DEF OnLoop
<1>2. OnLoop(y) \in 0 .. NFull - 1
  BY Sizes, Quotient DEF OnLoop
<1>3. x = NFull * (p + q) + OnLoop(y)
  <2>1. NFull * (p + q) = NFull * p + NFull * q
    BY Sizes
  <2> DEFINE a == NFull * p
             b == NFull * q
  <2>2. a \in Int /\ b \in Int /\ y = a + OnLoop(y) /\ x = y + b /\ NFull * (p + q) = a + b
    BY <1>1, <2>1, Sizes
  <2> HIDE DEF a, b
  <2> QED BY <2>2, <1>2
<1>4. p + q \in Int /\ NFull \in Nat \ {0}
  BY Sizes
<1> QED BY <1>2, <1>3, <1>4, RemainderIs DEF OnLoop

LEMMA LoopFacts ==
  /\ \A x \in Int : OnLoop(x) \in Cells
  /\ \A x \in Cells : OnLoop(x) = x
  /\ \A x \in Int : OnLoop(x + NFull) = OnLoop(x)
  /\ \A x, k \in Int : OnLoop(OnLoop(x) + k) = OnLoop(x + k)
<1>1. \A x \in Int : OnLoop(x) \in Cells
  BY Sizes, Quotient DEF OnLoop, Cells
<1>2. \A x \in Cells : OnLoop(x) = x
  <2> TAKE x \in Cells
  <2>1. x \in Int /\ x \in 0 .. NFull - 1 /\ x = NFull * 0 + x
    BY Sizes DEF Cells
  <2> QED BY <2>1, Sizes, RemainderIs DEF OnLoop
<1>3. \A x \in Int : OnLoop(x + NFull) = OnLoop(x)
  <2> TAKE x \in Int
  <2>1. x + NFull = x + NFull * 1 /\ x + NFull \in Int
    BY Sizes
  <2> QED BY <2>1, LoopsApart
<1>4. \A x, k \in Int : OnLoop(OnLoop(x) + k) = OnLoop(x + k)
  <2> TAKE x, k \in Int
  <2>1. PICK p \in Int : x = NFull * p + OnLoop(x)
    BY Sizes, Quotient DEF OnLoop
  <2>2. OnLoop(x) \in Int
    BY <1>1 DEF Cells
  <2>3. x + k = (OnLoop(x) + k) + NFull * p
    <3> DEFINE a == NFull * p
    <3>1. a \in Int /\ x = a + OnLoop(x)
      BY <2>1, Sizes
    <3> HIDE DEF a
    <3>2. x + k = (OnLoop(x) + k) + a
      BY <3>1, <2>2
    <3> QED BY <3>2 DEF a
  <2>4. OnLoop(x) + k \in Int /\ x + k \in Int
    BY <2>2
  <2> QED BY <2>3, <2>4, LoopsApart
<1> QED BY <1>1, <1>2, <1>3, <1>4

(* What is missing to a whole unit fills it up.                            *)
LEMMA PadFills ==
  ASSUME NEW n \in Nat \ {0}, NEW t \in Int, NEW p, p = (-t) % n
  PROVE  p \in 0 .. n - 1 /\ (t + p) % n = 0
<1>1. -t \in Int
  OBVIOUS
<1>2. PICK q \in Int : -t = n * q + p
  BY <1>1, Quotient
<1>3. p \in 0 .. n - 1
  BY <1>1, Quotient
<1>4. t + p = n * (-q) + 0
  <2>1. n * (-q) = -(n * q)
    OBVIOUS
  <2> DEFINE a == n * q
  <2>2. a \in Int /\ -t = a + p /\ n * (-q) = -a
    BY <1>2, <2>1
  <2> HIDE DEF a
  <2>3. t + p = -a
    BY <2>2, <1>3
  <2> QED BY <2>2, <2>3
<1>5. t + p \in Int /\ -q \in Int /\ 0 \in 0 .. n - 1
  BY <1>3
<1> QED BY <1>3, <1>4, <1>5, RemainderIs

(* Numbers have a least.                                                   *)
LEMMA Least ==
  ASSUME NEW S \in SUBSET Nat, NEW z \in S
  PROVE  \E x \in S : \A y \in S : x <= y
<1> DEFINE R == StrictSubsetOrdering(0 .. z)
           T == {0 .. x : x \in {y \in S : y <= z}}
<1>1. z \in Nat
  OBVIOUS
<1>2. IsFiniteSet(0 .. z)
  BY <1>1, FS_Interval
<1>3. IsWellFoundedOn(R, SUBSET (0 .. z))
  <2>1. IsWellFoundedOn(R, FiniteSubsetsOf(0 .. z))
    BY FS_StrictSubsetOrderingWellFounded
  <2> QED BY <2>1, <1>2, FS_FiniteSubsetsOfFinite
<1>4. T \subseteq SUBSET (0 .. z) /\ T # {}
  BY <1>1
<1> HIDE DEF T, R
<1>5. PICK U \in T : \A V \in T : ~ (<<V, U>> \in R)
  BY <1>3, <1>4, WFMin
<1>6. PICK x \in S : x <= z /\ U = 0 .. x
  BY <1>5 DEF T
<1>7. ASSUME NEW y \in S, y < x PROVE FALSE
  <2>1. y \in Nat /\ x \in Nat /\ z \in Nat /\ y <= z
    BY <1>6, <1>7
  <2>2. 0 .. y \in T
    BY <2>1 DEF T
  <2>3. 0 .. y \subseteq 0 .. x /\ 0 .. y # 0 .. x /\ 0 .. x \in SUBSET (0 .. z) /\ 0 .. y \in SUBSET (0 .. z)
    BY <1>6, <1>7, <2>1
  <2> QED BY <1>5, <1>6, <2>2, <2>3 DEF R, StrictSubsetOrdering
<1>8. \A y \in S : x <= y
  BY <1>7, <1>6
<1> QED BY <1>8

LEMMA Greatest ==
  ASSUME NEW S, NEW n \in Nat, S \subseteq 0 .. n, NEW z \in S
  PROVE  \E x \in S : \A y \in S : y <= x
<1> DEFINE U == {n - y : y \in S}
<1>1. U \in SUBSET Nat /\ n - z \in U
  OBVIOUS
<1>2. PICK u \in U : \A v \in U : u <= v
  <2> HIDE DEF U
  <2> QED BY <1>1, Least
<1>3. PICK x \in S : u = n - x
  BY <1>2
<1>4. \A y \in S : n - x <= n - y
  BY <1>2, <1>3
<1>5. \A y \in S : y \in Int
  OBVIOUS
<1> QED BY <1>4, <1>5

-----------------------------------------------------------------------------
(* The ranges of a mask in which every gap has room for a join.            *)

Filled == mask # {} /\ \A c \in Cells : Narrow(c) => c \in mask

LEMMA FirstFromIs ==
  ASSUME NEW lo \in 0 .. NFull, NEW S
  PROVE  /\ FirstFrom(lo, S) \in lo .. NFull
         /\ FirstFrom(lo, S) = NFull \/ FirstFrom(lo, S) \in S
         /\ \A x \in lo .. FirstFrom(lo, S) - 1 : x \notin S
<1> DEFINE U == {c \in lo .. NFull : c = NFull \/ c \in S}
<1>1. U \in SUBSET Nat /\ NFull \in U
  BY Sizes
<1>2. PICK c \in U : \A y \in U : c <= y
  <2> HIDE DEF U
  <2> QED BY <1>1, Least
<1>3. \A x \in lo .. c - 1 : x \notin S
  BY <1>2, Sizes
<1>4. c \in lo .. NFull /\ (c = NFull \/ c \in S) /\ \A x \in lo .. c - 1 : x \notin S
  BY <1>2, <1>3
<1> HIDE DEF U
<1> QED BY <1>4 DEF FirstFrom

LEMMA RangeFacts ==
  ASSUME mask \subseteq Cells, NEW s \in Starts
  PROVE  /\ s \in Cells /\ s \in mask /\ s \in Nat
         /\ Stop(s) \in s + 1 .. NFull /\ \A x \in s .. Stop(s) - 1 : x \in mask
         /\ Stop(s) = NFull \/ Stop(s) \in Cells \ mask
         /\ Following(s) \in s + 1 .. NFull
         /\ Following(s) = NFull \/ Following(s) \in Starts
         /\ \A t \in Starts : s < t => Following(s) <= t /\ Stop(s) < t
<1>1. s \in Cells /\ s \in mask /\ s + 1 \in 0 .. NFull /\ s \in Nat
  BY Sizes DEF Starts, Cells
<1>2. /\ Stop(s) \in s + 1 .. NFull
      /\ Stop(s) = NFull \/ Stop(s) \in Cells \ mask
      /\ \A x \in s + 1 .. Stop(s) - 1 : x \notin Cells \ mask
  BY <1>1, FirstFromIs DEF Stop
<1>3. ASSUME NEW x \in s .. Stop(s) - 1 PROVE x \in mask
  <2>1. x \in Cells /\ (x = s \/ x \in s + 1 .. Stop(s) - 1)
    BY <1>1, <1>2, Sizes DEF Cells
  <2> QED BY <2>1, <1>1, <1>2
<1>4. /\ Following(s) \in s + 1 .. NFull
      /\ Following(s) = NFull \/ Following(s) \in Starts
      /\ \A x \in s + 1 .. Following(s) - 1 : x \notin Starts
  BY <1>1, FirstFromIs DEF Following
<1>5. ASSUME NEW t \in Starts, s < t PROVE Following(s) <= t /\ Stop(s) < t
  <2>1. t \in Cells /\ t \in Nat /\ t - 1 \notin mask
    BY <1>1, <1>5 DEF Starts, Cells
  <2>2. Following(s) <= t
    BY <1>1, <1>4, <1>5, <2>1
  <2>3. t - 1 \notin s .. Stop(s) - 1
    BY <1>3, <2>1
  <2> QED BY <2>1, <2>2, <2>3, <1>1, <1>2, <1>5
<1> QED BY <1>1, <1>2, <1>3, <1>4, <1>5

LEMMA Covering ==
  ASSUME mask \subseteq Cells, NEW c \in mask
  PROVE  \E s \in Starts : s <= c /\ c < Stop(s)
<1> DEFINE U == {x \in 0 .. c : \A y \in x .. c : y \in mask}
<1>1. c \in Nat /\ c \in Cells
  BY Sizes DEF Cells
<1>2. U \in SUBSET Nat /\ c \in U
  BY <1>1
<1>3. PICK s \in U : \A x \in U : s <= x
  <2> HIDE DEF U
  <2> QED BY <1>2, Least
<1>4. s \in Nat /\ s <= c /\ s \in mask /\ \A y \in s .. c : y \in mask
  BY <1>1
<1>5. ASSUME s # 0 PROVE s - 1 \notin mask
  <2> SUFFICES ASSUME s - 1 \in mask PROVE FALSE
    OBVIOUS
  <2>1. \A y \in s - 1 .. c : y = s - 1 \/ y \in s .. c
    BY <1>1, <1>4
  <2>2. s - 1 \in 0 .. c
    BY <1>1, <1>4, <1>5
  <2>3. s - 1 \in U
    BY <1>4, <2>1, <2>2
  <2> QED BY <1>3, <1>4, <2>3
<1>6. s \in Starts
  BY <1>4, <1>5 DEF Starts
<1>7. Stop(s) \in s + 1 .. NFull /\ (Stop(s) = NFull \/ Stop(s) \in Cells \ mask)
  BY <1>6, RangeFacts
<1>8. ~(Stop(s) <= c)
  BY <1>1, <1>4, <1>7 DEF Cells
<1> QED BY <1>1, <1>4, <1>6, <1>7, <1>8

LEMMA FirstFacts ==
  ASSUME mask \subseteq Cells, mask # {}
  PROVE  First \in Starts /\ First \in Cells /\ \A t \in Starts : First <= t
<1>1. PICK s \in Starts : TRUE
  BY Covering
<1>2. \A t \in Starts : t \in Cells
  BY DEF Starts
<1>3. /\ First \in 0 .. NFull
      /\ First = NFull \/ First \in Starts
      /\ \A x \in 0 .. First - 1 : x \notin Starts
  BY Sizes, FirstFromIs DEF First
<1>4. ASSUME NEW t \in Starts PROVE First <= t /\ t < NFull
  BY <1>2, <1>3, Sizes DEF Cells
<1> QED BY <1>1, <1>2, <1>3, <1>4, Sizes DEF Cells

(* The ranges go round in index order.                                     *)
LEMMA AfterFacts ==
  ASSUME mask \subseteq Cells, mask # {}
  PROVE  /\ \A s \in Starts : After(s) \in Starts /\ Previous(After(s)) = s
         /\ \A s \in Starts : Previous(s) \in Starts /\ After(Previous(s)) = s
<1>1. \A s \in Starts : s \in 0 .. NFull /\ s < NFull
  BY Sizes DEF Starts, Cells
<1>2. ASSUME NEW s \in Starts PROVE After(s) \in Starts
  BY FirstFacts, RangeFacts DEF After
<1>3. ASSUME NEW s \in Starts, NEW t \in Starts, s < t, After(s) = After(t) PROVE FALSE
  <2>1. s \in Nat /\ t \in Nat /\ First \in Nat /\ First <= s /\ First < t
    BY <1>1, <1>3, FirstFacts
  <2>2. s < Following(s) /\ Following(s) <= t /\ Following(s) \in Nat /\ Following(s) # NFull
    <3>1. Following(s) \in s + 1 .. NFull /\ Following(s) <= t /\ t < NFull
      BY <1>1, <1>3, RangeFacts
    <3> QED BY <3>1, <2>1, Sizes
  <2>3. Following(t) # NFull => Following(t) > t /\ Following(t) \in Nat
    <3>1. Following(t) \in t + 1 .. NFull
      BY RangeFacts
    <3> QED BY <3>1, <2>1, Sizes
  <2>4. After(s) = Following(s)
    BY <2>2 DEF After
  <2>5. After(t) = First \/ (After(t) > t /\ After(t) \in Nat)
    BY <2>3 DEF After
  <2> QED BY <1>3, <2>1, <2>2, <2>4, <2>5
<1>4. ASSUME NEW s \in Starts, NEW t \in Starts, After(s) = After(t) PROVE s = t
  <2>1. ~(s < t) /\ ~(t < s)
    BY <1>3, <1>4
  <2> QED BY <2>1, <1>1
<1>5. ASSUME NEW s \in Starts PROVE Previous(After(s)) = s
  <2>1. \E t \in Starts : After(t) = After(s)
    OBVIOUS
  <2>2. Previous(After(s)) \in Starts /\ After(Previous(After(s))) = After(s)
    BY <2>1 DEF Previous
  <2> QED BY <2>2, <1>4
<1>6. ASSUME NEW s \in Starts PROVE \E t \in Starts : After(t) = s
  <2>1. CASE s = First
    <3>1. PICK t \in Starts : \A u \in Starts : u <= t
      BY <1>1, Sizes, Greatest
    <3>2. Following(t) = NFull
      <4>1. Following(t) \in t + 1 .. NFull /\ (Following(t) = NFull \/ Following(t) \in Starts)
        BY RangeFacts
      <4>2. t \in Nat
        BY <1>1
      <4>3. ASSUME Following(t) \in Starts PROVE FALSE
        <5>1. Following(t) <= t
          BY <3>1, <4>3
        <5> QED BY <5>1, <4>1, <4>2
      <4> QED BY <4>1, <4>3
    <3> QED BY <3>2, <2>1 DEF After
  <2>2. CASE s # First
    <3> DEFINE U == {t \in Starts : t < s}
    <3>1. First \in U /\ U \subseteq 0 .. NFull
      <4>1. First <= s /\ First \in Starts
        BY FirstFacts
      <4> QED BY <4>1, <1>1, <2>2
    <3>2. PICK t \in U : \A u \in U : u <= t
      <4> HIDE DEF U
      <4> QED BY <3>1, Sizes, Greatest
    <3>3. /\ Following(t) \in t + 1 .. NFull /\ (Following(t) = NFull \/ Following(t) \in Starts)
          /\ Following(t) <= s
      BY RangeFacts
    <3>4. t \in Nat /\ s \in Nat /\ s < NFull
      BY <1>1
    <3>5. Following(t) \in Starts /\ Following(t) # NFull
      BY <3>3, <3>4, Sizes
    <3>6. ~(Following(t) < s)
      <4> SUFFICES ASSUME Following(t) < s PROVE FALSE
        OBVIOUS
      <4>1. Following(t) \in U
        BY <3>5
      <4>2. Following(t) <= t
        BY <3>2, <4>1
      <4> QED BY <4>2, <3>3, <3>4
    <3>7. Following(t) = s
      BY <3>3, <3>4, <3>6, Sizes
    <3> QED BY <3>5, <3>7 DEF After
  <2> QED BY <2>1, <2>2
<1>7. ASSUME NEW s \in Starts PROVE Previous(s) \in Starts /\ After(Previous(s)) = s
  BY <1>6 DEF Previous
<1> QED BY <1>2, <1>5, <1>7

(* Only a range that touches the next across the period's end joins none.  *)
LEMMA LastRange ==
  ASSUME mask \subseteq Cells, NEW s \in Starts, Stop(s) = NFull
  PROVE  Following(s) = NFull /\ After(s) = First /\ OnLoop(Stop(s)) = 0
<1>1. Following(s) = NFull
  <2>1. /\ Following(s) \in s + 1 .. NFull /\ (Following(s) = NFull \/ Following(s) \in Starts)
        /\ s \in Nat /\ \A t \in Starts : s < t => Stop(s) < t
    BY RangeFacts
  <2> QED BY <2>1, Sizes
<1>2. OnLoop(0 + NFull) = OnLoop(0) /\ OnLoop(0) = 0
  BY LoopFacts, Sizes DEF Cells
<1> QED BY <1>1, <1>2, Sizes DEF After

LEMMA UnjoinedFacts ==
  ASSUME mask \subseteq Cells, mask # {}, NEW s \in Starts, ~Joined(s)
  PROVE  Following(s) = NFull /\ Stop(s) = NFull /\ First = 0
<1>1. /\ s \in Cells /\ s \in Nat /\ Stop(s) \in s + 1 .. NFull
      /\ (Stop(s) = NFull \/ Stop(s) \in Cells \ mask)
  BY RangeFacts
<1>2. CASE mask = Cells
  <2>1. Stop(s) = NFull
    BY <1>1, <1>2
  <2>2. 0 \in Starts
    BY <1>2, Sizes DEF Starts, Cells
  <2>3. First = 0
    <3>1. First <= 0 /\ First \in Nat
      BY <2>2, FirstFacts, RangeFacts
    <3> QED BY <3>1
  <2> QED BY <2>1, <2>3, LastRange
<1>3. CASE mask # Cells
  <2>1. OnLoop(Stop(s)) = After(s)
    BY <1>3 DEF Joined
  <2>2. After(s) \in mask
    BY AfterFacts DEF Starts
  <2>3. ASSUME Stop(s) \in Cells \ mask PROVE FALSE
    <3>1. OnLoop(Stop(s)) = Stop(s)
      BY <2>3, LoopFacts
    <3> QED BY <3>1, <2>1, <2>2, <2>3
  <2>4. Stop(s) = NFull
    BY <1>1, <2>3
  <2> QED BY <2>1, <2>4, LastRange
<1> QED BY <1>2, <1>3

(* The samples behind a cut and before a resume, as far as a join reaches, *)
(* are outside the mask.                                                   *)
LEMMA GapFacts ==
  ASSUME mask \subseteq Cells, Filled, NEW s \in Starts, Joined(s)
  PROVE  /\ \A k \in 0 .. Room - 1 : OnLoop(Stop(s) + k) \notin mask
         /\ \A k \in 1 .. Room : OnLoop(After(s) - k) \notin mask
<1> DEFINE u == After(s)
<1>0. mask # {} /\ u \in Starts /\ Previous(u) = s
  BY AfterFacts DEF Filled
<1>1. /\ s \in Nat /\ Stop(s) \in s + 1 .. NFull /\ \A x \in s .. Stop(s) - 1 : x \in mask
      /\ Stop(s) = NFull \/ Stop(s) \in Cells \ mask
      /\ u \in Nat /\ u \in Cells /\ u \in mask
  <2> HIDE DEF u
  <2> QED BY <1>0, RangeFacts
<1>2. OnLoop(Stop(s)) # u /\ mask # Cells
  BY DEF Joined
<1>3. First \in Starts /\ \A t \in Starts : First <= t
  BY <1>0, FirstFacts
<1>4. 0 \in mask => First = 0
  <2>1. 0 \in mask => 0 \in Starts
    BY DEF Starts
  <2>2. First \in Nat
    BY <1>3, RangeFacts
  <2> QED BY <2>1, <2>2, <1>3
<1>41. Stop(s) = NFull => u = First
  BY LastRange
<1> HIDE DEF u
<1>5. OnLoop(Stop(s)) \notin mask
  <2>1. CASE Stop(s) = NFull
    BY <2>1, <1>2, <1>4, <1>41, LastRange
  <2>2. CASE Stop(s) \in Cells \ mask
    BY <2>2, LoopFacts
  <2> QED BY <1>1, <2>1, <2>2
<1>6. OnLoop(u - 1) \notin mask
  <2>1. CASE u # 0
    <3>1. u - 1 \in Cells /\ u - 1 \notin mask
      <4>1. u - 1 \in Cells
        <5>1. u \in Nat /\ u \in 0 .. NFull - 1 /\ NFull \in Nat
          BY <1>1, Sizes DEF Cells
        <5> QED BY <5>1, <2>1 DEF Cells
      <4>2. u - 1 \notin mask
        BY <1>0, <2>1 DEF Starts
      <4> QED BY <4>1, <4>2
    <3> QED BY <3>1, LoopFacts
  <2>2. CASE u = 0
    <3>1. NFull - 1 \in Cells /\ NFull - 1 = -1 + NFull
      BY Sizes DEF Cells
    <3>2. OnLoop(-1) = NFull - 1
      BY <3>1, LoopFacts
    <3>3. ASSUME NFull - 1 \in mask PROVE FALSE
      <4>1. PICK t \in Starts : t <= NFull - 1 /\ NFull - 1 < Stop(t)
        BY <3>3, Covering
      <4>2. Stop(t) = NFull
        <5>1. Stop(t) \in t + 1 .. NFull /\ t \in Nat
          BY RangeFacts
        <5> QED BY <4>1, <5>1, Sizes
      <4>3. First = 0
        BY <1>1, <1>4, <2>2
      <4>4. After(t) = u /\ OnLoop(Stop(t)) = u
        BY <4>2, <4>3, <2>2, LastRange
      <4>5. t = s
        BY <1>0, <4>4, AfterFacts
      <4> QED BY <1>2, <4>4, <4>5
    <3> QED BY <2>2, <3>2, <3>3
  <2> QED BY <2>1, <2>2
<1>7. ASSUME NEW k \in 0 .. Room - 1, OnLoop(Stop(s) + k) \in mask PROVE FALSE
  <2> DEFINE c == OnLoop(Stop(s))
  <2>1. k # 0
    <3>1. Stop(s) + 0 = Stop(s)
      BY <1>1
    <3> QED BY <3>1, <1>5, <1>7
  <2>2. c \in Cells /\ Stop(s) \in Int /\ Stop(s) - 1 \in mask
    <3>1. Stop(s) \in Int /\ Stop(s) - 1 \in s .. Stop(s) - 1
      BY <1>1
    <3>2. Stop(s) - 1 \in mask
      BY <3>1, <1>1
    <3> QED BY <3>1, <3>2, LoopFacts
  <2>3. OnLoop(c - 1) \in mask
    <3>1. OnLoop(c + (-1)) = OnLoop(Stop(s) + (-1))
      BY <2>2, LoopFacts
    <3>2. OnLoop(Stop(s) - 1) = Stop(s) - 1
      BY <2>2, LoopFacts
    <3>3. c - 1 = c + (-1) /\ Stop(s) - 1 = Stop(s) + (-1)
      BY <2>2, Sizes
    <3> QED BY <3>1, <3>2, <3>3, <2>2
  <2>4. OnLoop(c + k) \in mask
    BY <2>2, <1>7, LoopFacts
  <2>5. 1 \in 1 .. Room /\ k \in 1 .. Room /\ 1 + k <= Room
    BY <2>1, Sizes
  <2>6. Narrow(c)
    <3> HIDE DEF c
    <3> QED BY <2>3, <2>4, <2>5 DEF Narrow
  <2> QED BY <2>2, <2>6, <1>5 DEF Filled
<1>8. ASSUME NEW k \in 1 .. Room, OnLoop(u - k) \in mask PROVE FALSE
  <2> DEFINE c == OnLoop(u - 1)
  <2>1. k # 1
    BY <1>6, <1>8
  <2>2. c \in Cells /\ u - 1 \in Int /\ u \in Int
    <3>1. u - 1 \in Int /\ u \in Int
      BY <1>1
    <3> QED BY <3>1, LoopFacts
  <2>3. OnLoop(c + 1) \in mask
    <3>1. OnLoop(c + 1) = OnLoop((u - 1) + 1)
      BY <2>2, LoopFacts
    <3>2. (u - 1) + 1 = u /\ OnLoop(u) = u
      BY <1>1, <2>2, LoopFacts
    <3> QED BY <3>1, <3>2, <1>1
  <2>4. OnLoop(c - (k - 1)) \in mask
    <3>1. OnLoop(c + (-(k - 1))) = OnLoop((u - 1) + (-(k - 1)))
      BY <2>2, LoopFacts
    <3>2. c - (k - 1) = c + (-(k - 1)) /\ u - k = (u - 1) + (-(k - 1))
      BY <2>2, Sizes DEF Cells
    <3> QED BY <3>1, <3>2, <1>8
  <2>5. 1 \in 1 .. Room /\ k - 1 \in 1 .. Room /\ (k - 1) + 1 <= Room
    BY <2>1, Sizes
  <2>6. Narrow(c)
    <3> HIDE DEF c
    <3> QED BY <2>3, <2>4, <2>5 DEF Narrow
  <2> QED BY <2>2, <2>6, <1>6 DEF Filled
<1> QED BY <1>7, <1>8 DEF u

LEMMA RoomFacts ==
  ASSUME mask \subseteq Cells, Filled, NEW s \in Starts, Joined(s)
  PROVE  /\ Following(s) # NFull => Stop(s) + Room <= Following(s)
         /\ Following(s) = NFull => Stop(s) + Room <= First + NFull
<1>1. /\ s \in Nat /\ Stop(s) \in s + 1 .. NFull
      /\ Following(s) \in s + 1 .. NFull /\ (Following(s) = NFull \/ Following(s) \in Starts)
      /\ \A t \in Starts : s < t => Stop(s) < t
  BY RangeFacts
<1>2. First \in Starts /\ First \in Nat /\ First \in mask /\ First \in Cells
  <2>1. First \in Starts
    BY FirstFacts DEF Filled
  <2> QED BY <2>1, RangeFacts
<1>3. \A k \in 0 .. Room - 1 : OnLoop(Stop(s) + k) \notin mask
  BY GapFacts
<1>4. CASE Following(s) # NFull
  <2>1. Following(s) \in mask /\ Following(s) \in Cells /\ Stop(s) < Following(s)
    BY <1>1, <1>4 DEF Starts
  <2>2. OnLoop(Following(s)) \in mask
    BY <2>1, LoopFacts
  <2> DEFINE k == Following(s) - Stop(s)
  <2>3. k \in Nat /\ Stop(s) + k = Following(s)
    BY <1>1, <2>1
  <2>4. k \notin 0 .. Room - 1
    BY <2>2, <2>3, <1>3
  <2> QED BY <1>1, <1>4, <2>3, <2>4, Sizes
<1>5. CASE Following(s) = NFull
  <2> DEFINE k == First + NFull - Stop(s)
  <2>1. k \in Nat /\ Stop(s) + k = First + NFull
    BY <1>1, <1>2, Sizes
  <2>2. OnLoop(First + NFull) \in mask
    <3>1. First \in Int
      BY <1>2
    <3> QED BY <3>1, <1>2, LoopFacts
  <2>3. k \notin 0 .. Room - 1
    BY <2>1, <2>2, <1>3
  <2> QED BY <1>1, <1>2, <1>5, <2>1, <2>3, Sizes
<1> QED BY <1>4, <1>5

LEMMA SomeJoin ==
  ASSUME mask \subseteq Cells, mask # {}, mask # Cells
  PROVE  Joins # {}
<1> SUFFICES ASSUME Joins = {} PROVE FALSE
  OBVIOUS
<1>1. First \in Starts
  BY FirstFacts
<1>2. Stop(First) = NFull /\ First = 0
  BY <1>1, UnjoinedFacts DEF Joins
<1>3. \A x \in First .. Stop(First) - 1 : x \in mask
  BY <1>1, RangeFacts
<1> QED BY <1>2, <1>3, Zenon DEF Cells

(* How the cuts are moved keeps the segments apart, once round the loop.   *)
MovesType == moves \in [Cells -> [d : 0 .. Crossfade + Unit, e : 0 .. Crossfade]]
MovesFit ==
  /\ MovesType
  /\ \A s \in Starts : ~Joined(s) => moves[s].d = 0 /\ moves[s].e = 0

LEMMA SegEnds ==
  ASSUME mask \subseteq Cells, Filled, MovesFit, NEW s \in Starts
  PROVE  /\ s \in Nat /\ s < Stop(s) /\ Stop(s) <= NFull /\ Stop(s) \in Nat
         /\ moves[s].d \in Nat /\ moves[s].e \in Nat /\ moves[s].d + moves[s].e <= Room
         /\ ~Joined(s) => moves[s].d = 0 /\ moves[s].e = 0
         /\ Following(s) \in Nat
         /\ Following(s) # NFull => Following(s) \in Starts /\ s < Following(s)
         /\ SegStop(s) = Stop(s) + moves[s].d
         /\ After(s) \in Starts /\ SegStart(After(s)) = After(s) - moves[s].e
         /\ Previous(s) \in Starts /\ After(Previous(s)) = s
         /\ SegStart(s) \in Int /\ SegStop(s) \in Int
         /\ SegStart(s) <= s /\ Stop(s) <= SegStop(s)
<1>1. \A t \in Starts : moves[t] \in [d : 0 .. Crossfade + Unit, e : 0 .. Crossfade]
  BY DEF MovesFit, MovesType, Starts
<1>2. \A t \in Starts : moves[t].d \in 0 .. Crossfade + Unit /\ moves[t].e \in 0 .. Crossfade
  BY <1>1
<1>3. mask # {}
  BY DEF Filled
<1>4. /\ s \in Nat /\ Stop(s) \in s + 1 .. NFull /\ Following(s) \in s + 1 .. NFull
      /\ Following(s) = NFull \/ Following(s) \in Starts
  BY RangeFacts
<1>5. /\ After(s) \in Starts /\ Previous(After(s)) = s
      /\ Previous(s) \in Starts /\ After(Previous(s)) = s
  BY <1>3, AfterFacts
<1>6. SegStart(After(s)) = After(s) - moves[s].e
  BY <1>5 DEF SegStart
<1>7. moves[s].d \in Nat /\ moves[s].e \in Nat /\ moves[s].d + moves[s].e <= Room
  <2>1. moves[s].d \in 0 .. Crossfade + Unit /\ moves[s].e \in 0 .. Crossfade
    BY <1>2
  <2> QED BY <2>1, Sizes
<1>8. moves[Previous(s)].e \in Nat
  <2>1. moves[Previous(s)].e \in 0 .. Crossfade
    BY <1>2, <1>5
  <2> QED BY <2>1, Sizes
<1>9. SegStart(s) \in Int /\ SegStart(s) <= s
  BY <1>4, <1>8 DEF SegStart
<1>10. /\ s < Stop(s) /\ Stop(s) <= NFull /\ Stop(s) \in Nat
       /\ Following(s) \in Nat /\ s < Following(s)
  BY <1>4, Sizes
<1>11. SegStop(s) = Stop(s) + moves[s].d /\ SegStop(s) \in Int /\ Stop(s) <= SegStop(s)
  BY <1>7, <1>10 DEF SegStop
<1>12. ~Joined(s) => moves[s].d = 0 /\ moves[s].e = 0
  BY DEF MovesFit
<1> QED BY <1>4, <1>5, <1>6, <1>7, <1>9, <1>10, <1>11, <1>12

LEMMA SegApart ==
  ASSUME mask \subseteq Cells, Filled, MovesFit, NEW s \in Starts
  PROVE  /\ Following(s) # NFull => SegStop(s) <= SegStart(Following(s))
         /\ Following(s) = NFull => SegStop(s) <= SegStart(First) + NFull
<1>1. First \in Nat /\ mask # {} /\ NFull \in Nat
  BY FirstFacts, RangeFacts, Sizes DEF Filled
<1>2. /\ Stop(s) \in Nat /\ moves[s].d \in Nat /\ moves[s].e \in Nat
      /\ moves[s].d + moves[s].e <= Room /\ Room \in Nat /\ Following(s) \in Nat
      /\ ~Joined(s) => moves[s].d = 0 /\ moves[s].e = 0
      /\ SegStop(s) = Stop(s) + moves[s].d /\ SegStart(After(s)) = After(s) - moves[s].e
  BY SegEnds, Sizes
<1>3. CASE Following(s) # NFull
  <2>1. After(s) = Following(s) /\ Joined(s)
    BY <1>1, <1>3, UnjoinedFacts DEF After
  <2>2. Stop(s) + Room <= Following(s)
    BY <1>3, <2>1, RoomFacts
  <2> QED BY <1>2, <1>3, <2>1, <2>2
<1>4. CASE Following(s) = NFull
  <2>1. After(s) = First
    BY <1>4 DEF After
  <2>2. CASE Joined(s)
    <3>1. Stop(s) + Room <= First + NFull
      BY <1>4, <2>2, RoomFacts
    <3> QED BY <1>1, <1>2, <1>4, <2>1, <3>1
  <2>3. CASE ~Joined(s)
    <3>1. Stop(s) = NFull /\ First = 0
      BY <1>1, <2>3, UnjoinedFacts
    <3> QED BY <1>1, <1>2, <1>4, <2>1, <2>3, <3>1
  <2> QED BY <2>2, <2>3
<1> QED BY <1>3, <1>4

LEMMA SegFacts ==
  ASSUME mask \subseteq Cells, Filled, MovesFit, NEW s \in Starts
  PROVE  /\ SegStart(First) \in Int /\ SegStart(First) <= SegStart(s)
         /\ SegStop(s) <= SegStart(First) + NFull
<1>1. mask # {}
  BY DEF Filled
<1>2. First \in Starts /\ \A t \in Starts : First <= t
  BY <1>1, FirstFacts
<1>3. SegStart(First) \in Int /\ First \in Nat /\ SegStart(First) <= First
  BY <1>2, SegEnds
<1>4. SegStart(First) <= SegStart(s)
  <2>1. CASE s = First
    BY <1>3, <2>1
  <2>2. CASE s # First
    <3>1. PICK t \in Starts : t = Previous(s) /\ After(t) = s
      BY SegEnds
    <3>2. Following(t) # NFull /\ Following(t) = s
      BY <3>1, <2>2 DEF After
    <3>3. SegStop(t) <= SegStart(s)
      BY <3>2, SegApart
    <3>4. First <= t /\ t < Stop(t) /\ Stop(t) <= SegStop(t)
      BY <1>2, SegEnds
    <3>5. t \in Nat /\ Stop(t) \in Nat /\ SegStop(t) \in Int /\ SegStart(s) \in Int
      BY SegEnds
    <3> QED BY <1>3, <3>3, <3>4, <3>5
  <2> QED BY <2>1, <2>2
<1>5. SegStop(s) <= SegStart(First) + NFull
  <2>1. CASE Following(s) = NFull
    BY <2>1, SegApart
  <2>2. CASE Following(s) # NFull
    <3>1. PICK t \in Starts : \A w \in Starts : w <= t
      <4>2. NFull \in Nat
        BY Sizes
      <4>1. Starts \subseteq 0 .. NFull
        <5>1. Starts \subseteq 0 .. NFull - 1
          BY DEF Starts, Cells
        <5> QED BY <4>2, <5>1
      <4> QED BY <4>1, <4>2, Greatest
    <3>2. t \in Nat /\ t < Stop(t) /\ Stop(t) <= SegStop(t) /\ Stop(t) \in Nat /\ SegStop(t) \in Int
      BY SegEnds
    <3>3. Following(t) = NFull
      <4> SUFFICES ASSUME Following(t) # NFull PROVE FALSE
        OBVIOUS
      <4>1. Following(t) \in Starts /\ t < Following(t) /\ Following(t) \in Nat
        BY SegEnds
      <4>2. Following(t) <= t
        BY <3>1, <4>1
      <4> QED BY <4>1, <4>2, <3>2
    <3>4. SegStop(t) <= SegStart(First) + NFull
      BY <3>3, SegApart
    <3>5. SegStop(s) <= SegStart(Following(s)) /\ SegStop(s) \in Int /\ Following(s) \in Starts
      BY <2>2, SegApart, SegEnds
    <3>6. /\ SegStart(Following(s)) \in Int /\ SegStart(Following(s)) <= Following(s)
          /\ Following(s) \in Nat /\ Following(s) <= t
      BY <3>1, <3>5, SegEnds
    <3> QED BY <1>3, <3>2, <3>4, <3>5, <3>6, Sizes
  <2> QED BY <2>1, <2>2
<1> QED BY <1>3, <1>4, <1>5

-----------------------------------------------------------------------------
(* The peaks that were taken keep their windows; without a budget a peak   *)
(* is taken or still to be looked at.                                      *)

Peak(c) == peaks[c[1]][c[2]]
Waits(c) == stage = "select" /\ \E k \in 1 .. Len(ranked) : ranked[k] = c
Stages == {"select", "fill", "cut", "pad", "join", "built", "refused"}

PeaksInv ==
  /\ stage \in Stages /\ budget \in Budgets
  /\ peaks \in [Signals -> Seq(Cells)] /\ ranked \in Seq(Candidates(peaks))
  /\ taken \subseteq Cells /\ mask \subseteq Cells
  /\ \A i \in taken : WindowOf(i) \subseteq mask
  /\ budget = NoBudget => \A c \in Candidates(peaks) : Peak(c) \in taken \/ Waits(c)

LEMMA WindowCells ==
  ASSUME NEW i \in Cells
  PROVE  WindowOf(i) \subseteq Cells
<1>1. Window \div 2 \in Int /\ i \in Int
  BY Sizes
<1>2. ASSUME NEW k \in 0 .. Window - 1 PROVE OnLoop(i - Window \div 2 + k) \in Cells
  <2>1. i - Window \div 2 + k \in Int
    BY <1>1
  <2> QED BY <2>1, LoopFacts
<1> QED BY <1>2 DEF WindowOf

LEMMA PeaksInit == ProbeInit => PeaksInv
<1> SUFFICES ASSUME ProbeInit PROVE PeaksInv
  OBVIOUS
<1>1. peaks \in [Signals -> Seq(Cells)]
  <2>1. ASSUME NEW b \in Signals PROVE PeakSeqs(PeakCount[b]) \subseteq Seq(Cells)
    <3>1. PeakCount[b] \in Nat
      BY ProbeAssumption
    <3>2. ASSUME NEW n \in 0 .. PeakCount[b] PROVE [1 .. n -> Cells] \subseteq Seq(Cells)
      BY <3>1
    <3> QED BY <3>2 DEF PeakSeqs
  <2>2. peaks \in [Signals -> UNION {PeakSeqs(PeakCount[b]) : b \in Signals}]
    BY DEF ProbeInit
  <2>3. UNION {PeakSeqs(PeakCount[b]) : b \in Signals} \subseteq Seq(Cells)
    BY <2>1
  <2> QED BY <2>2, <2>3
<1>2. Cardinality(Candidates(peaks)) \in Nat
  <2>1. IsFiniteSet(Signals) /\ IsFiniteSet(1 .. MaxPeaks)
    BY ProbeAssumption, FS_Interval
  <2>2. IsFiniteSet(Signals \X (1 .. MaxPeaks))
    BY <2>1, FS_Product
  <2>3. IsFiniteSet(Candidates(peaks))
    BY <2>2, FS_Subset DEF Candidates
  <2> QED BY <2>3, FS_CardinalityType
<1>3. /\ ranked \in [1 .. Cardinality(Candidates(peaks)) -> Candidates(peaks)]
      /\ \A c \in Candidates(peaks) : \E k \in DOMAIN ranked : ranked[k] = c
  BY DEF ProbeInit, Rankings
<1>4. /\ ranked \in Seq(Candidates(peaks))
      /\ \A c \in Candidates(peaks) : \E k \in 1 .. Len(ranked) : ranked[k] = c
  <2> HIDE DEF Candidates
  <2>1. ranked \in Seq(Candidates(peaks))
    BY <1>2, <1>3
  <2>2. DOMAIN ranked = 1 .. Len(ranked)
    BY <2>1, LenProperties
  <2> QED BY <1>3, <2>1, <2>2
<1>5. stage = "select" /\ budget \in Budgets /\ taken = {} /\ mask = {}
  BY DEF ProbeInit
<1> QED BY <1>1, <1>4, <1>5 DEF PeaksInv, Waits, Stages

LEMMA PeaksNext == PeaksInv /\ [ProbeNext]_probeVars => PeaksInv'
<1> SUFFICES ASSUME PeaksInv, [ProbeNext]_probeVars PROVE PeaksInv'
  OBVIOUS
<1>1. /\ stage \in Stages /\ budget \in Budgets
      /\ peaks \in [Signals -> Seq(Cells)] /\ ranked \in Seq(Candidates(peaks))
      /\ taken \subseteq Cells /\ mask \subseteq Cells
      /\ \A i \in taken : WindowOf(i) \subseteq mask
      /\ budget = NoBudget => \A c \in Candidates(peaks) : Peak(c) \in taken \/ Waits(c)
  BY DEF PeaksInv
<1>2. ASSUME UNCHANGED <<budget, peaks, ranked, taken, mask, stage>> PROVE PeaksInv'
  BY <1>1, <1>2 DEF PeaksInv, Peak, Waits
<1>3. ASSUME UNCHANGED <<budget, peaks, ranked, taken>>,
             mask \subseteq mask', mask' \subseteq Cells, stage' \in Stages, stage # "select"
      PROVE  PeaksInv'
  <2>1. \A c \in Candidates(peaks) : ~Waits(c)
    BY <1>3 DEF Waits
  <2>2. budget = NoBudget => \A c \in Candidates(peaks) : Peak(c) \in taken
    BY <1>1, <2>1
  <2>3. \A i \in taken : WindowOf(i) \subseteq mask'
    BY <1>1, <1>3
  <2> QED BY <1>1, <1>3, <2>2, <2>3 DEF PeaksInv, Peak
<1>4. ASSUME TakePeak PROVE PeaksInv'
  <2>1. stage = "select" /\ ranked # <<>> /\ peaks' = peaks /\ budget' = budget
    BY <1>4 DEF TakePeak
  <2>2. /\ ranked[1] \in Candidates(peaks) /\ Tail(ranked) \in Seq(Candidates(peaks))
        /\ \A k \in 1 .. Len(ranked) :
             k = 1 \/ (k - 1 \in 1 .. Len(Tail(ranked)) /\ Tail(ranked)[k - 1] = ranked[k])
    <3> DEFINE C == Candidates(peaks)
    <3> HIDE DEF C
    <3>1. ranked \in Seq(C) /\ ranked # <<>>
      BY <1>1, <2>1 DEF C
    <3>2. Len(ranked) \in Nat \ {0}
      BY <3>1, EmptySeq, LenProperties
    <3>3. ranked[1] \in C
      BY <3>1, <3>2, ElementOfSeq
    <3>4. /\ Tail(ranked) \in Seq(C) /\ Len(Tail(ranked)) = Len(ranked) - 1
          /\ \A k \in 1 .. Len(Tail(ranked)) : Tail(ranked)[k] = ranked[k + 1]
      BY <3>1, HeadTailProperties
    <3>5. \A k \in 1 .. Len(ranked) :
             k = 1 \/ (k - 1 \in 1 .. Len(Tail(ranked)) /\ Tail(ranked)[k - 1] = ranked[k])
      <4> TAKE k \in 1 .. Len(ranked)
      <4> SUFFICES ASSUME k # 1
                   PROVE  k - 1 \in 1 .. Len(Tail(ranked)) /\ Tail(ranked)[k - 1] = ranked[k]
        OBVIOUS
      <4>1. k - 1 \in 1 .. Len(Tail(ranked)) /\ (k - 1) + 1 = k
        BY <3>2, <3>4
      <4>2. Tail(ranked)[k - 1] = ranked[(k - 1) + 1]
        BY <3>4, <4>1
      <4> QED BY <4>1, <4>2
    <3> QED BY <3>3, <3>4, <3>5 DEF C
  <2>3. NextPeak \in Cells /\ NextPeak = Peak(ranked[1])
    <3> DEFINE c == ranked[1]
    <3>1. c[1] \in Signals /\ c[2] \in 1 .. MaxPeaks /\ c[2] <= Len(peaks[c[1]])
      BY <2>2 DEF Candidates
    <3>2. MaxPeaks \in Nat
      BY ProbeAssumption
    <3> HIDE DEF c
    <3>3. peaks[c[1]] \in Seq(Cells)
      BY <1>1, <3>1
    <3>4. c[2] \in 1 .. Len(peaks[c[1]])
      BY <3>1, <3>2, <3>3, LenProperties
    <3>5. peaks[c[1]][c[2]] \in Cells
      BY <3>3, <3>4, ElementOfSeq
    <3> QED BY <3>5 DEF NextPeak, Peak, c
  <2>4. WindowOf(NextPeak) \subseteq Cells
    BY <2>3, WindowCells
  <2>5. CASE Covered(NextPeak) \/ ~OverBudget(NextPeak)
    <3>1. /\ taken' = taken \cup {NextPeak} /\ ranked' = Tail(ranked) /\ stage' = stage
          /\ mask' = IF Covered(NextPeak) THEN mask ELSE mask \cup WindowOf(NextPeak)
      BY <1>4, <2>5 DEF TakePeak
    <3>2. mask \subseteq mask' /\ mask' \subseteq Cells /\ WindowOf(NextPeak) \subseteq mask'
      BY <1>1, <2>4, <3>1 DEF Covered
    <3>3. \A i \in taken' : WindowOf(i) \subseteq mask'
      BY <1>1, <3>1, <3>2
    <3>4. ASSUME budget = NoBudget, NEW c \in Candidates(peaks)
          PROVE  Peak(c) \in taken' \/ \E k \in 1 .. Len(ranked') : ranked'[k] = c
      <4>1. CASE Peak(c) \in taken
        BY <3>1, <4>1
      <4>2. CASE Waits(c)
        <5>1. PICK k \in 1 .. Len(ranked) : ranked[k] = c
          BY <4>2 DEF Waits
        <5>2. CASE k = 1
          BY <5>1, <5>2, <2>3, <3>1
        <5>3. CASE k # 1
          BY <5>1, <5>3, <2>2, <3>1
        <5> QED BY <5>2, <5>3
      <4> QED BY <1>1, <3>4, <4>1, <4>2
    <3>5. \A c : Peak(c)' = Peak(c)
      BY <2>1 DEF Peak
    <3>6. budget' = NoBudget => \A c \in Candidates(peaks)' : (Peak(c) \in taken \/ Waits(c))'
      BY <2>1, <3>1, <3>4, <3>5 DEF Waits
    <3>7. taken' \subseteq Cells /\ ranked' \in Seq(Candidates(peaks))
      BY <1>1, <2>2, <2>3, <3>1
    <3> QED BY <1>1, <2>1, <3>1, <3>2, <3>3, <3>6, <3>7 DEF PeaksInv
  <2>6. CASE ~(Covered(NextPeak) \/ ~OverBudget(NextPeak))
    <3>1. stage' = "fill" /\ UNCHANGED <<taken, ranked, mask>> /\ budget # NoBudget
      BY <1>4, <2>6 DEF TakePeak, OverBudget
    <3> QED BY <1>1, <2>1, <3>1 DEF PeaksInv, Stages
  <2> QED BY <2>5, <2>6
<1>5. ASSUME AllTaken PROVE PeaksInv'
  <2>1. ranked = <<>> /\ stage' = "fill" /\ UNCHANGED <<budget, peaks, ranked, taken, mask>>
    BY <1>5 DEF AllTaken
  <2>2. Len(ranked) = 0
    BY <2>1
  <2>3. \A c \in Candidates(peaks) : ~Waits(c)
    BY <2>2 DEF Waits
  <2> QED BY <1>1, <2>1, <2>3 DEF PeaksInv, Peak, Stages
<1>6. ASSUME FillGaps PROVE PeaksInv'
  <2>1. CASE mask = {}
    BY <1>3, <1>6, <2>1, <1>1 DEF FillGaps, Stages
  <2>2. CASE mask # {}
    <3>1. mask' = mask \cup {c \in Cells : Narrow(c)}
      BY <1>6, <2>2 DEF FillGaps
    <3>2. mask \subseteq mask' /\ mask' \subseteq Cells
      BY <1>1, <3>1
    <3>3. stage = "fill" /\ stage' = "cut" /\ UNCHANGED <<budget, peaks, ranked, taken>>
      BY <1>6, <2>2 DEF FillGaps
    <3> QED BY <1>3, <3>2, <3>3 DEF Stages
  <2> QED BY <2>1, <2>2
<1>7. ASSUME Cut PROVE PeaksInv'
  <2>1. /\ stage = "cut" /\ stage' \in {"pad", "cut"}
        /\ UNCHANGED <<budget, peaks, ranked, taken, mask>>
    BY <1>7 DEF Cut
  <2> QED BY <1>1, <1>3, <2>1 DEF Stages
<1>8. ASSUME Pad PROVE PeaksInv'
  <2>1. stage = "pad" /\ stage' = "join" /\ UNCHANGED <<budget, peaks, ranked, taken, mask>>
    BY <1>8 DEF Pad
  <2> QED BY <1>1, <1>3, <2>1 DEF Stages
<1>9. ASSUME Join PROVE PeaksInv'
  <2>1. /\ stage = "join" /\ stage' \in {"built", "join"}
        /\ UNCHANGED <<budget, peaks, ranked, taken, mask>>
    BY <1>9 DEF Join
  <2> QED BY <1>1, <1>3, <2>1 DEF Stages
<1>10. ASSUME UNCHANGED probeVars PROVE PeaksInv'
  BY <1>2, <1>10 DEF probeVars
<1> QED BY <1>4, <1>5, <1>6, <1>7, <1>8, <1>9, <1>10 DEF ProbeNext, ProbeDone

-----------------------------------------------------------------------------
(* The stages of the cut: the mask is filled, a range is at hand, and the  *)
(* cuts of the joins are moved within reach.                               *)

Cutting == stage \in {"cut", "pad", "join", "built"}

ShapeInv ==
  /\ Cutting => Filled /\ MovesFit
  /\ stage \in {"cut", "join"} => range \in Starts
  /\ stage \in {"pad", "built"} => range = NFull
  /\ ~Cutting => moves = NoMoves /\ total = 0 /\ range = 0
  /\ stage \notin {"join", "built"} => probe = <<>>
  /\ total \in Nat /\ probe \in Seq(Cells \cup {-1})

(* A gap that is left after the fill has room: its ends are those of the   *)
(* mask before, and none of it was filled.                                 *)
LEMMA FillFills ==
  ASSUME mask \subseteq Cells, mask # {}, FillGaps
  PROVE  Filled'
<1>1. mask' = mask \cup {c \in Cells : Narrow(c)}
  BY DEF FillGaps
<1>2. SUFFICES ASSUME NEW c \in Cells, Narrow(c)', c \notin mask' PROVE FALSE
  BY <1>1 DEF Filled
<1>3. PICK b \in 1 .. Room, f \in 1 .. Room :
        b + f <= Room /\ OnLoop(c - b) \in mask' /\ OnLoop(c + f) \in mask'
  BY <1>2 DEF Narrow, Room
<1>4. c \in Int /\ c \notin mask /\ ~Narrow(c) /\ Room \in Nat
  BY <1>1, <1>2, Sizes
<1> DEFINE Backs == {k \in Nat \ {0} : OnLoop(c - k) \in mask}
           Fronts == {k \in Nat \ {0} : OnLoop(c + k) \in mask}
<1>5. Backs # {} /\ Fronts # {}
  <2>1. PICK m \in mask : TRUE
    OBVIOUS
  <2>2. m \in Cells /\ m \in 0 .. NFull - 1 /\ c \in 0 .. NFull - 1 /\ NFull \in Nat /\ m # c
    BY <1>4, Sizes DEF Cells
  <2>3. OnLoop(m) = m /\ OnLoop(m + NFull) = m /\ OnLoop(m - NFull) = m
    <3>1. OnLoop(m) = m /\ OnLoop(m + NFull) = OnLoop(m) /\ OnLoop((m - NFull) + NFull) = OnLoop(m - NFull)
      BY <2>2, LoopFacts
    <3>2. (m - NFull) + NFull = m
      BY <2>2
    <3> QED BY <3>1, <3>2
  <2>4. CASE m < c
    <3>1. c - m \in Nat \ {0} /\ c - (c - m) = m
      BY <2>2, <2>4
    <3>2. m + NFull - c \in Nat \ {0} /\ c + (m + NFull - c) = m + NFull
      BY <2>2
    <3> QED BY <2>1, <2>3, <3>1, <3>2
  <2>5. CASE c < m
    <3>1. m - c \in Nat \ {0} /\ c + (m - c) = m
      BY <2>2, <2>5
    <3>2. c - m + NFull \in Nat \ {0} /\ c - (c - m + NFull) = m - NFull
      BY <2>2
    <3> QED BY <2>1, <2>3, <3>1, <3>2
  <2> QED BY <2>2, <2>4, <2>5
<1>6. PICK v \in Backs : \A k \in Backs : v <= k
  <2>1. Backs \in SUBSET Nat
    OBVIOUS
  <2> HIDE DEF Backs
  <2> QED BY <1>5, <2>1, Least
<1>7. PICK w \in Fronts : \A k \in Fronts : w <= k
  <2>1. Fronts \in SUBSET Nat
    OBVIOUS
  <2> HIDE DEF Fronts
  <2> QED BY <1>5, <2>1, Least
<1>8. /\ v \in Nat \ {0} /\ OnLoop(c - v) \in mask
      /\ w \in Nat \ {0} /\ OnLoop(c + w) \in mask
      /\ \A k \in Nat \ {0} : OnLoop(c - k) \in mask => v <= k
      /\ \A k \in Nat \ {0} : OnLoop(c + k) \in mask => w <= k
  BY <1>6, <1>7
<1> HIDE DEF Backs, Fronts
<1>9. v + w > Room
  <2> SUFFICES ASSUME v + w <= Room PROVE FALSE
    BY <1>4, <1>8
  <2>1. v \in 1 .. Room /\ w \in 1 .. Room
    BY <1>4, <1>8
  <2> QED BY <2>1, <1>4, <1>8 DEF Narrow
<1>10. ASSUME NEW z \in mask', z \notin mask
       PROVE  z \in Cells /\ \E p, q \in 1 .. Room :
                p + q <= Room /\ OnLoop(z - p) \in mask /\ OnLoop(z + q) \in mask
  BY <1>1, <1>10 DEF Narrow
<1>11. \A p, q \in Int : /\ OnLoop(OnLoop(c + p) + q) = OnLoop(c + (p + q))
                         /\ OnLoop(c - p) = OnLoop(c + (-p))
  <2> TAKE p, q \in Int
  <2>1. c + p \in Int /\ (c + p) + q = c + (p + q) /\ c - p = c + (-p)
    BY <1>4
  <2> QED BY <2>1, LoopFacts
<1>12. v <= b
  <2> SUFFICES ASSUME b < v PROVE FALSE
    BY <1>3, <1>8
  <2>1. b \in Nat \ {0} /\ OnLoop(c - b) \notin mask
    BY <1>8
  <2>2. PICK p \in 1 .. Room, q \in 1 .. Room :
          p + q <= Room /\ OnLoop(OnLoop(c - b) - p) \in mask /\ OnLoop(OnLoop(c - b) + q) \in mask
    BY <1>3, <1>10, <2>1
  <2>3. OnLoop(c - (b + p)) \in mask /\ OnLoop(c + (q - b)) \in mask
    <3>1. /\ b \in Int /\ -b \in Int /\ p \in Int /\ -p \in Int /\ q \in Int /\ b + p \in Int
          /\ (-b) + (-p) = -(b + p) /\ (-b) + q = q - b
      BY <1>4
    <3>2. OnLoop(c - b) \in Cells /\ OnLoop(c - b) - p = OnLoop(c - b) + (-p)
      <4>1. OnLoop(c - b) \in Cells
        BY <1>4, <3>1, LoopFacts
      <4> QED BY <4>1, <3>1, Sizes
    <3> QED BY <2>2, <3>1, <3>2, <1>11
  <2>4. v <= b + p
    <3>1. b + p \in Nat \ {0}
      BY <2>1
    <3> QED BY <1>8, <2>3, <3>1
  <2>5. w <= q - b
    <3>1. CASE q - b \in Nat \ {0}
      BY <1>8, <2>3, <3>1
    <3>2. CASE q = b
      <4>1. c + (q - b) = c /\ OnLoop(c) = c
        BY <1>4, <3>2, LoopFacts
      <4> QED BY <4>1, <2>3, <1>4
    <3>3. CASE q < b
      <4>1. b - q \in Nat \ {0} /\ c + (q - b) = c - (b - q) /\ b - q < v
        BY <1>4, <1>8, <3>3
      <4> QED BY <4>1, <2>3, <1>8
    <3> QED BY <3>1, <3>2, <3>3
  <2> QED BY <1>4, <1>8, <1>9, <2>1, <2>2, <2>4, <2>5
<1>13. w <= f
  <2> SUFFICES ASSUME f < w PROVE FALSE
    BY <1>3, <1>8
  <2>1. f \in Nat \ {0} /\ OnLoop(c + f) \notin mask
    BY <1>8
  <2>2. PICK p \in 1 .. Room, q \in 1 .. Room :
          p + q <= Room /\ OnLoop(OnLoop(c + f) - p) \in mask /\ OnLoop(OnLoop(c + f) + q) \in mask
    BY <1>3, <1>10, <2>1
  <2>3. OnLoop(c - (p - f)) \in mask /\ OnLoop(c + (f + q)) \in mask
    <3>1. /\ f \in Int /\ p \in Int /\ -p \in Int /\ q \in Int /\ p - f \in Int
          /\ f + (-p) = -(p - f)
      BY <1>4
    <3>2. OnLoop(c + f) \in Cells /\ OnLoop(c + f) - p = OnLoop(c + f) + (-p)
      <4>1. OnLoop(c + f) \in Cells
        BY <1>4, <3>1, LoopFacts
      <4> QED BY <4>1, <3>1, Sizes
    <3> QED BY <2>2, <3>1, <3>2, <1>11
  <2>4. w <= f + q
    <3>1. f + q \in Nat \ {0}
      BY <2>1
    <3> QED BY <1>8, <2>3, <3>1
  <2>5. v <= p - f
    <3>1. CASE p - f \in Nat \ {0}
      BY <1>8, <2>3, <3>1
    <3>2. CASE p = f
      <4>1. c - (p - f) = c /\ OnLoop(c) = c
        BY <1>4, <3>2, LoopFacts
      <4> QED BY <4>1, <2>3, <1>4
    <3>3. CASE p < f
      <4>1. f - p \in Nat \ {0} /\ c - (p - f) = c + (f - p) /\ f - p < w
        BY <1>4, <1>8, <3>3
      <4> QED BY <4>1, <2>3, <1>8
    <3> QED BY <3>1, <3>2, <3>3
  <2> QED BY <1>4, <1>8, <1>9, <2>1, <2>2, <2>4, <2>5
<1> QED BY <1>3, <1>4, <1>8, <1>9, <1>12, <1>13

LEMMA FirstFilled ==
  ASSUME mask \subseteq Cells, mask # {}, FillGaps
  PROVE  First' \in Starts' /\ First' \in Nat /\ \A t \in Starts' : ~(t < First')
<1>1. mask' \subseteq Cells /\ mask' # {}
  BY DEF FillGaps
<1>2. mask' \in SUBSET Nat
  BY <1>1, Sizes
<1>3. PICK z : z \in mask'
  BY <1>1
<1>4. PICK x \in mask' : \A y \in mask' : x <= y
  BY <1>2, <1>3, Least
<1>5. x \in Nat /\ x \in 0 .. NFull - 1
  BY <1>1, <1>2 DEF Cells
<1>6. x - 1 \notin mask'
  BY <1>4, <1>5
<1>7. x \in Starts'
  BY <1>6 DEF Starts
<1>8. /\ First' = NFull \/ First' \in Starts'
      /\ First' \in 0 .. NFull
      /\ \A y \in 0 .. First' - 1 : y \notin Starts'
  <2>1. First' = FirstFrom(0, Starts')
    BY DEF First, FirstFrom
  <2> QED BY <2>1, Sizes, FirstFromIs
<1>9. First' # NFull
  BY <1>5, <1>7, <1>8
<1>10. \A t \in Starts' : t \in Nat
  BY <1>2 DEF Starts
<1>11. First' \in Nat
  BY <1>8, Sizes
<1>12. ASSUME NEW t \in Starts', t < First' PROVE FALSE
  <2>1. t \in 0 .. First' - 1
    BY <1>10, <1>11, <1>12
  <2> QED BY <1>8, <2>1
<1> QED BY <1>8, <1>9, <1>11, <1>12

LEMMA MaskStays ==
  ASSUME mask' = mask
  PROVE  /\ Starts' = Starts /\ First' = First /\ Filled' = Filled /\ Joins' = Joins
         /\ \A s : /\ Stop(s)' = Stop(s) /\ Following(s)' = Following(s)
                  /\ After(s)' = After(s) /\ Previous(s)' = Previous(s)
                  /\ Joined(s)' = Joined(s)
<1>1. Starts' = Starts
  BY DEF Starts
<1>2. \A s : Stop(s)' = Stop(s) /\ Following(s)' = Following(s)
  BY <1>1 DEF Stop, Following, FirstFrom
<1>3. First' = First
  BY <1>1 DEF First, FirstFrom
<1>4. \A s : After(s)' = After(s)
  BY <1>2, <1>3 DEF After
<1>5. \A s : Joined(s)' = Joined(s)
  BY <1>2, <1>4 DEF Joined, OnLoop
<1>6. \A s : Previous(s)' = Previous(s)
  BY <1>1, <1>4 DEF Previous
<1>7. Filled' = Filled
  BY DEF Filled, Narrow, OnLoop, Cells
<1>8. Joins' = Joins
  BY <1>1, <1>5 DEF Joins
<1> QED BY <1>1, <1>2, <1>3, <1>4, <1>5, <1>6, <1>7, <1>8

LEMMA RangeAtHand ==
  ASSUME PeaksInv, ShapeInv, stage \in {"cut", "join"}
  PROVE  /\ mask \subseteq Cells /\ Filled /\ MovesFit /\ range \in Starts
         /\ range \in Cells /\ range \in Nat /\ mask # {}
BY RangeFacts DEF PeaksInv, ShapeInv, Cutting, Filled

(* The last join, and what its cut and resume are moved by.                *)
LEMMA PadMoves ==
  ASSUME PeaksInv, ShapeInv, Pad
  PROVE  \/ /\ moves' = moves /\ (Joins # {} => total % Unit = 0)
         \/ \E last \in Joins, d \in 0 .. Crossfade + Unit, e \in 0 .. Crossfade :
              /\ d + e = moves[last].d + moves[last].e + ((-total) % Unit)
              /\ moves' = [moves EXCEPT ![last] = [d |-> d, e |-> e]]
<1> DEFINE pad == (-total) % Unit
           last == CHOOSE s \in Joins : \A t \in Joins : t <= s
<1>1. IF pad = 0 \/ Joins = {} THEN UNCHANGED moves
      ELSE \E d \in 0 .. Crossfade + Unit, e \in 0 .. Crossfade :
             /\ d + e = moves[last].d + moves[last].e + pad
             /\ moves' = [moves EXCEPT ![last] = [d |-> d, e |-> e]]
  BY DEF Pad
<1>2. ASSUME Joins # {} PROVE last \in Joins
  <2>1. PICK z \in Joins : TRUE
    BY <1>2
  <2>2. Joins \subseteq 0 .. NFull /\ NFull \in Nat
    <3>1. Joins \subseteq Cells /\ NFull \in Nat
      BY Sizes DEF PeaksInv, Joins, Starts
    <3> QED BY <3>1 DEF Cells
  <2>3. \E s \in Joins : \A t \in Joins : t <= s
    BY <2>1, <2>2, Greatest
  <2> QED BY <2>3
<1>3. ASSUME pad = 0 PROVE total % Unit = 0
  <2>1. total \in Int /\ Unit \in Nat \ {0}
    BY Sizes DEF ShapeInv
  <2>2. (total + pad) % Unit = 0
    BY <2>1, PadFills
  <2>3. total + pad = total
    BY <1>3, <2>1
  <2> QED BY <2>2, <2>3
<1> HIDE DEF last
<1> QED BY <1>1, <1>2, <1>3

LEMMA ShapeInit == ProbeInit => ShapeInv
<1> SUFFICES ASSUME ProbeInit PROVE ShapeInv
  OBVIOUS
<1>1. stage = "select" /\ range = 0 /\ moves = NoMoves /\ total = 0 /\ probe = <<>>
  BY DEF ProbeInit
<1> QED BY <1>1 DEF ShapeInv, Cutting

LEMMA ShapeNext == PeaksInv /\ ShapeInv /\ [ProbeNext]_probeVars => ShapeInv'
<1> SUFFICES ASSUME PeaksInv, ShapeInv, [ProbeNext]_probeVars PROVE ShapeInv'
  OBVIOUS
<1>0. /\ total \in Nat /\ probe \in Seq(Cells \cup {-1})
      /\ stage \notin {"join", "built"} => probe = <<>>
      /\ ~Cutting => moves = NoMoves /\ total = 0 /\ range = 0
      /\ Cutting => Filled /\ MovesFit
      /\ mask \subseteq Cells
  BY DEF ShapeInv, PeaksInv
<1>1. ASSUME UNCHANGED <<moves, total, range, probe>>, ~Cutting, ~Cutting'
      PROVE  ShapeInv'
  BY <1>0, <1>1 DEF ShapeInv, Cutting
<1>2. ASSUME TakePeak \/ AllTaken PROVE ShapeInv'
  <2>1. /\ stage = "select" /\ stage' \in {"select", "fill"}
        /\ UNCHANGED <<moves, total, range, probe>>
    BY <1>2 DEF TakePeak, AllTaken
  <2> QED BY <1>1, <2>1 DEF Cutting
<1>3. ASSUME FillGaps PROVE ShapeInv'
  <2>1. stage = "fill" /\ UNCHANGED <<moves, total, probe>>
    BY <1>3 DEF FillGaps
  <2>2. CASE mask = {}
    <3>1. stage' = "refused" /\ range' = range
      BY <1>3, <2>2 DEF FillGaps
    <3> QED BY <1>1, <2>1, <3>1 DEF Cutting
  <2>3. CASE mask # {}
    <3>1. stage' = "cut" /\ range' = First'
      BY <1>3, <2>3 DEF FillGaps
    <3>2. Filled'
      BY <1>0, <1>3, <2>3, FillFills
    <3>3. mask' \subseteq Cells /\ mask' # {}
      BY <1>0, <1>3, <2>3 DEF FillGaps
    <3>4. MovesFit'
      <4>1. moves' = NoMoves
        BY <1>0, <2>1 DEF Cutting
      <4>2. NoMoves \in [Cells -> [d : 0 .. Crossfade + Unit, e : 0 .. Crossfade]]
        BY Sizes DEF NoMoves
      <4>3. \A s \in Cells : NoMoves[s].d = 0 /\ NoMoves[s].e = 0
        BY DEF NoMoves
      <4>4. Starts' \subseteq Cells
        BY <3>3 DEF Starts
      <4> QED BY <4>1, <4>2, <4>3, <4>4 DEF MovesFit, MovesType
    <3>5. range' \in Starts'
      BY <1>0, <1>3, <2>3, <3>1, FirstFilled
    <3> QED BY <1>0, <2>1, <3>1, <3>2, <3>4, <3>5 DEF ShapeInv, Cutting
  <2> QED BY <2>2, <2>3
<1>4. ASSUME Cut PROVE ShapeInv'
  <2>1. /\ stage = "cut" /\ mask' = mask /\ probe' = probe
        /\ range' = Following(range)
        /\ stage' = IF Following(range) = NFull THEN "pad" ELSE "cut"
    BY <1>4 DEF Cut
  <2>2. /\ Filled /\ MovesFit /\ range \in Starts /\ range \in Cells /\ range \in Nat
        /\ mask # {}
    BY <2>1, RangeAtHand
  <2>3. PICK d \in 0 .. Crossfade, e \in 0 .. Crossfade :
          /\ ~Joined(range) => d = 0 /\ e = 0
          /\ moves' = [moves EXCEPT ![range] = [d |-> d, e |-> e]]
          /\ total' = total + Piece(range, [d |-> d, e |-> e])
    BY <1>4 DEF Cut
  <2>4. MovesFit'
    <3>1. [d |-> d, e |-> e] \in [d : 0 .. Crossfade + Unit, e : 0 .. Crossfade]
      BY Sizes
    <3>2. MovesType'
      BY <2>2, <2>3, <3>1 DEF MovesFit, MovesType
    <3>3. ASSUME NEW s \in Starts, ~Joined(s) PROVE moves'[s].d = 0 /\ moves'[s].e = 0
      <4>1. s \in Cells
        BY <1>0 DEF Starts
      <4>2. CASE s = range
        BY <2>2, <2>3, <3>3, <4>2 DEF MovesFit, MovesType
      <4>3. CASE s # range
        BY <2>2, <2>3, <3>3, <4>1, <4>3 DEF MovesFit, MovesType
      <4> QED BY <4>2, <4>3
    <3> QED BY <2>1, <3>2, <3>3, MaskStays DEF MovesFit
  <2>5. total' \in Nat
    <3>1. range < Stop(range) /\ Stop(range) \in Nat
      BY <1>0, <2>2, SegEnds
    <3>2. d \in Nat /\ e \in Nat /\ Crossfade \in Nat
      BY Sizes
    <3>3. Piece(range, [d |-> d, e |-> e]) =
            Stop(range) - range + d + e + (IF Joined(range) THEN Crossfade ELSE 0)
      BY DEF Piece
    <3>4. Piece(range, [d |-> d, e |-> e]) \in Nat
      <4>1. CASE Joined(range)
        BY <2>2, <3>1, <3>2, <3>3, <4>1
      <4>2. CASE ~Joined(range)
        BY <2>2, <3>1, <3>2, <3>3, <4>2
      <4> QED BY <4>1, <4>2
    <3> QED BY <1>0, <2>3, <3>4
  <2>6. range' = NFull \/ range' \in Starts'
    BY <1>0, <2>1, <2>2, RangeFacts, MaskStays
  <2>7. Filled'
    BY <2>1, <2>2, MaskStays
  <2>8. stage' \in {"pad", "cut"} /\ probe' = <<>>
    BY <1>0, <2>1
  <2> QED BY <1>0, <2>1, <2>4, <2>5, <2>6, <2>7, <2>8 DEF ShapeInv, Cutting
<1>5. ASSUME Pad PROVE ShapeInv'
  <2>1. /\ stage = "pad" /\ stage' = "join" /\ range' = First
        /\ mask' = mask /\ probe' = probe /\ total' = total
    BY <1>5 DEF Pad
  <2>2. Filled /\ MovesFit /\ mask # {}
    BY <1>0, <2>1 DEF Cutting, Filled
  <2>3. MovesFit'
    <3>1. CASE moves' = moves
      BY <2>1, <2>2, <3>1, MaskStays DEF MovesFit, MovesType
    <3>2. CASE \E last \in Joins, d \in 0 .. Crossfade + Unit, e \in 0 .. Crossfade :
                 moves' = [moves EXCEPT ![last] = [d |-> d, e |-> e]]
      <4>1. PICK last \in Joins, d \in 0 .. Crossfade + Unit, e \in 0 .. Crossfade :
              moves' = [moves EXCEPT ![last] = [d |-> d, e |-> e]]
        BY <3>2
      <4>2. [d |-> d, e |-> e] \in [d : 0 .. Crossfade + Unit, e : 0 .. Crossfade]
        OBVIOUS
      <4>3. MovesType'
        BY <2>2, <4>1, <4>2 DEF MovesFit, MovesType
      <4>4. ASSUME NEW s \in Starts, ~Joined(s) PROVE moves'[s].d = 0 /\ moves'[s].e = 0
        <5>1. s \in Cells /\ s # last
          BY <1>0, <4>4 DEF Starts, Joins
        <5> QED BY <2>2, <4>1, <4>4, <5>1 DEF MovesFit, MovesType
      <4> QED BY <2>1, <4>3, <4>4, MaskStays DEF MovesFit
    <3> QED BY <1>5, <3>1, <3>2, PadMoves
  <2>4. range' \in Starts'
    BY <1>0, <2>1, <2>2, FirstFacts, MaskStays
  <2>5. Filled'
    BY <2>1, <2>2, MaskStays
  <2> QED BY <1>0, <2>1, <2>3, <2>4, <2>5 DEF ShapeInv, Cutting
<1>6. ASSUME Join PROVE ShapeInv'
  <2>1. /\ stage = "join" /\ UNCHANGED <<mask, moves, total>>
        /\ range' = Following(range)
        /\ stage' = IF Following(range) = NFull THEN "built" ELSE "join"
        /\ probe' = probe \o Segment(range) \o Fade(range)
    BY <1>6 DEF Join
  <2>2. Filled /\ MovesFit /\ range \in Starts
    BY <2>1, RangeAtHand
  <2>3. Segment(range) \in Seq(Cells \cup {-1}) /\ Fade(range) \in Seq(Cells \cup {-1})
    <3>1. SegStart(range) \in Int /\ SegStop(range) \in Int
      BY <1>0, <2>2, SegEnds
    <3>2. SegStop(range) - SegStart(range) \in Nat
      <4>1. /\ SegStart(range) <= range /\ range < Stop(range) /\ Stop(range) <= SegStop(range)
            /\ range \in Int /\ Stop(range) \in Int
        BY <1>0, <2>2, SegEnds
      <4> QED BY <3>1, <4>1
    <3>3. \A i \in 1 .. SegStop(range) - SegStart(range) : OnLoop(SegStart(range) + i - 1) \in Cells
      BY <3>1, LoopFacts
    <3>4. (IF Joined(range) THEN Crossfade ELSE 0) \in Nat
      BY Sizes
    <3> QED BY <3>2, <3>3, <3>4 DEF Segment, Fade
  <2>4. probe' \in Seq(Cells \cup {-1})
    BY <1>0, <2>1, <2>3, ConcatProperties
  <2>5. range' = NFull \/ range' \in Starts'
    BY <1>0, <2>1, <2>2, RangeFacts, MaskStays
  <2>6. Filled' /\ MovesFit'
    BY <2>1, <2>2, MaskStays DEF MovesFit, MovesType
  <2>7. stage' \in {"built", "join"}
    BY <2>1
  <2> QED BY <1>0, <2>1, <2>4, <2>5, <2>6, <2>7 DEF ShapeInv, Cutting
<1>7. ASSUME UNCHANGED probeVars PROVE ShapeInv'
  <2>1. mask' = mask /\ UNCHANGED <<stage, range, moves, total, probe>>
    BY <1>7 DEF probeVars
  <2>2. MovesFit' = MovesFit
    BY <2>1, MaskStays DEF MovesFit, MovesType
  <2> QED BY <2>1, <2>2, MaskStays DEF ShapeInv, Cutting
<1> QED BY <1>2, <1>3, <1>4, <1>5, <1>6, <1>7 DEF ProbeNext, ProbeDone

-----------------------------------------------------------------------------
(* The length: the running sum at the start of every range.  When the cuts *)
(* are made it is the total; when the segments are joined a segment begins *)
(* with what the range before gave its resume.                             *)

Sums(T, n) ==
  /\ T \in [0 .. NFull -> Int] /\ T[First] = 0
  /\ \A s \in Starts : s < n => T[Following(s)] = T[s] + Piece(s, moves[s])
Wrapped(r) == IF r = NFull THEN First ELSE r
Resumed(r) == moves[Previous(Wrapped(r))].e

LengthInv ==
  /\ stage \in {"cut", "pad"} =>
       \E T \in [0 .. NFull -> Int] : Sums(T, range) /\ T[range] = total
  /\ stage \in {"join", "built"} =>
       \E T \in [0 .. NFull -> Int] :
         /\ Sums(T, NFull) /\ (Joins # {} => T[NFull] % Unit = 0)
         /\ Len(probe) = T[range] + Resumed(First) - Resumed(range)

LEMMA PieceIs ==
  ASSUME mask \subseteq Cells, Filled, MovesFit, NEW s \in Starts, NEW d \in Int, NEW e \in Int
  PROVE  /\ Piece(s, [d |-> d, e |-> e]) \in Int
         /\ Piece(s, [d |-> d, e |-> e]) =
              Stop(s) - s + d + e + (IF Joined(s) THEN Crossfade ELSE 0)
         /\ Piece(s, moves[s]) = Piece(s, [d |-> moves[s].d, e |-> moves[s].e])
<1>1. Stop(s) \in Int /\ s \in Int
  BY SegEnds
<1>2. (IF Joined(s) THEN Crossfade ELSE 0) \in Int
  BY Sizes
<1>3. Piece(s, [d |-> d, e |-> e]) = Stop(s) - s + d + e + (IF Joined(s) THEN Crossfade ELSE 0)
  BY DEF Piece
<1>4. Piece(s, [d |-> d, e |-> e]) \in Int
  BY <1>1, <1>2, <1>3
<1>5. Piece(s, moves[s]) = Piece(s, [d |-> moves[s].d, e |-> moves[s].e])
  BY DEF Piece
<1> QED BY <1>3, <1>4, <1>5

(* What a step of Join appends.                                            *)
LEMMA JoinAppends ==
  ASSUME PeaksInv, ShapeInv, Join
  PROVE  \E m \in Nat \ {0}, k \in Nat :
           /\ m = SegStop(range) - SegStart(range)
           /\ k = IF Joined(range) THEN Crossfade ELSE 0
           /\ Len(probe) \in Nat /\ Len(probe') = Len(probe) + m + k
           /\ \A i \in 1 .. Len(probe) : probe'[i] = probe[i]
           /\ \A i \in 1 .. m : probe'[Len(probe) + i] = OnLoop(SegStart(range) + i - 1)
           /\ \A i \in 1 .. k : probe'[Len(probe) + m + i] = -1
<1>1. /\ stage = "join" /\ probe' = probe \o Segment(range) \o Fade(range)
  BY DEF Join
<1>2. /\ mask \subseteq Cells /\ Filled /\ MovesFit /\ range \in Starts
  BY <1>1, RangeAtHand
<1>3. /\ SegStart(range) \in Int /\ SegStop(range) \in Int
      /\ SegStart(range) <= range /\ range < Stop(range) /\ Stop(range) <= SegStop(range)
      /\ range \in Int /\ Stop(range) \in Int
  BY <1>2, SegEnds
<1>4. PICK m \in Nat \ {0} : m = SegStop(range) - SegStart(range)
  BY <1>3
<1>5. PICK k \in Nat : k = IF Joined(range) THEN Crossfade ELSE 0
  BY Sizes
<1>6. Segment(range) = [i \in 1 .. m |-> OnLoop(SegStart(range) + i - 1)]
  BY <1>4 DEF Segment
<1>7. Fade(range) = [i \in 1 .. k |-> -1]
  BY <1>5 DEF Fade
<1> DEFINE P == Cells \cup {-1}
<1>8. \A i \in 1 .. m : OnLoop(SegStart(range) + i - 1) \in P
  BY <1>3, LoopFacts
<1>9. Segment(range) \in Seq(P) /\ Len(Segment(range)) = m
  BY <1>6, <1>8
<1>10. Fade(range) \in Seq(P) /\ Len(Fade(range)) = k
  BY <1>7
<1>11. probe \in Seq(P) /\ Len(probe) \in Nat
  BY LenProperties DEF ShapeInv
<1> DEFINE q == probe \o Segment(range)
<1> HIDE DEF P
<1>12. /\ q \in Seq(P) /\ Len(q) = Len(probe) + m
       /\ \A i \in 1 .. Len(probe) + m :
            q[i] = IF i <= Len(probe) THEN probe[i] ELSE Segment(range)[i - Len(probe)]
  BY <1>9, <1>11, ConcatProperties
<1> HIDE DEF q
<1>13. /\ Len(probe') = Len(probe) + m + k
       /\ \A i \in 1 .. Len(probe) + m + k :
            probe'[i] = IF i <= Len(probe) + m THEN q[i] ELSE Fade(range)[i - (Len(probe) + m)]
  <2>1. probe' = q \o Fade(range)
    BY <1>1 DEF q
  <2>2. Len(q) = Len(probe) + m
    BY <1>12
  <2> DEFINE Q == q \o Fade(range)
  <2>3. /\ Len(Q) = Len(q) + Len(Fade(range))
        /\ \A i \in 1 .. Len(q) + Len(Fade(range)) :
             Q[i] = IF i <= Len(q) THEN q[i] ELSE Fade(range)[i - Len(q)]
    BY <1>10, <1>12, ConcatProperties
  <2> QED BY <2>1, <2>2, <2>3, <1>10
<1>14. ASSUME NEW i \in 1 .. Len(probe) PROVE probe'[i] = probe[i]
  BY <1>4, <1>5, <1>11, <1>12, <1>13
<1>15. ASSUME NEW i \in 1 .. m PROVE probe'[Len(probe) + i] = OnLoop(SegStart(range) + i - 1)
  <2> DEFINE z == Len(probe) + i
  <2>1. z \in 1 .. Len(probe) + m /\ z \in 1 .. Len(probe) + m + k /\ z - Len(probe) = i
        /\ ~(z <= Len(probe)) /\ z <= Len(probe) + m
    BY <1>4, <1>5, <1>11
  <2> HIDE DEF z
  <2>2. probe'[z] = Segment(range)[i]
    BY <2>1, <1>12, <1>13
  <2> QED BY <2>2, <1>6 DEF z
<1>16. ASSUME NEW i \in 1 .. k PROVE probe'[Len(probe) + m + i] = -1
  <2> DEFINE z == Len(probe) + m + i
  <2>1. z \in 1 .. Len(probe) + m + k /\ z - (Len(probe) + m) = i /\ ~(z <= Len(probe) + m)
    BY <1>4, <1>5, <1>11
  <2> HIDE DEF z
  <2>2. probe'[z] = Fade(range)[i]
    BY <2>1, <1>13
  <2> QED BY <2>2, <1>7 DEF z
<1> QED BY <1>4, <1>5, <1>11, <1>13, <1>14, <1>15, <1>16

LEMMA LengthNext ==
  PeaksInv /\ ShapeInv /\ ShapeInv' /\ LengthInv /\ [ProbeNext]_probeVars => LengthInv'
<1> SUFFICES ASSUME PeaksInv, ShapeInv, ShapeInv', LengthInv, [ProbeNext]_probeVars PROVE LengthInv'
  OBVIOUS
<1>0. mask \subseteq Cells /\ (Cutting => Filled /\ MovesFit /\ mask # {})
  BY DEF PeaksInv, ShapeInv, Filled
<1>1. ASSUME stage' \notin {"cut", "pad", "join", "built"} PROVE LengthInv'
  BY <1>1 DEF LengthInv
<1>2. ASSUME TakePeak \/ AllTaken PROVE LengthInv'
  <2>1. stage' \in {"select", "fill"}
    BY <1>2 DEF TakePeak, AllTaken
  <2> QED BY <1>1, <2>1
<1>3. ASSUME FillGaps PROVE LengthInv'
  <2>1. CASE mask = {}
    BY <1>1, <1>3, <2>1 DEF FillGaps
  <2>2. CASE mask # {}
    <3>1. stage = "fill" /\ stage' = "cut" /\ range' = First' /\ total' = total
      BY <1>3, <2>2 DEF FillGaps
    <3>2. total' = 0
      BY <3>1 DEF ShapeInv, Cutting
    <3>3. First' \in Starts' /\ First' \in Nat /\ \A t \in Starts' : ~(t < First')
      BY <1>0, <1>3, <2>2, FirstFilled
    <3>4. First' \in 0 .. NFull
      <4>1. First' = FirstFrom(0, Starts')
        BY DEF First, FirstFrom
      <4> QED BY <4>1, Sizes, FirstFromIs
    <3> DEFINE T == [i \in 0 .. NFull |-> 0]
    <3>5. T \in [0 .. NFull -> Int] /\ T[First'] = 0
      BY <3>4
    <3> HIDE DEF T
    <3>6. Sums(T, range)'
      BY <3>1, <3>3, <3>5 DEF Sums
    <3> QED BY <3>1, <3>2, <3>5, <3>6 DEF LengthInv
  <2> QED BY <2>1, <2>2
<1>4. ASSUME Cut PROVE LengthInv'
  <2>1. /\ stage = "cut" /\ mask' = mask /\ range' = Following(range)
        /\ stage' \in {"cut", "pad"}
    BY <1>4 DEF Cut
  <2>2. /\ Filled /\ MovesFit /\ range \in Starts /\ range \in Cells /\ range \in Nat
        /\ mask # {}
    BY <2>1, RangeAtHand
  <2>3. PICK d \in 0 .. Crossfade, e \in 0 .. Crossfade :
          /\ moves' = [moves EXCEPT ![range] = [d |-> d, e |-> e]]
          /\ total' = total + Piece(range, [d |-> d, e |-> e])
    BY <1>4 DEF Cut
  <2>4. PICK T \in [0 .. NFull -> Int] : Sums(T, range) /\ T[range] = total
    BY <2>1 DEF LengthInv
  <2> DEFINE n == Following(range)
             p == Piece(range, [d |-> d, e |-> e])
  <2>5. n \in 0 .. NFull /\ n > range
    <3>1. n \in range + 1 .. NFull
      BY <1>0, <2>2, RangeFacts
    <3> QED BY <3>1, <2>2
  <2>6. p \in Int /\ total \in Int
    <3>1. d \in Int /\ e \in Int
      BY Sizes
    <3>2. p \in Int
      BY <1>0, <2>2, <3>1, PieceIs
    <3> QED BY <3>2 DEF ShapeInv
  <2>7. moves'[range] = [d |-> d, e |-> e] /\ \A s \in Starts : s # range => moves'[s] = moves[s]
    <3>1. DOMAIN moves = Cells /\ Starts \subseteq Cells
      BY <1>0, <2>2 DEF MovesFit, MovesType, Starts
    <3> QED BY <2>2, <2>3, <3>1
  <2> HIDE DEF n, p
  <2>8. PICK U \in [0 .. NFull -> Int] :
          U[n] = total + p /\ \A i \in 0 .. NFull : i # n => U[i] = T[i]
    <3> DEFINE V == [T EXCEPT ![n] = total + p]
    <3>1. V \in [0 .. NFull -> Int] /\ V[n] = total + p /\ \A i \in 0 .. NFull : i # n => V[i] = T[i]
      BY <2>5, <2>6
    <3> QED BY <3>1
  <2>9. U[First] = 0
    <3>1. First <= range /\ First \in 0 .. NFull
      BY <1>0, <2>2, FirstFacts, Sizes DEF Cells
    <3>2. First # n
      BY <3>1, <2>2, <2>5
    <3> QED BY <2>4, <2>8, <3>1, <3>2 DEF Sums
  <2>10. ASSUME NEW s \in Starts, s < n
         PROVE  U[Following(s)] = U[s] + Piece(s, moves'[s])
    <3>1. s \in Nat /\ s \in 0 .. NFull /\ s # n
      <4>1. s \in Cells /\ s \in Nat
        BY <1>0, RangeFacts
      <4> QED BY <4>1, <2>5, <2>10, Sizes DEF Cells
    <3>2. CASE s = range
      <4>1. Piece(s, moves'[s]) = p
        BY <2>7, <3>2 DEF p
      <4>2. U[s] = total
        BY <2>4, <2>8, <3>1, <3>2
      <4>3. U[Following(s)] = total + p
        BY <2>8, <3>2 DEF n
      <4> QED BY <4>1, <4>2, <4>3
    <3>3. CASE s # range
      <4>1. s < range
        <5>1. ~(range < s)
          <6> SUFFICES ASSUME range < s PROVE FALSE
            OBVIOUS
          <6>1. n <= s
            BY <1>0, <2>2, RangeFacts DEF n
          <6> QED BY <6>1, <2>5, <2>10, <3>1
        <5> QED BY <5>1, <3>1, <3>3, <2>2
      <4>2. Following(s) <= range /\ Following(s) \in 0 .. NFull
        <5>1. Following(s) <= range /\ Following(s) \in s + 1 .. NFull
          BY <1>0, <2>2, <4>1, RangeFacts
        <5> QED BY <5>1, <3>1
      <4>3. Following(s) # n
        BY <4>2, <2>2, <2>5
      <4>4. T[Following(s)] = T[s] + Piece(s, moves[s])
        BY <2>4, <4>1 DEF Sums
      <4> QED BY <2>7, <2>8, <3>1, <3>3, <4>2, <4>3, <4>4
    <3> QED BY <3>2, <3>3
  <2>12. Sums(U, range)'
    <3>1. Starts' = Starts /\ First' = First /\ \A s : Following(s)' = Following(s)
      BY <2>1, MaskStays
    <3>2. \A s \in Starts : s < n => U[Following(s)] = U[s] + Piece(s, moves'[s])
      BY <2>10
    <3>3. range' = n
      BY <2>1 DEF n
    <3>4. \A s \in Starts : Piece(s, moves[s])' = Piece(s, moves'[s])
      BY <2>1, MaskStays DEF Piece
    <3> QED BY <2>8, <2>9, <3>1, <3>2, <3>3, <3>4 DEF Sums
  <2>13. U[range'] = total'
    BY <2>1, <2>3, <2>8 DEF n, p
  <2> QED BY <2>1, <2>8, <2>12, <2>13 DEF LengthInv
<1>5. ASSUME Pad PROVE LengthInv'
  <2>1. /\ stage = "pad" /\ mask' = mask /\ range' = First
        /\ stage' = "join" /\ probe' = probe
    BY <1>5 DEF Pad
  <2>2. /\ Filled /\ MovesFit /\ mask # {} /\ range = NFull /\ probe = <<>>
    BY <1>0, <2>1 DEF ShapeInv, Cutting
  <2>3. PICK T \in [0 .. NFull -> Int] : Sums(T, NFull) /\ T[NFull] = total
    BY <2>1, <2>2 DEF LengthInv
  <2>4. /\ Starts' = Starts /\ First' = First /\ Joins' = Joins
        /\ \A s : Following(s)' = Following(s) /\ Previous(s)' = Previous(s)
        /\ \A s \in Starts : Piece(s, moves[s])' = Piece(s, moves'[s])
    BY <2>1, MaskStays DEF Piece
  <2>5. \A s \in Starts : s \in 0 .. NFull /\ s < NFull /\ s \in Nat
    <3> TAKE s \in Starts
    <3>1. s \in Cells
      BY <1>0 DEF Starts
    <3> QED BY <3>1, Sizes DEF Cells
  <2>6. First \in Starts /\ \A s \in Starts : First <= s
    BY <1>0, <2>2, FirstFacts
  <2>7. ASSUME NEW U \in [0 .. NFull -> Int], U[First] = 0,
               \A s \in Starts : U[Following(s)] = U[s] + Piece(s, moves'[s]),
               Joins # {} => U[NFull] % Unit = 0
        PROVE  LengthInv'
    <3>1. Sums(U, NFull)'
      BY <2>4, <2>7 DEF Sums
    <3>2. U[range'] = 0 /\ Len(probe') = 0
      BY <2>1, <2>2, <2>7
    <3>3. Resumed(First)' = Resumed(range)' /\ Resumed(First)' \in Int
      <4>1. First # NFull
        BY <2>5, <2>6
      <4>2. Resumed(First)' = moves'[Previous(First)].e /\ Resumed(range)' = moves'[Previous(First)].e
        BY <2>1, <2>4, <4>1 DEF Resumed, Wrapped
      <4>3. Previous(First) \in Cells
        <5>1. Previous(First) \in Starts
          BY <1>0, <2>2, <2>6, AfterFacts
        <5> QED BY <1>0, <5>1 DEF Starts
      <4>4. MovesType'
        BY <2>1 DEF ShapeInv, Cutting, MovesFit
      <4>5. moves'[Previous(First)] \in [d : 0 .. Crossfade + Unit, e : 0 .. Crossfade]
        BY <4>3, <4>4 DEF MovesType
      <4> QED BY <4>2, <4>5
    <3>4. Len(probe') = U[range'] + Resumed(First)' - Resumed(range)'
      BY <3>2, <3>3
    <3> QED BY <2>1, <2>4, <2>7, <3>1, <3>4 DEF LengthInv
  <2>8. CASE moves' = moves /\ (Joins # {} => total % Unit = 0)
    <3>1. \A s \in Starts : T[Following(s)] = T[s] + Piece(s, moves'[s])
      BY <2>3, <2>5, <2>8 DEF Sums
    <3>2. T[First] = 0
      BY <2>3 DEF Sums
    <3> QED BY <2>3, <2>7, <2>8, <3>1, <3>2
  <2>9. CASE \E last \in Joins, d \in 0 .. Crossfade + Unit, e \in 0 .. Crossfade :
               /\ d + e = moves[last].d + moves[last].e + ((-total) % Unit)
               /\ moves' = [moves EXCEPT ![last] = [d |-> d, e |-> e]]
    <3>1. PICK last \in Joins, d \in 0 .. Crossfade + Unit, e \in 0 .. Crossfade :
               /\ d + e = moves[last].d + moves[last].e + ((-total) % Unit)
               /\ moves' = [moves EXCEPT ![last] = [d |-> d, e |-> e]]
      BY <2>9
    <3>2. PICK pad \in Nat : pad = (-total) % Unit /\ (total + pad) % Unit = 0
      <4>1. total \in Int /\ Unit \in Nat \ {0}
        BY Sizes DEF ShapeInv
      <4>2. (-total) % Unit \in 0 .. Unit - 1 /\ (total + ((-total) % Unit)) % Unit = 0
        BY <4>1, PadFills
      <4> QED BY <4>1, <4>2
    <3>3. last \in Starts /\ last \in Nat /\ last \in Cells
      BY <1>0, <2>5 DEF Joins, Starts
    <3>4. moves'[last] = [d |-> d, e |-> e] /\ \A s \in Starts : s # last => moves'[s] = moves[s]
      <4>1. DOMAIN moves = Cells /\ Starts \subseteq Cells
        BY <1>0, <2>2 DEF MovesFit, MovesType, Starts
      <4> QED BY <3>1, <3>3, <4>1
    <3>5. PICK U \in [0 .. NFull -> Int] :
            \A i \in 0 .. NFull : U[i] = IF i > last THEN T[i] + pad ELSE T[i]
      <4> DEFINE V == [i \in 0 .. NFull |-> IF i > last THEN T[i] + pad ELSE T[i]]
      <4>1. V \in [0 .. NFull -> Int]
        BY <2>3
      <4> QED BY <4>1
    <3>6. U[First] = 0
      BY <2>3, <2>5, <2>6, <3>3, <3>5 DEF Sums
    <3>7. Joins # {} => U[NFull] % Unit = 0
      <4>1. NFull \in 0 .. NFull /\ NFull > last
        BY <2>5, <3>3, Sizes
      <4> QED BY <2>3, <3>2, <3>5, <4>1
    <3>8. Piece(last, moves'[last]) = Piece(last, moves[last]) + pad /\ Piece(last, moves[last]) \in Int
      <4>1. d \in Int /\ e \in Int /\ moves[last].d \in Int /\ moves[last].e \in Int
        <5>1. moves[last].d \in Nat /\ moves[last].e \in Nat
          BY <1>0, <2>2, <3>3, SegEnds
        <5> QED BY <5>1, Sizes
      <4>2. d + e = moves[last].d + moves[last].e + pad
        BY <3>1, <3>2
      <4>3. /\ Piece(last, [d |-> d, e |-> e]) =
                 Stop(last) - last + d + e + (IF Joined(last) THEN Crossfade ELSE 0)
            /\ Piece(last, moves[last]) = Stop(last) - last + moves[last].d + moves[last].e
                 + (IF Joined(last) THEN Crossfade ELSE 0)
            /\ Piece(last, moves[last]) \in Int
        BY <1>0, <2>2, <3>3, <4>1, PieceIs
      <4>4. PICK c \in Int : c = IF Joined(last) THEN Crossfade ELSE 0
        BY Sizes
      <4>5. Stop(last) \in Int
        BY <1>0, <2>2, <3>3, SegEnds
      <4>6. PICK x \in Int, y \in Int : x = moves[last].d /\ y = moves[last].e
        BY <4>1
      <4>7. /\ Piece(last, moves'[last]) = Stop(last) - last + d + e + c
            /\ Piece(last, moves[last]) = Stop(last) - last + x + y + c
        BY <3>4, <4>3, <4>4, <4>6
      <4>8. d + e = x + y + pad
        BY <4>2, <4>6
      <4>9. Stop(last) - last + d + e + c = (Stop(last) - last + x + y + c) + pad
        <5>1. PICK z \in Int, l \in Int, b \in Int, f \in Int, g \in Int :
                z = Stop(last) /\ l = last /\ b = d /\ f = e /\ g = pad
          BY <3>3, <4>1, <4>5
        <5>2. b + f = x + y + g
          BY <4>8, <5>1
        <5>3. z - l + b + f + c = (z - l + x + y + c) + g
          BY <5>2
        <5> QED BY <5>1, <5>3
      <4> QED BY <4>3, <4>7, <4>9
    <3>9. ASSUME NEW s \in Starts PROVE U[Following(s)] = U[s] + Piece(s, moves'[s])
      <4>1. T[Following(s)] = T[s] + Piece(s, moves[s])
        BY <2>3, <2>5 DEF Sums
      <4>2. Following(s) \in 0 .. NFull /\ s < Following(s) /\ s \in Nat
        <5>1. Following(s) \in s + 1 .. NFull
          BY <1>0, RangeFacts
        <5> QED BY <5>1, <2>5
      <4>3. T[s] \in Int /\ s \in 0 .. NFull
        BY <2>5
      <4>4. Piece(s, moves[s]) \in Int
        <5>1. moves[s].d \in Nat /\ moves[s].e \in Nat
          BY <1>0, <2>2, SegEnds
        <5>2. \A x \in Nat : x \in Int
          OBVIOUS
        <5>3. moves[s].d \in Int /\ moves[s].e \in Int
          BY <5>1, <5>2
        <5>4. /\ Piece(s, [d |-> moves[s].d, e |-> moves[s].e]) \in Int
              /\ Piece(s, moves[s]) = Piece(s, [d |-> moves[s].d, e |-> moves[s].e])
          BY <1>0, <2>2, <5>3, PieceIs
        <5> QED BY <5>4
      <4>5. CASE s = last
        <5>1. U[Following(s)] = T[Following(s)] + pad /\ U[s] = T[s]
          BY <3>5, <4>2, <4>3, <4>5
        <5> QED BY <3>8, <4>1, <4>3, <4>4, <4>5, <5>1
      <4>6. CASE s > last
        <5>1. U[Following(s)] = T[Following(s)] + pad /\ U[s] = T[s] + pad
          BY <3>3, <3>5, <4>2, <4>3, <4>6
        <5>2. Piece(s, moves'[s]) = Piece(s, moves[s])
          BY <3>3, <3>4, <4>6
        <5> QED BY <4>1, <4>3, <4>4, <5>1, <5>2
      <4>7. CASE s < last
        <5>1. Following(s) <= last
          BY <1>0, <3>3, <4>7, RangeFacts
        <5>2. U[Following(s)] = T[Following(s)] /\ U[s] = T[s]
          BY <3>3, <3>5, <4>2, <4>3, <4>7, <5>1
        <5>3. Piece(s, moves'[s]) = Piece(s, moves[s])
          BY <3>3, <3>4, <4>7
        <5> QED BY <4>1, <5>2, <5>3
      <4> QED BY <3>3, <4>2, <4>5, <4>6, <4>7
    <3> QED BY <2>7, <3>6, <3>7, <3>9
  <2> QED BY <1>5, <2>8, <2>9, PadMoves
<1>6. ASSUME Join PROVE LengthInv'
  <2>1. /\ stage = "join" /\ mask' = mask /\ moves' = moves /\ range' = Following(range)
        /\ stage' \in {"join", "built"}
    BY <1>6 DEF Join
  <2>2. /\ Filled /\ MovesFit /\ mask # {} /\ range \in Starts /\ range \in Nat
    BY <2>1, RangeAtHand
  <2>3. PICK T \in [0 .. NFull -> Int] :
          /\ Sums(T, NFull) /\ (Joins # {} => T[NFull] % Unit = 0)
          /\ Len(probe) = T[range] + Resumed(First) - Resumed(range)
    BY <2>1 DEF LengthInv
  <2>4. /\ Starts' = Starts /\ First' = First /\ Joins' = Joins
        /\ \A s : Following(s)' = Following(s) /\ Previous(s)' = Previous(s)
        /\ \A s \in Starts : Piece(s, moves[s])' = Piece(s, moves[s])
    BY <2>1, MaskStays DEF Piece
  <2>5. Sums(T, NFull)'
    BY <2>3, <2>4, <2>1 DEF Sums
  <2>6. Resumed(First)' = Resumed(First) /\ Resumed(range)' = moves[range].e
        /\ Resumed(range) = moves[Previous(range)].e
    <3>1. range # NFull
      BY <1>0, <2>2, RangeFacts, Sizes DEF Cells
    <3>2. Resumed(range) = moves[Previous(range)].e
      BY <3>1 DEF Resumed, Wrapped
    <3>3. Wrapped(range)' = After(range) /\ Wrapped(First)' = Wrapped(First)
      BY <2>1, <2>4 DEF Wrapped, After
    <3>4. Previous(After(range)) = range
      BY <1>0, <2>2, AfterFacts
    <3>5. Resumed(range)' = moves[range].e
      BY <2>1, <2>4, <3>3, <3>4 DEF Resumed
    <3>6. Resumed(First)' = Resumed(First)
      BY <2>1, <2>4, <3>3 DEF Resumed
    <3> QED BY <3>2, <3>5, <3>6
  <2>7. PICK m \in Nat, k \in Nat :
          /\ m = SegStop(range) - SegStart(range) /\ k = IF Joined(range) THEN Crossfade ELSE 0
          /\ Len(probe) \in Nat /\ Len(probe') = Len(probe) + m + k
    BY <1>6, JoinAppends
  <2>8. T[Following(range)] = T[range] + Piece(range, moves[range])
    <3>1. range < NFull
      BY <1>0, <2>2, RangeFacts, Sizes DEF Cells
    <3> QED BY <2>2, <2>3, <3>1 DEF Sums
  <2>9. /\ moves[range].d \in Int /\ moves[range].e \in Int /\ Stop(range) \in Int
        /\ SegStop(range) = Stop(range) + moves[range].d
        /\ SegStart(range) = range - moves[Previous(range)].e
        /\ moves[Previous(range)].e \in Int
    <3>1. Previous(range) \in Starts
      BY <1>0, <2>2, AfterFacts
    <3>2. /\ moves[range].d \in Nat /\ moves[range].e \in Nat /\ Stop(range) \in Nat
          /\ SegStop(range) = Stop(range) + moves[range].d
      BY <1>0, <2>2, SegEnds
    <3>3. moves[Previous(range)].e \in Nat
      BY <1>0, <2>2, <3>1, SegEnds
    <3>4. \A x \in Nat : x \in Int
      OBVIOUS
    <3> QED BY <3>2, <3>3, <3>4 DEF SegStart
  <2>10. Piece(range, moves[range]) = Stop(range) - range + moves[range].d + moves[range].e + k
    BY <1>0, <2>2, <2>7, <2>9, PieceIs
  <2>11. T[range] \in Int /\ Resumed(First) \in Int
    <3>1. range \in 0 .. NFull
      BY <1>0, <2>2, RangeFacts, Sizes DEF Cells
    <3>2. First \in Starts /\ First # NFull
      BY <1>0, <2>2, FirstFacts, RangeFacts, Sizes DEF Cells
    <3>3. Previous(First) \in Starts
      BY <1>0, <2>2, <3>2, AfterFacts
    <3>4. moves[Previous(First)].e \in Nat
      BY <1>0, <2>2, <3>3, SegEnds
    <3> QED BY <3>1, <3>2, <3>4 DEF Resumed, Wrapped
  <2>12. Len(probe') = T[range'] + Resumed(First)' - Resumed(range)'
    <3>1. PICK d \in Int, e \in Int, c \in Int, z \in Int, f \in Int, t \in Int :
            /\ d = moves[range].d /\ e = moves[range].e /\ c = moves[Previous(range)].e
            /\ z = Stop(range) /\ f = Resumed(First) /\ t = T[range]
      BY <2>9, <2>11
    <3>2. m = (z + d) - (range - c)
      BY <2>7, <2>9, <3>1
    <3>3. Len(probe) = t + f - c
      BY <2>3, <2>6, <3>1
    <3>4. T[range'] = t + (z - range + d + e + k)
      BY <2>1, <2>8, <2>10, <3>1
    <3>5. Resumed(First)' = f /\ Resumed(range)' = e
      BY <2>6, <3>1
    <3>6. (t + f - c) + ((z + d) - (range - c)) + k = (t + (z - range + d + e + k)) + f - e
      <4>1. PICK r \in Int : r = range
        BY <2>2
      <4>2. (t + f - c) + ((z + d) - (r - c)) + k = (t + (z - r + d + e + k)) + f - e
        OBVIOUS
      <4> QED BY <4>1, <4>2
    <3> QED BY <2>7, <3>2, <3>3, <3>4, <3>5, <3>6
  <2> QED BY <2>1, <2>3, <2>4, <2>5, <2>12 DEF LengthInv
<1>7. ASSUME UNCHANGED probeVars PROVE LengthInv'
  <2>1. mask' = mask /\ UNCHANGED <<stage, range, moves, total, probe>>
    BY <1>7 DEF probeVars
  <2>2. /\ Starts' = Starts /\ First' = First /\ Joins' = Joins
        /\ \A s : Following(s)' = Following(s) /\ Previous(s)' = Previous(s)
        /\ \A s \in Starts : Piece(s, moves[s])' = Piece(s, moves[s])
    BY <2>1, MaskStays DEF Piece
  <2>4. /\ Resumed(First)' = Resumed(First) /\ Resumed(range)' = Resumed(range)
    BY <2>1, <2>2 DEF Resumed, Wrapped
  <2>5. CASE stage \in {"cut", "pad"}
    <3>1. PICK T \in [0 .. NFull -> Int] : Sums(T, range) /\ T[range] = total
      BY <2>5 DEF LengthInv
    <3>2. Sums(T, range)'
      BY <2>1, <2>2, <3>1 DEF Sums
    <3> QED BY <2>1, <2>5, <3>1, <3>2 DEF LengthInv
  <2>6. CASE stage \in {"join", "built"}
    <3>1. PICK T \in [0 .. NFull -> Int] :
            /\ Sums(T, NFull) /\ (Joins # {} => T[NFull] % Unit = 0)
            /\ Len(probe) = T[range] + Resumed(First) - Resumed(range)
      BY <2>6 DEF LengthInv
    <3>2. Sums(T, NFull)'
      BY <2>1, <2>2, <3>1 DEF Sums
    <3> QED BY <2>1, <2>2, <2>4, <2>6, <3>1, <3>2 DEF LengthInv
  <2> QED BY <1>1, <2>1, <2>5, <2>6
<1> QED BY <1>2, <1>3, <1>4, <1>5, <1>6, <1>7 DEF ProbeNext, ProbeDone

-----------------------------------------------------------------------------
(* The probe goes once round: what was joined so far lies in the loop's    *)
(* order behind the start of the first segment and before the next one,    *)
(* and holds every kept sample of the ranges passed.                       *)

Ordered(A, p, z) ==
  /\ Len(p) >= 1 => p[1] = OnLoop(A)
  /\ \A i \in 1 .. Len(p) : p[i] # -1 => OnLoop(p[i] - A) < z - A
  /\ \A i, j \in 1 .. Len(p) :
       i < j /\ p[i] # -1 /\ p[j] # -1 => OnLoop(p[i] - A) < OnLoop(p[j] - A)

OrderInv ==
  stage \in {"join", "built"} =>
    /\ IF stage = "join" /\ range = First THEN probe = <<>> ELSE Len(probe) >= 1
    /\ Ordered(SegStart(First), probe, SegStop(Previous(Wrapped(range))))
    /\ \A c \in mask : c < range => \E i \in 1 .. Len(probe) : probe[i] = c

(* q is p with m samples from a on, to z, and k samples of a crossfade.     *)
Extension(A, p, b, q, a, z) ==
  /\ \A i \in 1 .. Len(p) : p[i] \in Cells \cup {-1}
  /\ Ordered(A, p, b)
  /\ Len(p) = 0 => a = A
  /\ Len(p) > 0 => b <= a
  /\ A <= a /\ a < z /\ z <= A + NFull
  /\ \E k \in Nat :
       /\ Len(q) = Len(p) + (z - a) + k
       /\ \A i \in 1 .. Len(p) : q[i] = p[i]
       /\ \A i \in 1 .. z - a : q[Len(p) + i] = OnLoop(a + i - 1)
       /\ \A i \in 1 .. k : q[Len(p) + (z - a) + i] = -1

LEMMA Extends ==
  ASSUME NEW A \in Int, NEW a \in Int, NEW b \in Int, NEW z \in Int, NEW p, NEW q,
         Len(p) \in Nat, Extension(A, p, b, q, a, z)
  PROVE  Ordered(A, q, z)
<1> PICK n \in Nat, m \in Nat \ {0} : n = Len(p) /\ m = z - a
  BY DEF Extension
<1> PICK k \in Nat :
      /\ Len(q) = n + m + k
      /\ \A i \in 1 .. n : q[i] = p[i]
      /\ \A i \in 1 .. m : q[n + i] = OnLoop(a + i - 1)
      /\ \A i \in 1 .. k : q[n + m + i] = -1
  BY DEF Extension
<1> /\ \A i \in 1 .. n : p[i] \in Cells \cup {-1}
    /\ Ordered(A, p, b) /\ (n = 0 => a = A) /\ (n > 0 => b <= a)
    /\ A <= a /\ a < z /\ z <= A + NFull
  BY DEF Extension
<1>0. (\A x \in Cells : x \in Int) /\ \A x \in Int : OnLoop(x) \in Int
  <2>1. \A x \in Cells : x \in Int
    BY Sizes DEF Cells
  <2> QED BY <2>1, LoopFacts
<1>1. ASSUME NEW i \in 1 .. n, p[i] # -1
      PROVE  /\ q[i] = p[i] /\ OnLoop(q[i] - A) \in Int
             /\ OnLoop(q[i] - A) < a - A /\ OnLoop(q[i] - A) < z - A
  <2>1. q[i] = p[i] /\ p[i] \in Cells
    BY <1>1
  <2>2. p[i] - A \in Int
    <3>1. PICK y \in Int : y = p[i]
      BY <2>1, <1>0
    <3> QED BY <3>1
  <2>3. OnLoop(p[i] - A) \in Int
    BY <2>2, <1>0
  <2>4. OnLoop(p[i] - A) < b - A
    BY <1>1 DEF Ordered
  <2>5. b <= a
    OBVIOUS
  <2> HIDE DEF Ordered
  <2>6. PICK o \in Int : o = OnLoop(p[i] - A)
    BY <2>3
  <2>7. o < b - A
    BY <2>4, <2>6
  <2>8. o < a - A /\ o < z - A
    BY <2>5, <2>7
  <2> QED BY <2>1, <2>6, <2>8
<1>2. ASSUME NEW i \in 1 .. m PROVE OnLoop(q[n + i] - A) = a + i - 1 - A
  <2>1. q[n + i] = OnLoop(a + i - 1)
    OBVIOUS
  <2>2. a + i - 1 \in Int /\ -A \in Int
    OBVIOUS
  <2>3. OnLoop(OnLoop(a + i - 1) + (-A)) = OnLoop((a + i - 1) + (-A))
    BY <2>2, LoopFacts
  <2>4. OnLoop(a + i - 1) \in Int
    BY <2>2, <1>0
  <2>5. PICK x \in Int : x = OnLoop(a + i - 1)
    BY <2>4
  <2>6. x + (-A) = x - A /\ (a + i - 1) + (-A) = a + i - 1 - A
    OBVIOUS
  <2>7. a + i - 1 - A \in Cells
    BY Sizes DEF Cells
  <2>8. OnLoop(a + i - 1 - A) = a + i - 1 - A
    BY <2>7, LoopFacts
  <2> QED BY <2>1, <2>3, <2>5, <2>6, <2>8
<1>3. ASSUME NEW i \in 1 .. Len(q), q[i] # -1
      PROVE  i \in 1 .. n \/ (i > n /\ i - n \in 1 .. m /\ i = n + (i - n))
  <2>1. i \in 1 .. n + m + k
    OBVIOUS
  <2>2. CASE i > n + m
    <3>1. i - (n + m) \in 1 .. k /\ i = n + m + (i - (n + m))
      BY <2>1, <2>2
    <3> QED BY <3>1, <1>3
  <2> QED BY <2>1, <2>2
<1>4. ASSUME NEW i \in 1 .. Len(q), q[i] # -1
      PROVE  OnLoop(q[i] - A) < z - A /\ OnLoop(q[i] - A) \in Int
  <2>1. CASE i \in 1 .. n
    BY <1>1, <1>4, <2>1
  <2>2. CASE i - n \in 1 .. m /\ i = n + (i - n)
    <3>1. PICK v \in 1 .. m : i = n + v
      BY <2>2
    <3>2. a + v - 1 - A < z - A /\ a + v - 1 - A \in Int
      OBVIOUS
    <3> QED BY <3>1, <3>2, <1>2
  <2> QED BY <2>1, <2>2, <1>3, <1>4
<1>5. ASSUME NEW i \in 1 .. Len(q), NEW j \in 1 .. Len(q), i < j, q[i] # -1, q[j] # -1
      PROVE  OnLoop(q[i] - A) < OnLoop(q[j] - A)
  <2>1. CASE i \in 1 .. n /\ j \in 1 .. n
    BY <1>1, <1>5, <2>1 DEF Ordered
  <2>2. CASE j - n \in 1 .. m /\ j = n + (j - n)
    <3>1. PICK w \in 1 .. m : j = n + w
      BY <2>2
    <3>2. OnLoop(q[j] - A) = a + w - 1 - A
      BY <3>1, <1>2
    <3>3. CASE i \in 1 .. n
      <4>1. PICK o \in Int : o = OnLoop(q[i] - A) /\ o < a - A
        BY <1>1, <1>5, <3>3
      <4>2. o < a + w - 1 - A
        BY <4>1
      <4> QED BY <3>2, <4>1, <4>2
    <3>4. CASE i - n \in 1 .. m /\ i = n + (i - n)
      <4>1. PICK v \in 1 .. m : i = n + v
        BY <3>4
      <4>2. OnLoop(q[i] - A) = a + v - 1 - A
        BY <4>1, <1>2
      <4>3. a + v - 1 - A < a + w - 1 - A
        BY <3>1, <4>1, <1>5
      <4> QED BY <3>2, <4>2, <4>3
    <3> QED BY <3>3, <3>4, <1>3, <1>5
  <2>3. ~(j \in 1 .. n) => j - n \in 1 .. m /\ j = n + (j - n)
    BY <1>3, <1>5
  <2>4. j \in 1 .. n => i \in 1 .. n
    BY <1>5
  <2> QED BY <2>1, <2>2, <2>3, <2>4
<1>6. q[1] = OnLoop(A)
  <2>1. CASE n = 0
    <3>1. 1 \in 1 .. m /\ n + 1 = 1 /\ a + 1 - 1 = A
      BY <2>1
    <3>2. q[n + 1] = OnLoop(a + 1 - 1)
      BY <3>1
    <3> QED BY <3>1, <3>2
  <2>2. CASE n > 0
    <3>1. 1 \in 1 .. n
      BY <2>2
    <3> QED BY <3>1 DEF Ordered
  <2> QED BY <2>1, <2>2
<1> QED BY <1>4, <1>5, <1>6 DEF Ordered

LEMMA OrderNext ==
  PeaksInv /\ ShapeInv /\ OrderInv /\ [ProbeNext]_probeVars => OrderInv'
<1> SUFFICES ASSUME PeaksInv, ShapeInv, OrderInv, [ProbeNext]_probeVars PROVE OrderInv'
  OBVIOUS
<1>0. mask \subseteq Cells /\ (Cutting => Filled /\ MovesFit /\ mask # {})
  BY DEF PeaksInv, ShapeInv, Filled
<1>1. ASSUME stage' \notin {"join", "built"} PROVE OrderInv'
  BY <1>1 DEF OrderInv
<1>2. ASSUME TakePeak \/ AllTaken \/ FillGaps \/ Cut PROVE OrderInv'
  <2>1. stage' \in {"select", "fill", "refused", "cut", "pad"}
    BY <1>2 DEF TakePeak, AllTaken, FillGaps, Cut, PeaksInv, Stages
  <2> QED BY <1>1, <2>1
<1>3. ASSUME Pad PROVE OrderInv'
  <2>1. stage = "pad" /\ mask' = mask /\ stage' = "join" /\ range' = First /\ probe' = probe
    BY <1>3 DEF Pad
  <2>2. probe = <<>> /\ First' = First
    BY <2>1, MaskStays DEF ShapeInv
  <2>3. Len(probe') = 0
    BY <2>1, <2>2
  <2>4. Ordered(SegStart(First), probe, SegStop(Previous(Wrapped(range))))'
    BY <2>3 DEF Ordered
  <2>5. \A c \in mask : ~(c < First)
    <3> TAKE c \in mask
    <3>1. PICK s \in Starts : s <= c /\ c < Stop(s)
      BY <1>0, Covering
    <3>2. First <= s /\ First \in Nat /\ s \in Nat /\ c \in Nat
      <4>1. mask # {} /\ c \in Nat
        BY <1>0, Sizes
      <4>2. First \in Starts /\ First <= s
        BY <1>0, <4>1, FirstFacts
      <4> QED BY <1>0, <4>1, <4>2, RangeFacts
    <3> QED BY <3>1, <3>2
  <2> QED BY <2>1, <2>2, <2>4, <2>5 DEF OrderInv
<1>4. ASSUME Join PROVE OrderInv'
  <2>1. /\ stage = "join" /\ mask' = mask /\ moves' = moves /\ range' = Following(range)
        /\ stage' = IF Following(range) = NFull THEN "built" ELSE "join"
    BY <1>4 DEF Join
  <2>2. /\ Filled /\ MovesFit /\ mask # {} /\ range \in Starts /\ range \in Nat
    BY <2>1, RangeAtHand
  <2>3. /\ First' = First /\ Wrapped(range)' = After(range)
        /\ SegStart(First)' = SegStart(First)
        /\ SegStop(Previous(Wrapped(range)))' = SegStop(range)
    <3>1. /\ First' = First /\ \A s : Previous(s)' = Previous(s) /\ Stop(s)' = Stop(s)
      BY <2>1, MaskStays
    <3>2. Wrapped(range)' = After(range)
      BY <2>1, <3>1 DEF Wrapped, After
    <3>3. Previous(After(range)) = range
      BY <1>0, <2>2, AfterFacts
    <3>4. SegStart(First)' = SegStart(First)
      BY <2>1, <3>1 DEF SegStart
    <3>5. Previous(Wrapped(range))' = range
      BY <3>1, <3>2, <3>3
    <3>6. SegStop(Previous(Wrapped(range)))' = SegStop(range)
      BY <2>1, <3>1, <3>5 DEF SegStop
    <3> QED BY <3>1, <3>2, <3>4, <3>6
  <2>4. PICK m \in Nat \ {0}, k \in Nat :
          /\ m = SegStop(range) - SegStart(range)
          /\ Len(probe) \in Nat /\ Len(probe') = Len(probe) + m + k
          /\ \A i \in 1 .. Len(probe) : probe'[i] = probe[i]
          /\ \A i \in 1 .. m : probe'[Len(probe) + i] = OnLoop(SegStart(range) + i - 1)
          /\ \A i \in 1 .. k : probe'[Len(probe) + m + i] = -1
    BY <1>4, JoinAppends
  <2>5. PICK n \in Nat : n = Len(probe)
    BY <2>4
  <2>6. PICK A \in Int, a \in Int, z \in Int :
          /\ A = SegStart(First) /\ a = SegStart(range) /\ z = SegStop(range)
          /\ A <= a /\ z <= A + NFull
    BY <1>0, <2>2, SegEnds, SegFacts
  <2>7. /\ m = z - a /\ Len(probe') = n + m + k
        /\ \A i \in 1 .. n : probe'[i] = probe[i]
        /\ \A i \in 1 .. m : probe'[n + i] = OnLoop(a + i - 1)
        /\ \A i \in 1 .. k : probe'[n + m + i] = -1
    BY <2>4, <2>5, <2>6
  <2>8. PICK b \in Int : /\ Ordered(A, probe, b) /\ (n = 0 => a = A) /\ (n > 0 => b <= a)
    <3>1. Ordered(A, probe, SegStop(Previous(Wrapped(range))))
      BY <2>1, <2>6 DEF OrderInv
    <3>2. Wrapped(range) = range
      BY <1>0, <2>2, RangeFacts DEF Wrapped, Cells
    <3>3. Previous(range) \in Starts /\ After(Previous(range)) = range
      BY <1>0, <2>2, AfterFacts
    <3>4. SegStop(Previous(range)) \in Int
      BY <1>0, <2>2, <3>3, SegEnds
    <3>5. CASE range = First
      <4>1. n = 0
        <5>1. probe = <<>>
          BY <2>1, <3>5 DEF OrderInv
        <5> QED BY <2>5, <5>1
      <4> QED BY <2>6, <3>1, <3>2, <3>4, <3>5, <4>1
    <3>6. CASE range # First
      <4>1. Following(Previous(range)) # NFull /\ Following(Previous(range)) = range
        BY <3>3, <3>6 DEF After
      <4>2. SegStop(Previous(range)) <= a
        BY <1>0, <2>2, <2>6, <3>3, <4>1, SegApart
      <4>3. n # 0
        BY <2>1, <2>5, <3>6 DEF OrderInv
      <4> QED BY <3>1, <3>2, <3>4, <4>2, <4>3
    <3> QED BY <3>5, <3>6
  <2>9. \A i \in 1 .. n : probe[i] \in Cells \cup {-1}
    <3>1. probe \in Seq(Cells \cup {-1})
      BY DEF ShapeInv
    <3> HIDE DEF Cells
    <3> QED BY <2>5, <3>1
  <2>10. Ordered(A, probe', z)
    <3>1. PICK p, q : p = probe /\ q = probe'
      OBVIOUS
    <3>2. Len(p) = n /\ (Len(p) = 0 => a = A) /\ (Len(p) > 0 => b <= a) /\ Ordered(A, p, b)
      BY <2>5, <2>8, <3>1
    <3>3. \A i \in 1 .. Len(p) : p[i] \in Cells \cup {-1}
      BY <2>9, <3>1, <3>2
    <3>4. \E c \in Nat :
            /\ Len(q) = Len(p) + (z - a) + c
            /\ \A i \in 1 .. Len(p) : q[i] = p[i]
            /\ \A i \in 1 .. z - a : q[Len(p) + i] = OnLoop(a + i - 1)
            /\ \A i \in 1 .. c : q[Len(p) + (z - a) + i] = -1
      BY <2>7, <3>1, <3>2
    <3>5. A <= a /\ a < z /\ z <= A + NFull
      <4>1. A <= a /\ z <= A + NFull /\ m = z - a
        BY <2>6, <2>7
      <4> QED BY <4>1
    <3>6. Extension(A, p, b, q, a, z)
      <4> HIDE DEF Ordered, Cells
      <4> QED BY <3>2, <3>3, <3>4, <3>5 DEF Extension
    <3>7. Ordered(A, q, z)
      BY <3>2, <3>6, Extends
    <3> QED BY <3>1, <3>7
  <2>11. Ordered(SegStart(First), probe, SegStop(Previous(Wrapped(range))))'
    BY <2>3, <2>6, <2>10 DEF Ordered
  <2>12. ~(stage' = "join" /\ range' = First') /\ Len(probe') >= 1
    <3>1. Len(probe') >= 1
      BY <2>7
    <3>2. First <= range /\ First \in Nat
      <4>1. First \in Starts /\ First <= range
        BY <1>0, <2>2, FirstFacts
      <4> QED BY <1>0, <4>1, RangeFacts
    <3>3. range < Following(range) /\ Following(range) \in Nat
      <4>1. Following(range) \in range + 1 .. NFull
        BY <1>0, <2>2, RangeFacts
      <4> QED BY <2>2, <4>1, Sizes
    <3>4. Following(range) # First
      BY <2>2, <3>2, <3>3
    <3> QED BY <2>1, <2>3, <3>1, <3>4
  <2>13. ASSUME NEW c \in mask, c < Following(range) PROVE \E i \in 1 .. Len(probe') : probe'[i] = c
    <3>0. c \in Nat /\ c \in Cells
      BY <1>0, Sizes
    <3>1. CASE c < range
      <4>1. PICK i \in 1 .. Len(probe) : probe[i] = c
        BY <2>1, <3>1 DEF OrderInv
      <4>2. i \in 1 .. n /\ i \in 1 .. Len(probe')
        BY <2>5, <2>7, <4>1
      <4> QED BY <2>7, <4>1, <4>2
    <3>2. CASE range <= c
      <4>1. PICK s \in Starts : s <= c /\ c < Stop(s)
        BY <1>0, Covering
      <4>2. s \in Nat /\ Stop(s) \in Nat /\ Following(range) \in Nat
        BY <1>0, <2>2, <4>1, SegEnds
      <4>3. ~(s < range)
        <5>1. s < range => Stop(s) < range
          BY <1>0, <2>2, RangeFacts
        <5> QED BY <5>1, <2>2, <3>0, <3>2, <4>1, <4>2
      <4>4. ~(range < s)
        <5>1. range < s => Following(range) <= s
          BY <1>0, <2>2, RangeFacts
        <5> QED BY <5>1, <2>2, <2>13, <3>0, <4>1, <4>2
      <4>5. s = range
        BY <2>2, <4>2, <4>3, <4>4
      <4>6. a <= range /\ Stop(range) <= z /\ Stop(range) \in Nat
        BY <1>0, <2>2, <2>6, SegEnds
      <4>7. c - a + 1 \in 1 .. m /\ a + (c - a + 1) - 1 = c
        BY <2>2, <2>7, <3>0, <3>2, <4>1, <4>5, <4>6
      <4>8. probe'[n + (c - a + 1)] = OnLoop(c)
        BY <2>7, <4>7
      <4>9. n + (c - a + 1) \in 1 .. Len(probe')
        BY <2>7, <4>7
      <4> QED BY <3>0, <4>8, <4>9, LoopFacts
    <3> QED BY <2>2, <3>0, <3>1, <3>2
  <2> QED BY <2>1, <2>11, <2>12, <2>13 DEF OrderInv
<1>5. ASSUME UNCHANGED probeVars PROVE OrderInv'
  <2>1. mask' = mask /\ UNCHANGED <<stage, range, moves, probe>>
    BY <1>5 DEF probeVars
  <2>2. /\ First' = First /\ \A s : Previous(s)' = Previous(s) /\ Stop(s)' = Stop(s)
    BY <2>1, MaskStays
  <2>3. /\ SegStart(First)' = SegStart(First)
        /\ SegStop(Previous(Wrapped(range)))' = SegStop(Previous(Wrapped(range)))
    <3>1. Wrapped(range)' = Wrapped(range)
      BY <2>1, <2>2 DEF Wrapped
    <3>2. Previous(Wrapped(range))' = Previous(Wrapped(range))
      BY <2>2, <3>1
    <3> QED BY <2>1, <2>2, <3>2 DEF SegStart, SegStop
  <2>4. Ordered(SegStart(First), probe, SegStop(Previous(Wrapped(range))))'
          = Ordered(SegStart(First), probe, SegStop(Previous(Wrapped(range))))
    BY <2>1, <2>3 DEF Ordered
  <2> QED BY <2>1, <2>2, <2>4 DEF OrderInv
<1> QED BY <1>2, <1>3, <1>4, <1>5 DEF ProbeNext, ProbeDone

-----------------------------------------------------------------------------
(* The inductive invariant of the probe.                                   *)
ProbeInv == PeaksInv /\ ShapeInv /\ LengthInv /\ OrderInv

LEMMA ProbeInvInit == ProbeInit => ProbeInv
<1> SUFFICES ASSUME ProbeInit PROVE ProbeInv
  OBVIOUS
<1>1. stage = "select"
  BY DEF ProbeInit
<1>2. LengthInv /\ OrderInv
  BY <1>1 DEF LengthInv, OrderInv
<1> QED BY <1>2, PeaksInit, ShapeInit DEF ProbeInv

LEMMA ProbeInvNext == ProbeInv /\ [ProbeNext]_probeVars => ProbeInv'
<1> SUFFICES ASSUME ProbeInv, [ProbeNext]_probeVars PROVE ProbeInv'
  OBVIOUS
<1>1. PeaksInv /\ ShapeInv /\ LengthInv /\ OrderInv
  BY DEF ProbeInv
<1>2. PeaksInv'
  BY <1>1, PeaksNext
<1>3. ShapeInv'
  BY <1>1, ShapeNext
<1>4. LengthInv'
  BY <1>1, <1>3, LengthNext
<1>5. OrderInv'
  BY <1>1, OrderNext
<1> QED BY <1>2, <1>3, <1>4, <1>5 DEF ProbeInv

LEMMA ProbeInvAlways == ProbeSpec => []ProbeInv
<1>1. ProbeInit => ProbeInv
  BY ProbeInvInit
<1>2. ProbeInv /\ [ProbeNext]_probeVars => ProbeInv'
  BY ProbeInvNext
<1> QED BY <1>1, <1>2, PTL DEF ProbeSpec

(* What a join is mixed of lies outside the mask: the cut and the resume   *)
(* are moved by no more than the room of the gap.                          *)
LEMMA MixedOutside ==
  ASSUME mask \subseteq Cells, Filled, MovesFit, NEW s \in Starts, Joined(s)
  PROVE  Mixed(s) \cap mask = {}
<1>1. /\ SegStop(s) = Stop(s) + moves[s].d /\ SegStart(After(s)) = After(s) - moves[s].e
      /\ After(s) \in Starts /\ Stop(s) \in Nat
  BY SegEnds
<1>2. After(s) \in Nat
  BY <1>1, RangeFacts
<1>3. moves[s].d \in 0 .. Crossfade + Unit /\ moves[s].e \in 0 .. Crossfade
  <2>1. moves[s] \in [d : 0 .. Crossfade + Unit, e : 0 .. Crossfade]
    BY DEF MovesFit, MovesType, Starts
  <2> QED BY <2>1
<1>4. PICK d \in Int, e \in Int, y \in Int, u \in Int :
        /\ d = moves[s].d /\ e = moves[s].e /\ y = Stop(s) /\ u = After(s)
        /\ 0 <= d /\ d <= Crossfade + Unit /\ 0 <= e /\ e <= Crossfade
  BY <1>1, <1>2, <1>3, Sizes
<1>5. /\ \A k \in 0 .. Room - 1 : OnLoop(y + k) \notin mask
      /\ \A k \in 1 .. Room : OnLoop(u - k) \notin mask
  BY <1>4, GapFacts
<1>6. ASSUME NEW i \in 0 .. Crossfade - 1 PROVE OnLoop(SegStop(s) + i) \notin mask
  <2>1. d + i \in 0 .. Room - 1 /\ y + (d + i) = (y + d) + i
    BY <1>4, Sizes
  <2>2. SegStop(s) = y + d
    BY <1>1, <1>4
  <2> QED BY <1>5, <2>1, <2>2
<1>7. ASSUME NEW i \in 1 .. Crossfade PROVE OnLoop(SegStart(After(s)) - i) \notin mask
  <2>1. e + i \in 1 .. Room /\ u - (e + i) = (u - e) - i
    BY <1>4, Sizes
  <2>2. SegStart(After(s)) = u - e
    BY <1>1, <1>4
  <2> QED BY <1>5, <2>1, <2>2
<1> QED BY <1>6, <1>7 DEF Mixed

(* Every peak taken keeps its whole window of real signal, and no          *)
(* crossfade is mixed of a sample of one: whatever the peaks, the budget,  *)
(* the cuts that are chosen and the pad (WindowsStayReal).                 *)
THEOREM WindowsKept == ProbeSpec => []WindowsStayReal
<1>1. ProbeInv => WindowsStayReal
  <2> SUFFICES ASSUME ProbeInv, stage = "built"
               PROVE  /\ budget = NoBudget =>
                           \A b \in Signals : Len(peaks[b]) > 0 => peaks[b][1] \in taken
                      /\ \A i \in taken :
                           /\ WindowOf(i) \subseteq Kept
                           /\ \A s \in Starts : Joined(s) => Mixed(s) \cap WindowOf(i) = {}
    BY DEF WindowsStayReal
  <2>1. /\ Filled /\ MovesFit /\ mask \subseteq Cells /\ range = NFull
        /\ \A i \in taken : WindowOf(i) \subseteq mask
    BY DEF ProbeInv, PeaksInv, ShapeInv, Cutting
  <2>2. ASSUME budget = NoBudget, NEW b \in Signals, Len(peaks[b]) > 0
        PROVE  peaks[b][1] \in taken
    <3>1. peaks[b] \in Seq(Cells)
      BY DEF ProbeInv, PeaksInv
    <3>2. Len(peaks[b]) \in Nat
      BY <3>1, LenProperties
    <3>3. <<b, 1>> \in Candidates(peaks)
      BY <2>2, <3>2, ProbeAssumption DEF Candidates
    <3>4. Peak(<<b, 1>>) \in taken
      <4>1. ~Waits(<<b, 1>>)
        BY DEF Waits
      <4> QED BY <2>2, <3>3, <4>1 DEF ProbeInv, PeaksInv
    <3> QED BY <3>4 DEF Peak
  <2>3. mask \subseteq Kept
    <3> SUFFICES ASSUME NEW c \in mask PROVE c \in Kept
      OBVIOUS
    <3>1. c \in Nat /\ c < NFull
      BY <2>1, Sizes DEF Cells
    <3>2. \E i \in 1 .. Len(probe) : probe[i] = c
      BY <2>1, <3>1 DEF ProbeInv, OrderInv
    <3> QED BY <3>1, <3>2 DEF Kept
  <2>4. ASSUME NEW s \in Starts, Joined(s) PROVE Mixed(s) \cap mask = {}
    BY <2>1, <2>4, MixedOutside
  <2> QED BY <2>1, <2>2, <2>3, <2>4
<1> QED BY <1>1, ProbeInvAlways, PTL

(* The probe holds no sample of the signal twice, keeps the loop's order,  *)
(* and is a whole number of units long unless the whole signal was kept:   *)
(* the pad of the last join fills exactly what is missing (OnceRound).     *)
THEOREM RoundOnce == ProbeSpec => []OnceRound
<1>1. ProbeInv => OnceRound
  <2> SUFFICES ASSUME ProbeInv, stage = "built"
               PROVE  /\ \A i, j \in 1 .. Len(probe) :
                           i < j /\ probe[i] # -1 /\ probe[j] # -1
                             => OnLoop(probe[i] - probe[1]) < OnLoop(probe[j] - probe[1])
                      /\ mask # Cells => Len(probe) % Unit = 0
    BY DEF OnceRound
  <2>1. /\ Filled /\ MovesFit /\ mask \subseteq Cells /\ mask # {} /\ range = NFull
    BY DEF ProbeInv, PeaksInv, ShapeInv, Cutting, Filled
  <2>2. First \in Starts
    BY <2>1, FirstFacts
  <2>3. PICK A \in Int : A = SegStart(First)
    BY <2>1, <2>2, SegEnds
  <2>4. /\ Len(probe) >= 1 => probe[1] = OnLoop(A)
        /\ \A i, j \in 1 .. Len(probe) :
             i < j /\ probe[i] # -1 /\ probe[j] # -1
               => OnLoop(probe[i] - A) < OnLoop(probe[j] - A)
    BY <2>3 DEF ProbeInv, OrderInv, Ordered
  <2>5. Len(probe) >= 1
    BY DEF ProbeInv, OrderInv
  <2>6. ASSUME NEW i \in 1 .. Len(probe), probe[i] # -1
        PROVE  OnLoop(probe[i] - probe[1]) = OnLoop(probe[i] - A)
    <3>1. probe[i] \in Cells
      <4>1. probe \in Seq(Cells \cup {-1})
        BY DEF ProbeInv, ShapeInv
      <4>2. probe[i] \in Cells \cup {-1}
        <5> HIDE DEF Cells
        <5> QED BY <4>1
      <4> QED BY <4>2, <2>6
    <3>2. PICK q \in Int : A = NFull * q + OnLoop(A)
      BY Sizes, Quotient DEF OnLoop
    <3>3. PICK y \in Int, o \in Int, w \in Int : y = probe[i] /\ o = OnLoop(A) /\ w = NFull * q
      <4>1. \A x \in Cells : x \in Int
        BY Sizes DEF Cells
      <4>2. NFull * q \in Int
        BY Sizes
      <4> QED BY <3>1, <4>1, <4>2, LoopFacts
    <3>4. y - o = (y - A) + w /\ y - o \in Int /\ y - A \in Int
      <4>1. A = w + o
        BY <3>2, <3>3
      <4> QED BY <4>1
    <3>5. OnLoop(y - o) = OnLoop(y - A)
      BY <3>3, <3>4, LoopsApart
    <3> QED BY <2>4, <2>5, <3>3, <3>5
  <2>7. ASSUME NEW i \in 1 .. Len(probe), NEW j \in 1 .. Len(probe),
               i < j, probe[i] # -1, probe[j] # -1
        PROVE  OnLoop(probe[i] - probe[1]) < OnLoop(probe[j] - probe[1])
    BY <2>4, <2>6, <2>7
  <2>8. ASSUME mask # Cells PROVE Len(probe) % Unit = 0
    <3>1. PICK T \in [0 .. NFull -> Int] :
            /\ Sums(T, NFull) /\ (Joins # {} => T[NFull] % Unit = 0)
            /\ Len(probe) = T[NFull] + Resumed(First) - Resumed(NFull)
      BY <2>1 DEF ProbeInv, LengthInv
    <3>2. Resumed(First) = Resumed(NFull)
      BY DEF Resumed, Wrapped
    <3>3. Resumed(NFull) \in Int
      <4>1. Previous(First) \in Starts
        BY <2>1, <2>2, AfterFacts
      <4>2. moves[Previous(First)].e \in Nat
        BY <2>1, <4>1, SegEnds
      <4>3. Resumed(NFull) = moves[Previous(First)].e
        BY DEF Resumed, Wrapped
      <4> QED BY <4>2, <4>3
    <3>4. T[NFull] \in Int
      BY Sizes
    <3>5. Len(probe) = T[NFull]
      BY <3>1, <3>2, <3>3, <3>4
    <3>6. Joins # {}
      BY <2>1, <2>8, SomeJoin
    <3> QED BY <3>1, <3>5, <3>6
  <2> QED BY <2>7, <2>8
<1> QED BY <1>1, ProbeInvAlways, PTL

(* The values the probe's state takes: the moves stay in a join's reach,   *)
(* the pad among them (ProbeTypeOK).                                       *)
THEOREM ProbeTypes == ProbeSpec => []ProbeTypeOK
<1>1. ProbeInv => ProbeTypeOK
  <2> SUFFICES ASSUME ProbeInv PROVE ProbeTypeOK
    OBVIOUS
  <2>1. /\ stage \in Stages /\ budget \in Budgets /\ ranked \in Seq(Candidates(peaks))
        /\ taken \subseteq Cells /\ mask \subseteq Cells /\ total \in Nat
        /\ probe \in Seq(Cells \cup {-1})
    BY DEF ProbeInv, PeaksInv, ShapeInv
  <2>2. ranked \in Seq(Signals \X (1 .. MaxPeaks))
    <3>1. Candidates(peaks) \subseteq Signals \X (1 .. MaxPeaks)
      BY DEF Candidates
    <3> HIDE DEF Candidates
    <3> QED BY <2>1, <3>1
  <2>3. range \in 0 .. NFull
    <3>1. CASE stage \in {"cut", "join"}
      <4>1. range \in Cells
        BY <3>1, RangeAtHand DEF ProbeInv
      <4> QED BY <4>1, Sizes DEF Cells
    <3>2. CASE stage \notin {"cut", "join"}
      <4>1. range = NFull \/ range = 0
        BY <3>2 DEF ProbeInv, PeaksInv, ShapeInv, Cutting, Stages
      <4> QED BY <4>1, Sizes
    <3> QED BY <3>1, <3>2
  <2>4. MovesType
    <3>1. CASE Cutting
      BY <3>1 DEF ProbeInv, ShapeInv, MovesFit
    <3>2. CASE ~Cutting
      <4>1. moves = NoMoves
        BY <3>2 DEF ProbeInv, ShapeInv
      <4> QED BY <4>1, Sizes DEF MovesType, NoMoves
    <3> QED BY <3>1, <3>2
  <2> QED BY <2>1, <2>2, <2>3, <2>4 DEF ProbeTypeOK, Stages, MovesType
<1> QED BY <1>1, ProbeInvAlways, PTL
=============================================================================
