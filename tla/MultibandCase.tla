--------------------------- MODULE MultibandCase ---------------------------
(***************************************************************************)
(* One case of the dual-band bench: find_multiband_operating_point of      *)
(* src/adrvtrx/multiband.py with lock_bands, confirm_lock, capture_case    *)
(* and the CaseWriter, run by a caller that writes case.json afterwards,   *)
(* as the README's example does.                                           *)
(*                                                                         *)
(* The search is MultibandSearch; here it ends with any of its outcomes at *)
(* any of the attenuations Locks.  Every call on the radio and every file  *)
(* may fail, the process may die at any point, and the case is run again.  *)
(***************************************************************************)
EXTENDS Naturals, Sequences, FiniteSets

CONSTANTS
  Bands,
  BandOrder,     \* the bands in the order of the call
  AttenMax,      \* MAX_TX_ATTEN_DB
  Start,         \* atten_start_db per band
  Locks,         \* where a search may leave the attenuations
  Backoffs,      \* the sequence of backoffs, whole dB
  ConfirmSteps,  \* confirm_steps
  MaxRuns        \* bound: runs of the case

Attens == 0 .. AttenMax
Smaller(x, y) == IF x <= y THEN x ELSE y
Items(s) == {s[i] : i \in 1 .. Len(s)}

ASSUME CaseAssumption ==
  /\ IsFiniteSet(Bands) /\ AttenMax \in Nat /\ ConfirmSteps \in Nat
  /\ BandOrder \in Seq(Bands) /\ Items(BandOrder) = Bands
  /\ \A i, j \in 1 .. Len(BandOrder) : BandOrder[i] = BandOrder[j] => i = j
  /\ Start \in [Bands -> Attens] /\ Locks \subseteq [Bands -> Attens]
  /\ Backoffs \in Seq(Nat)
  /\ \A i, j \in 1 .. Len(Backoffs) : Backoffs[i] = Backoffs[j] => i = j
  /\ MaxRuns \in Nat

(* The files of a case in the order they are written.                      *)
Table(name) == <<name, 0, "all">>
Conditions == Table("conditions")
LockTable == Table("lock")
Json == Table("case.json")
InFiles == [i \in 1 .. Len(BandOrder) |-> <<"in", 0, BandOrder[i]>>]
OutFiles ==
  LET n == Len(BandOrder)
  IN  [i \in 1 .. n * Len(Backoffs) |->
         <<"out", Backoffs[((i - 1) \div n) + 1], BandOrder[((i - 1) % n) + 1]>>]
FileOrder == InFiles \o OutFiles \o <<Conditions, LockTable>>
Files == Items(FileOrder)
Names == Files \cup {Json}

VARIABLES
  pc,        \* where the call is
  run,       \* runs begun
  playing,   \* what the TX play: "off", "probe", "full"
  atten,     \* the radio's attenuations
  search,    \* MultibandSearch: fatal, converged, attens, the signal it ran on
  captures,  \* BandCaptures per backoff: where and on what they were made
  next,      \* the file to be written next, an index of FileOrder
  disk       \* the case folder: per file the run that wrote it and what

vars == <<pc, run, playing, atten, search, captures, next, disk>>

Nowhere == [b \in Bands |-> 0]
NoCapture == [attens |-> Nowhere, signal |-> "none"]
NoSearch == [fatal |-> FALSE, converged |-> FALSE, attens |-> Start, signal |-> "none"]
NoFile == [run |-> 0, attens |-> Nowhere]
EmptyFolder == [f \in Names |-> NoFile]
Ks == Items(Backoffs)

Init ==
  /\ pc = "idle" /\ run = 0
  /\ playing \in {"off", "full"}       \* whatever an earlier job left
  /\ atten = Start
  /\ search = NoSearch /\ captures = [k \in Ks \cup {0} |-> NoCapture]
  /\ next = 1
  /\ disk = EmptyFolder

RadioStays == UNCHANGED <<playing, atten>>
FolderStays == UNCHANGED <<next, disk>>

(* Mutant of Present: case.json is not looked at.                          *)
PresentFiles == {f \in Files : disk[f].run # 0}

Present == {f \in Names : disk[f].run # 0}

(* require_empty() comes before the radio is touched: a call on a folder   *)
(* that is not empty raises there.                                         *)
Call ==
  /\ pc = "idle" /\ run < MaxRuns
  /\ run' = run + 1
  /\ pc' = IF Present = {} THEN "start" ELSE "idle"
  /\ search' = NoSearch /\ captures' = [k \in Ks \cup {0} |-> NoCapture]
  /\ next' = 1
  /\ UNCHANGED <<playing, atten, disk>>

(* An exception of the radio: the finally makes TX safe on the way out.    *)
Raise == pc' = "finally_raise" /\ UNCHANGED <<run, search, captures>>

(* --- lock_bands -------------------------------------------------------- *)

(* disable_tx before the start attenuations, which one by one may raise.   *)
Prepare ==
  /\ pc = "start"
  /\ \/ pc' = "play" /\ playing' = "off" /\ atten' = Start
        /\ UNCHANGED <<run, search, captures>>
     \/ playing' \in {playing, "off"} /\ UNCHANGED atten /\ Raise
  /\ FolderStays

Play ==
  /\ pc = "play"
  /\ \/ \E signal \in {"probe", "full"} :
          /\ playing' = signal /\ pc' = "search"
          /\ UNCHANGED <<atten, run, search, captures>>
     \/ playing' \in {"off", "full"} /\ UNCHANGED atten /\ Raise
  /\ FolderStays

(* autolevel_orx and _safe_search make the bench safe when the ORx gives   *)
(* no data; other errors come straight out.                                *)
RadioFails ==
  /\ playing' \in {playing, "off"}
  /\ UNCHANGED atten
  /\ Raise

Ends(signal) ==
  [fatal : BOOLEAN, converged : BOOLEAN, attens : Locks, signal : {signal}]
Outcomes(signal) == {s \in Ends(signal) : ~(s.fatal /\ s.converged)}

(* The search leaves the radio where it says; the full signals play again  *)
(* after a lock on the probe.                                              *)
Search ==
  /\ pc = "search"
  /\ \/ \E s \in Outcomes(playing) :
          /\ search' = s /\ atten' = s.attens
          /\ pc' = IF playing = "probe" THEN "swap" ELSE "backoffs"
          /\ UNCHANGED <<playing, run, captures>>
     \/ RadioFails
  /\ FolderStays

Swap ==
  /\ pc = "swap"
  /\ \/ /\ playing' = "full"
        /\ pc' = IF search.fatal THEN "backoffs" ELSE "confirm"
        /\ UNCHANGED <<atten, run, search, captures>>
     \/ playing' \in {"probe", "off"} /\ UNCHANGED atten /\ Raise
  /\ FolderStays

(* --- capture_case, confirm_lock ---------------------------------------- *)

At(attens, k) == [b \in Bands |-> Smaller(attens[b] + k, AttenMax)]

(* Every band is set to its attenuation, leveled and captured, until the   *)
(* check passes or its retakes are spent.                                  *)
CaptureCase(attens, k) ==
  /\ atten' = attens
  /\ captures' = [captures EXCEPT ![k] = [attens |-> attens, signal |-> playing]]
  /\ UNCHANGED playing

Confirm ==
  /\ pc = "confirm"
  /\ \/ /\ CaptureCase(search.attens, 0)
        /\ \E onTarget \in BOOLEAN :
             /\ search' = [search EXCEPT !.converged = onTarget]
             /\ pc' = IF onTarget \/ ConfirmSteps = 0 THEN "backoffs" ELSE "fallback"
        /\ UNCHANGED run
     \/ RadioFails
  /\ FolderStays

(* The fallback's outcome becomes the lock's, but not that it was fatal.   *)
Fallback ==
  /\ pc = "fallback"
  /\ \/ \E s \in Outcomes("full") :
          /\ search' = [s EXCEPT !.fatal = search.fatal]
          /\ atten' = s.attens
          /\ pc' = IF s.attens # captures[0].attens THEN "retake" ELSE "backoffs"
          /\ UNCHANGED <<playing, run, captures>>
     \/ RadioFails
  /\ FolderStays

(* Mutant of Retake: the capture before the fallback is kept.              *)
RetakeNothing ==
  /\ pc = "retake" /\ pc' = "backoffs"
  /\ UNCHANGED <<run, playing, atten, search, captures>>
  /\ FolderStays

Retake ==
  /\ pc = "retake"
  /\ \/ CaptureCase(search.attens, 0) /\ pc' = "backoffs"
        /\ UNCHANGED <<run, search>>
     \/ RadioFails
  /\ FolderStays

(* The backoffs not captured yet: none of a fatal search.                  *)
Due == {k \in Ks : captures[k] = NoCapture}

Left == IF search.fatal THEN {} ELSE Due
FirstLeft(k) ==
  \E i \in 1 .. Len(Backoffs) :
    /\ Backoffs[i] = k /\ k \in Left
    /\ \A j \in 1 .. i - 1 : Backoffs[j] \notin Left

Backoff ==
  /\ pc = "backoffs"
  /\ \/ \E k \in Ks : FirstLeft(k) /\ CaptureCase(At(search.attens, k), k)
        /\ UNCHANGED <<pc, run, search>>
     \/ Left # {} /\ RadioFails
  /\ FolderStays

(* The finally: disable_tx, whose own error is swallowed.                  *)
DisableTx == playing' \in {playing, "off"}

Finally ==
  /\ (pc = "backoffs" /\ Left = {}) \/ pc = "finally_raise"
  /\ DisableTx
  /\ pc' = IF pc = "finally_raise" THEN "over" ELSE IF search.fatal THEN "returned" ELSE "write"
  /\ UNCHANGED <<run, atten, search, captures>>
  /\ FolderStays

(* --- CaseWriter -------------------------------------------------------- *)

(* What a file tells: an output the attenuations of its capture, the       *)
(* conditions those of the lock.                                           *)
Content(f) ==
  [run |-> run,
   attens |-> IF f \in Items(OutFiles) THEN captures[f[2]].attens ELSE search.attens]

(* _new(): a file that exists is an error.                                 *)
Put(f) == disk[f].run = 0 /\ disk' = [disk EXCEPT ![f] = Content(f)]

(* Mutant of WriteFile: conditions.csv and lock.csv come first.            *)
WriteFileTablesFirst ==
  /\ pc = "write"
  /\ LET order == <<Conditions, LockTable>> \o InFiles \o OutFiles
     IN  /\ Put(order[next]) /\ next' = next + 1
         /\ pc' = IF next = Len(order) THEN "returned" ELSE "write"
  /\ UNCHANGED <<run, search, captures>>
  /\ RadioStays

WriteFile ==
  /\ pc = "write"
  /\ \/ /\ Put(FileOrder[next]) /\ next' = next + 1
        /\ pc' = IF next = Len(FileOrder) THEN "returned" ELSE "write"
     \/ pc' = "over" /\ FolderStays
  /\ UNCHANGED <<run, search, captures>>
  /\ RadioStays

(* The caller, after the call: case.json, also when the search was fatal.  *)
WriteCaseJson ==
  /\ pc = "returned" /\ pc' = "over"
  /\ Put(Json) \/ UNCHANGED disk
  /\ UNCHANGED <<run, search, captures, next>>
  /\ RadioStays

(* The caller is done with the case, with or without an error.             *)
Done ==
  /\ pc = "over" /\ pc' = "idle"
  /\ UNCHANGED <<run, search, captures>>
  /\ RadioStays /\ FolderStays

(* The process dies: what it wrote stays, what it played too.              *)
Crash ==
  /\ pc # "idle" /\ pc' = "idle"
  /\ UNCHANGED <<run, search, captures>>
  /\ RadioStays /\ FolderStays

(* Somebody moves the folder aside to redo the case.                       *)
MoveAside ==
  /\ pc = "idle" /\ Present # {}
  /\ disk' = EmptyFolder
  /\ UNCHANGED <<pc, run, search, captures, next>>
  /\ RadioStays

Finished == pc = "idle" /\ run = MaxRuns /\ UNCHANGED vars

Next ==
  \/ Call \/ Prepare \/ Play \/ Search \/ Swap \/ Confirm \/ Fallback \/ Retake
  \/ Backoff \/ Finally \/ WriteFile \/ WriteCaseJson \/ Done
  \/ Crash \/ MoveAside \/ Finished

Spec == Init /\ [][Next]_vars

----------------------------------------------------------------------------
CaptureType == [attens : [Bands -> Attens], signal : {"probe", "full", "off"}]
               \cup {NoCapture}
FileType == [run : 1 .. MaxRuns, attens : [Bands -> Attens]] \cup {NoFile}

TypeOK ==
  /\ pc \in {"idle", "start", "play", "search", "swap", "confirm", "fallback",
             "retake", "backoffs", "finally_raise", "write", "returned", "over"}
  /\ run \in 0 .. MaxRuns
  /\ playing \in {"off", "probe", "full"}
  /\ atten \in [Bands -> Attens]
  /\ search \in [fatal : BOOLEAN, converged : BOOLEAN, attens : [Bands -> Attens],
                 signal : {"none", "probe", "full"}]
  /\ captures \in [Ks \cup {0} -> CaptureType]
  /\ next \in 1 .. Len(FileOrder) + 1
  /\ disk \in [Names -> FileType]

(* What the folder holds is one run's, and it fits together: an output was *)
(* captured at the attenuations that the same run's conditions.csv gives   *)
(* the lock, backed off; conditions.csv names no file that is not there;   *)
(* and behind case.json the folder is whole, or the search was fatal and   *)
(* case.json is all there is.                                              *)
OneRun == \A f, h \in Present : disk[f].run = disk[h].run
RowsFit ==
  disk[Conditions].run # 0 =>
    \A f \in Items(OutFiles) : disk[f].attens = At(disk[Conditions].attens, f[2])
WholeBehindJson == Json \in Present => Present \in {Names, {Json}}
FolderFits == OneRun /\ RowsFit /\ WholeBehindJson

(* Every capture of the result was made on the full signals, at the lock   *)
(* the result names, backed off: also after a fallback that moved it.      *)
CapturesAtLock ==
  pc \in {"write", "returned"} =>
    \A k \in Ks : captures[k] # NoCapture =>
      captures[k] = [attens |-> At(search.attens, k), signal |-> "full"]

(* The folder keeps what CaseStore promises, across failures, crashes and  *)
(* runs that are repeated.                                                 *)
Store == INSTANCE CaseStore WITH
  writer <- IF pc = "idle" THEN 0 ELSE run,
  folder <- [f \in Names |-> disk[f].run]
KeepsStore == Store!Spec

=============================================================================
